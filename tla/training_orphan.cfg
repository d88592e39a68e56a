SPECIFICATION Spec
CONSTANTS
  MaxRuns = 2
  MaxSessions = 2
  MaxSpared = 1
INVARIANTS OrphansAreOrphaned
CHECK_DEADLOCK FALSE
