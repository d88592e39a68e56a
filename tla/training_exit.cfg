SPECIFICATION Spec
CONSTANTS
  MaxRuns = 2
  MaxSessions = 2
  MaxSpared = 1
PROPERTIES ExitLeavesNoOrphan
CHECK_DEADLOCK FALSE
