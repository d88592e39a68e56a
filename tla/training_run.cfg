SPECIFICATION Spec
CONSTANTS
  MaxRuns = 2
  MaxSessions = 3
  MaxSpared = 1
INVARIANTS TypeOK DriverSettles ScanFindsCorpses UnlistedRunIsDead
PROPERTIES NoResurrection
CHECK_DEADLOCK FALSE
