SPECIFICATION Spec
CONSTANTS
  callA = callA
  callB = callB
  Replies <- MCReplies
  MaxAttempts = 3
  BaseDelay = 4
  MaxDelay = 5
INVARIANTS TypeOK AnswerIsWhole ReadsAPrefix NeverEndsSilently
PROPERTIES EndReachesReader
CHECK_DEADLOCK FALSE
