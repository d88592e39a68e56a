SPECIFICATION Spec
CONSTANTS
  t1 = t1
  t2 = t2
  pA = pA
  pB = pB
  Turns <- MCTurns
  Projects <- MCProjects
  NoProject = NoProject
  c1 = c1
  c2 = c2
  Commands <- MCCommands
  MaxIterations = 2
  MaxCalls = 2
  MaxSwitches = 1
INVARIANTS TypeOK RequestsArePaired BleedNeedsTurnInFlight
ACTION_CONSTRAINT TwoCalls
SYMMETRY Symmetric
CHECK_DEADLOCK FALSE
