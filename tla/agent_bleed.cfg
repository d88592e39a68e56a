SPECIFICATION Spec
CONSTANTS
  t1 = t1
  t2 = t2
  pA = pA
  pB = pB
  Turns <- MCTurns
  Projects <- MCProjects
  NoProject = NoProject
  c1 = c1
  c2 = c2
  Commands <- MCCommands
  MaxIterations = 1
  MaxCalls = 1
  MaxSwitches = 1
INVARIANTS SwitchingStartsFresh
SYMMETRY Symmetric
CHECK_DEADLOCK FALSE
