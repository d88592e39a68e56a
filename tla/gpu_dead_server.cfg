SPECIFICATION Spec
CONSTANTS
  c1 = c1
  c2 = c2
  wd = wd
  mA = mA
  mB = mB
  NoTask = NoTask
  NoModel = NoModel
  Tasks <- MCTasks
  Callers <- MCCallers
  Watchdog <- wd
  Models <- MCModels
  MaxSpawns = 1
  MaxRuns = 1
PROPERTIES EnsureOkMeansRunning
