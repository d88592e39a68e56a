SPECIFICATION Spec
CONSTANTS
  k1 = k1
  k2 = k2
  k3 = k3
  Nobody = Nobody
  Stopper = Stopper
  Calls <- MCCalls
  MaxSpawns = 3
  MaxNoise = 1
INVARIANTS TypeOK OneChild IdsDoNotCollide
PROPERTIES KeepsPromise StopReturns
