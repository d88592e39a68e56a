SPECIFICATION Spec
CONSTANTS
  a = a
  b = b
  c1 = c1
  c2 = c2
  p1 = p1
  p2 = p2
  r1 = r1
  r2 = r2
  s1 = s1
  s2 = s2
  Absent = Absent
  Torn = Torn
  NoSeed = NoSeed
  Tasks <- MCTasks
  Chunks <- MCChunks
  Pairs <- MCPairs
  Seeds <- MCSeeds
  ChunkOf <- MCChunkOf
  Requests <- MCRequests
  Drawn <- MCDrawn
  HeldOut <- MCHeldOut
  Names = {corpus}
  MaxOps = 2
INVARIANTS TypeOK EditsSurvive PairsAreHeldOut EvaluatesOnHeldOut  CorpusIsWhole MissIsAMiss NameIsListedOrFree
ACTION_CONSTRAINT FirstOfAlike
CHECK_DEADLOCK FALSE
