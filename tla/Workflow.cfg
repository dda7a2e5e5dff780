\* All graphs over at most three nodes, self-loops included.
\* Spawns may fail; the first error abandons the readying loop.
CONSTANTS
  Node = {n1, n2, n3}
  SpawnMayFail = TRUE
SPECIFICATION OrderSpec
INVARIANTS
  DepsDone
  SpawnedOnce
  ReadyNodeRunsUnlessAborted
  OrderRespectsEdges
  VerdictIsRight
PROPERTIES
  SettledStaysSettled
  AcyclicRunsToTheEnd
