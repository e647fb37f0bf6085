SPECIFICATION Spec
CONSTANTS
  r1 = r1
  r2 = r2
  r3 = r3
  Ranks <- MCRanks3
  Coordinator = r1
  Programs <- FailurePrograms
  Positions <- MCPositions
  Writers <- ReplicaIdle
  MaxFailures = 2
  AbortStopsManager = TRUE
INVARIANTS
  TypeOK
  MetadataOnlyIfComplete
  FinalizedInOrderEverywhere
  FinalizeAfterAllRanksDone
PROPERTIES
  ImplementsAsyncSave
CHECK_DEADLOCK FALSE
