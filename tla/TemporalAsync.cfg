SPECIFICATION FairSpec
CONSTANTS
  r1 = r1
  r2 = r2
  r3 = r3
  Ranks <- MCRanks3
  Coordinator = r1
  Programs <- OneInFlight
  Positions <- MCPositions
  Writers <- ReplicaIdle
  MaxFailures = 2
INVARIANTS
  FinalizeAfterOwnExit
PROPERTIES
  EveryFailureRaised
  ImplementsAsyncSave
