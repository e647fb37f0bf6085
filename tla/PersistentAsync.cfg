SPECIFICATION FairSpec
CONSTANTS
  r1 = r1
  r2 = r2
  r3 = r3
  Ranks <- MCRanks2
  Coordinator = r1
  Programs <- AllPrograms
  Positions <- MCPositions
  Writers <- AllWrite
  MaxFailures = 0
  AbortStopsManager = FALSE
INVARIANTS
  SnapshotOfSameStep
  CompletionIsForHead
PROPERTIES
  EverySaveFinalized
