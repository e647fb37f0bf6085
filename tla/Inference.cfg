SPECIFICATION FairSpec
CONSTANTS
  None = None
  Requests = {1, 2, 3, 4}
  Prompts <- MCPrompts
  Budgets <- MCBudgets
  BlockSize = 2
  ActiveBlocks = 4
  PausedBlocks = 1
  MaxRequests = 3
  MaxSequence = 7
  Setups <- MCSetups
INVARIANTS
  BlocksOwnedOnce
  RowsMatchRequests
  TokensInTheirSlots
  EngineGoesOn
PROPERTIES
  StopsAreKept
  RequestsAnswered
CHECK_DEADLOCK FALSE
