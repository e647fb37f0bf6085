\* Clients that pause, suspend and stop two engines; the system rests at the end.
SPECIFICATION FairSpec
CONSTANTS
  Engines <- TwoEngines
  MaxRequests = 2
  Setups <- CarefulClients
INVARIANTS
  PausedGroupRests
PROPERTIES
  RequestsServed
  EnginesStop
CHECK_DEADLOCK FALSE
