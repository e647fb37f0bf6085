\* The engines of an expert parallel group are stopped.
SPECIFICATION FairSpec
CONSTANTS
  Engines <- TwoEngines
  MaxRequests = 2
  Setups <- GroupStop
PROPERTIES
  EnginesStop
CHECK_DEADLOCK FALSE
