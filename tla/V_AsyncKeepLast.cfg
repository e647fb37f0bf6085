\* Asynchronous saves, of which only the last is to be kept.
SPECIFICATION Spec
CONSTANTS
  TrainIters = 5
  Setups <- KeepLastJob
INVARIANTS
  RestartPointKept
