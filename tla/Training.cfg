\* Four jobs: crashes, exits and in-process restarts, with both kinds of saves.
SPECIFICATION FairSpec
CONSTANTS
  TrainIters = 5
  Setups <- Jobs
INVARIANTS
  CountersMatchWeights
  ExitIsDurable
PROPERTIES
  ResumePointStaysComplete
  ImplementsDurableTraining
  TrainingEnds
