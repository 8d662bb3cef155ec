CONSTANTS
  MaxInt = 15
  Points <- StreamPoints
  Batches <- LiveBatches
  Processors <- NoProcessors
  NP = 1
  Capacity = 2
  MaxBatches = 4
SPECIFICATION FairSpec
PROPERTIES
  WorkerProgress
