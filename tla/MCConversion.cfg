CONSTANTS
  MaxInt = 7
  Points <- ConversionPoints
  Batches <- ConversionBatches
  Processors <- NoProcessors
  NP = 1
  Capacity = 1
  MaxBatches = 1
SPECIFICATION Spec
INVARIANTS
  ConversionSound
