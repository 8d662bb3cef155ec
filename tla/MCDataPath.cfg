CONSTANTS
  MaxInt = 15
  Points <- StreamPoints
  Batches <- StreamBatches
  Processors <- StreamProcessors
  NP = 2
  Capacity = 2
  MaxBatches = 3
SPECIFICATION Spec
INVARIANTS
  PublishedInOrder
  SummaryBalanced
  WindowExact
