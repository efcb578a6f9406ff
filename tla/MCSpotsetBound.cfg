SPECIFICATION SetSpec
CONSTANTS
  Targets = {0, 1}
  FltMax = 10000
  DataSets <- DrainedRows
  WorkerLimit = 1
INVARIANTS
  BoundFromOptimum
ACTION_CONSTRAINT
  FixedOrder
