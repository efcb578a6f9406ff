SPECIFICATION SetSpec
CONSTANTS
  Targets = {0, 1}
  FltMax = 100000
  DataSets <- LostRows
  WorkerLimit = 1
INVARIANTS
  SetIsWhole
