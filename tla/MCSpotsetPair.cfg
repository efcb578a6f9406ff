SPECIFICATION SetFairSpec
CONSTANTS
  Targets = {0, 1}
  FltMax = 10000
  DataSets <- TwoRows
  WorkerLimit = 2
PROPERTIES
  SetTermination
