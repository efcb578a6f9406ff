SPECIFICATION SetFairSpec
CONSTANTS
  Targets = {0, 1}
  FltMax = 10000
  DataSets <- SetRows
  WorkerLimit = 1
INVARIANTS
  SetTypeOK
  BoundFromOptimum
  SetIsSound
  SetIsComplete
  EachIndexItsTree
PROPERTIES
  SetTermination
