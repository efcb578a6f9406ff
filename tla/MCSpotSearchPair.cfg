SPECIFICATION FairSpec
CONSTANTS
  Targets = {0, 1}
  FltMax = 1000
  DataSets <- PairRows
  WorkerLimit = 2
INVARIANTS
  CertifiedIsOptimal
PROPERTIES
  RefinesRootBounds
  Termination
