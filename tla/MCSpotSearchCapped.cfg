SPECIFICATION Spec
CONSTANTS
  Targets = {0, 1}
  FltMax = 1000
  DataSets <- CappedRows
  WorkerLimit = 1
INVARIANTS
  CertifiedHasModel
