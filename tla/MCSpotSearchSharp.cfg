SPECIFICATION Spec
CONSTANTS
  Targets = {0, 1}
  FltMax = 1000
  DataSets <- SharpRows
  WorkerLimit = 1
INVARIANTS
  DrainedMeansSolved
