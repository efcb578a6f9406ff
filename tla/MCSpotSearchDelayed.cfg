SPECIFICATION Spec
CONSTANTS
  Targets = {0, 1}
  FltMax = 1000
  DataSets <- DelayedRows
  WorkerLimit = 2
INVARIANTS
  DrainedMeansSolved
ACTION_CONSTRAINT
  LateDispatch
