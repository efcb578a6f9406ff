SPECIFICATION Spec
CONSTANTS
  Targets = {0, 1}
  FltMax = 1000
  DataSets <- AloneRows
  WorkerLimit = 1
INVARIANTS
  TypeOK
  BoundsBracketOptimum
  SplitsBracketOptimum
  LinksAgree
  ParentsWithinScope
  DrainedMeansSolved
  CertifiedIsOptimal
PROPERTIES
  BoundsOnlyTighten
