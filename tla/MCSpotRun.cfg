SPECIFICATION FairSpec
CONSTANTS
  WorkerLimit = 2
  Objectives = {1, 2}
  FltMax = 9
  MaxWaiting = 2
  TickDuration = 2
  TimeLimited = TRUE
INVARIANTS
  TypeOK
  StopsSolvedOrExpired
  StatusIsTrue
PROPERTIES
  RefinesRootBounds
  ReturnsWhenDue
