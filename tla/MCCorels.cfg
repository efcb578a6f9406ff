SPECIFICATION FairSpec
CONSTANTS
  Fits <- AllFits
  Unit = 2
CHECK_DEADLOCK FALSE
INVARIANTS
  TypeOK
  MinesEachRuleOnce
  NothingFreedIsUsed
  EveryNodeAccounted
  LinkedIsPromising
  OptimumNotLost
  ReturnsWhatItCertifies
  OneWayToCapture
PROPERTIES
  Termination
