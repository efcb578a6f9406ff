SPECIFICATION Spec
CONSTANTS
  Keys = {k1, k2}
  Features = {f1, f2}
  Scopes = {1, 2}
  Priorities = {1, 2}
  MaxOwed = 3
INVARIANTS
  TypeOK
  FilterMirrorsHeap
  NothingLost
  NothingInvented
CONSTRAINT LedgerBound
