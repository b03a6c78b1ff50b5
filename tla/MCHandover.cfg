SPECIFICATION FairSpec
CONSTANTS
  Operators = {p1, p2}
  Specs = {s1, s2}
  None = None
  MaxEdits = 1
  MaxExits = 2
  MaxExpiries = 1
CHECK_DEADLOCK FALSE
INVARIANT QuiescentIsReconciled
PROPERTY KeepsPromise
PROPERTY Settles
