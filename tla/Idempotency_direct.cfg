SPECIFICATION Spec
CONSTANTS
  NoOwner = NoOwner
  r1 = r1
  r2 = r2
  Requests = {r1, r2}
  Keys = {k1}
  HashOf <- MCHashOf
  InUow = FALSE
INVARIANTS
  AtMostOnce
CHECK_DEADLOCK FALSE
