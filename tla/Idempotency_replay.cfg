SPECIFICATION Spec
CONSTANTS
  NoOwner = NoOwner
  r1 = r1
  r2 = r2
  Requests = {r1, r2}
  Keys = {k1}
  HashOf <- MCHashOf
  InUow = TRUE
INVARIANTS
  SameResponse
CHECK_DEADLOCK FALSE
