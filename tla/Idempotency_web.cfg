SPECIFICATION WebSpec
CONSTANTS
  NoOwner = NoOwner
  r1 = r1
  r2 = r2
  Requests = {r1, r2}
  Keys = {k1, k2}
  HashOf <- MCHashOf
  InUow = TRUE
INVARIANTS
  OneEffectPerOperation
CHECK_DEADLOCK FALSE
