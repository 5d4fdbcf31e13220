SPECIFICATION FairSpec
CONSTANTS
  NoOwner = NoOwner
  r1 = r1
  r2 = r2
  Requests = {r1, r2, r3, r4}
  Keys = {k1}
  HashOf <- MCHashOf
  InUow = TRUE
INVARIANTS
  AtMostOnce
  SuccessIsTrue
PROPERTIES
  Answered
  KeepsPromise
CHECK_DEADLOCK FALSE
