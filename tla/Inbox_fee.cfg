SPECIFICATION Spec
CONSTANTS
  c1 = c1
  c2 = c2
  d = d
  A = A
  B = B
  Lines = {c1, c2}
  Incoming = {c1, c2}
  FeeLines = {c2}
  AccountOf <- MCAccountOf
  ContentOf <- MCContentOf
  OtherAccount = Cash
  Handlers = {h1}
  MaxOccurrence = 2
  MaxTxs = 3
  MaxByHand = 1
INVARIANT NoFeeWithoutPayment
CHECK_DEADLOCK FALSE
SYMMETRY Alike
