SPECIFICATION Spec
CONSTANTS
  c1 = c1
  c2 = c2
  d = d
  A = A
  B = B
  Lines = {c1, d}
  Incoming = {c1}
  FeeLines = {}
  AccountOf <- MCAccountOf
  ContentOf <- MCContentOf
  OtherAccount = Cash
  Handlers = {h1, h2}
  MaxOccurrence = 2
  MaxTxs = 2
  MaxByHand = 1
INVARIANT OneBookingPerLine
CHECK_DEADLOCK FALSE
SYMMETRY Alike
