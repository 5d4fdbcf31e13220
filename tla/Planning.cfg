SPECIFICATION Spec
CONSTANTS
  Handlers = {h1, h2}
  Rules = {r}
  Dates = {1}
  BankLines = {l}
  ByHand = 1
  MaxPlans = 2
  MaxTxs = 2
INVARIANTS
  PaidOnce
  PaidIsPaid
PROPERTIES
  LinkedSurvives
CHECK_DEADLOCK FALSE
SYMMETRY Alike
