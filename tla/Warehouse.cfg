SPECIFICATION Spec
CONSTANTS
  A = A
  l1 = l1
  acme = acme
  Items = {A}
  Nobody = Nobody
  NoLine = NoLine
  Suppliers = {}
  Lines = {l1, l2}
  LegacyLines = {l1}
  ItemOf <- MCItemOf
  Handlers = {h1}
  Idle = Idle
  Costs = {0, 3}
  MoneyUnit = 2
  MaxQty = 2
  MaxLots = 2
  MaxBatches = 2
  MaxPurchases = 1
INVARIANTS
  BooksMatchLots
  LinesReversible
  LotLedger
  PlansAgree
PROPERTIES
  FifoDiscipline
CHECK_DEADLOCK FALSE
