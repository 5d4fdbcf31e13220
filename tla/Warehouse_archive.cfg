SPECIFICATION Spec
CONSTANTS
  A = A
  l1 = l1
  acme = acme
  Items = {A}
  Nobody = Nobody
  NoLine = NoLine
  Suppliers = {acme}
  Lines = {l1}
  LegacyLines = {}
  ItemOf <- MCItemOf
  Handlers = {h1}
  Idle = Idle
  Costs = {3}
  MoneyUnit = 2
  MaxQty = 1
  MaxLots = 2
  MaxBatches = 1
  MaxPurchases = 1
INVARIANTS
  NoStockOnArchivedItem
CHECK_DEADLOCK FALSE
