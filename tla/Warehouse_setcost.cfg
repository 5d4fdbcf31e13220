SPECIFICATION Spec
CONSTANTS
  A = A
  l1 = l1
  acme = acme
  Items = {A}
  Nobody = Nobody
  NoLine = NoLine
  Suppliers = {acme}
  Lines = {l1}
  LegacyLines = {}
  ItemOf <- MCItemOf
  Handlers = {h1}
  Idle = Idle
  Costs = {0, 3}
  MoneyUnit = 2
  MaxQty = 2
  MaxLots = 1
  MaxBatches = 1
  MaxPurchases = 0
PROPERTIES
  ReturnedAtSnapshotCost
CHECK_DEADLOCK FALSE
