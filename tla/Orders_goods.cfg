SPECIFICATION Spec
CONSTANTS
  A = A
  o1 = o1
  o2 = o2
  s1 = s1
  s2 = s2
  m = m
  x = x
  Items = {A}
  Suppliers = {}
  Nobody = Nobody
  NoLine = NoLine
  NoItem = NoItem
  OrderIds = {o1, o2}
  Lines = {s1, s2}
  ReceiptLines = {}
  LinesOf <- MCLinesOf
  ItemOf <- MCItemOf
  Price <- MCPrice
  UnitCost <- MCUnitCost
  MoneyUnit = 1
  StockCosts = {1, 3}
  Amounts = {1}
  Discounts = {0}
  MaxQty = 2
  MaxLots = 2
  MaxBatches = 2
  Handlers = {h}
  h = h
  MaxTxs = 0
INVARIANTS
  DeliveredIsReversible
  SnapshotIsFifoCost
CHECK_DEADLOCK FALSE
