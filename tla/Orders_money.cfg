SPECIFICATION Spec
CONSTANTS
  A = A
  o1 = o1
  o2 = o2
  s1 = s1
  s2 = s2
  m = m
  x = x
  Items = {A}
  Suppliers = {}
  Nobody = Nobody
  NoLine = NoLine
  NoItem = NoItem
  OrderIds = {o1}
  Lines = {s1, s2, x}
  ReceiptLines = {x}
  LinesOf <- MCLinesOf
  ItemOf <- MCItemOf
  Price <- MCPrice
  UnitCost <- MCUnitCost
  MoneyUnit = 1
  StockCosts = {1}
  Amounts = {1, 2}
  Discounts = {0, 1}
  MaxQty = 1
  MaxLots = 2
  MaxBatches = 2
  Handlers = {h}
  h = h
  MaxTxs = 2
INVARIANTS
  OrderAddsUp
  HeldOnlyByLateLink
  UndoneLeavesNothing
CHECK_DEADLOCK FALSE
