SPECIFICATION Spec
CONSTANTS
  A = A
  o1 = o1
  o2 = o2
  s1 = s1
  s2 = s2
  m = m
  x = x
  Items = {A}
  Suppliers = {}
  Nobody = Nobody
  NoLine = NoLine
  NoItem = NoItem
  OrderIds = {o1}
  Lines = {m}
  ReceiptLines = {}
  LinesOf <- MCLinesOf
  ItemOf <- MCItemOf
  Price <- MCPrice
  UnitCost <- MCUnitCost
  MoneyUnit = 2
  StockCosts = {1}
  Amounts = {1}
  Discounts = {0}
  MaxQty = 2
  MaxLots = 0
  MaxBatches = 0
  Handlers = {h}
  h = h
  MaxTxs = 6
INVARIANTS
  NetCogsNonNegative
CHECK_DEADLOCK FALSE
