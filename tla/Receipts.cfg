CONSTANTS
  Docs = {1}
  Orders = {1, 2}
  Items = {11, 12}
  ItemsOf <- MCItemsOf
  Contents <- MCContents
  Lines = {l}
  LineAmount <- MCLineAmount
  Requests = {q1, q2}
  q1 = q1
  q2 = q2
  l = l
  MaxReceipts = 2
  MaxTxs = 2
  MaxActs = 2
SPECIFICATION Spec
INVARIANTS BookedWholeAndOnce SortedLocksNeverBlock
PROPERTY RevertTakesItsOwn
SYMMETRY MCSymmetry
CHECK_DEADLOCK FALSE
