SPECIFICATION Spec
CONSTANTS
  f1 = f1
  f2 = f2
  shared = shared
  extra = extra
  Files = {f1, f2}
  Contents = {shared, extra}
  RowsOf <- MCRowsOf
  LegacyFile = old
  LegacyRow = extra
  PickedRows = {shared}
  BankRows = {shared}
  Handlers = {h1, h2}
  MaxBatches = 3
  MaxTxs = 3
SYMMETRY Symmetry
INVARIANTS
  BookedOnce
CHECK_DEADLOCK FALSE
