SPECIFICATION AccountsSpec
CONSTANTS
  AccountIds = {a, b}
  Handlers = {h1, h2}
  MaxTxs = 4
  MaxTransfers = 1
INVARIANTS
  TransfersWhole
  OrphansWereRaced
CHECK_DEADLOCK FALSE
SYMMETRY Alike
