SPECIFICATION FairSyncSpec
CONSTANTS
  Ops = {o1, o2}
  Runs = {s1, s2}
  Provider = "ALFA"
  MaxDays = 1
  Lookback = 1
  Lag = 0
  Connected = 2
  LastDay = 3
  MaxTxs = 1
  MaxFaults = 1
  MaxCommands = 1
INVARIANTS
  NothingLeftBehind
PROPERTIES
  Arrives
  ReloadIsClean
CHECK_DEADLOCK FALSE
