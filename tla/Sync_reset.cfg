SPECIFICATION SyncSpec
CONSTANTS
  Ops = {o1, o2}
  Runs = {s1, s2}
  Provider = "TBANK"
  MaxDays = 1
  Lookback = 1
  Lag = 1
  Connected = 2
  LastDay = 3
  MaxTxs = 1
  MaxFaults = 1
  MaxCommands = 1
INVARIANTS
  HandSurvives
CHECK_DEADLOCK FALSE
