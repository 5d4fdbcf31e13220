SPECIFICATION CrmSpec
CONSTANTS
  Leads = {1, 2}
  OldLeads = {1}
  OrderIds = {o, p}
  Paid = {o}
  Syncs = {cron, button}
  Users = {ann, bob}
  Handled = {1}
  PageLimit = 1
  MaxPages = 2
  Overlap = 1
  NoOrder = NoOrder
  Unknown = Unknown
  LastSecond = 3
  MaxChanges = 2
  MaxEvents = 2
INVARIANTS NoSaleLost SuggestionsAreSound
PROPERTIES CatchesUp BulkDisplacesNothing
CHECK_DEADLOCK FALSE
