SPECIFICATION ReportsSpec
CONSTANTS
  Accounts <- BothAccounts
  Cash <- TheTill
  Opening <- OpeningSums
  Categories <- TheCategories
  NoCat <- None
  Kind <- Kinds
  Parent <- Parents
  Bucket0 <- Groups
  SystemName <- Names
  Entries <- TheEntries
  Rebuckets <- Regrouped
  Transfers <- Moves
  TaxButtons <- Buttons
  PurchaseDays <- PurchasedOn
  WriteOffDays <- LostOn
  Removals <- Removed
  OrderDays <- OrderOn
  Payments <- PayIn
  OrderIds <- Orders
  NoOrder = NoOrder
  Qty <- Lines
  Price <- PriceOf
  Discount <- DiscountOf
  ClientOf <- TheClient
  UnitCost <- Costs
  FirstUnits = 3
  Fee = 100
  Marks = {"NOT_COUNTED"}
  MaxDocs = 3
  MaxMarks = 1
  MaxShipped = 1
INVARIANTS
  SummaryAddsUp
  ReportsAgree
  TaxSectionAgrees
  DrillDownMatches
  BalanceTies
CHECK_DEADLOCK FALSE
