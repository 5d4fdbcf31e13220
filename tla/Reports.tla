------------------------------ MODULE Reports ------------------------------
(***************************************************************************)
(* The reports over one ledger: profit and loss by accrual (PnlService),   *)
(* the month summary, the tax section, the cash flow, the balance sheet,   *)
(* the breakdown, the margin report, the tiles of the operation list.      *)
(*                                                                         *)
(* The actions are what puts rows into the ledger: operations, transfers,  *)
(* tax payments, purchases, write-offs, the life of an order, and what     *)
(* moves rows from one line of a report to another: marks and categories.  *)
(* No report writes anything, so each is an operator on the tables.        *)
(*                                                                         *)
(* A date is a day, counted in the time zone of the business; every one is *)
(* in the past, as assertNotFuture wants it.  Month 0 is a January, and no *)
(* year is a leap year.  Rows that are soft-deleted no report reads: they  *)
(* are gone from the bag `ledger`.  An order is one line of one warehouse  *)
(* item, whose units are numbered in the order of their purchase.  Money   *)
(* and unit costs are whole numbers of one unit, the last digit that unit  *)
(* costs are kept in.  Orders are not deleted, and neither accounts nor    *)
(* warehouse items archived.                                               *)
(***************************************************************************)
EXTENDS Integers, SequencesExt, Bags

CONSTANTS Accounts, Cash, Opening,        \* Cash: the accounts of type CASH
          Categories, NoCat, Kind, Parent, Bucket0,
          SystemName,     \* the system group a category has the name of, or "none"
          \* What is asked for, each with its day: operations, transfers
          \* <<from, to, amount, at>>, tax payments <<month, account, amount, at>>,
          \* days of purchases and of write-offs, marks, regroupings
          \* <<category, bucket>>, removals of categories.
          Entries, Transfers, TaxButtons, PurchaseDays, WriteOffDays, Marks, Rebuckets, Removals,
          OrderIds, NoOrder, Qty, Price, Discount, ClientOf,
          OrderDays,      \* days of their payments, closings and returns
          Payments,       \* <<account, amount>>: payments and refunds of orders
          UnitCost, FirstUnits, Fee,
          MaxDocs, MaxMarks, MaxShipped                 \* bounds

Buckets == {"REVENUE", "COGS", "PURCHASES", "FIXED", "VARIABLE", "TAX", "CAPITAL", "OTHER"}

\* The days of what is asked for.
DaysAsked == {e.at : e \in Entries} \cup {x[4] : x \in Transfers} \cup {x[4] : x \in TaxButtons}
             \cup PurchaseDays \cup WriteOffDays \cup OrderDays

Types == {"INCOME", "EXPENSE"}

\* What may be entered by hand.
ManualKinds ==
  [INCOME |-> {"CAPITAL_IN", "OTHER"},
   EXPENSE |-> {"SALARY", "TAX", "FIXED_COST", "VARIABLE_COST", "NON_OP", "CAPITAL_OUT", "OTHER"}]

AllowedBuckets(kind) == IF kind = "INCOME" THEN {"REVENUE", "PURCHASES", "CAPITAL", "OTHER"} ELSE Buckets

ASSUME ReportsAssumption ==
  /\ IsFiniteSet(Accounts) /\ IsFiniteSet(Categories) /\ IsFiniteSet(OrderIds)
  /\ Cash \subseteq Accounts /\ Opening \in [Accounts -> Int]
  /\ NoCat \notin Categories
  /\ Kind \in [Categories -> Types] /\ \A c \in Categories : Bucket0[c] \in AllowedBuckets(Kind[c])
  \* two levels: a parent is a root
  /\ Parent \in [Categories -> Categories \cup {NoCat}]
  /\ \A c \in Categories : Parent[c] # NoCat => Parent[Parent[c]] = NoCat /\ Kind[Parent[c]] = Kind[c]
  /\ \A e \in Entries :
       /\ e.at \in Nat /\ e.type \in Types /\ e.kind \in ManualKinds[e.type] /\ e.cat \in Categories \cup {NoCat}
       /\ e.acc \in Accounts /\ e.amount \in Int
  /\ Transfers \subseteq Accounts \X Accounts \X Int \X Nat /\ Fee \in Nat
  /\ TaxButtons \subseteq Nat \X Accounts \X Int \X Nat
  /\ Payments \subseteq Accounts \X Int
  /\ IsFiniteSet(DaysAsked) /\ DaysAsked \subseteq Nat /\ DaysAsked # {}
  /\ Rebuckets \subseteq Categories \X Buckets /\ Removals \subseteq Categories
  /\ NoOrder \notin OrderIds /\ Qty \in [OrderIds -> Nat] /\ Price \in [OrderIds -> Nat]
  /\ \A o \in OrderIds : Discount[o] \in 0..(Qty[o] * Price[o])
  /\ UnitCost \in Seq(Nat) /\ FirstUnits \in 0..Len(UnitCost)
  /\ MaxShipped \in Nat

VARIABLES ledger,     \* the bag of live transactions
          category,   \* bucket and deletedAt of every category
          counted,    \* categories softDelete has found unused and not yet deleted
          order,      \* status, closing day, units out, return events
          onHand,     \* the units on hand
          bought      \* how many units were ever bought

reportsVars == <<ledger, category, counted, order, onHand, bought>>

NoMonth == -100
Row(at, type, kind, cat, acc, amount) ==
  [at |-> at, type |-> type, kind |-> kind, cat |-> cat, acc |-> acc, amount |-> amount,
   order |-> NoOrder, period |-> NoMonth, mark |-> "none"]
OrderRow(at, type, kind, acc, amount, o) == [Row(at, type, kind, NoCat, acc, amount) EXCEPT !.order = o]
Rows == BagToSet(ledger)
Enter(rows) == ledger' = ledger (+) SetToBag(rows)

\* The bound: rows, orders worked on, returns and categories touched together.
Begun(o) == order[o].status # "OPEN" \/ order[o].out # {}
Touched == {c \in Categories : category[c] # [bucket |-> Bucket0[c], deleted |-> FALSE]} \cup counted
Docs == BagCardinality(ledger) + Cardinality(Touched)
        + SumFunction([o \in OrderIds |-> Cardinality(order[o].events) + (IF Begun(o) THEN 1 ELSE 0)])
RoomForRow == Docs < MaxDocs
RoomFor(o) == Begun(o) \/ RoomForRow
MayTouch(c) == c \in Touched \/ RoomForRow

ReportsInit ==
  /\ ledger = EmptyBag
  /\ category = [c \in Categories |-> [bucket |-> Bucket0[c], deleted |-> FALSE]]
  /\ counted = {}
  /\ order = [o \in OrderIds |-> [status |-> "OPEN", closed |-> 0, out |-> {}, events |-> {}]]
  /\ onHand = 1..FirstUnits
  /\ bought = FirstUnits

(***************************************************************************)
(* What puts rows into the ledger.                                         *)
(***************************************************************************)
LiveCategory(c) == c # NoCat /\ ~category[c].deleted

CreateEntry(e) ==
  /\ RoomForRow
  /\ e.cat # NoCat => LiveCategory(e.cat) /\ Kind[e.cat] = e.type
  /\ Enter({Row(e.at, e.type, e.kind, e.cat, e.acc, e.amount)})
  /\ UNCHANGED <<category, counted, order, onHand, bought>>

SystemKinds == {"ORDER_PAYMENT", "ORDER_REFUND", "COGS", "PURCHASE", "SUPPLIER_REFUND", "WRITE_OFF"}
GenericEditable(r) == r.kind \notin SystemKinds \cup {"TRANSFER_IN", "TRANSFER_OUT"} /\ r.order = NoOrder

DeleteEntry(r) ==
  /\ GenericEditable(r)
  /\ ledger' = ledger (-) SetToBag({r})
  /\ UNCHANGED <<category, counted, order, onHand, bought>>

SetAusnMark(r, mark) ==
  /\ r.mark # mark /\ Cardinality({s \in Rows : s.mark # "none"}) < MaxMarks
  /\ ledger' = (ledger (-) SetToBag({r})) (+) SetToBag({[r EXCEPT !.mark = mark]})
  /\ UNCHANGED <<category, counted, order, onHand, bought>>

CreateTransfer(from, to, amount, at) ==
  /\ RoomForRow /\ from # to
  /\ Enter({Row(at, "EXPENSE", "TRANSFER_OUT", NoCat, from, amount),
           Row(at, "INCOME", "TRANSFER_IN", NoCat, to, amount),
           Row(at, "EXPENSE", "VARIABLE_COST", NoCat, from, Fee)})
  /\ UNCHANGED <<category, counted, order, onHand, bought>>

\* TaxService.markPaid: the month is said, on whatever day it is paid.
MarkPaid(month, acc, amount, at) ==
  /\ RoomForRow
  /\ Enter({[Row(at, "EXPENSE", "TAX", NoCat, acc, amount) EXCEPT !.period = month]})
  /\ UNCHANGED <<category, counted, order, onHand, bought>>

CreatePurchase(acc, at) ==
  /\ RoomForRow /\ bought < Len(UnitCost)
  /\ bought' = bought + 1
  /\ onHand' = onHand \cup {bought + 1}
  /\ Enter({Row(at, "EXPENSE", "PURCHASE", NoCat, acc, UnitCost[bought + 1])})
  /\ UNCHANGED <<category, counted, order>>

\* The n units that were bought first.
Oldest(S, n) == CHOOSE T \in SUBSET S : Cardinality(T) = n /\ \A t \in T, u \in S \ T : t < u
Newest(S, n) == S \ Oldest(S, Cardinality(S) - n)
CostOf(S) == SumFunction([u \in S |-> UnitCost[u]])

\* a / b rounded half up, away from zero.
RoundHalfUp(a, b) == IF a < 0 THEN -((-2 * a + b) \div (2 * b)) ELSE (2 * a + b) \div (2 * b)

LoseUnit(acc, at) ==
  LET lost == Oldest(onHand, 1)
  IN /\ RoomForRow /\ onHand # {}
     /\ onHand' = onHand \ lost
     /\ Enter({Row(at, "EXPENSE", "WRITE_OFF", NoCat, acc, CostOf(lost))})
     /\ UNCHANGED <<category, counted, order, bought>>

(***************************************************************************)
(* Orders.                                                                 *)
(***************************************************************************)
RowSum(S) == SumFunction([r \in S |-> ledger[r] * r.amount])
Paid(o) == RowSum({r \in Rows : r.order = o /\ r.kind = "ORDER_PAYMENT"})
           - RowSum({r \in Rows : r.order = o /\ r.kind = "ORDER_REFUND"})
TotalAmount(o) == Qty[o] * Price[o] - Discount[o]
Returned(o) == Cardinality(UNION {e.units : e \in order[o].events})

AddPayment(o, acc, amount, at) ==
  /\ RoomForRow /\ order[o].status # "CANCELLED"
  /\ Enter({OrderRow(at, "INCOME", "ORDER_PAYMENT", acc, amount, o)})
  /\ UNCHANGED <<category, counted, order, onHand, bought>>

\* A payment or a refund made by mistake, of an order in any state.
DeletePayment(r) ==
  /\ r.kind \in {"ORDER_PAYMENT", "ORDER_REFUND"}
  /\ ledger' = ledger (-) SetToBag({r})
  /\ UNCHANGED <<category, counted, order, onHand, bought>>

\* Part of an open order goes out; its cost is recognised when it is closed.
Ship(o, qty) ==
  /\ RoomFor(o) /\ order[o].status = "OPEN"
  /\ Cardinality(order[o].out) + qty <= Qty[o] /\ Cardinality(onHand) >= qty
  /\ order' = [order EXCEPT ![o].out = @ \cup Oldest(onHand, qty)]
  /\ onHand' = onHand \ Oldest(onHand, qty)
  /\ UNCHANGED <<ledger, category, counted, bought>>

Finalize(o, at) ==
  LET rest == Qty[o] - Cardinality(order[o].out)
  IN /\ RoomFor(o) /\ order[o].status = "OPEN" /\ Cardinality(onHand) >= rest
     /\ order' = [order EXCEPT ![o].status = "DONE", ![o].closed = at, ![o].out = @ \cup Oldest(onHand, rest)]
     /\ onHand' = onHand \ Oldest(onHand, rest)
     /\ UNCHANGED <<ledger, category, counted, bought>>

\* What the line of an order says of the units it has out: their number at one
\* cost, the average rounded to the last digit that unit costs are kept in.
UnitCostAtSale(S) == IF S = {} THEN 0 ELSE RoundHalfUp(CostOf(S), Cardinality(S))
SoldCost(S) == Cardinality(S) * UnitCostAtSale(S)

\* The units sold last come back first, with an event of their own day, and of
\* the cost that the line says no more.
ReturnItem(o, qty, refund, acc, at) ==
  LET back == Newest(order[o].out, qty)
      cost == SoldCost(order[o].out) - SoldCost(order[o].out \ back)
  IN /\ RoomForRow /\ order[o].status = "DONE" /\ qty <= Cardinality(order[o].out) /\ refund <= Paid(o)
     /\ order' = [order EXCEPT ![o].out = @ \ back,
                                    ![o].events = @ \cup {[at |-> at, units |-> back, cost |-> cost]}]
     /\ onHand' = onHand \cup back
     /\ IF refund > 0 THEN Enter({OrderRow(at, "EXPENSE", "ORDER_REFUND", acc, refund, o)})
                      ELSE UNCHANGED ledger
     /\ UNCHANGED <<category, counted, bought>>

\* reverseFinalization, in cancel and in reopen: the goods come back, the
\* events go.  Only reopen clears the day of closing.
ReverseFinalization(o, status, closed) ==
  /\ order' = [order EXCEPT ![o] = [status |-> status, closed |-> closed, out |-> {}, events |-> {}]]
  /\ onHand' = onHand \cup order[o].out
  /\ UNCHANGED <<ledger, category, counted, bought>>

Cancel(o) ==
  /\ RoomFor(o) /\ order[o].status # "CANCELLED"
  /\ ReverseFinalization(o, "CANCELLED", order[o].closed)
Reopen(o) == order[o].status # "OPEN" /\ ReverseFinalization(o, "OPEN", 0)

(***************************************************************************)
(* Categories.  softDelete counts what refers to the category and deletes  *)
(* it afterwards; an operation may be entered in between.                  *)
(***************************************************************************)
BeginRemoveCategory(c) ==
  /\ MayTouch(c) /\ LiveCategory(c) /\ c \notin counted
  /\ \A d \in Categories : Parent[d] = c => category[d].deleted
  /\ \A r \in Rows : r.cat # c
  /\ counted' = counted \cup {c}
  /\ UNCHANGED <<ledger, category, order, onHand, bought>>

RemoveCategory(c) ==
  /\ c \in counted
  /\ counted' = counted \ {c}
  /\ category' = [category EXCEPT ![c].deleted = TRUE]
  /\ UNCHANGED <<ledger, order, onHand, bought>>

UpdateBucket(c, bucket) ==
  /\ MayTouch(c) /\ LiveCategory(c) /\ category[c].bucket # bucket /\ bucket \in AllowedBuckets(Kind[c])
  /\ category' = [category EXCEPT ![c].bucket = bucket]
  /\ UNCHANGED <<ledger, counted, order, onHand, bought>>

OrderStep(o, at) ==
  \/ \E x \in Payments : AddPayment(o, x[1], x[2], at)
  \/ Finalize(o, at)
  \/ \E q \in 1..Qty[o], x \in Payments, refunded \in BOOLEAN :
       ReturnItem(o, q, IF refunded THEN x[2] ELSE 0, x[1], at)

ReportsNext ==
  \/ \E e \in Entries : CreateEntry(e)
  \/ \E x \in Transfers : CreateTransfer(x[1], x[2], x[3], x[4])
  \/ \E x \in TaxButtons : MarkPaid(x[1], x[2], x[3], x[4])
  \/ \E a \in Accounts \ Cash, at \in PurchaseDays : CreatePurchase(a, at)
  \/ \E a \in Accounts \ Cash, at \in WriteOffDays : LoseUnit(a, at)
  \/ \E o \in OrderIds, at \in OrderDays : OrderStep(o, at)
  \/ \E o \in OrderIds, q \in 1..MaxShipped : Ship(o, q)
  \/ \E o \in OrderIds : Cancel(o) \/ Reopen(o)
  \/ \E r \in Rows : DeleteEntry(r) \/ DeletePayment(r)
  \/ \E r \in Rows, mark \in Marks : SetAusnMark(r, mark)
  \/ \E c \in Removals : BeginRemoveCategory(c) \/ RemoveCategory(c)
  \/ \E x \in Rebuckets : UpdateBucket(x[1], x[2])

ReportsSpec == ReportsInit /\ [][ReportsNext]_reportsVars

-----------------------------------------------------------------------------
(***************************************************************************)
(* The calendar.                                                           *)
(***************************************************************************)
FirstOf == <<1, 32, 60, 91, 121, 152, 182, 213, 244, 274, 305, 335>>
MonthStart(m) == 365 * (m \div 12) + FirstOf[(m % 12) + 1]
MonthEnd(m) == MonthStart(m + 1) - 1
MonthOfDay == [d \in 1..365 |-> Cardinality({k \in 1..12 : FirstOf[k] <= d}) - 1]
MonthOf(at) == 12 * ((at - 1) \div 365) + MonthOfDay[((at - 1) % 365) + 1]
DayOfMonth(at) == at - MonthStart(MonthOf(at)) + 1

\* A period is its first and its last day.
Span(first, last) == [from |-> MonthStart(first), to |-> MonthEnd(last)]
MonthPeriod(m) == Span(m, m)
YearPeriod(y) == Span(12 * y, 12 * y + 11)
During(at, p) == at >= p.from /\ at <= p.to

Capped(slice, p) == [from |-> Max({slice.from, p.from}), to |-> Min({slice.to, p.to})]
MonthsOf(p) == MonthOf(p.from)..MonthOf(p.to)
EnumerateMonths(p) == {Capped(MonthPeriod(m), p) : m \in MonthsOf(p)}
EnumerateQuarters(p) == {Capped(Span(q, q + 2), p) : q \in {3 * (m \div 3) : m \in MonthsOf(p)}}
IsWholeMonth(m, p) == p.from <= MonthStart(m) /\ MonthEnd(m) <= p.to

(***************************************************************************)
(* Where a row belongs.                                                    *)
(***************************************************************************)
TransferKinds == {"TRANSFER_IN", "TRANSFER_OUT"}
NonCashKinds == {"COGS", "WRITE_OFF"}
NonCashForAccount == NonCashKinds
NonCashConsolidated == NonCashKinds \cup TransferKinds

BucketForSystemKind(kind) ==
  CASE kind \in {"ORDER_PAYMENT", "ORDER_REFUND"} -> "REVENUE"
    [] kind \in {"COGS", "WRITE_OFF"} -> "COGS"
    [] kind \in {"PURCHASE", "SUPPLIER_REFUND"} -> "PURCHASES"
    [] kind \in {"CAPITAL_IN", "CAPITAL_OUT"} -> "CAPITAL"
    [] kind = "TAX" -> "TAX"
    [] kind \in {"FIXED_COST", "SALARY"} -> "FIXED"
    [] kind = "VARIABLE_COST" -> "VARIABLE"
    [] OTHER -> "OTHER"

BucketOf(r) == IF LiveCategory(r.cat) THEN category[r.cat].bucket ELSE BucketForSystemKind(r.kind)

\* The class of a row in the tax base; a mark of the bank or of the user decides.
ClassifyAusn(r) ==
  CASE r.mark = "INCOME" -> "INCOME_PLUS"
    [] r.mark = "EXPENSE" -> "EXPENSE_PLUS"
    [] r.mark = "NOT_COUNTED" -> "NOT_COUNTED"
    [] r.mark = "none" /\ r.kind = "ORDER_PAYMENT" -> "INCOME_PLUS"
    [] r.mark = "none" /\ r.kind = "ORDER_REFUND" -> "INCOME_MINUS"
    [] r.mark = "none" /\ r.kind \in {"PURCHASE", "SALARY", "FIXED_COST", "VARIABLE_COST"} -> "EXPENSE_PLUS"
    [] r.mark = "none" /\ r.kind = "SUPPLIER_REFUND" -> "EXPENSE_MINUS"
    [] r.mark = "none" /\ r.kind \in {"NON_OP", "OTHER"} ->
         IF r.type = "INCOME" THEN "INCOME_PLUS" ELSE "EXPENSE_PLUS"
    [] OTHER -> "NOT_COUNTED"

ClassifyAusnWithBucket(r) ==
  LET bucket == IF LiveCategory(r.cat) THEN category[r.cat].bucket ELSE "none"
      plain  == r.mark = "none" /\ r.kind \in {"OTHER", "NON_OP"}
  IN CASE r.acc \in Cash -> "NOT_COUNTED"
       [] r.acc \notin Cash /\ plain /\ bucket \in {"TAX", "CAPITAL"} -> "NOT_COUNTED"
       [] r.acc \notin Cash /\ plain /\ bucket = "PURCHASES" /\ r.type = "INCOME" -> "EXPENSE_MINUS"
       [] OTHER -> ClassifyAusn(r)

(***************************************************************************)
(* The tax of a month.                                                     *)
(***************************************************************************)
Max0(x) == Max({x, 0})
AusnSum(S, plus, minus) ==
  RowSum({r \in S : ClassifyAusnWithBucket(r) = plus}) - RowSum({r \in S : ClassifyAusnWithBucket(r) = minus})

\* 20 % of income less expense, at least 3 % of the income.
AusnMonthTax(S) ==
  LET income  == Max0(AusnSum(S, "INCOME_PLUS", "INCOME_MINUS"))
      expense == Max0(AusnSum(S, "EXPENSE_PLUS", "EXPENSE_MINUS"))
  IN Max({RoundHalfUp(Max0(income - expense) * 20, 100), RoundHalfUp(income * 3, 100)})

\* Without a period on it a payment is for last month, before the 15th for
\* the month before that.
InferredTaxPeriod(at) == MonthOf(at) - (IF DayOfMonth(at) < 15 THEN 2 ELSE 1)
PaidMonth(r) ==
  IF r.kind = "TAX" \/ r.period # NoMonth THEN r.period ELSE InferredTaxPeriod(r.at)
TaxPaidByPeriod(S, m) == RowSum({r \in S : PaidMonth(r) = m})

PaidByButton(r) == r.kind = "TAX" /\ r.type = "EXPENSE"
PaidByBank(r) == r.kind # "TAX" /\ r.type = "EXPENSE" /\ LiveCategory(r.cat) /\ category[r.cat].bucket = "TAX"
TaxPayments(from, to) == {r \in Rows : PaidByButton(r) \/ (PaidByBank(r) /\ r.at >= from /\ r.at <= to)}

\* A fault for mutation: only the payments dated in the year.
TaxPaidInYear(m) ==
  LET year == YearPeriod(m \div 12) IN TaxPaidByPeriod(TaxPayments(year.from, year.to), m)

\* TaxService.yearReport: payments up to 32 days after the year.
TaxDue(m) == AusnMonthTax({r \in Rows : MonthOf(r.at) = m})
TaxPaid(m) ==
  LET year == YearPeriod(m \div 12)
  IN TaxPaidByPeriod(TaxPayments(year.from, year.to + 32), m)

(***************************************************************************)
(* Profit and loss, by accrual.                                            *)
(***************************************************************************)
\* A fault for mutation: the window the tax section has.
PnlTaxPaidNarrow(m, p) ==
  IF ~IsWholeMonth(m, p) THEN 0
  ELSE TaxPaidByPeriod(TaxPayments(p.from, p.to + 32), m)

\* Paid for the month m, if the period p holds all of it.
PnlTaxPaid(m, p) ==
  IF ~IsWholeMonth(m, p) THEN 0
  ELSE TaxPaidByPeriod(TaxPayments(p.from, p.to + 62), m)

AccruedTax(slice, p) ==
  SumFunction([m \in MonthsOf(slice) |->
    Max({AusnMonthTax({r \in Rows : During(r.at, p) /\ MonthOf(r.at) = m}), PnlTaxPaid(m, p)})])

\* The operations of the report; order money and costs come from the orders,
\* tax payments are money, not cost.
OffPnl == TransferKinds \cup {"ORDER_PAYMENT", "ORDER_REFUND", "COGS"}
PnlRows(slice) == {r \in Rows : During(r.at, slice) /\ r.kind \notin OffPnl /\ BucketOf(r) # "TAX"}
InRows(S, type) == RowSum({r \in S : r.type = type})
Balance(S) == InRows(S, "INCOME") - InRows(S, "EXPENSE")

ClosedIn(p) == {o \in OrderIds : order[o].status = "DONE" /\ During(order[o].closed, p)}
EventsIn(o, p) == {e \in order[o].events : During(e.at, p)}
EventCost(E) == SumFunction([e \in E |-> e.cost])
EventRevenue(o, E) == SumFunction([e \in E |-> Cardinality(e.units) * Price[o]])

RecognizedRevenue(p) == SumFunction([o \in ClosedIn(p) |-> TotalAmount(o)])
\* The cost at closing, rebuilt: what is still out and what every event took back.
RecognizedCogs(p) == SumFunction([o \in ClosedIn(p) |-> SoldCost(order[o].out) + EventCost(order[o].events)])
ReturnedRevenue(p) == SumFunction([o \in OrderIds |-> EventRevenue(o, EventsIn(o, p))])
ReturnedCogs(p) == SumFunction([o \in OrderIds |-> EventCost(EventsIn(o, p))])

Income(slice) ==
  LET rows == PnlRows(slice)
  IN [b \in Buckets |-> InRows({r \in rows : BucketOf(r) = b}, "INCOME")
                        + (IF b = "REVENUE" THEN RecognizedRevenue(slice) ELSE 0)]
Expense(slice, p) ==
  LET rows == PnlRows(slice)
  IN [b \in Buckets |-> InRows({r \in rows : BucketOf(r) = b}, "EXPENSE")
                        + CASE b = "REVENUE" -> ReturnedRevenue(slice)
                            [] b = "COGS" -> RecognizedCogs(slice) - ReturnedCogs(slice)
                            [] b = "TAX" -> AccruedTax(slice, p)
                            [] OTHER -> 0]

OffNet == {"CAPITAL", "PURCHASES"}
SliceNet(slice, p) ==
  Balance({r \in PnlRows(slice) : BucketOf(r) \notin OffNet})
  + (RecognizedRevenue(slice) - ReturnedRevenue(slice)) - (RecognizedCogs(slice) - ReturnedCogs(slice))
  - AccruedTax(slice, p)

\* The totals of computeSeries over its slices.
PnlNet(p, slices) == SumFunction([s \in slices |-> SliceNet(s, p)])

(***************************************************************************)
(* The month summary.                                                      *)
(***************************************************************************)
ExpenseGroupBuckets == {"FIXED", "VARIABLE", "TAX", "OTHER"}
OtherIncomeBuckets == {"COGS", "FIXED", "VARIABLE", "TAX", "OTHER"}

SystemGroupOf(kind) ==
  CASE kind = "SALARY" -> "salary" [] kind = "VARIABLE_COST" -> "installments" [] kind = "TAX" -> "tax"
    [] OTHER -> "other"

\* A category whose parent is deleted is a root itself.
RootOf(c) == IF LiveCategory(Parent[c]) THEN Parent[c] ELSE c
Roots == {RootOf(c) : c \in {c \in Categories : LiveCategory(c)}}

\* A system group joins the root of its name, if there is one for expenses.
GroupOfSystem(system) ==
  LET named == {c \in Roots : Kind[c] = "EXPENSE" /\ SystemName[c] = system}
  IN IF named = {} THEN system ELSE CHOOSE c \in named : TRUE
GroupOf(r) == IF LiveCategory(r.cat) THEN RootOf(r.cat) ELSE GroupOfSystem(SystemGroupOf(r.kind))

ExpenseRows(m) ==
  {r \in PnlRows(MonthPeriod(m)) : r.type = "EXPENSE" /\ BucketOf(r) \in ExpenseGroupBuckets}
GroupKeys(m) == {GroupOf(r) : r \in ExpenseRows(m)}
                \cup (IF AccruedTax(MonthPeriod(m), MonthPeriod(m)) > 0 THEN {GroupOfSystem("tax")} ELSE {})
TaxIn(m, g) == IF g = GroupOfSystem("tax") THEN AccruedTax(MonthPeriod(m), MonthPeriod(m)) ELSE 0
Group(m, g) ==
  LET rows == {r \in ExpenseRows(m) : GroupOf(r) = g}
  IN [amount |-> RowSum(rows) + TaxIn(m, g),
      categoryIds |-> {r.cat : r \in {r \in rows : LiveCategory(r.cat)}},
      uncategorizedKinds |-> {r.kind : r \in {r \in rows : ~LiveCategory(r.cat)}}]

\* The groups in some order; the code sorts them by amount.
Figures(m) ==
  LET p == MonthPeriod(m) income == Income(p) expense == Expense(p, p) keys == SetToSeq(GroupKeys(m))
  IN [sales |-> income["REVENUE"] - expense["REVENUE"],
      components |-> expense["COGS"],
      otherIncome |-> SumFunction([b \in OtherIncomeBuckets |-> income[b]]),
      net |-> SliceNet(p, p),
      groups |-> [i \in DOMAIN keys |-> Group(m, keys[i]).amount],
      ordersClosed |-> Cardinality(ClosedIn(p))]
Expenses(f) == SumFunction(f.groups)

\* A fault for mutation: every share rounded by itself.
RoundEach(parts, target, den) == [i \in DOMAIN parts |-> RoundHalfUp(parts[i], den)]

\* parts[i] / den in whole units that sum to target: rounded down first, what
\* is missing goes to the largest remainders.
LargestRemainder(parts, target, den) ==
  LET abs(x) == IF x < 0 THEN -x ELSE x
      rem(i) == parts[i] % den
      before(i, j) == \/ rem(i) > rem(j)
                      \/ rem(i) = rem(j) /\ abs(parts[i]) > abs(parts[j])
                      \/ rem(i) = rem(j) /\ abs(parts[i]) = abs(parts[j]) /\ i < j
      rank(i) == Cardinality({j \in DOMAIN parts : before(j, i)})
      missing == target - SumFunction([i \in DOMAIN parts |-> parts[i] \div den])
      n == Len(parts)
  IN [i \in DOMAIN parts |-> parts[i] \div den + (missing + n - 1 - rank(i)) \div n]

Parts(f) == <<f.components>> \o f.groups \o <<-f.otherIncome, f.net>>
\* Tenths of a rouble in 100 of sales; roubles for each closed order.
Per100(f) ==
  LET parts == [i \in DOMAIN Parts(f) |-> 1000 * Parts(f)[i]]
  IN LargestRemainder(parts, RoundHalfUp(SumFunction(parts), f.sales), f.sales)
PerOrder(f) == LargestRemainder(Parts(f), RoundHalfUp(SumFunction(Parts(f)), f.ordersClosed), f.ordersClosed)

(***************************************************************************)
(* Where the numbers lead: the tiles over the operation list.              *)
(***************************************************************************)
KindsForBucket(b) ==
  CASE b = "REVENUE" -> {"ORDER_PAYMENT", "ORDER_REFUND"} [] b = "COGS" -> {"COGS", "WRITE_OFF"}
    [] b = "PURCHASES" -> {"PURCHASE", "SUPPLIER_REFUND"} [] b = "CAPITAL" -> {"CAPITAL_IN", "CAPITAL_OUT"}
    [] b = "TAX" -> {"TAX"} [] b = "FIXED" -> {"FIXED_COST", "SALARY"} [] b = "VARIABLE" -> {"VARIABLE_COST"}
    [] b = "OTHER" -> {"NON_OP", "OTHER"}

\* A fault for mutation: rows of a deleted category are in no tile.
BucketTileOfLive(b, p) ==
  {r \in Rows : /\ During(r.at, p) /\ r.kind \notin TransferKinds
                /\ \/ LiveCategory(r.cat) /\ category[r.cat].bucket = b
                   \/ r.cat = NoCat /\ r.kind \in KindsForBucket(b)}

BucketTile(b, p) ==
  {r \in Rows : /\ During(r.at, p) /\ r.kind \notin TransferKinds
                /\ \/ LiveCategory(r.cat) /\ category[r.cat].bucket = b
                   \/ ~LiveCategory(r.cat) /\ r.kind \in KindsForBucket(b)}
GroupTile(g, p) ==
  {r \in Rows : /\ During(r.at, p) /\ r.kind \notin TransferKinds
                /\ r.cat \in g.categoryIds \/ (~LiveCategory(r.cat) /\ r.kind \in g.uncategorizedKinds)}

(***************************************************************************)
(* Cash flow and breakdown.                                                *)
(***************************************************************************)
\* Balances at the end of the months of p, of one account and of all.
AccountClosing(a, day) ==
  Opening[a] + Balance({r \in Rows : r.acc = a /\ r.at <= day /\ r.kind \notin NonCashForAccount})
ConsolidatedClosing(day) ==
  SumFunction(Opening) + Balance({r \in Rows : r.at <= day /\ r.kind \notin NonCashConsolidated})

BreakdownNet(p) ==
  SumFunction([c \in Categories \cup {NoCat} |->
    Balance({r \in Rows : During(r.at, p) /\ r.cat = c /\ r.kind \notin NonCashConsolidated})])

(***************************************************************************)
(* Margin by client.                                                       *)
(***************************************************************************)
MarginCogs(client, p) ==
  LET mine == {o \in OrderIds : ClientOf[o] = client}
  IN SumFunction([o \in mine \cap ClosedIn(p) |-> SoldCost(order[o].out) + EventCost(order[o].events)])
     - SumFunction([o \in mine |-> EventCost(EventsIn(o, p))])

MarginRevenue(client, p) ==
  LET mine == {o \in OrderIds : ClientOf[o] = client}
  IN Max0(SumFunction([o \in mine \cap ClosedIn(p) |-> Qty[o] * Price[o]])
          - SumFunction([o \in mine \cap ClosedIn(p) |-> Discount[o]]))
     - SumFunction([o \in mine |-> EventRevenue(o, EventsIn(o, p))])

Clients == {ClientOf[o] : o \in OrderIds}

(***************************************************************************)
(* The balance sheet, as it stands at the end of a year.                   *)
(***************************************************************************)
CashTotal ==
  SumFunction([a \in Accounts |-> Opening[a] + Balance({r \in Rows : r.acc = a /\ r.kind \notin NonCashForAccount})])
\* A fault for mutation: returns do not lower what the client owes.
NetRevenueGross(o) == TotalAmount(o)
NetRevenue(o) == Max0(TotalAmount(o) - Returned(o) * Price[o])
PaymentState(paid, total) ==
  CASE paid < 0 -> "REFUNDED"
    [] paid = 0 -> IF total = 0 THEN "PAID" ELSE "UNPAID"
    [] paid > 0 -> IF paid = total THEN "PAID" ELSE IF paid < total THEN "PARTIAL" ELSE "OVERPAID"
Closed == {o \in OrderIds : order[o].status = "DONE"}
Indebted == {o \in Closed : PaymentState(Paid(o), NetRevenue(o)) \in {"UNPAID", "PARTIAL"}}
Receivables == SumFunction([o \in Indebted |-> Max0(NetRevenue(o) - Paid(o))])
InventoryValue == CostOf(onHand)
CustomerAdvances == SumFunction([o \in {o \in OrderIds : order[o].status = "OPEN"} |-> Max0(Paid(o))])
TaxOutstanding(y) == SumFunction([m \in (12 * y)..(12 * y + 11) |-> Max0(TaxDue(m) - TaxPaid(m))])

Equity(y) == (CashTotal + Receivables + InventoryValue) - (CustomerAdvances + TaxOutstanding(y))

-----------------------------------------------------------------------------
ReportMonths == {MonthOf(at) : at \in DaysAsked}
Years == {m \div 12 : m \in ReportMonths}
\* The quarters of the first and of the last of these months, and all between.
Calendar == Span(3 * (Min(ReportMonths) \div 3), 3 * (Max(ReportMonths) \div 3) + 2)

(***************************************************************************)
(* The month summary shows the profit of the P&L report: sales less        *)
(* components less the expense groups plus other income is exactly the net *)
(* profit, whatever categories were regrouped or deleted under the rows.   *)
(* This is the identity it reports in checks.identity.                     *)
(***************************************************************************)
SummaryMatchesPnl ==
  \A m \in ReportMonths :
    LET f == Figures(m) IN f.sales - f.components - Expenses(f) + f.otherIncome = f.net

(***************************************************************************)
(* The shares on the screen add up: to 100.0 of sales, and to the sales    *)
(* of one order, and none is a whole unit away from its exact value.       *)
(***************************************************************************)
SharesAddUp ==
  \A f \in {Figures(m) : m \in ReportMonths} :
    LET exact(units, scale, den) ==
          \A i \in DOMAIN units : units[i] * den - scale * Parts(f)[i] \in (1 - den)..(den - 1)
    IN /\ f.sales > 0 => SumFunction(Per100(f)) = 1000 /\ exact(Per100(f), 1000, f.sales)
       /\ f.ordersClosed > 0 =>
            /\ SumFunction(PerOrder(f)) = RoundHalfUp(f.sales, f.ordersClosed)
            /\ exact(PerOrder(f), 1, f.ordersClosed)

(***************************************************************************)
(* A period is the sum of its months, the same by quarters and by months   *)
(* asked for one at a time: the tax of a month does not depend on the      *)
(* period of the report it is in.                                          *)
(***************************************************************************)
SplitsAgree ==
  LET byMonth == PnlNet(Calendar, EnumerateMonths(Calendar))
  IN /\ byMonth = PnlNet(Calendar, EnumerateQuarters(Calendar))
     /\ byMonth = SumFunction([m \in MonthsOf(Calendar) |-> SliceNet(MonthPeriod(m), MonthPeriod(m))])

(***************************************************************************)
(* The P&L report accrues for a month what the tax section shows for it:   *)
(* the tax due, or what was paid if that is more.  A bank payment that     *)
(* comes more than 32 days after the year, and before the 15th of          *)
(* February, is left out: it is for December, and the tax section no       *)
(* longer reads it.                                                        *)
(***************************************************************************)
LateForYear(r, y) == PaidByBank(r) /\ r.at > YearPeriod(y).to + 32 /\ InferredTaxPeriod(r.at) = 12 * y + 11
TaxSectionAgrees ==
  \A m \in MonthsOf(Calendar) :
    (m % 12 = 11 => \A r \in Rows : ~LateForYear(r, m \div 12)) =>
      AccruedTax(MonthPeriod(m), YearPeriod(m \div 12)) = Max({TaxDue(m), TaxPaid(m)})

(***************************************************************************)
(* What the tax section says without that exception: a payment the rules   *)
(* of taxPaidByPeriod give to a month of the year is counted for it.       *)
(***************************************************************************)
TaxSectionSeesPayments ==
  \A m \in MonthsOf(Calendar) :
    TaxPaid(m) = TaxPaidByPeriod({r \in Rows : PaidByButton(r) \/ PaidByBank(r)}, m)

(***************************************************************************)
(* A number of the P&L report by groups, or a group of the month summary,  *)
(* leads to operations that sum to it.  (Revenue and cost come from the    *)
(* orders and the tax from its own section, so their tiles are others.)    *)
(***************************************************************************)
DrillDownMatches ==
  \A m \in ReportMonths :
    LET p == MonthPeriod(m) income == Income(p) expense == Expense(p, p)
    IN /\ \A b \in Buckets \ {"REVENUE", "COGS", "TAX"} :
            /\ InRows(BucketTile(b, p), "INCOME") = income[b]
            /\ InRows(BucketTile(b, p), "EXPENSE") = expense[b]
       /\ \A g \in GroupKeys(m) :
            InRows(GroupTile(Group(m, g), p), "EXPENSE") + TaxIn(m, g) = Group(m, g).amount

(***************************************************************************)
(* Money is counted alike: the closing balance of all accounts together,   *)
(* where transfers are left out, is the sum of the closing balances of the *)
(* accounts, where they are counted; the balance sheet ends at the same    *)
(* sum, and the breakdown by category explains the change of a month.      *)
(***************************************************************************)
CashAgrees ==
  /\ \A m \in ReportMonths :
       LET end == MonthEnd(m) IN
         /\ ConsolidatedClosing(end) = SumFunction([a \in Accounts |-> AccountClosing(a, end)])
         /\ ConsolidatedClosing(end) - ConsolidatedClosing(MonthStart(m) - 1) = BreakdownNet(MonthPeriod(m))
  /\ CashTotal = ConsolidatedClosing(MonthEnd(Max(ReportMonths)))

(***************************************************************************)
(* The margin report and the P&L report recognise the same revenue and the *)
(* same cost of goods, with returns in the month they came.                *)
(***************************************************************************)
MarginMatchesPnl ==
  \A m \in ReportMonths :
    LET p == MonthPeriod(m)
    IN /\ SumFunction([c \in Clients |-> MarginRevenue(c, p)]) = RecognizedRevenue(p) - ReturnedRevenue(p)
       /\ SumFunction([c \in Clients |-> MarginCogs(c, p)]) = RecognizedCogs(p) - ReturnedCogs(p)

(***************************************************************************)
(* The balance sheet ties to the profit: in a year after which nothing is  *)
(* dated, equity has grown by the profits of all the months and by what no *)
(* report calls profit:                                                    *)
(*   - the owner's money, and purchases that brought no goods;             *)
(*   - tax paid for no month (a TAX operation entered without one);        *)
(*   - tax still due for earlier years, of which the balance sheet of this *)
(*     year knows nothing;                                                 *)
(*   - money of customers it owes and does not show: what was paid above   *)
(*     the net revenue of a closed order, or for a cancelled one;          *)
(*   - the discount of an order returned whole, which its return events    *)
(*     take from the revenue a second time;                                *)
(*   - less the cost of what open orders have been shipped, which is in no *)
(*     report until they are closed;                                       *)
(*   - less what a customer owes who got back more than is left of the     *)
(*     payments, one of which was deleted: the order is REFUNDED and no    *)
(*     debt of it is listed, nor is it an advance below zero.              *)
(* It ties up to the rounding of the unit costs: half of the last digit    *)
(* that they are kept in for each unit that closed orders have out.        *)
(***************************************************************************)
Outside(y) ==
  LET cancelled == {o \in OrderIds : order[o].status = "CANCELLED"}
      open == {o \in OrderIds : order[o].status = "OPEN"}
      refunded == {o \in OrderIds : Paid(o) < 0}
  IN Balance({r \in Rows : BucketOf(r) = "CAPITAL"})
     + Balance({r \in Rows : BucketOf(r) = "PURCHASES" /\ r.kind # "PURCHASE"})
     + Balance({r \in Rows : r.kind = "TAX" /\ r.period = NoMonth})
     + SumFunction([m \in {n \in MonthsOf(Calendar) : n < 12 * y} |-> Max0(TaxDue(m) - PnlTaxPaid(m, MonthPeriod(m)))])
     + SumFunction([o \in Closed |-> Max0(Paid(o) - NetRevenue(o))])
     + SumFunction([o \in cancelled |-> Paid(o)])
     + SumFunction([o \in Closed |-> Max0(Returned(o) * Price[o] - TotalAmount(o))])
     - SumFunction([o \in open |-> CostOf(order[o].out)])
     - SumFunction([o \in Closed \cap refunded |-> NetRevenue(o) - Paid(o)])
     - SumFunction([o \in open \cap refunded |-> -Paid(o)])
Over(y) ==
  /\ \A r \in Rows : r.at <= YearPeriod(y).to
  /\ \A o \in OrderIds : order[o].closed <= YearPeriod(y).to /\ \A e \in order[o].events : e.at <= YearPeriod(y).to
Gap(y) ==
  Equity(y) - (SumFunction(Opening) + CostOf(1..FirstUnits) + PnlNet(Calendar, EnumerateMonths(Calendar)) + Outside(y))
BalanceTies ==
  LET sold == SumFunction([o \in Closed |-> Cardinality(order[o].out)])
  IN \A y \in Years : Over(y) => 2 * Gap(y) \in -sold..sold

(***************************************************************************)
(* To the last digit it does not tie.                                      *)
(***************************************************************************)
BalanceTiesExactly == \A y \in Years : Over(y) => Gap(y) = 0

(***************************************************************************)
(* What the month summary shows is the profit of the P&L report, in shares *)
(* that add up.                                                            *)
(***************************************************************************)
SummaryAddsUp == SummaryMatchesPnl /\ SharesAddUp

(***************************************************************************)
(* One sum whichever way it is asked for: the profit by months or by       *)
(* quarters, revenue and cost by client or in total, money by account, in  *)
(* all, or by category.                                                    *)
(***************************************************************************)
ReportsAgree == SplitsAgree /\ MarginMatchesPnl /\ CashAgrees
=============================================================================
