------------------------------- MODULE Orders -------------------------------
(***************************************************************************)
(* OrderService over the FIFO stock ledger: the life of an order from its  *)
(* creation through shipping, closing, customer returns, cancellation and  *)
(* reopening to its deletion, with its payments, its cost-of-goods         *)
(* transactions and its return events.                                     *)
(*                                                                         *)
(* Every handler locks the order row, reads the order again under the lock *)
(* and does all its work in one database transaction, so each is one       *)
(* action.  Orders meet in the stock, which locks item rows.  Only the     *)
(* handlers that link a bank statement line with a payment take no lock of *)
(* the order: they look for the payment and write the link later.          *)
(*                                                                         *)
(* An order has at most one line of each name in Lines; its place in the   *)
(* sequence LinesOf[o] is the order sortItemsForLocking gives it.  A price *)
(* or cost is a natural number of ledger units, MoneyUnit of which make    *)
(* the smallest unit of money; -1 stands for null.                         *)
(***************************************************************************)
EXTENDS StockLedger, SequencesExt

CONSTANTS OrderIds, LinesOf,
          ReceiptLines, \* lines that come from a receipt (addExternalItems)
          NoItem,       \* the item of a line that has none: a service, entered by hand
          Price, UnitCost,
          Handlers,     \* handlers of bank statement lines: attachOrder, the adoption of a sync
          MoneyUnit, StockCosts, Amounts, Discounts,
          MaxQty, MaxLots, MaxBatches, MaxTxs              \* bounds

ASSUME OrdersAssumption ==
  /\ LinesOf \in [OrderIds -> Seq(Lines)] /\ \A o \in OrderIds : IsInjective(LinesOf[o])
  /\ \A o, p \in OrderIds : o # p => Range(LinesOf[o]) \cap Range(LinesOf[p]) = {}
  /\ ReceiptLines \subseteq Lines /\ NoItem \notin Items
  /\ ItemOf \in [Lines -> Items \cup {NoItem}] /\ \A l \in ReceiptLines : ItemOf[l] = NoItem
  /\ Price \in [Lines -> Nat] /\ UnitCost \in [Lines -> Nat \cup {-1}]
  /\ MoneyUnit \in Nat \ {0} /\ StockCosts \subseteq Nat
  /\ Amounts \subseteq Nat \ {0} /\ Discounts \subseteq Nat
  /\ MaxQty \in Nat /\ MaxLots \in Nat /\ MaxBatches \in Nat /\ MaxTxs \in Nat

VARIABLES stock,        \* the warehouse
          order,        \* status, sums and payment state of every order
          line,         \* quantity, shipped, returned and cost snapshot of every line
          events,       \* by line: the sum of its OrderReturn events
          txs,          \* the transactions of all orders, in order of creation
          found         \* by handler: the transaction its statement line is to be linked with, or 0

vars == <<stock, order, line, events, txs, found>>

Manual(l) == ItemOf[l] = NoItem
LinesIn(o) == Range(LinesOf[o])
Present(o) == {l \in LinesIn(o) : line[l].qty > 0}

NoOrder == [status |-> "none", deleted |-> FALSE, discount |-> 0, subtotal |-> 0, total |-> 0,
            paid |-> 0, payState |-> "UNPAID"]
FreshLine(qty) == [qty |-> qty, shipped |-> 0, returned |-> 0, snap |-> -1]
NoEvents == [qty |-> 0, revenue |-> 0, cost |-> 0]

Init ==
  /\ stock = [EmptyStock EXCEPT !.item = [i \in Items |-> [EmptyStock.item[i] EXCEPT !.created = TRUE]]]
  /\ order = [o \in OrderIds |-> NoOrder]
  /\ line = [l \in Lines |-> FreshLine(0)]
  /\ events = [l \in Lines |-> NoEvents]
  /\ txs = <<>>
  /\ found = [h \in Handlers |-> 0]

(***************************************************************************)
(* Money.                                                                  *)
(***************************************************************************)
Money(x) == IF x < 0 THEN -RoundDiv(-x, MoneyUnit) ELSE RoundDiv(x, MoneyUnit)
Max0(x) == IF x > 0 THEN x ELSE 0

Live(T, o, kind) == {n \in DOMAIN T : T[n].order = o /\ T[n].kind = kind /\ ~T[n].deleted}
Total(T, ns) == SumFunction([n \in ns |-> T[n].amount])

\* bankLine: a statement line is linked with it; late: the link was written
\* after the transaction was deleted.
Tx(o, kind, amount) ==
  [order |-> o, kind |-> kind, amount |-> amount, deleted |-> FALSE, bankLine |-> FALSE, late |-> FALSE]
RoomForTxs(n) == Len(txs) + n <= MaxTxs

\* Delete the transactions ns; a bank statement line that carried one of them
\* goes back to the inbox.
DeleteTxs(T, ns) ==
  [n \in DOMAIN T |-> IF n \in ns THEN [T[n] EXCEPT !.deleted = TRUE, !.bankLine = FALSE, !.late = FALSE] ELSE T[n]]

Paid(T, o) == Total(T, Live(T, o, "ORDER_PAYMENT")) - Total(T, Live(T, o, "ORDER_REFUND"))

\* The sum to be paid: the total less the value of what was returned.
NetRevenue(L, rec, o) ==
  Max0(rec.total - Money(SumFunction([l \in LinesIn(o) |-> L[l].returned * Price[l]])))

ResolvePaymentState(paid, total) ==
  CASE paid < 0                   -> "REFUNDED"
    [] paid >= 0 /\ total = 0     -> IF paid = 0 THEN "PAID" ELSE "OVERPAID"
    [] paid = 0 /\ total > 0      -> "UNPAID"
    [] paid > 0 /\ paid < total   -> "PARTIAL"
    [] total > 0 /\ paid > total  -> "OVERPAID"
    [] total > 0 /\ paid = total  -> "PAID"

\* The order row once syncPaymentState has run over the lines L and transactions T.
SyncPaymentState(rec, o, L, T) ==
  [rec EXCEPT !.paid = Paid(T, o), !.payState = ResolvePaymentState(Paid(T, o), NetRevenue(L, rec, o))]

Subtotal(o, qty) == Money(SumFunction([l \in DOMAIN qty |-> qty[l] * Price[l]]))

Usable(o) == order[o].status # "none" /\ ~order[o].deleted
Open(o) == Usable(o) /\ order[o].status = "OPEN"

(***************************************************************************)
(* Composition: create, update, lines of a receipt.                        *)
(***************************************************************************)
Compositions(o) == [LinesIn(o) \ ReceiptLines -> 0..MaxQty]

\* The lines of o when they are replaced by qty; nothing else survives.
Recomposed(o, qty) ==
  [l \in Lines |-> IF l \in DOMAIN qty THEN FreshLine(qty[l])
                   ELSE IF l \in LinesIn(o) THEN FreshLine(0) ELSE line[l]]

Repriced(rec, subtotal, discount) ==
  [rec EXCEPT !.subtotal = subtotal, !.discount = discount, !.total = subtotal - discount]

Create(o, qty, discount) ==
  /\ order[o].status = "none"
  /\ discount <= Subtotal(o, qty)
  /\ order' = [order EXCEPT ![o] = Repriced([order[o] EXCEPT !.status = "OPEN"], Subtotal(o, qty), discount)]
  /\ line' = Recomposed(o, qty)
  /\ UNCHANGED <<stock, events, txs, found>>

\* update with items: refused once anything is shipped.
UpdateItems(o, qty, discount) ==
  /\ Open(o)
  /\ \A l \in LinesIn(o) : line[l].shipped = 0
  /\ discount <= Subtotal(o, qty)
  /\ line' = Recomposed(o, qty)
  /\ order' = [order EXCEPT ![o] = SyncPaymentState(Repriced(@, Subtotal(o, qty), discount), o, line', txs)]
  /\ UNCHANGED <<stock, events, txs, found>>

UpdateDiscount(o, discount) ==
  /\ Open(o)
  /\ discount <= order[o].subtotal
  /\ order' = [order EXCEPT ![o] = SyncPaymentState(Repriced(@, @.subtotal, discount), o, line, txs)]
  /\ UNCHANGED <<stock, line, events, txs, found>>

AddExternalItem(o, l, qty) ==
  /\ Open(o)
  /\ l \in LinesIn(o) \cap ReceiptLines /\ line[l].qty = 0
  /\ line' = [line EXCEPT ![l] = FreshLine(qty)]
  /\ order' = [order EXCEPT ![o] =
       SyncPaymentState(Repriced(@, @.subtotal + Money(qty * Price[l]), @.discount), o, line', txs)]
  /\ UNCHANGED <<stock, events, txs, found>>

RemoveExternalItem(o, l) ==
  LET subtotal == order[o].subtotal - Money(line[l].qty * Price[l])
  IN /\ Open(o)
     /\ l \in Present(o) \cap ReceiptLines
     /\ line[l].shipped = 0 /\ line[l].returned = 0
     /\ order[o].discount <= subtotal
     /\ line' = [line EXCEPT ![l] = FreshLine(0)]
     /\ order' = [order EXCEPT ![o] = SyncPaymentState(Repriced(@, subtotal, @.discount), o, line', txs)]
     /\ UNCHANGED <<stock, events, txs, found>>

(***************************************************************************)
(* Payments.                                                               *)
(***************************************************************************)
AddPayment(o, amount) ==
  /\ Usable(o) /\ order[o].status # "CANCELLED" /\ RoomForTxs(1)
  /\ txs' = Append(txs, Tx(o, "ORDER_PAYMENT", amount))
  /\ order' = [order EXCEPT ![o] = SyncPaymentState(@, o, line, txs')]
  /\ UNCHANGED <<stock, line, events, found>>

\* The gross payment and the bank's fee.
AddInstallmentPayment(o, amount, fee) ==
  /\ Usable(o) /\ order[o].status # "CANCELLED" /\ RoomForTxs(2)
  /\ fee < amount
  /\ txs' = txs \o <<Tx(o, "ORDER_PAYMENT", amount), Tx(o, "VARIABLE_COST", fee)>>
  /\ order' = [order EXCEPT ![o] = SyncPaymentState(@, o, line, txs')]
  /\ UNCHANGED <<stock, line, events, found>>

\* A fault for mutation: the bank line left with the deleted transaction.
DeletePaymentKeepingLine(o, n) ==
  /\ Usable(o)
  /\ n \in Live(txs, o, "ORDER_PAYMENT") \cup Live(txs, o, "ORDER_REFUND") \cup Live(txs, o, "VARIABLE_COST")
  /\ txs' = [txs EXCEPT ![n].deleted = TRUE]
  /\ order' = [order EXCEPT ![o] = SyncPaymentState(@, o, line, txs')]
  /\ UNCHANGED <<stock, line, events, found>>

\* Deletable in any status: a payment, a refund, a fee.
DeletePayment(o, n) ==
  /\ Usable(o)
  /\ n \in Live(txs, o, "ORDER_PAYMENT") \cup Live(txs, o, "ORDER_REFUND") \cup Live(txs, o, "VARIABLE_COST")
  /\ txs' = DeleteTxs(txs, {n})
  /\ order' = [order EXCEPT ![o] = SyncPaymentState(@, o, line, txs')]
  /\ UNCHANGED <<stock, line, events, found>>

\* attachOrder and the sync's adoption look for a live transaction no line is
\* linked with, and keep its id.
FindTx(h, n) ==
  /\ found[h] = 0
  /\ ~txs[n].deleted /\ ~txs[n].bankLine
  /\ txs[n].kind \in {"ORDER_PAYMENT", "ORDER_REFUND", "VARIABLE_COST"}
  /\ found' = [found EXCEPT ![h] = n]
  /\ UNCHANGED <<stock, order, line, events, txs>>

\* They link by that id, deleted since or not; transactionId is unique, so the
\* write is refused if another line has it.
LinkBankLine(h) ==
  /\ found[h] # 0
  /\ txs' = IF txs[found[h]].bankLine THEN txs
            ELSE [txs EXCEPT ![found[h]].bankLine = TRUE, ![found[h]].late = txs[found[h]].deleted]
  /\ found' = [found EXCEPT ![h] = 0]
  /\ UNCHANGED <<stock, order, line, events>>

(***************************************************************************)
(* Shipping and closing.                                                   *)
(***************************************************************************)
Ship(o, l, qty) ==
  /\ Open(o)
  /\ l \in Present(o) /\ qty <= line[l].qty - line[l].shipped
  /\ IF Manual(l)
     THEN /\ line' = [line EXCEPT ![l].shipped = @ + qty]
          /\ UNCHANGED stock
     ELSE /\ InStock(stock, ItemOf[l]) /\ Enough(stock, ItemOf[l], qty) /\ stock.batch < MaxBatches
          /\ stock' = ConsumeLots(stock, ItemOf[l], Nobody, qty, l, "SALE")
          /\ line' = [line EXCEPT ![l].shipped = @ + qty, ![l].snap = UnitCostAtSaleFor(stock', l)]
  /\ UNCHANGED <<order, events, txs, found>>

Unshipped(l) == line[l].qty - line[l].shipped
ToSell(o) == {l \in Present(o) : ~Manual(l) /\ Unshipped(l) > 0}

\* Every item has what all the lines of the order still need of it.
EnoughForAll(o) ==
  \A i \in {ItemOf[l] : l \in ToSell(o)} :
    LET wanted == {l \in ToSell(o) : ItemOf[l] = i}
    IN InStock(stock, i) /\ Enough(stock, i, SumFunction([l \in wanted |-> Unshipped(l)]))

SellRemaining(o) ==
  FoldLeft(LAMBDA s, l : IF l \in ToSell(o) THEN ConsumeLots(s, ItemOf[l], Nobody, Unshipped(l), l, "SALE") ELSE s,
           stock, LinesOf[o])

\* What the lines without a warehouse item cost.
ManualCogs(o) ==
  SumFunction([l \in {l \in Present(o) : Manual(l) /\ UnitCost[l] > 0} |-> line[l].qty * UnitCost[l]])

\* A fault for mutation: the whole quantity sold, whatever was shipped before.
FinalizeShippingTwice(o) ==
  LET s == FoldLeft(LAMBDA t, l : IF l \in ToSell(o) /\ Enough(t, ItemOf[l], line[l].qty)
                                  THEN ConsumeLots(t, ItemOf[l], Nobody, line[l].qty, l, "SALE") ELSE t,
                    stock, LinesOf[o])
  IN /\ Open(o) /\ EnoughForAll(o) /\ stock.batch + Cardinality(ToSell(o)) <= MaxBatches
     /\ stock' = s
     /\ line' = [l \in Lines |-> IF l \in Present(o)
                   THEN [line[l] EXCEPT !.shipped = @ + Unshipped(l),
                                        !.snap = IF Manual(l) THEN UnitCost[l] ELSE UnitCostAtSaleFor(s, l)]
                   ELSE line[l]]
     /\ order' = [order EXCEPT ![o].status = "DONE"]
     /\ UNCHANGED <<events, txs, found>>

\* Sell what was not shipped yet, snapshot the costs, book the manual ones.
Finalize(o) ==
  LET s == SellRemaining(o)
  IN /\ Open(o) /\ EnoughForAll(o) /\ stock.batch + Cardinality(ToSell(o)) <= MaxBatches
     /\ ManualCogs(o) > 0 => RoomForTxs(1)
     /\ stock' = s
     /\ line' = [l \in Lines |-> IF l \in Present(o)
                   THEN [line[l] EXCEPT !.shipped = line[l].qty,
                                        !.snap = IF Manual(l) THEN UnitCost[l] ELSE UnitCostAtSaleFor(s, l)]
                   ELSE line[l]]
     /\ txs' = IF ManualCogs(o) > 0 THEN Append(txs, Tx(o, "COGS", Money(ManualCogs(o)))) ELSE txs
     /\ order' = [order EXCEPT ![o].status = "DONE"]
     /\ UNCHANGED <<events, found>>

(***************************************************************************)
(* Returns.                                                                *)
(***************************************************************************)
OrElse(a, b) == IF a >= 0 THEN a ELSE b     \* a ?? b

\* A unit cost that is null counts as 0.
UnitBefore(l) == OrElse(OrElse(line[l].snap, UnitCost[l]), 0)

\* A COGS transaction that reverses another is negative and names its original.
ReturnTxs(o, l, qty, refund) ==
  LET reversal == Money(qty * OrElse(UnitCost[l], 0))
      cogs == IF Manual(l) /\ reversal > 0 /\ Live(txs, o, "COGS") # {}
              THEN <<Tx(o, "COGS_REVERSAL", -reversal)>> ELSE <<>>
      money == IF refund > 0 THEN <<Tx(o, "ORDER_REFUND", refund)>> ELSE <<>>
  IN cogs \o money

\* Units that go back to their lots, or to a new lot at the tail of the queue.
NewLot(s, l, qty) == qty > 0 /\ ~Manual(l) /\ NoConsumptions(s, ItemOf[l], l)
GoBack(s, l, qty) == ReturnUnits(s, ItemOf[l], l, qty, OrElse(line[l].snap, UnitCost[l]))

\* A fault for mutation: the cost snapshot of the line not recomputed.
ReturnItemKeepingSnapshot(o, l, qty, refund) ==
  LET s     == IF Manual(l) THEN stock ELSE GoBack(stock, l, qty)
      after == line[l].qty - line[l].returned - qty
  IN /\ Usable(o) /\ order[o].status = "DONE"
     /\ l \in Present(o) /\ after >= 0 /\ refund <= order[o].paid
     /\ ~Manual(l) => ~ReturnFails(stock, ItemOf[l], l, qty)
     /\ NewLot(stock, l, qty) => Len(stock.lots) < MaxLots
     /\ RoomForTxs(Len(ReturnTxs(o, l, qty, refund)))
     /\ stock' = s
     /\ line' = [line EXCEPT ![l].returned = @ + qty]
     /\ events' = [events EXCEPT ![l].qty = @ + qty, ![l].revenue = @ + Money(qty * Price[l]),
                                 ![l].cost = @ + Money((after + qty) * UnitBefore(l) - after * UnitBefore(l))]
     /\ txs' = txs \o ReturnTxs(o, l, qty, refund)
     /\ order' = [order EXCEPT ![o] = SyncPaymentState(@, o, line', txs')]
     /\ UNCHANGED found

\* A customer return of a closed order: the goods, the event, the money.
ReturnItem(o, l, qty, refund) ==
  LET s     == IF Manual(l) THEN stock ELSE GoBack(stock, l, qty)
      snap  == IF Manual(l) THEN line[l].snap ELSE UnitCostAtSaleFor(s, l)
      unit  == OrElse(IF Manual(l) THEN OrElse(snap, UnitCost[l]) ELSE snap, 0)
      after == line[l].qty - line[l].returned - qty
  IN /\ Usable(o) /\ order[o].status = "DONE"
     /\ l \in Present(o) /\ after >= 0 /\ refund <= order[o].paid
     /\ ~Manual(l) => ~ReturnFails(stock, ItemOf[l], l, qty)
     /\ NewLot(stock, l, qty) => Len(stock.lots) < MaxLots
     /\ RoomForTxs(Len(ReturnTxs(o, l, qty, refund)))
     /\ stock' = s
     /\ line' = [line EXCEPT ![l].returned = @ + qty, ![l].snap = snap]
     /\ events' = [events EXCEPT ![l].qty = @ + qty, ![l].revenue = @ + Money(qty * Price[l]),
                                 ![l].cost = @ + Money((after + qty) * UnitBefore(l) - after * unit)]
     /\ txs' = txs \o ReturnTxs(o, l, qty, refund)
     /\ order' = [order EXCEPT ![o] = SyncPaymentState(@, o, line', txs')]
     /\ UNCHANGED found

(***************************************************************************)
(* Undoing: reverseFinalization, and the handlers that start with it.      *)
(***************************************************************************)

\* What is out and was not returned.
NetOut(o, l) ==
  IF Manual(l) THEN 0
  ELSE (IF order[o].status = "DONE" THEN line[l].qty ELSE line[l].shipped) - line[l].returned

CanReverse(o) ==
  /\ \A l \in LinesIn(o) : NetOut(o, l) > 0 => ~ReturnFails(stock, ItemOf[l], l, NetOut(o, l))
  /\ Len(stock.lots) + Cardinality({l \in LinesIn(o) : NewLot(stock, l, NetOut(o, l))}) <= MaxLots

\* The transactions once the cost bookings of o are deleted.
WithoutCogs(o) == DeleteTxs(txs, Live(txs, o, "COGS") \cup Live(txs, o, "COGS_REVERSAL"))
ResetLines(o) ==
  [l \in Lines |-> IF l \in LinesIn(o) THEN FreshLine(line[l].qty) ELSE line[l]]

\* A fault for mutation: shipped units of an open order are not brought back.
ReverseClosedOnly(o) ==
  /\ CanReverse(o)
  /\ stock' = FoldLeft(LAMBDA s, l : IF order[o].status = "DONE" /\ NetOut(o, l) > 0
                                     THEN GoBack(s, l, NetOut(o, l)) ELSE s, stock, LinesOf[o])
  /\ line' = ResetLines(o)
  /\ events' = [l \in Lines |-> IF l \in LinesIn(o) THEN NoEvents ELSE events[l]]

\* Goods back to their lots, tallies, snapshots and return events cleared.
ReverseFinalization(o) ==
  /\ CanReverse(o)
  /\ stock' = FoldLeft(LAMBDA s, l : IF NetOut(o, l) > 0 THEN GoBack(s, l, NetOut(o, l)) ELSE s, stock, LinesOf[o])
  /\ line' = ResetLines(o)
  /\ events' = [l \in Lines |-> IF l \in LinesIn(o) THEN NoEvents ELSE events[l]]

Cancel(o) ==
  /\ Usable(o) /\ order[o].status # "CANCELLED"
  /\ ReverseFinalization(o)
  /\ txs' = WithoutCogs(o)
  /\ order' = [order EXCEPT ![o].status = "CANCELLED"]
  /\ UNCHANGED found

\* A fault for mutation: the payment state as the closed order left it.
ReopenUnsynced(o) ==
  /\ Usable(o) /\ order[o].status \in {"DONE", "CANCELLED"}
  /\ ReverseFinalization(o)
  /\ txs' = WithoutCogs(o)
  /\ order' = [order EXCEPT ![o].status = "OPEN"]
  /\ UNCHANGED found

Reopen(o) ==
  /\ Usable(o) /\ order[o].status \in {"DONE", "CANCELLED"}
  /\ ReverseFinalization(o)
  /\ txs' = WithoutCogs(o)
  /\ order' = [order EXCEPT ![o] = SyncPaymentState([order[o] EXCEPT !.status = "OPEN"], o, line', txs')]
  /\ UNCHANGED found

\* Deletion takes every transaction of the order along.
RemoveOrder(o) ==
  /\ Usable(o)
  /\ ReverseFinalization(o)
  /\ txs' = DeleteTxs(txs, {n \in DOMAIN txs : txs[n].order = o})
  /\ order' = [order EXCEPT ![o].deleted = TRUE]
  /\ UNCHANGED found

(***************************************************************************)
(* The warehouse around the orders.                                        *)
(***************************************************************************)
Receive(i, qty, cost) ==
  /\ InStock(stock, i) /\ Len(stock.lots) < MaxLots
  /\ stock' = ReceiveLot(stock, i, qty, cost, Now(stock), 0, Nobody)
  /\ UNCHANGED <<order, line, events, txs, found>>

RemoveItem(i) ==
  /\ InStock(stock, i) /\ stock.item[i].qty = 0
  /\ stock' = [stock EXCEPT !.item[i].deleted = TRUE]
  /\ UNCHANGED <<order, line, events, txs, found>>

OrderStep(o) ==
  \/ \E qty \in Compositions(o), d \in Discounts : Create(o, qty, d)
  \/ \E qty \in Compositions(o), d \in Discounts : UpdateItems(o, qty, d)
  \/ \E d \in Discounts : UpdateDiscount(o, d)
  \/ \E l \in Lines, qty \in 1..MaxQty : AddExternalItem(o, l, qty)
  \/ \E l \in Lines : RemoveExternalItem(o, l)
  \/ \E a \in Amounts : AddPayment(o, a)
  \/ \E a, f \in Amounts : AddInstallmentPayment(o, a, f)
  \/ \E n \in DOMAIN txs : DeletePayment(o, n)
  \/ \E l \in Lines, qty \in 1..MaxQty : Ship(o, l, qty)
  \/ Finalize(o)
  \/ \E l \in Lines, qty \in 1..MaxQty, r \in Amounts \cup {0} : ReturnItem(o, l, qty, r)
  \/ Cancel(o)
  \/ Reopen(o)
  \/ RemoveOrder(o)

Next ==
  \/ \E o \in OrderIds : OrderStep(o)
  \/ \E h \in Handlers, n \in DOMAIN txs : FindTx(h, n)
  \/ \E h \in Handlers : LinkBankLine(h)
  \/ \E i \in Items, qty \in 1..MaxQty, cost \in StockCosts : Receive(i, qty, cost)
  \/ \E i \in Items : RemoveItem(i)

Spec == Init /\ [][Next]_vars

-----------------------------------------------------------------------------
Statuses == {"none", "OPEN", "DONE", "CANCELLED"}
PaymentStates == {"UNPAID", "PARTIAL", "PAID", "OVERPAID", "REFUNDED"}
Kinds == {"ORDER_PAYMENT", "ORDER_REFUND", "VARIABLE_COST", "COGS", "COGS_REVERSAL"}

(***************************************************************************)
(* The shape of the tables: an order never sums to less than nothing, a    *)
(* line is never shipped beyond its quantity nor returned beyond what was  *)
(* shipped (the CHECK constraints and the load test's line bounds).        *)
(***************************************************************************)
TypeOK ==
  /\ order \in [OrderIds -> [status : Statuses, deleted : BOOLEAN, discount : Nat, subtotal : Nat, total : Nat,
                             paid : Int, payState : PaymentStates]]
  /\ line \in [Lines -> [qty : Nat, shipped : Nat, returned : Nat, snap : Nat \cup {-1}]]
  /\ \A l \in Lines : line[l].returned <= line[l].shipped /\ line[l].shipped <= line[l].qty
  /\ events \in [Lines -> [qty : Nat, revenue : Nat, cost : Int]]
  /\ txs \in Seq([order : OrderIds, kind : Kinds, amount : Int, deleted : BOOLEAN, bankLine : BOOLEAN,
                   late : BOOLEAN])
  /\ found \in [Handlers -> Nat]

(***************************************************************************)
(* paidAmount is what the live payments and refunds sum to, and            *)
(* paymentStatus is what the rule says of it and of the net revenue, after *)
(* any sequence of returns, deleted payments, reopenings and changes of    *)
(* composition (but cancel leaves the status as it was, and create does    *)
(* not apply the rule to an order of nothing).                             *)
(***************************************************************************)
PaidIsSum == \A o \in OrderIds : Usable(o) => order[o].paid = Paid(txs, o)
StatusFollowsRule ==
  \A o \in OrderIds :
    Usable(o) /\ order[o].status # "CANCELLED" /\ (order[o].total > 0 \/ order[o].paid # 0) =>
      order[o].payState = ResolvePaymentState(order[o].paid, NetRevenue(line, order[o], o))
PaymentStateIsCurrent == PaidIsSum /\ StatusFollowsRule

(***************************************************************************)
(* What an order counts as delivered and not returned is, line by line,    *)
(* what the ledger can still give back to the lots, as long as the item is *)
(* there: so a return, a cancellation or a deletion never fails for want   *)
(* of consumption rows, and never gives back a unit twice.                 *)
(***************************************************************************)
DeliveredIsReversible ==
  \A o \in OrderIds : \A l \in LinesIn(o) :
    ~Manual(l) /\ InStock(stock, ItemOf[l]) =>
      ReversibleQty(stock, l) = line[l].shipped - line[l].returned

(***************************************************************************)
(* The cost snapshot of a stock line is the FIFO cost per unit of what the *)
(* customer still has ("I8": the margin of the order equals the FIFO cost  *)
(* of the units sold and kept).                                            *)
(***************************************************************************)
SnapshotIsFifoCost ==
  \A o \in OrderIds : \A l \in LinesIn(o) :
    ~Manual(l) /\ InStock(stock, ItemOf[l]) /\ line[l].shipped > 0 =>
      line[l].snap = UnitCostAtSaleFor(stock, l)

(***************************************************************************)
(* The return events of a line sum to its returnedQty cache, their revenue *)
(* is the price of those units (IJ9: the reports read the events, the      *)
(* order page the cache).                                                  *)
(***************************************************************************)
EventsMatchReturns ==
  \A l \in Lines : events[l].qty = line[l].returned
                   /\ (MoneyUnit = 1 => events[l].revenue = line[l].returned * Price[l])

(***************************************************************************)
(* What an order row and its lines cache agrees with the rows it sums up:  *)
(* payments, return events, and no more returned than shipped.             *)
(***************************************************************************)
OrderAddsUp == TypeOK /\ PaymentStateIsCurrent /\ EventsMatchReturns

(***************************************************************************)
(* A deleted transaction holds a bank statement line only if that line was *)
(* linked after the deletion, by a handler that had found the transaction  *)
(* alive: whatever way it is deleted (its payment, its order, at once or   *)
(* one after the other), every line linked by then is back in the inbox.   *)
(***************************************************************************)
HeldOnlyByLateLink == \A n \in DOMAIN txs : txs[n].bankLine /\ txs[n].deleted => txs[n].late

(***************************************************************************)
(* No bank statement line is held by a deleted transaction, where it would *)
(* be neither in the inbox nor in the account's balance (order.service.ts, *)
(* deletePayment): the links written late break it.                        *)
(***************************************************************************)
NoLineHeldByDeletedTx == \A n \in DOMAIN txs : txs[n].bankLine => ~txs[n].deleted

(***************************************************************************)
(* A cancelled or deleted order holds no goods, no cost of goods and no    *)
(* return events; a deleted one holds no money either.                     *)
(***************************************************************************)
UndoneLeavesNothing ==
  \A o \in OrderIds : order[o].deleted \/ order[o].status = "CANCELLED" =>
    /\ \A l \in LinesIn(o) :
         /\ events[l] = NoEvents
         /\ ~Manual(l) /\ InStock(stock, ItemOf[l]) => Reversible(stock, l) = {}
    /\ Live(txs, o, "COGS") \cup Live(txs, o, "COGS_REVERSAL") = {}
    /\ order[o].deleted => \A n \in DOMAIN txs : txs[n].order = o => txs[n].deleted

(***************************************************************************)
(* "With total = 0 and paid = 0 an order counts as PAID, not UNPAID"       *)
(* (order.service.ts, resolvePaymentState, #10).                           *)
(***************************************************************************)
NothingToPayIsPaid ==
  \A o \in OrderIds : Open(o) /\ order[o].total = 0 /\ order[o].paid = 0 => order[o].payState = "PAID"

(***************************************************************************)
(* "DE5: no more money can be returned than is now collected, otherwise    *)
(* paidAmount would go negative and the order get a fake REFUNDED"         *)
(* (order.service.ts, returnItem).                                         *)
(***************************************************************************)
PaidNeverNegative == \A o \in OrderIds : order[o].paid >= 0

(***************************************************************************)
(* The COGS of an order, its reversals included, is not negative           *)
(* (loadtest/invariants.ts, order.netCOGS).                                *)
(***************************************************************************)
NetCogs(o) == Total(txs, Live(txs, o, "COGS") \cup Live(txs, o, "COGS_REVERSAL"))
NetCogsNonNegative == \A o \in OrderIds : NetCogs(o) >= 0
=============================================================================
