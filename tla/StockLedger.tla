---------------------------- MODULE StockLedger ----------------------------
(***************************************************************************)
(* The FIFO stock ledger of apps/api: the lots of every warehouse item,    *)
(* the consumption rows that say which lot each outgoing unit came from,   *)
(* the movement journal and the cached totals of the item.                 *)
(*                                                                         *)
(* Each operator takes a ledger and returns the ledger the corresponding   *)
(* method of WarehouseService leaves behind.  The services that call them  *)
(* inside one database transaction, under the row lock of the item, are    *)
(* the actions of Warehouse and Orders.                                    *)
(*                                                                         *)
(* Quantities and costs are naturals counting the smallest unit their      *)
(* decimals can hold.  A moment is the number of lots received so far: a   *)
(* lot received "now" comes after every other one, a backdated purchase    *)
(* may take any earlier moment, a tie included.                            *)
(***************************************************************************)
EXTENDS Integers, Sequences, FiniteSets, Functions

CONSTANTS Items,        \* warehouse items
          Suppliers,
          Nobody,       \* the supplier of a lot that has none
          Lines,        \* order lines
          ItemOf,       \* the warehouse item of a line
          NoLine        \* the order line of a consumption that has none

ASSUME StockAssumption == Nobody \notin Suppliers /\ NoLine \notin Lines

\* Half-up rounding of a non-negative quotient, as money(), cost() and qty() do.
RoundDiv(a, b) == (2 * a + b) \div (2 * b)

\* x kept within 0..top
Clamp(x, top) == IF x < 0 THEN 0 ELSE IF x > top THEN top ELSE x

OpenLots(s, i) ==
  {k \in DOMAIN s.lots : s.lots[k].item = i /\ s.lots[k].live /\ s.lots[k].left > 0}

LotQty(s, i) == SumFunction([k \in OpenLots(s, i) |-> s.lots[k].left])
LotValue(s, i) == SumFunction([k \in OpenLots(s, i) |-> s.lots[k].left * s.lots[k].cost])

\* A fault for mutation: insertion order, the business date forgotten.
InsertedBefore(s, j, k) == j < k

\* The FIFO order: business date, then insertion order.
ReceivedBefore(s, j, k) ==
  \/ s.lots[j].at < s.lots[k].at
  \/ s.lots[j].at = s.lots[k].at /\ j < k

\* The order units leave in: the lots of `sup` first (supplierReturn), then FIFO.
LeavesBefore(s, sup, j, k) ==
  LET first(l) == sup # Nobody /\ s.lots[l].supplier = sup
  IN IF first(j) = first(k) THEN ReceivedBefore(s, j, k) ELSE first(j)

(***************************************************************************)
(* The greedy plan: a lot gives what the lots before it leave uncovered,   *)
(* as far as it reaches.  FifoAlgorithms shows that the loop of the code   *)
(* computes exactly this.                                                  *)
(***************************************************************************)
Take(s, i, sup, need, k) ==
  LET before == {j \in OpenLots(s, i) : LeavesBefore(s, sup, j, k)}
  IN IF k \in OpenLots(s, i)
     THEN Clamp(need - SumFunction([j \in before |-> s.lots[j].left]), s.lots[k].left)
     ELSE 0

Remaining(r) == r.qty - r.back

Reversible(s, line) == {r \in s.rows : r.line = line /\ Remaining(r) > 0}
ReversibleQty(s, line) ==
  SumFunction([r \in Reversible(s, line) |-> Remaining(r)])

\* Reversal runs over the rows backwards: the latest consumption first.
ReversedBefore(s, q, r) ==
  \/ q.batch > r.batch
  \/ q.batch = r.batch /\ ReceivedBefore(s, r.lot, q.lot)

GiveBack(s, line, need, r) ==
  LET before == {q \in Reversible(s, line) : ReversedBefore(s, q, r)}
  IN IF r \in Reversible(s, line)
     THEN Clamp(need - SumFunction([q \in before |-> Remaining(q)]), Remaining(r))
     ELSE 0

(***************************************************************************)
(* The primitives every stock operation is made of.                        *)
(***************************************************************************)
InStock(s, i) == s.item[i].created /\ ~s.item[i].deleted    \* lockForUpdate finds the row

\* The cached totals, recomputed from the open lots.
RecomputeCaches(s, i) ==
  LET qty == LotQty(s, i)
  IN [s EXCEPT !.item[i].qty = qty,
               !.item[i].avgCost = IF qty > 0 THEN RoundDiv(LotValue(s, i), qty) ELSE 0]

\* The journal keeps the sum of its deltas and the balance its last row states.
RecordMovement(s, i, delta, after) ==
  [s EXCEPT !.item[i].moved = @ + delta, !.item[i].qtyAfter = after]

Now(s) == Len(s.lots) + 1

CreateLot(s, i, qty, cost, at, purchase, supplier) ==
  [s EXCEPT !.lots = Append(@, [item |-> i, initial |-> qty, left |-> qty, cost |-> cost, at |-> at,
                                purchase |-> purchase, supplier |-> supplier, live |-> TRUE])]

\* An arrival (of purchase number `purchase`, 0 for none): the lot, its movement and the caches.
ReceiveLot(s, i, qty, cost, at, purchase, supplier) ==
  RecomputeCaches(
    RecordMovement(CreateLot(s, i, qty, cost, at, purchase, supplier), i, qty, s.item[i].qty + qty), i)

\* consumePlan raises InsufficientStockError otherwise.
Enough(s, i, need) == need <= LotQty(s, i)

\* A consumption: one movement, one row per lot touched, the lots, the caches.
ConsumeLots(s, i, sup, need, line, kind) ==
  LET took    == [k \in DOMAIN s.lots |-> Take(s, i, sup, need, k)]
      newRows == {[batch |-> s.batch + 1, kind |-> kind, lot |-> k, line |-> line,
                   qty |-> took[k], cost |-> s.lots[k].cost, back |-> 0] : k \in {k \in DOMAIN took : took[k] > 0}}
      moved   == RecordMovement(s, i, -need, s.item[i].qty - need)
  IN RecomputeCaches(
       [moved EXCEPT !.lots = [k \in DOMAIN s.lots |-> [s.lots[k] EXCEPT !.left = @ - took[k]]],
                     !.rows = @ \cup newRows,
                     !.batch = @ + 1], i)

\* What a consumption of this size costs, unrounded.
PlanCost(s, i, sup, need) ==
  SumFunction([k \in OpenLots(s, i) |-> Take(s, i, sup, need, k) * s.lots[k].cost])

\* reverseConsumption raises NoConsumptionsError and its callers fall back to
\* Restock when the item is deleted or nothing of the line can be reversed.
NoConsumptions(s, i, line) == ~InStock(s, i) \/ Reversible(s, line) = {}

\* A fault for mutation: REVERSAL rows that do not name the row they reverse.
ReverseWithoutTrace(s, i, line, qty) ==
  LET from(k) == {r \in Reversible(s, line) : r.lot = k}
      moved   == RecordMovement(s, i, qty, s.item[i].qty + qty)
  IN RecomputeCaches(
       [moved EXCEPT !.lots = [k \in DOMAIN s.lots |-> [s.lots[k] EXCEPT
                        !.left = @ + SumFunction([r \in from(k) |-> GiveBack(s, line, qty, r)])]]], i)

\* Give units of an order line back to the very lots they came from.
ReverseConsumption(s, i, line, qty) ==
  LET back(r) == GiveBack(s, line, qty, r)
      from(k) == {r \in Reversible(s, line) : r.lot = k}
      moved   == RecordMovement(s, i, qty, s.item[i].qty + qty)
  IN RecomputeCaches(
       [moved EXCEPT !.lots = [k \in DOMAIN s.lots |->
                        [s.lots[k] EXCEPT !.left = @ + SumFunction([r \in from(k) |-> back(r)])]],
                     !.rows = {[r EXCEPT !.back = @ + back(r)] : r \in s.rows}], i)

\* Fallback return: a new lot at the tail of the queue priced at the snapshot
\* of the sale (-1: none, the average cost), or a bare movement when the item
\* is gone.
Restock(s, i, qty, cost) ==
  IF InStock(s, i)
  THEN ReceiveLot(s, i, qty, IF cost >= 0 THEN cost ELSE s.item[i].avgCost, Now(s),
                  0, Nobody)
  ELSE RecordMovement(s, i, qty, qty)

ReturnUnits(s, i, line, qty, cost) ==
  IF NoConsumptions(s, i, line) THEN Restock(s, i, qty, cost) ELSE ReverseConsumption(s, i, line, qty)

\* Neither path applies: InsufficientReversibleError, the transaction rolls back.
ReturnFails(s, i, line, qty) ==
  ~NoConsumptions(s, i, line) /\ qty > ReversibleQty(s, line)

RowsOf(s, line) == {r \in s.rows : r.line = line}
NetQty(s, line) == SumFunction([r \in RowsOf(s, line) |-> Remaining(r)])
NetCost(s, line) == SumFunction([r \in RowsOf(s, line) |-> Remaining(r) * r.cost])

\* The cost snapshot of an order line, -1 for null.
UnitCostAtSaleFor(s, line) ==
  IF NetQty(s, line) > 0 THEN RoundDiv(NetCost(s, line), NetQty(s, line)) ELSE -1

\* A fault for mutation: the quantity compared, the consumptions not looked up.
SameQuantity(s, k) == s.lots[k].left = s.lots[k].initial

\* voidUntouchedLots refuses a lot anything was ever consumed from.
Untouched(s, k) == s.lots[k].left = s.lots[k].initial /\ \A r \in s.rows : r.lot # k

\* Take back the lots ks of the items is: soft-delete, caches, reversing movement.
VoidLots(s, ks, is) ==
  LET dead == [s EXCEPT !.lots = [k \in DOMAIN s.lots |-> [s.lots[k] EXCEPT !.live = @ /\ k \notin ks]]]
      gone(i) == LET mine == {k \in ks : s.lots[k].live /\ s.lots[k].item = i}
                 IN SumFunction([k \in mine |-> s.lots[k].initial])
      after(i) == LET t == RecomputeCaches(dead, i)
                  IN RecordMovement(t, i, -gone(i), IF InStock(t, i) THEN t.item[i].qty ELSE 0)
  IN [dead EXCEPT !.item = [i \in Items |-> IF i \in is THEN after(i).item[i] ELSE @[i]]]

EmptyStock ==
  [item |-> [i \in Items |-> [qty |-> 0, avgCost |-> 0, moved |-> 0, qtyAfter |-> 0,
                              created |-> FALSE, deleted |-> FALSE, archived |-> FALSE]],
   lots |-> <<>>, rows |-> {}, batch |-> 0]
=============================================================================
