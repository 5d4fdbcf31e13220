----------------------------- MODULE Warehouse -----------------------------
(***************************************************************************)
(* WarehouseService and PurchaseService: every operation on the stock.     *)
(*                                                                         *)
(* An operation that runs under the item's row lock inside one UnitOfWork  *)
(* is one action.  The handlers that read before they lock, or never lock  *)
(* at all (remove, update of isArchived, voidPurchase), are two: what a    *)
(* handler has read waits in `pending` until its second step.              *)
(*                                                                         *)
(* `out` is what the order service counts as delivered and not returned on *)
(* each order line: it never ships or returns beyond its own tally.  The   *)
(* lines in LegacyLines had one unit delivered before lots existed, and so *)
(* have no consumption rows for it.                                        *)
(***************************************************************************)
EXTENDS StockLedger

CONSTANTS LegacyLines, Handlers, Idle,
          Costs,        \* unit costs a user may enter
          MoneyUnit,    \* ledger value units in the smallest unit of money
          MaxQty, MaxLots, MaxBatches, MaxPurchases        \* bounds

ASSUME WarehouseAssumption ==
  /\ ItemOf \in [Lines -> Items] /\ LegacyLines \subseteq Lines
  /\ Costs \subseteq Nat /\ MoneyUnit \in Nat \ {0}
  /\ MaxQty \in Nat /\ MaxLots \in Nat /\ MaxBatches \in Nat /\ MaxPurchases \in Nat

VARIABLES stock,        \* items, lots, consumption rows
          purchases,    \* a sequence: is purchase n (document and money) still live
          losses,       \* sum of the WRITE_OFF transactions
          out,          \* delivered minus returned units of every order line
          pending       \* what each unlocked handler is about to do

vars == <<stock, purchases, losses, out, pending>>

Requests == [op : {"remove", "archive"}, item : Items] \cup [op : {"void"}, purchase : 1..MaxPurchases]

Qtys == 1..MaxQty
RoomForLots(n) == Len(stock.lots) + n <= MaxLots
RoomForBatch == stock.batch < MaxBatches

Init ==
  /\ stock = EmptyStock
  /\ purchases = <<>>
  /\ losses = 0
  /\ out = [l \in Lines |-> IF l \in LegacyLines THEN 1 ELSE 0]
  /\ pending = [h \in Handlers |-> Idle]

(***************************************************************************)
(* Operations under the row lock of the item.                              *)
(***************************************************************************)

\* create and every row of importCommit: an item, with an OPENING lot if qty > 0.
Create(i, qty, cost) ==
  LET s == [stock EXCEPT !.item[i].created = TRUE]
  IN /\ ~stock.item[i].created
     /\ RoomForLots(1)
     /\ stock' = IF qty > 0 THEN ReceiveLot(s, i, qty, cost, Now(s), 0, Nobody) ELSE s
     /\ UNCHANGED <<purchases, losses, out, pending>>

AdjustDown(i, newQty) ==
  LET need == stock.item[i].qty - newQty
  IN /\ InStock(stock, i) /\ need > 0 /\ Enough(stock, i, need) /\ RoomForBatch
     /\ stock' = ConsumeLots(stock, i, Nobody, need, NoLine, "ADJUSTMENT")
     /\ UNCHANGED <<purchases, losses, out, pending>>

\* A surplus is priced by the user, else (cost = -1) at the average cost of
\* the open lots; without open lots a price is required.
AdjustUp(i, newQty, cost) ==
  LET delta == newQty - stock.item[i].qty
  IN /\ InStock(stock, i) /\ delta > 0 /\ RoomForLots(1)
     /\ cost >= 0 \/ LotQty(stock, i) > 0
     /\ stock' = ReceiveLot(stock, i, delta, IF cost >= 0 THEN cost ELSE stock.item[i].avgCost,
                            Now(stock), 0, Nobody)
     /\ UNCHANGED <<purchases, losses, out, pending>>

\* A fault for mutation: the loss booked at the average cost.
WriteOffAtAverage(i, qty) ==
  /\ InStock(stock, i) /\ Enough(stock, i, qty) /\ RoomForBatch
  /\ stock' = ConsumeLots(stock, i, Nobody, qty, NoLine, "WRITE_OFF")
  /\ losses' = losses + RoundDiv(qty * stock.item[i].avgCost, MoneyUnit)
  /\ UNCHANGED <<purchases, out, pending>>

\* The loss is booked at the FIFO cost of what was written off.
WriteOff(i, qty) ==
  /\ InStock(stock, i) /\ Enough(stock, i, qty) /\ RoomForBatch
  /\ stock' = ConsumeLots(stock, i, Nobody, qty, NoLine, "WRITE_OFF")
  /\ losses' = losses + RoundDiv(PlanCost(stock, i, Nobody, qty), MoneyUnit)
  /\ UNCHANGED <<purchases, out, pending>>

\* Price a stock that has no price yet: its open zero-cost lots.
SetCost(i, cost) ==
  LET unpriced == {k \in OpenLots(stock, i) : stock.lots[k].cost = 0}
      s == [stock EXCEPT !.lots = [k \in DOMAIN stock.lots |->
              [stock.lots[k] EXCEPT !.cost = IF k \in unpriced THEN cost ELSE @]]]
  IN /\ InStock(stock, i) /\ stock.item[i].avgCost = 0 /\ stock.item[i].qty > 0 /\ cost > 0
     /\ stock' = RecomputeCaches(RecordMovement(s, i, 0, stock.item[i].qty), i)
     /\ UNCHANGED <<purchases, losses, out, pending>>

\* A purchase of one line, or of two (of one item, perhaps); its date may lie before
\* any open lot.
Register(i, qty, cost, at, sup) ==
  /\ Len(purchases) < MaxPurchases
  /\ InStock(stock, i) /\ RoomForLots(1)
  /\ stock' = ReceiveLot(stock, i, qty, cost, at, Len(purchases) + 1, sup)
  /\ purchases' = Append(purchases, TRUE)
  /\ UNCHANGED <<losses, out, pending>>

RegisterTwo(i, j, qty, cost, at, sup) ==
  LET p == Len(purchases) + 1
  IN /\ p <= MaxPurchases
     /\ InStock(stock, i) /\ InStock(stock, j) /\ RoomForLots(2)
     /\ stock' = ReceiveLot(ReceiveLot(stock, i, qty, cost, at, p, sup), j, qty, cost, at, p, sup)
     /\ purchases' = Append(purchases, TRUE)
     /\ UNCHANGED <<losses, out, pending>>

\* decrementForSale, called for an order line.
Sell(l, qty) ==
  /\ InStock(stock, ItemOf[l]) /\ Enough(stock, ItemOf[l], qty) /\ RoomForBatch
  /\ out[l] + qty <= MaxQty
  /\ stock' = ConsumeLots(stock, ItemOf[l], Nobody, qty, l, "SALE")
  /\ out' = [out EXCEPT ![l] = @ + qty]
  /\ UNCHANGED <<purchases, losses, pending>>

\* reverseConsumption, or restock at the price of the sale when it cannot apply.
TakeBack(l, qty) ==
  /\ qty <= out[l]
  /\ stock.item[ItemOf[l]].created
  /\ ~ReturnFails(stock, ItemOf[l], l, qty)
  /\ NoConsumptions(stock, ItemOf[l], l) => RoomForLots(1)
  /\ stock' = ReturnUnits(stock, ItemOf[l], l, qty, UnitCostAtSaleFor(stock, l))
  /\ out' = [out EXCEPT ![l] = @ - qty]
  /\ UNCHANGED <<purchases, losses, pending>>

\* The supplier's own lots go back first.
SupplierReturn(i, qty, sup) ==
  /\ InStock(stock, i) /\ qty <= stock.item[i].qty /\ Enough(stock, i, qty) /\ RoomForBatch
  /\ stock' = ConsumeLots(stock, i, sup, qty, NoLine, "RETURN_SUPPLIER")
  /\ UNCHANGED <<purchases, losses, out, pending>>

(***************************************************************************)
(* Handlers that read first and write later.                               *)
(***************************************************************************)

\* What the read step of each handler has to see.
Admits(req) ==
  CASE req.op = "remove"  -> InStock(stock, req.item) /\ stock.item[req.item].qty = 0
    [] req.op = "archive" -> /\ InStock(stock, req.item)
                             /\ stock.item[req.item].archived \/ stock.item[req.item].qty = 0
    [] req.op = "void"    -> req.purchase \in DOMAIN purchases /\ purchases[req.purchase]

Begin(h, req) ==
  /\ pending[h] = Idle /\ Admits(req)
  /\ pending' = [pending EXCEPT ![h] = req]
  /\ UNCHANGED <<stock, purchases, losses, out>>

Doing(h, op) == pending[h] # Idle /\ pending[h].op = op
Done(h) == pending' = [pending EXCEPT ![h] = Idle]

Remove(h) ==
  /\ Doing(h, "remove")
  /\ stock' = [stock EXCEPT !.item[pending[h].item].deleted = TRUE]
  /\ Done(h)
  /\ UNCHANGED <<purchases, losses, out>>

Archive(h) ==
  /\ Doing(h, "archive")
  /\ stock' = [stock EXCEPT !.item[pending[h].item].archived = TRUE]
  /\ Done(h)
  /\ UNCHANGED <<purchases, losses, out>>

Unarchive(i) ==
  /\ InStock(stock, i) /\ stock.item[i].archived
  /\ stock' = [stock EXCEPT !.item[i].archived = FALSE]
  /\ UNCHANGED <<purchases, losses, out, pending>>

\* voidPurchase once the items are locked: all lots of the purchase, or a refusal.
VoidPurchase(h) ==
  LET p  == pending[h].purchase
      ks == {k \in DOMAIN stock.lots : stock.lots[k].purchase = p /\ stock.lots[k].live}
      is == {stock.lots[k].item : k \in {k \in DOMAIN stock.lots : stock.lots[k].purchase = p}}
  IN /\ Doing(h, "void")
     /\ IF \A k \in ks : Untouched(stock, k)
        THEN /\ stock' = VoidLots(stock, ks, is)
             /\ purchases' = [purchases EXCEPT ![p] = FALSE]
        ELSE UNCHANGED <<stock, purchases>>
     /\ Done(h)
     /\ UNCHANGED <<losses, out>>

Next ==
  \/ \E i \in Items, qty \in 0..MaxQty, cost \in Costs : Create(i, qty, cost)
  \/ \E i \in Items, qty \in 0..MaxQty : AdjustDown(i, qty)
  \/ \E i \in Items, qty \in 0..MaxQty, cost \in Costs \cup {-1} : AdjustUp(i, qty, cost)
  \/ \E i \in Items, qty \in Qtys : WriteOff(i, qty)
  \/ \E i \in Items, cost \in Costs : SetCost(i, cost)
  \/ \E i \in Items, qty \in Qtys, cost \in Costs, at \in 0..Now(stock), sup \in Suppliers \cup {Nobody} :
        Register(i, qty, cost, at, sup)
  \/ \E i, j \in Items, qty \in Qtys, cost \in Costs : RegisterTwo(i, j, qty, cost, Now(stock), Nobody)
  \/ \E l \in Lines, qty \in Qtys : Sell(l, qty)
  \/ \E l \in Lines, qty \in Qtys : TakeBack(l, qty)
  \/ \E i \in Items, qty \in Qtys, sup \in Suppliers \cup {Nobody} : SupplierReturn(i, qty, sup)
  \/ \E h \in Handlers, req \in Requests : Begin(h, req)
  \/ \E h \in Handlers : Remove(h)
  \/ \E h \in Handlers : Archive(h)
  \/ \E i \in Items : Unarchive(i)
  \/ \E h \in Handlers : VoidPurchase(h)

Spec == Init /\ [][Next]_vars

-----------------------------------------------------------------------------
(***************************************************************************)
(* The cached quantity and average cost of an item are what its open lots  *)
(* say (recomputeCaches runs after every lot operation).                   *)
(***************************************************************************)
CachesMatchLots ==
  \A i \in Items :
    /\ stock.item[i].qty = LotQty(stock, i)
    /\ stock.item[i].avgCost =
         IF LotQty(stock, i) = 0 THEN 0 ELSE RoundDiv(LotValue(stock, i), LotQty(stock, i))

(***************************************************************************)
(* The movement journal explains the stock: the quantity of an item that   *)
(* is not deleted is the sum of its movements and the balance the last     *)
(* movement recorded (every operation computes qtyAfter on its own).       *)
(***************************************************************************)
JournalExplainsStock ==
  \A i \in Items : InStock(stock, i) =>
    stock.item[i].qty = stock.item[i].moved /\ stock.item[i].qty = stock.item[i].qtyAfter

(***************************************************************************)
(* The losses booked by writeOff are the FIFO cost of what was written off *)
(* and the units written off are never returned to a lot.                  *)
(***************************************************************************)
WrittenOff(b) == {r \in stock.rows : r.batch = b /\ r.kind = "WRITE_OFF"}
LossesMatchLedger ==
  losses = SumFunction([b \in 1..stock.batch |->
             RoundDiv(SumFunction([r \in WrittenOff(b) |-> Remaining(r) * r.cost]), MoneyUnit)])

(***************************************************************************)
(* Caches, journal and booked losses: three accounts of the same stock     *)
(* kept by every operation on its own.                                     *)
(***************************************************************************)
BooksMatchLots == CachesMatchLots /\ JournalExplainsStock /\ LossesMatchLedger

(***************************************************************************)
(* Every lot holds what arrived minus what its consumption rows still have *)
(* out, no row gives back more than it took; the document of a purchase    *)
(* and its lots live and die together, and a lot taken back was whole and  *)
(* had never been touched.                                                 *)
(***************************************************************************)
RowsOn(k) == {r \in stock.rows : r.lot = k}
LotLedger ==
  /\ \A r \in stock.rows : r.back <= r.qty
  /\ \A k \in DOMAIN stock.lots :
       LET lot == stock.lots[k]
       IN /\ lot.left = lot.initial - SumFunction([r \in RowsOn(k) |-> Remaining(r)])
          /\ lot.live = (lot.purchase = 0 \/ purchases[lot.purchase])
          /\ ~lot.live => RowsOn(k) = {} /\ lot.left = lot.initial

(***************************************************************************)
(* A return can always be served from the very lots of the sale: what the  *)
(* ledger can reverse for an order line is what the order counts as out,   *)
(* as long as the line was sold after the lots came and its item is there. *)
(***************************************************************************)
LinesReversible ==
  \A l \in Lines : InStock(stock, ItemOf[l]) =>
    IF l \in LegacyLines THEN out[l] - ReversibleQty(stock, l) \in {0, 1}
                         ELSE out[l] = ReversibleQty(stock, l)

(***************************************************************************)
(* First in, first out, last out, first back: no operation but a return to *)
(* the supplier takes from a lot while an earlier lot of the item keeps    *)
(* something, and a consumption row of an order line gets something back   *)
(* only when the later rows of the line are settled.                       *)
(***************************************************************************)
Received(k) == <<stock.lots[k].at, k>>      \* when, and in which place of the table
Earlier(p, q) == p[1] < q[1] \/ (p[1] = q[1] /\ p[2] < q[2])
NewRows == {r \in stock'.rows : r.batch > stock.batch}
Settled(q) == [q EXCEPT !.back = q.qty] \in stock'.rows
FifoDiscipline ==
  [][/\ \A r \in NewRows : r.kind # "RETURN_SUPPLIER" =>
          \A j \in OpenLots(stock, stock.lots[r.lot].item) :
            Earlier(Received(j), Received(r.lot)) => stock'.lots[j].left = 0
     /\ \A q, r \in stock.rows :
          q.line = r.line /\ r.line # NoLine /\ r \notin stock'.rows /\ q.batch > r.batch => Settled(q)]_vars

(***************************************************************************)
(* "An item with stock must not be deleted: its value would silently       *)
(* vanish from the stock-value report" (warehouse.service.ts, remove).     *)
(***************************************************************************)
NoStockOnDeletedItem == \A i \in Items : stock.item[i].deleted => LotQty(stock, i) = 0

(***************************************************************************)
(* "Archiving an item with stock would hide its value from stock-value: we *)
(* archive only an empty item" (warehouse.service.ts, update).             *)
(***************************************************************************)
NoStockOnArchivedItem == \A i \in Items : stock.item[i].archived => LotQty(stock, i) = 0

(***************************************************************************)
(* "A reversal takes the price of the consumption row, not the current     *)
(* price of the lot" (fifo.ts; setCost: "what was sold at 0 is not         *)
(* rewritten"): a customer return adds to the stock the value it takes off *)
(* the cost of sales.                                                      *)
(***************************************************************************)
ReversedCost ==
  SumFunction([r \in stock.rows \ stock'.rows |->
    (CHOOSE t \in stock'.rows : t.batch = r.batch /\ t.lot = r.lot).back * r.cost - r.back * r.cost])
ReturnedAtSnapshotCost ==
  [][\A i \in Items : Len(stock'.lots) = Len(stock.lots) /\ (\E l \in Lines : out'[l] < out[l] /\ ItemOf[l] = i)
       => LotValue(stock', i) - LotValue(stock, i) = ReversedCost]_vars
=============================================================================
