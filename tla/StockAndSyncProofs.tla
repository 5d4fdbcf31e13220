------------------------- MODULE StockAndSyncProofs -------------------------
(***************************************************************************)
(* Theorems about the two components that work through something in the    *)
(* order of its dates: the stock, which consumes its lots oldest first,    *)
(* and the synchronisation of a bank connection, which follows the days of *)
(* a statement with a cursor.  The two specifications share no variable    *)
(* and no constant; each part is about one of them and has an invariant of *)
(* its own.                                                                *)
(***************************************************************************)
EXTENDS Warehouse, Sync, StockLedgerProofs, FiniteSetTheorems, TLAPS

-----------------------------------------------------------------------------
(***************************************************************************)
(* Theorems about the stock, for every set of items, suppliers, order      *)
(* lines and handlers, any prices and any bounds: lots, consumption rows   *)
(* and purchases agree (LotLedger), caches, journal and booked losses      *)
(* follow the lots (BooksMatchLots), what an order counts as out can be    *)
(* given back (LinesReversible), and stock leaves oldest first and comes   *)
(* back latest first (FifoDiscipline).                                     *)
(*                                                                         *)
(* StockLedgerProofs has the lemmas about the ledger.  The invariant is    *)
(* IInv: the ledger is sound (Sound), purchases live as long as their lots *)
(* (Bought), losses are those of the batches (Booked), and the rows of a   *)
(* line sum up to what it has out unless its item was deleted (Delivered;  *)
(* then nothing comes back to a lot).                                      *)
(***************************************************************************)
-----------------------------------------------------------------------------
(***************************************************************************)
(* What was written off.                                                   *)
(***************************************************************************)
WrittenOffIn(s, b) == {r \in s.rows : r.batch = b /\ r.kind = "WRITE_OFF"}
LossOf(s) == [b \in Nat |-> RoundDiv(Sum(Worth, WrittenOffIn(s, b)), MoneyUnit)]

LEMMA LossType ==
  ASSUME NEW s, Typed(s), RowsOk(s), NEW b \in Nat PROVE LossOf(s)[b] \in Nat /\ LossOf(s)[b] \in Int
<1>1. WrittenOffIn(s, b) \in SUBSET s.rows /\ IsFiniteSet(WrittenOffIn(s, b))
  BY FS_Subset DEF WrittenOffIn, Typed
<1>2. \A r \in WrittenOffIn(s, b) : Worth[r] \in Nat
  BY <1>1, WorthType
<1>3. Sum(Worth, WrittenOffIn(s, b)) \in Nat
  BY <1>1, <1>2, SumType
<1> QED BY <1>3, Rounded, WarehouseAssumption DEF LossOf

LEMMA NothingRounded == ASSUME NEW m \in Nat \ {0} PROVE RoundDiv(0, m) = 0
<1>1. 2 * 0 + m = m /\ m \div (2 * m) = 0
  OBVIOUS
<1> QED BY <1>1 DEF RoundDiv

\* A write-off books its plan, any other consumption books nothing.
LEMMA ConsumedLoss ==
  ASSUME NEW s, NEW t, NEW i \in Items, NEW sup, NEW need \in Nat, NEW dest \in Outlets, NEW kind \in RowKinds,
         Consumes(s, t, i, sup, need, dest, kind)
  PROVE  /\ t.batch = s.batch + 1 /\ s.batch \in Nat
         /\ \A b \in 1..s.batch : LossOf(t)[b] = LossOf(s)[b]
         /\ LossOf(t)[t.batch] = IF kind = "WRITE_OFF" THEN RoundDiv(PlanCost(s, i, sup, need), MoneyUnit) ELSE 0
<1>1. PICK T, N : T = Plan(s, i, sup, need) /\ N = NewRowsOf(s, kind, dest, T)
  OBVIOUS
<1>2. ConsumedFacts(s, t, i, T, N, need, dest, kind)
  BY <1>1, ConsumingIs
<1>3. t.batch = s.batch + 1 /\ s.batch \in Nat
  BY <1>2 DEF ConsumedFacts, Ledger
<1>4. ASSUME NEW b \in 1..s.batch PROVE LossOf(t)[b] = LossOf(s)[b]
  <2>1. WrittenOffIn(t, b) = WrittenOffIn(s, b)
    BY <1>2, <1>3 DEF ConsumedFacts, WrittenOffIn
  <2> QED BY <1>3, <2>1 DEF LossOf
<1>5. \A r \in s.rows : r.batch <= s.batch /\ r.batch \in Nat
  BY <1>3 DEF Consumes, Sound, RowsOk
<1>6. LossOf(t)[t.batch] = RoundDiv(Sum(Worth, WrittenOffIn(t, t.batch)), MoneyUnit)
  BY <1>3 DEF LossOf
<1>7. ASSUME kind = "WRITE_OFF" PROVE LossOf(t)[t.batch] = RoundDiv(PlanCost(s, i, sup, need), MoneyUnit)
  <2>1. WrittenOffIn(t, t.batch) = N
    BY <1>2, <1>3, <1>5, <1>7 DEF ConsumedFacts, WrittenOffIn
  <2>2. Sum(Worth, N) = PlanCost(s, i, sup, need)
    <3>1. RowsSum(s, i, T, N, need)
      BY <1>2, NewRowsSum
    <3>2. s \in Ledger
      BY <1>2 DEF ConsumedFacts
    <3> QED BY <1>1, <3>1, <3>2, PlanCostIs DEF RowsSum
  <2> QED BY <1>6, <2>1, <2>2
<1>8. ASSUME kind # "WRITE_OFF" PROVE LossOf(t)[t.batch] = 0
  <2>1. WrittenOffIn(t, t.batch) = {}
    BY <1>2, <1>3, <1>5, <1>8 DEF ConsumedFacts, WrittenOffIn
  <2> QED BY <1>6, <2>1, SumEmpty, NothingRounded, WarehouseAssumption
<1> QED BY <1>3, <1>4, <1>7, <1>8

\* What was written off is never returned.
LEMMA ReversedLoss ==
  ASSUME NEW s, NEW t, NEW i \in Items, NEW dest, NEW qty \in Nat, Reverses(s, t, i, dest, qty)
  PROVE  t.batch = s.batch /\ \A b \in Nat : LossOf(t)[b] = LossOf(s)[b]
<1>1. PICK G, M, H : ReversedFacts(s, t, i, G, M, H, dest, qty)
  BY ReversingIs
<1>2. RowsGiven(s, t, G, M, dest) /\ t.batch = s.batch /\ RowsOk(s) /\ dest \in Lines
  BY <1>1 DEF ReversedFacts, Reverses, Sound
<1>3. \A r \in s.rows : r.kind = "WRITE_OFF" => M[r] = r
  BY <1>2, NoSuchLine DEF RowsGiven, RowsOk, Reversible
<1>4. \A b \in Nat : WrittenOffIn(t, b) = WrittenOffIn(s, b)
  BY <1>2, <1>3 DEF WrittenOffIn, RowsGiven, SameRow
<1> QED BY <1>2, <1>4 DEF LossOf

-----------------------------------------------------------------------------
(***************************************************************************)
(* Prices corrected and lots taken back.                                   *)
(***************************************************************************)
LEMMA LotsTable ==
  ASSUME NEW s \in Ledger, NEW lots, lots = [k \in DOMAIN s.lots |-> lots[k]], \A k \in DOMAIN s.lots : lots[k] \in LotType
  PROVE  lots \in Seq(LotType) /\ DOMAIN lots = DOMAIN s.lots
<1>1. PICK n \in Nat : n = Len(s.lots) /\ DOMAIN s.lots = 1..n
  BY LotsFinite
<1>2. lots = [k \in 1..n |-> lots[k]] /\ \A k \in 1..n : lots[k] \in LotType
  BY <1>1
<1>3. lots \in Seq(LotType) /\ DOMAIN lots = 1..n
  BY ONLY <1>2, Table, n \in Nat
<1> QED BY <1>1, <1>3

\* The lots of K get the price c.
Priced(s, K, c) ==
  [s EXCEPT !.lots = [k \in DOMAIN s.lots |-> [s.lots[k] EXCEPT !.cost = IF k \in K THEN c ELSE @]]]
Repriced(s, v, K) ==
  /\ v \in Ledger /\ v.item = s.item /\ v.rows = s.rows /\ v.batch = s.batch /\ DOMAIN v.lots = DOMAIN s.lots
  /\ \A k \in DOMAIN s.lots :
       /\ v.lots[k].left = s.lots[k].left
       /\ v.lots[k].item = s.lots[k].item /\ v.lots[k].initial = s.lots[k].initial
       /\ v.lots[k].at = s.lots[k].at /\ v.lots[k].purchase = s.lots[k].purchase
       /\ v.lots[k].live <=> s.lots[k].live
       /\ k \notin K => v.lots[k].cost = s.lots[k].cost

LEMMA PricedIs == ASSUME NEW s \in Ledger, NEW K, NEW c \in Nat PROVE Repriced(s, Priced(s, K, c), K)
<1>1. PICK lots : lots = [k \in DOMAIN s.lots |-> [s.lots[k] EXCEPT !.cost = IF k \in K THEN c ELSE @]]
  OBVIOUS
<1>2. ASSUME NEW k \in DOMAIN s.lots
      PROVE  /\ lots[k] \in LotType
             /\ lots[k].left = s.lots[k].left
             /\ lots[k].item = s.lots[k].item /\ lots[k].initial = s.lots[k].initial
             /\ lots[k].at = s.lots[k].at /\ lots[k].purchase = s.lots[k].purchase
             /\ lots[k].live <=> s.lots[k].live
             /\ k \notin K => lots[k].cost = s.lots[k].cost
  <2>1. PICK l, m : l = s.lots[k] /\ m = IF k \in K THEN c ELSE s.lots[k].cost
    OBVIOUS
  <2>2. l \in LotType
    BY <2>1, LotsFinite
  <2>3. m \in Nat
    BY <2>1, <2>2 DEF LotType
  <2>4. lots[k] = [l EXCEPT !.cost = m]
    BY <1>1, <2>1, <2>2 DEF LotType
  <2>5. PICK r : r = [l EXCEPT !.cost = m]
    OBVIOUS
  <2>6. /\ r \in LotType
        /\ r.left = l.left
        /\ r.item = l.item /\ r.initial = l.initial /\ r.cost = m
        /\ r.at = l.at /\ r.purchase = l.purchase
        /\ r.live <=> l.live
    BY ONLY <2>2, <2>3, <2>5 DEF LotType
  <2> QED BY <2>1, <2>4, <2>5, <2>6
<1>3. lots \in Seq(LotType) /\ DOMAIN lots = DOMAIN s.lots
  <2>1. lots = [k \in DOMAIN s.lots |-> lots[k]] /\ \A k \in DOMAIN s.lots : lots[k] \in LotType
    BY <1>1, <1>2
  <2> QED BY <2>1, LotsTable
<1>4. PICK v : v = Priced(s, K, c)
  OBVIOUS
<1>5. v = [s EXCEPT !.lots = lots]
  BY <1>1, <1>4 DEF Priced
<1>6. v \in Ledger /\ v.item = s.item /\ v.rows = s.rows /\ v.batch = s.batch /\ v.lots = lots
  BY <1>3, <1>5 DEF Ledger
<1> QED BY <1>2, <1>3, <1>4, <1>6 DEF Repriced

LEMMA SameStock ==
  ASSUME NEW s, Sound(s), NEW t \in Ledger, t.rows = s.rows, t.batch = s.batch, DOMAIN t.lots = DOMAIN s.lots,
         \A k \in DOMAIN s.lots : /\ t.lots[k].left = s.lots[k].left
                                  /\ t.lots[k].item = s.lots[k].item /\ t.lots[k].initial = s.lots[k].initial
                                  /\ t.lots[k].live <=> s.lots[k].live,
         \A j \in Items : t.item[j].created <=> s.item[j].created
  PROVE  Typed(t) /\ RowsOk(t) /\ LotsOk(t)
<1>1. s \in Ledger
  BY DEF Sound, Typed
<1>2. RowsOk(t)
  <2>1. \A r \in s.rows : r.lot \in DOMAIN s.lots
    BY DEF Sound, RowsOk
  <2>2. \A r \in s.rows : t.lots[r.lot].item = s.lots[r.lot].item
    BY <2>1
  <2> QED BY <2>2 DEF Sound, RowsOk
<1>3. LotsOk(t)
  <2>1. \A k \in DOMAIN s.lots : s.lots[k].item \in Items
    BY <1>1, LotsFinite DEF LotType
  <2>2. \A k \in DOMAIN s.lots : On(t, k) = On(s, k)
    BY DEF On
  <2> SUFFICES ASSUME NEW k \in DOMAIN s.lots
               PROVE  /\ t.lots[k].left = t.lots[k].initial - Sum(Rest, On(t, k))
                      /\ ~t.lots[k].live => On(t, k) = {}
                      /\ t.item[t.lots[k].item].created
    BY DEF LotsOk
  <2> QED BY <2>1, <2>2 DEF Sound, LotsOk
<1> QED BY <1>2, <1>3 DEF Sound, Typed

RepricedKept(s, t) ==
  /\ Sound(t) /\ t.rows = s.rows /\ t.batch = s.batch /\ DOMAIN t.lots = DOMAIN s.lots
  /\ \A k \in DOMAIN s.lots : /\ t.lots[k].purchase = s.lots[k].purchase
                              /\ t.lots[k].live <=> s.lots[k].live
  /\ \A j \in Items : /\ t.item[j].created <=> s.item[j].created
                      /\ t.item[j].deleted <=> s.item[j].deleted

LEMMA RepricedSound ==
  ASSUME NEW s, Sound(s), NEW i \in Items, InStock(s, i), NEW K \in SUBSET OpenLots(s, i), NEW c \in Nat,
         NEW t, t = RecomputeCaches(RecordMovement(Priced(s, K, c), i, 0, s.item[i].qty), i)
  PROVE  RepricedKept(s, t)
<1>1. s \in Ledger /\ BooksOk(s) /\ RowsOk(s) /\ LotsOk(s)
  BY DEF Sound, Typed
<1>2. PICK u : u = Priced(s, K, c)
  OBVIOUS
<1>3. Repriced(s, u, K)
  BY <1>1, <1>2, PricedIs
<1>4. u \in Ledger /\ u.item = s.item /\ u.rows = s.rows /\ u.batch = s.batch
  BY <1>3 DEF Repriced
<1>5. PICK a \in Int : a = s.item[i].qty
  BY <1>1 DEF Ledger, ItemType
<1>6. PICK v : v = RecordMovement(u, i, 0, a)
  OBVIOUS
<1>7. v \in Ledger /\ v.lots = u.lots /\ v.rows = u.rows /\ v.batch = u.batch /\ Noted(s, v, i, 0, a)
  BY <1>4, <1>6, Recorded, RecordedType DEF Noted
<1>8. t = RecomputeCaches(v, i)
  BY <1>2, <1>5, <1>6
<1>9. t \in Ledger /\ t.lots = u.lots /\ t.rows = s.rows /\ t.batch = s.batch /\ Moved(s, t, i, 0, a)
  BY <1>4, <1>7, <1>8, Entered
<1>10. /\ DOMAIN t.lots = DOMAIN s.lots
       /\ \A k \in DOMAIN s.lots :
            /\ t.lots[k].left = s.lots[k].left
            /\ t.lots[k].item = s.lots[k].item /\ t.lots[k].initial = s.lots[k].initial
            /\ t.lots[k].at = s.lots[k].at /\ t.lots[k].purchase = s.lots[k].purchase
            /\ t.lots[k].live <=> s.lots[k].live
            /\ k \notin K => t.lots[k].cost = s.lots[k].cost
  BY <1>3, <1>9 DEF Repriced
<1>11. \A j \in Items : /\ t.item[j].created <=> s.item[j].created
                        /\ t.item[j].deleted <=> s.item[j].deleted
  BY <1>9 DEF Moved
<1>12. Typed(t) /\ RowsOk(t) /\ LotsOk(t)
  <2>1. \A k \in DOMAIN s.lots : /\ t.lots[k].left = s.lots[k].left
                                 /\ t.lots[k].item = s.lots[k].item /\ t.lots[k].initial = s.lots[k].initial
                                 /\ t.lots[k].live <=> s.lots[k].live
    BY <1>10
  <2>2. \A j \in Items : t.item[j].created <=> s.item[j].created
    BY <1>11
  <2> QED BY <1>9, <1>10, <2>1, <2>2, SameStock
<1>14. \A j \in Items : OpenLots(t, j) = OpenLots(s, j) /\ Held(t, j) = Held(s, j)
  BY <1>10 DEF OpenLots, Held
<1>15. \A j \in Items \ {i} : LotQty(t, j) = LotQty(s, j) /\ LotValue(t, j) = LotValue(s, j)
  <2> SUFFICES ASSUME NEW j \in Items \ {i} PROVE LotQty(t, j) = LotQty(s, j) /\ LotValue(t, j) = LotValue(s, j)
    OBVIOUS
  <2>1. \A k \in OpenLots(s, j) : t.lots[k].left = s.lots[k].left /\ t.lots[k].cost = s.lots[k].cost
    BY <1>10 DEF OpenLots
  <2> QED BY <1>1, <1>9, <1>14, <2>1, OtherLots
<1>16. LotQty(t, i) = LotQty(s, i) /\ LotQty(s, i) \in Nat
  <2>1. LotQty(s, i) = Sum(Left(s), Held(s, i)) /\ LotQty(t, i) = Sum(Left(t), Held(t, i)) /\ LotQty(s, i) \in Nat
    BY <1>1, <1>9, HeldQty
  <2>2. IsFiniteSet(Held(s, i)) /\ \A k \in Held(s, i) : Left(t)[k] = Left(s)[k]
    BY <1>1, <1>9, <1>10, LotsFinite DEF Held, Left
  <2> QED BY <1>14, <2>1, <2>2, SumSame
<1>17. BooksOk(t)
  <2>1. s.item[i].qty = LotQty(s, i) /\ s.item[i].created
    BY <1>1 DEF BooksOk, Cached, InStock
  <2>2. LotQty(t, i) = LotQty(s, i) + 0 /\ a = LotQty(t, i)
    BY <1>5, <1>16, <2>1
  <2> QED BY <1>1, <1>9, <1>15, <2>1, <2>2, BooksKept
<1> QED BY <1>9, <1>10, <1>11, <1>12, <1>17 DEF Sound, RepricedKept

\* The lots of K are taken back.
Killed(s, K) == [s EXCEPT !.lots = [k \in DOMAIN s.lots |-> [s.lots[k] EXCEPT !.live = @ /\ k \notin K]]]
Buried(s, v, K) ==
  /\ v \in Ledger /\ v.item = s.item /\ v.rows = s.rows /\ v.batch = s.batch /\ DOMAIN v.lots = DOMAIN s.lots
  /\ \A k \in DOMAIN s.lots :
       /\ v.lots[k].left = s.lots[k].left /\ v.lots[k].cost = s.lots[k].cost
       /\ v.lots[k].item = s.lots[k].item /\ v.lots[k].initial = s.lots[k].initial
       /\ v.lots[k].purchase = s.lots[k].purchase
       /\ v.lots[k].live <=> s.lots[k].live /\ k \notin K

LEMMA KilledIs == ASSUME NEW s \in Ledger, NEW K PROVE Buried(s, Killed(s, K), K)
<1>1. PICK lots : lots = [k \in DOMAIN s.lots |-> [s.lots[k] EXCEPT !.live = @ /\ k \notin K]]
  OBVIOUS
<1>2. ASSUME NEW k \in DOMAIN s.lots
      PROVE  /\ lots[k] \in LotType
             /\ lots[k].left = s.lots[k].left /\ lots[k].cost = s.lots[k].cost
             /\ lots[k].item = s.lots[k].item /\ lots[k].initial = s.lots[k].initial
             /\ lots[k].purchase = s.lots[k].purchase
             /\ lots[k].live <=> s.lots[k].live /\ k \notin K
  <2>1. PICK l : l = s.lots[k]
    OBVIOUS
  <2>2. l \in LotType
    BY <2>1, LotsFinite
  <2>3. PICK m \in BOOLEAN : m = (l.live /\ k \notin K)
    OBVIOUS
  <2>4. lots[k] = [l EXCEPT !.live = m]
    BY <1>1, <2>1, <2>2, <2>3 DEF LotType
  <2>5. PICK r : r = [l EXCEPT !.live = m]
    OBVIOUS
  <2>6. /\ r \in LotType
        /\ r.left = l.left /\ r.cost = l.cost
        /\ r.item = l.item /\ r.initial = l.initial
        /\ r.purchase = l.purchase
        /\ r.live <=> m
    BY ONLY <2>2, <2>3, <2>5 DEF LotType
  <2> QED BY <2>1, <2>3, <2>4, <2>5, <2>6
<1>3. lots \in Seq(LotType) /\ DOMAIN lots = DOMAIN s.lots
  <2>1. lots = [k \in DOMAIN s.lots |-> lots[k]] /\ \A k \in DOMAIN s.lots : lots[k] \in LotType
    BY <1>1, <1>2
  <2> QED BY <2>1, LotsTable
<1>4. PICK v : v = Killed(s, K)
  OBVIOUS
<1>5. v = [s EXCEPT !.lots = lots]
  BY <1>1, <1>4 DEF Killed
<1>6. v \in Ledger /\ v.item = s.item /\ v.rows = s.rows /\ v.batch = s.batch /\ v.lots = lots
  BY <1>3, <1>5 DEF Ledger
<1> QED BY <1>2, <1>3, <1>4, <1>6 DEF Buried

Gone(s, K, i) == SumFunction([k \in {k \in K : s.lots[k].live /\ s.lots[k].item = i} |-> s.lots[k].initial])
Mine(s, K, i) == {k \in K : s.lots[k].live /\ s.lots[k].item = i}

LEMMA GoneIs ==
  ASSUME NEW s \in Ledger, NEW v, NEW K \in SUBSET (DOMAIN s.lots), Buried(s, v, K), NEW i \in Items,
         \A k \in K : s.lots[k].left = s.lots[k].initial
  PROVE  LotQty(s, i) = LotQty(v, i) + Gone(s, K, i) /\ Gone(s, K, i) \in Nat /\ LotQty(v, i) \in Nat
<1>1. PICK A, B, C : A = Held(s, i) /\ B = Held(v, i) /\ C = Mine(s, K, i)
  OBVIOUS
<1>2. A = B \cup C /\ B \cap C = {} /\ A \in SUBSET (DOMAIN s.lots)
  BY <1>1 DEF Held, Mine, Buried
<1>3. IsFiniteSet(A) /\ IsFiniteSet(B) /\ IsFiniteSet(C)
  BY <1>2, LotsFinite
<1>4. \A k \in A : Left(s)[k] \in Int
  BY <1>2, Lefts
<1>5. Sum(Left(s), B \cup C) = Sum(Left(s), B) + Sum(Left(s), C)
  <2>1. \A k \in B \cup C : Left(s)[k] \in Int
    BY <1>2, <1>4
  <2> QED BY <1>2, <1>3, <2>1, SumUnion
<1>6. LotQty(s, i) = Sum(Left(s), A) /\ LotQty(v, i) = Sum(Left(v), B) /\ LotQty(v, i) \in Nat
  BY <1>1, HeldQty DEF Buried
<1>7. Sum(Left(v), B) = Sum(Left(s), B)
  <2>1. \A k \in B : Left(v)[k] = Left(s)[k]
    BY <1>2 DEF Left, Buried
  <2> QED BY <1>3, <2>1, SumSame
<1>8. PICK f : f = [k \in C |-> s.lots[k].initial]
  OBVIOUS
<1>9. Gone(s, K, i) = Sum(f, C)
  BY <1>1, <1>8 DEF Gone, Mine, SumFunction, Sum
<1>10. \A k \in C : f[k] = Left(s)[k] /\ Left(s)[k] \in Nat
  <2> SUFFICES ASSUME NEW k \in C PROVE f[k] = Left(s)[k] /\ Left(s)[k] \in Nat
    OBVIOUS
  <2>1. k \in K /\ k \in DOMAIN s.lots
    BY <1>1 DEF Mine
  <2>2. Left(s)[k] = s.lots[k].left /\ Left(s)[k] \in Nat
    BY <2>1, Lefts
  <2> QED BY <1>8, <2>1, <2>2
<1>11. Sum(f, C) = Sum(Left(s), C)
  BY <1>3, <1>10, SumSame
<1>12. Sum(Left(s), C) \in Nat
  BY <1>3, <1>10, SumType
<1> QED BY <1>2, <1>5, <1>6, <1>7, <1>9, <1>11, <1>12

\* The books of an item some lots of which are taken back.
LostItem(s, v, i, g) ==
  LET u == RecomputeCaches(v, i)
  IN RecordMovement(u, i, -g, IF InStock(u, i) THEN u.item[i].qty ELSE 0).item[i]
Lost(s, v, i, g, rec) ==
  /\ rec \in ItemType
  /\ rec.qty = LotQty(v, i)
  /\ rec.avgCost = IF LotQty(v, i) > 0 THEN RoundDiv(LotValue(v, i), LotQty(v, i)) ELSE 0
  /\ rec.moved = s.item[i].moved - g
  /\ rec.qtyAfter = IF InStock(s, i) THEN rec.qty ELSE 0
  /\ rec.created <=> s.item[i].created
  /\ rec.deleted <=> s.item[i].deleted

LEMMA LostIs ==
  ASSUME NEW s \in Ledger, NEW v \in Ledger, v.item = s.item, NEW i \in Items, NEW g \in Nat
  PROVE  Lost(s, v, i, g, LostItem(s, v, i, g))
<1>1. PICK u : u = RecomputeCaches(v, i)
  OBVIOUS
<1>2. /\ u \in Ledger
      /\ u.item[i].qty = LotQty(v, i)
      /\ u.item[i].avgCost = IF LotQty(v, i) > 0 THEN RoundDiv(LotValue(v, i), LotQty(v, i)) ELSE 0
      /\ u.item[i].moved = v.item[i].moved
      /\ u.item[i].created <=> v.item[i].created
      /\ u.item[i].deleted <=> v.item[i].deleted
  BY <1>1, Recomputed, RecomputedType
<1>3. InStock(u, i) <=> InStock(s, i)
  BY <1>2 DEF InStock
<1>4. u.item[i].qty \in Int /\ s.item[i].moved \in Int
  BY <1>2 DEF Ledger, ItemType
<1>5. PICK a \in Int : a = IF InStock(u, i) THEN u.item[i].qty ELSE 0
  BY <1>4
<1>6. PICK d \in Int : d = -g
  OBVIOUS
<1>7. PICK w : w = RecordMovement(u, i, d, a)
  OBVIOUS
<1>8. /\ w \in Ledger
      /\ w.item[i].qty = u.item[i].qty
      /\ w.item[i].avgCost = u.item[i].avgCost
      /\ w.item[i].moved = u.item[i].moved + d /\ w.item[i].qtyAfter = a
      /\ w.item[i].created <=> u.item[i].created
      /\ w.item[i].deleted <=> u.item[i].deleted
  BY <1>2, <1>7, Recorded, RecordedType
<1>9. w.item[i] \in ItemType
  BY <1>8 DEF Ledger
<1>10. w.item[i].moved = s.item[i].moved - g
  BY <1>2, <1>4, <1>6, <1>8
<1>11. w.item[i].qtyAfter = IF InStock(s, i) THEN w.item[i].qty ELSE 0
  BY <1>3, <1>5, <1>8
<1>12. LostItem(s, v, i, g) = w.item[i]
  BY <1>1, <1>5, <1>6, <1>7 DEF LostItem
<1>13. Lost(s, v, i, g, w.item[i])
  BY <1>2, <1>8, <1>9, <1>10, <1>11 DEF Lost
<1> QED BY <1>12, <1>13

\* The lots K of the items I were never touched and are taken back.
Voids(s, t, K, I) ==
  /\ Sound(s) /\ K \in SUBSET (DOMAIN s.lots) /\ I \in SUBSET Items
  /\ \A k \in K : Untouched(s, k) /\ s.lots[k].item \in I
  /\ \A i \in I : s.item[i].created
  /\ t = VoidLots(s, K, I)
Voided(s, t, K) ==
  /\ Sound(t) /\ t.rows = s.rows /\ t.batch = s.batch /\ DOMAIN t.lots = DOMAIN s.lots
  /\ \A k \in DOMAIN s.lots : /\ t.lots[k].purchase = s.lots[k].purchase
                              /\ t.lots[k].live <=> s.lots[k].live /\ k \notin K
  /\ \A j \in Items : /\ t.item[j].created <=> s.item[j].created
                      /\ t.item[j].deleted <=> s.item[j].deleted

LEMMA VoidedIs ==
  ASSUME NEW s, NEW t, NEW K, NEW I, Voids(s, t, K, I) PROVE Voided(s, t, K)
<1>1. s \in Ledger /\ Typed(s) /\ BooksOk(s) /\ RowsOk(s) /\ LotsOk(s) /\ K \in SUBSET (DOMAIN s.lots) /\ I \in SUBSET Items
  BY DEF Voids, Sound, Typed
<1>2. PICK v : v = Killed(s, K)
  OBVIOUS
<1>3. Buried(s, v, K) /\ v \in Ledger /\ v.item = s.item
  BY <1>1, <1>2, KilledIs DEF Buried
<1>4. PICK X : X = [i \in Items |-> IF i \in I THEN LostItem(s, v, i, Gone(s, K, i)) ELSE s.item[i]]
  OBVIOUS
<1>5. ASSUME NEW i \in Items
      PROVE  LotQty(s, i) = LotQty(v, i) + Gone(s, K, i) /\ Gone(s, K, i) \in Nat /\ LotQty(v, i) \in Nat
  <2>1. \A k \in K : s.lots[k].left = s.lots[k].initial
    BY DEF Voids, Untouched
  <2> QED BY <1>1, <1>3, <2>1, GoneIs
<1>6. ASSUME NEW i \in I PROVE Lost(s, v, i, Gone(s, K, i), X[i])
  BY <1>1, <1>3, <1>4, <1>5, LostIs
<1>7. X \in [Items -> ItemType]
  <2>1. \A i \in I : X[i] \in ItemType
    BY <1>6 DEF Lost
  <2>2. \A i \in Items : i \notin I => X[i] \in ItemType
    BY <1>1, <1>4 DEF Ledger
  <2> QED BY <1>4, <2>1, <2>2
<1>8. t = [v EXCEPT !.item = X]
  <2>1. X = [i \in Items |-> IF i \in I THEN LostItem(s, v, i, Gone(s, K, i)) ELSE v.item[i]]
    BY <1>3, <1>4
  <2> QED BY <1>2, <2>1 DEF Voids, VoidLots, Killed, LostItem, Gone
<1>9. t \in Ledger /\ t.item = X /\ t.lots = v.lots /\ t.rows = s.rows /\ t.batch = s.batch
  BY <1>3, <1>7, <1>8 DEF Ledger, Buried
<1>10. \A j \in Items : /\ t.item[j].created <=> s.item[j].created
                        /\ t.item[j].deleted <=> s.item[j].deleted
  <2> SUFFICES ASSUME NEW j \in Items
               PROVE  /\ t.item[j].created <=> s.item[j].created
                      /\ t.item[j].deleted <=> s.item[j].deleted
    OBVIOUS
  <2>1. CASE j \in I
    BY <1>6, <1>9, <2>1 DEF Lost
  <2>2. CASE j \notin I
    BY <1>4, <1>9, <2>2
  <2> QED BY <2>1, <2>2
<1>11. /\ DOMAIN t.lots = DOMAIN s.lots
       /\ \A k \in DOMAIN s.lots :
            /\ t.lots[k].left = s.lots[k].left /\ t.lots[k].cost = s.lots[k].cost
            /\ t.lots[k].item = s.lots[k].item /\ t.lots[k].initial = s.lots[k].initial
            /\ t.lots[k].purchase = s.lots[k].purchase
            /\ t.lots[k].live <=> s.lots[k].live /\ k \notin K
  BY <1>3, <1>9 DEF Buried
<1>12. Typed(t)
  BY <1>1, <1>9 DEF Typed
<1>13. RowsOk(t)
  <2>1. \A r \in s.rows : r.lot \in DOMAIN s.lots
    BY <1>1 DEF RowsOk
  <2>2. \A r \in s.rows : t.lots[r.lot].item = s.lots[r.lot].item
    BY <1>11, <2>1
  <2> QED BY <1>1, <1>9, <1>11, <2>2 DEF RowsOk
<1>14. LotsOk(t)
  <2> SUFFICES ASSUME NEW k \in DOMAIN s.lots
               PROVE  /\ t.lots[k].left = t.lots[k].initial - Sum(Rest, On(t, k))
                      /\ ~t.lots[k].live => On(t, k) = {}
                      /\ t.item[t.lots[k].item].created
    BY <1>11 DEF LotsOk
  <2>1. s.lots[k].item \in Items
    BY <1>1, LotsFinite DEF LotType
  <2>2. On(t, k) = On(s, k)
    BY <1>9 DEF On
  <2>3. k \in K => On(s, k) = {}
    BY DEF Voids, Untouched, On
  <2> QED BY <1>1, <1>10, <1>11, <2>1, <2>2, <2>3 DEF LotsOk
<1>15. ASSUME NEW j \in Items PROVE Cached(t, j) /\ Journalled(t, j)
  <2>1. LotQty(t, j) = LotQty(v, j) /\ LotValue(t, j) = LotValue(v, j)
    BY <1>9, SameLots
  <2>2. Cached(s, j) /\ Journalled(s, j)
    BY <1>1 DEF BooksOk
  <2>3. CASE j \in I
    <3>1. Lost(s, v, j, Gone(s, K, j), t.item[j])
      BY <1>6, <1>9, <2>3
    <3>2. Cached(t, j)
      BY <2>1, <3>1 DEF Lost, Cached
    <3>3. t.item[j].created
      BY <1>10, <2>3 DEF Voids
    <3>4. ASSUME InStock(t, j) PROVE t.item[j].qty = t.item[j].moved /\ t.item[j].qty = t.item[j].qtyAfter
      <4>1. InStock(s, j)
        BY <1>10, <3>4 DEF InStock
      <4>2. s.item[j].moved = LotQty(s, j)
        BY <2>2, <4>1 DEF Cached, Journalled
      <4>3. PICK a, b \in Nat : a = LotQty(v, j) /\ b = Gone(s, K, j)
        BY <1>5
      <4>4. s.item[j].moved = a + b
        BY <1>5, <4>2, <4>3
      <4>5. t.item[j].moved = a + b - b /\ t.item[j].qty = a
        BY <3>1, <4>3, <4>4 DEF Lost
      <4> QED BY <3>1, <4>1, <4>5 DEF Lost
    <3> QED BY <3>2, <3>3, <3>4 DEF Journalled
  <2>4. CASE j \notin I
    <3>1. OpenLots(t, j) = OpenLots(s, j)
      BY <1>11, <2>4 DEF OpenLots, Voids
    <3>2. \A k \in OpenLots(s, j) : t.lots[k].left = s.lots[k].left /\ t.lots[k].cost = s.lots[k].cost
      BY <1>11 DEF OpenLots
    <3>3. LotQty(t, j) = LotQty(s, j) /\ LotValue(t, j) = LotValue(s, j)
      BY <1>1, <1>9, <3>1, <3>2, OtherLots
    <3>4. t.item[j] = s.item[j]
      BY <1>4, <1>9, <2>4
    <3> QED BY <2>2, <3>3, <3>4 DEF Cached, Journalled, InStock
  <2> QED BY <2>3, <2>4
<1>16. Sound(t)
  BY <1>12, <1>13, <1>14, <1>15 DEF Sound, BooksOk
<1> QED BY <1>9, <1>10, <1>11, <1>16 DEF Voided

-----------------------------------------------------------------------------
(***************************************************************************)
(* The inductive invariant.                                                *)
(***************************************************************************)
\* A lot is live as long as the purchase it came with.
Bought(s, p) ==
  /\ p \in Seq(BOOLEAN)
  /\ \A k \in DOMAIN s.lots : /\ s.lots[k].purchase \in 0..Len(p)
                              /\ s.lots[k].live <=> s.lots[k].purchase = 0 \/ p[s.lots[k].purchase]

\* What a line has out can be reversed, unless its item is gone.
Known(s, i) == s.item[i].created => ~s.item[i].deleted
Returnable(s, o, l) ==
  IF l \in LegacyLines THEN o[l] - ReversibleQty(s, l) \in {0, 1} ELSE o[l] = ReversibleQty(s, l)
Delivered(s, o) == o \in [Lines -> Nat] /\ \A l \in Lines : Known(s, ItemOf[l]) => Returnable(s, o, l)

Booked(s, x) == x = Sum(LossOf(s), 1..s.batch)

Inv(s, p, x, o) == Sound(s) /\ Bought(s, p) /\ Booked(s, x) /\ Delivered(s, o)

LEMMA SameRows ==
  ASSUME NEW s, NEW t, NEW o, NEW x, t.rows = s.rows, t.batch = s.batch,
         \A i \in Items : Known(t, i) => Known(s, i)
  PROVE  (Delivered(s, o) => Delivered(t, o)) /\ (Booked(s, x) => Booked(t, x))
         /\ \A l : ReversibleQty(t, l) = ReversibleQty(s, l)
<1>1. \A l : Reversible(t, l) = Reversible(s, l)
  BY DEF Reversible
<1>2. \A l : ReversibleQty(t, l) = ReversibleQty(s, l)
  BY <1>1 DEF ReversibleQty
<1>3. \A b : WrittenOffIn(t, b) = WrittenOffIn(s, b)
  BY DEF WrittenOffIn
<1>4. LossOf(t) = LossOf(s)
  BY <1>3 DEF LossOf
<1>5. \A l \in Lines : ItemOf[l] \in Items
  BY WarehouseAssumption
<1>6. \A l \in Lines : Returnable(s, o, l) => Returnable(t, o, l)
  BY <1>2 DEF Returnable
<1> QED BY <1>2, <1>4, <1>5, <1>6 DEF Delivered, Booked

LEMMA BoughtMore ==
  ASSUME NEW s, NEW p, Bought(s, p)
  PROVE  /\ Bought(s, Append(p, TRUE)) /\ Len(Append(p, TRUE)) = Len(p) + 1 /\ Append(p, TRUE)[Len(p) + 1] = TRUE
         /\ Len(p) \in Nat
<1>1. p \in Seq(BOOLEAN)
  BY DEF Bought
<1>2. PICK n \in Nat : n = Len(p)
  BY <1>1
<1>3. PICK q : q = Append(p, TRUE)
  OBVIOUS
<1>4. q \in Seq(BOOLEAN) /\ Len(q) = n + 1 /\ q[n + 1] = TRUE /\ \A m \in 1..n : q[m] = p[m]
  BY <1>1, <1>2, <1>3
<1>5. ASSUME NEW k \in DOMAIN s.lots
      PROVE  /\ s.lots[k].purchase \in 0..Len(q)
             /\ s.lots[k].live <=> s.lots[k].purchase = 0 \/ q[s.lots[k].purchase]
  <2>1. /\ s.lots[k].purchase \in 0..n
        /\ s.lots[k].live <=> s.lots[k].purchase = 0 \/ p[s.lots[k].purchase]
    BY <1>2 DEF Bought
  <2>2. CASE s.lots[k].purchase = 0
    BY <1>4, <2>1, <2>2
  <2>3. CASE s.lots[k].purchase \in 1..n
    <3>1. q[s.lots[k].purchase] = p[s.lots[k].purchase]
      BY <1>4, <2>3
    <3> QED BY <1>4, <2>1, <2>3, <3>1
  <2> QED BY <2>1, <2>2, <2>3
<1>6. Bought(s, q)
  BY <1>4, <1>5 DEF Bought
<1> QED BY <1>2, <1>3, <1>4, <1>6

\* Nothing but the lots changed.
SameBut(s, t) ==
  /\ t.rows = s.rows /\ t.batch = s.batch
  /\ \A j \in Items : /\ t.item[j].created <=> s.item[j].created
                      /\ t.item[j].deleted <=> s.item[j].deleted

LEMMA ReceivedInv ==
  ASSUME NEW s, NEW p, NEW x, NEW o, Inv(s, p, x, o), NEW i \in Items, s.item[i].created,
         NEW qty \in Nat, qty # 0, NEW cost \in Nat, NEW at \in Nat, NEW n \in 0..Len(p), n = 0 \/ p[n],
         NEW sup \in Owners, NEW t, t = ReceiveLot(s, i, qty, cost, at, n, sup)
  PROVE  Inv(t, p, x, o) /\ SameBut(s, t)
<1>0. s \in Ledger /\ p \in Seq(BOOLEAN) /\ n \in Nat
  BY DEF Inv, Sound, Typed, Bought
<1>1. Arrived(s, t, i, qty, LotMade(i, qty, cost, at, n, sup))
  BY <1>0, Received1
<1>2. PICK lot : lot = LotMade(i, qty, cost, at, n, sup)
  OBVIOUS
<1>3. /\ t.lots = Append(s.lots, lot) /\ t.rows = s.rows /\ t.batch = s.batch
      /\ \A j \in Items : /\ t.item[j].created <=> s.item[j].created
                          /\ t.item[j].deleted <=> s.item[j].deleted
  BY <1>1, <1>2 DEF Arrived, Moved
<1>4. lot.purchase = n /\ lot.live
  BY <1>2 DEF LotMade
<1>5. Sound(t)
  BY <1>0, ReceivedSound DEF Inv
<1>6. \A k \in DOMAIN t.lots : (k \in DOMAIN s.lots /\ t.lots[k] = s.lots[k]) \/ t.lots[k] = lot
  <2>1. s.lots \in Seq(LotType)
    BY <1>0 DEF Ledger
  <2> QED BY <1>3, <2>1
<1>7. Bought(t, p)
  <2> SUFFICES ASSUME NEW k \in DOMAIN t.lots
               PROVE  /\ t.lots[k].purchase \in 0..Len(p)
                      /\ t.lots[k].live <=> t.lots[k].purchase = 0 \/ p[t.lots[k].purchase]
    BY <1>0 DEF Bought
  <2>1. CASE k \in DOMAIN s.lots /\ t.lots[k] = s.lots[k]
    BY <2>1 DEF Inv, Bought
  <2>2. CASE t.lots[k] = lot
    BY <1>4, <2>2
  <2> QED BY <1>6, <2>1, <2>2
<1>8. \A j \in Items : Known(t, j) => Known(s, j)
  BY <1>3 DEF Known
<1>9. Delivered(t, o) /\ Booked(t, x)
  BY <1>3, <1>8, SameRows DEF Inv
<1> QED BY <1>3, <1>5, <1>7, <1>9 DEF Inv, SameBut

\* One more batch.
LEMMA BookedMore ==
  ASSUME NEW s, Sound(s), NEW t, Sound(t), NEW x, Booked(s, x), t.batch = s.batch + 1, s.batch \in Nat,
         \A b \in 1..s.batch : LossOf(t)[b] = LossOf(s)[b]
  PROVE  Booked(t, x + LossOf(t)[t.batch]) /\ x \in Int
<1>1. PICK n \in Nat : n = s.batch
  OBVIOUS
<1>2. PICK e, f : e = LossOf(s) /\ f = LossOf(t)
  OBVIOUS
<1>3. 1..(n + 1) = (1..n) \cup {n + 1} /\ n + 1 \notin 1..n /\ IsFiniteSet(1..n)
  <2>1. 1..(n + 1) = (1..n) \cup {n + 1} /\ n + 1 \notin 1..n
    BY ONLY n \in Nat
  <2>2. n \in Int /\ 1 \in Int
    OBVIOUS
  <2> QED BY <2>1, <2>2, FS_Interval
<1>4. \A b \in Nat : e[b] \in Int /\ f[b] \in Int
  BY <1>2, LossType DEF Sound
<1>5. Sum(f, (1..n) \cup {n + 1}) = f[n + 1] + Sum(f, 1..n)
  <2>1. \A b \in (1..n) \cup {n + 1} : f[b] \in Int
    BY <1>4
  <2> QED BY <1>3, <2>1, SumPut
<1>6. Sum(f, 1..n) = Sum(e, 1..n)
  <2>1. \A b \in 1..n : f[b] = e[b]
    BY <1>1, <1>2
  <2> QED BY <1>3, <2>1, SumSame
<1>7. Sum(e, 1..n) \in Int
  <2>1. \A b \in 1..n : e[b] \in Int
    BY <1>4
  <2> QED BY <1>3, <2>1, SumType
<1>8. x = Sum(e, 1..n)
  BY <1>1, <1>2 DEF Booked
<1>9. Sum(f, 1..(n + 1)) = x + f[n + 1]
  <2>1. n + 1 \in Nat
    OBVIOUS
  <2>2. PICK a, b, c \in Int : a = Sum(e, 1..n) /\ b = f[n + 1] /\ c = x
    BY <1>4, <1>7, <1>8, <2>1
  <2>3. Sum(f, 1..(n + 1)) = b + a /\ c = a
    BY <1>3, <1>5, <1>6, <1>8, <2>2
  <2> QED BY <2>2, <2>3
<1> QED BY <1>1, <1>2, <1>7, <1>8, <1>9 DEF Booked

\* The losses and the deliveries after a consumption.
LossesAfter(s, x, i, sup, need, kind) ==
  IF kind = "WRITE_OFF" THEN x + RoundDiv(PlanCost(s, i, sup, need), MoneyUnit) ELSE x
OutAfter(o, dest, need) == IF dest \in Lines THEN [o EXCEPT ![dest] = @ + need] ELSE o

LEMMA ConsumedInv ==
  ASSUME NEW s, NEW t, NEW p, NEW x, NEW o, Inv(s, p, x, o), NEW i \in Items, NEW sup, NEW need \in Nat,
         NEW dest \in Outlets, NEW kind \in RowKinds, Consumes(s, t, i, sup, need, dest, kind)
  PROVE  Inv(t, p, LossesAfter(s, x, i, sup, need, kind), OutAfter(o, dest, need))
<1> PICK y, u : /\ y = LossesAfter(s, x, i, sup, need, kind) /\ u = OutAfter(o, dest, need)
  OBVIOUS
<1>1. Sound(s) /\ Sound(t)
  BY ConsumedSound DEF Inv
<1>2. PICK T, N : ConsumedFacts(s, t, i, T, N, need, dest, kind)
  BY ConsumingIs
<1>3. Alike(s, t) /\ Moved(s, t, i, -need, s.item[i].qty - need)
  BY <1>2 DEF ConsumedFacts
<1>4. Bought(t, p)
  BY <1>3 DEF Alike, Inv, Bought
<1>5. Booked(t, y)
  <2>1. /\ t.batch = s.batch + 1 /\ s.batch \in Nat
        /\ \A b \in 1..s.batch : LossOf(t)[b] = LossOf(s)[b]
        /\ LossOf(t)[t.batch] = IF kind = "WRITE_OFF" THEN RoundDiv(PlanCost(s, i, sup, need), MoneyUnit) ELSE 0
    BY ConsumedLoss
  <2>2. Booked(t, x + LossOf(t)[t.batch]) /\ x \in Int
    BY <1>1, <2>1, BookedMore DEF Inv
  <2> QED BY <2>1, <2>2 DEF LossesAfter
<1>6. \A j \in Items : Known(t, j) => Known(s, j)
  BY <1>3 DEF Moved, Known
<1>7. o \in [Lines -> Nat]
  BY DEF Inv, Delivered
<1>8. u \in [Lines -> Nat] /\ \A l \in Lines : u[l] = o[l] + (IF l = dest THEN need ELSE 0) /\ o[l] \in Nat
  BY <1>7, NoSuchLine DEF OutAfter
<1>9. ASSUME NEW l \in Lines, Known(t, ItemOf[l]) PROVE Returnable(t, u, l)
  <2>1. Returnable(s, o, l)
    BY <1>6, <1>9, WarehouseAssumption DEF Inv, Delivered
  <2>2. (l = dest => ReversibleQty(t, l) = ReversibleQty(s, l) + need) /\ (l # dest => ReversibleQty(t, l) = ReversibleQty(s, l))
    BY ConsumedLines
  <2>3. ReversibleQty(s, l) \in Nat
    BY <1>1, ReversibleIs DEF Sound
  <2>4. PICK a, b, c, d \in Nat : a = ReversibleQty(s, l) /\ b = ReversibleQty(t, l) /\ c = o[l] /\ d = u[l]
    BY <1>8, <2>2, <2>3
  <2>5. d - b = c - a
    BY <1>8, <2>2, <2>4
  <2> QED BY <2>1, <2>4, <2>5 DEF Returnable
<1>10. Delivered(t, u)
  BY <1>8, <1>9 DEF Delivered
<1> QED BY <1>1, <1>4, <1>5, <1>10 DEF Inv

LEMMA ReversedInv ==
  ASSUME NEW s, NEW t, NEW p, NEW x, NEW o, Inv(s, p, x, o), NEW i \in Items, NEW dest \in Lines, NEW qty \in Nat,
         Reverses(s, t, i, dest, qty), qty <= o[dest], NEW u, u = [o EXCEPT ![dest] = @ - qty]
  PROVE  Inv(t, p, x, u)
<1>1. Sound(s) /\ Sound(t)
  BY ReversedSound DEF Inv
<1>2. PICK G, M, H : ReversedFacts(s, t, i, G, M, H, dest, qty)
  BY ReversingIs
<1>3. Alike(s, t) /\ Moved(s, t, i, qty, s.item[i].qty + qty)
  BY <1>2 DEF ReversedFacts
<1>4. Bought(t, p)
  BY <1>3 DEF Alike, Inv, Bought
<1>5. Booked(t, x)
  <2>1. t.batch = s.batch /\ \A b \in Nat : LossOf(t)[b] = LossOf(s)[b]
    BY ReversedLoss
  <2>2. LossOf(t) = LossOf(s)
    BY <2>1 DEF LossOf
  <2> QED BY <2>1, <2>2 DEF Inv, Booked
<1>6. \A j \in Items : Known(t, j) => Known(s, j)
  BY <1>3 DEF Moved, Known
<1>7. o \in [Lines -> Nat]
  BY DEF Inv, Delivered
<1>8. u \in [Lines -> Nat] /\ \A l \in Lines : u[l] = o[l] - (IF l = dest THEN qty ELSE 0) /\ o[l] \in Nat
  BY <1>7
<1>9. ASSUME NEW l \in Lines, Known(t, ItemOf[l]) PROVE Returnable(t, u, l)
  <2>1. Returnable(s, o, l)
    BY <1>6, <1>9, WarehouseAssumption DEF Inv, Delivered
  <2>2. (l = dest => ReversibleQty(s, l) = ReversibleQty(t, l) + qty) /\ (l # dest => ReversibleQty(s, l) = ReversibleQty(t, l))
    BY ReversedLines
  <2>3. ReversibleQty(s, l) \in Nat /\ ReversibleQty(t, l) \in Nat
    BY <1>1, ReversibleIs DEF Sound
  <2>4. PICK a, b, c, d \in Nat : a = ReversibleQty(s, l) /\ b = ReversibleQty(t, l) /\ c = o[l] /\ d = u[l]
    BY <1>8, <2>3
  <2>5. d - b = c - a
    BY <1>8, <2>2, <2>4
  <2> QED BY <2>1, <2>4, <2>5 DEF Returnable
<1>10. Delivered(t, u)
  BY <1>8, <1>9 DEF Delivered
<1> QED BY <1>1, <1>4, <1>5, <1>10 DEF Inv

-----------------------------------------------------------------------------
(***************************************************************************)
(* The discipline of one step.                                             *)
(***************************************************************************)
Fifo(s, t) ==
  /\ \A r \in t.rows : r.batch > s.batch /\ r.kind # "RETURN_SUPPLIER" =>
       \A j \in OpenLots(s, s.lots[r.lot].item) : ReceivedBefore(s, j, r.lot) => t.lots[j].left = 0
  /\ \A q, r \in s.rows :
       q.line = r.line /\ r \notin t.rows /\ q.batch > r.batch => [q EXCEPT !.back = q.qty] \in t.rows

\* No row comes, no row goes.
LEMMA FifoSame == ASSUME NEW s, Sound(s), NEW t, t.rows = s.rows PROVE Fifo(s, t)
<1>1. \A r \in s.rows : r.batch \in 1..s.batch
  BY DEF Sound, RowsOk
<1>2. s.batch \in Nat
  BY DEF Sound, Typed, Ledger
<1>3. \A r \in t.rows : ~(r.batch > s.batch)
  BY <1>1, <1>2
<1> QED BY <1>3 DEF Fifo

LEMMA FifoConsumed ==
  ASSUME NEW s, NEW t, NEW i \in Items, NEW sup, NEW need \in Nat, NEW dest \in Outlets, NEW kind \in RowKinds,
         Consumes(s, t, i, sup, need, dest, kind), sup = Nobody \/ kind = "RETURN_SUPPLIER"
  PROVE  Fifo(s, t)
<1>1. PICK T, N : ConsumedFacts(s, t, i, T, N, need, dest, kind)
  BY ConsumingIs
<1>2. t.rows = s.rows \cup N /\ \A r \in N : r.kind = kind
  BY <1>1 DEF ConsumedFacts
<1>3. (\A r \in s.rows : r.batch \in 1..s.batch) /\ s.batch \in Nat
  BY DEF Consumes, Sound, RowsOk, Typed, Ledger
<1>4. ASSUME NEW r \in t.rows, r.batch > s.batch, r.kind # "RETURN_SUPPLIER",
             NEW j \in OpenLots(s, s.lots[r.lot].item), ReceivedBefore(s, j, r.lot)
      PROVE  t.lots[j].left = 0
  <2>1. r \in N
    BY <1>2, <1>3, <1>4
  <2>2. sup = Nobody
    BY <1>2, <1>4, <2>1
  <2>3. Consumes(s, t, i, Nobody, need, dest, kind)
    BY <2>2
  <2> QED BY <1>4, <2>3, ConsumedOrder
<1> QED BY <1>2, <1>4 DEF Fifo

LEMMA FifoReversed ==
  ASSUME NEW s, NEW t, NEW i \in Items, NEW dest, NEW qty \in Nat, Reverses(s, t, i, dest, qty)
  PROVE  Fifo(s, t)
<1>1. t.batch = s.batch
  BY ReversedLoss
<1>2. Sound(t)
  BY ReversedSound
<1>3. \A r \in t.rows : ~(r.batch > s.batch)
  BY <1>1, <1>2 DEF Sound, RowsOk, Typed, Ledger
<1>4. ASSUME NEW q \in s.rows, NEW r \in s.rows, q.line = r.line, r \notin t.rows, q.batch > r.batch
      PROVE  [q EXCEPT !.back = q.qty] \in t.rows
  BY <1>4, ReversedOrder
<1> QED BY <1>3, <1>4 DEF Fifo

\* A void request names a purchase that exists.
PendingOk ==
  /\ pending \in [Handlers -> Requests \cup {Idle}]
  /\ \A h \in Handlers : Doing(h, "void") => pending[h].purchase \in DOMAIN purchases

IInv == Inv(stock, purchases, losses, out) /\ PendingOk

LEMMA RequestFacts ==
  ASSUME PendingOk, NEW h \in Handlers
  PROVE  /\ Doing(h, "remove") \/ Doing(h, "archive") => pending[h].item \in Items
         /\ Doing(h, "void") => pending[h].purchase \in DOMAIN purchases
  BY DEF PendingOk, Doing, Requests

\* The record of an item with other flags.
Marked(old, new) ==
  /\ new \in ItemType
  /\ new.qty = old.qty /\ new.avgCost = old.avgCost /\ new.moved = old.moved /\ new.qtyAfter = old.qtyAfter
  /\ old.created => new.created
  /\ old.deleted => new.deleted

FlaggedAs(s, t, i, new) == Flagged(s, t) /\ t.item[i] = new /\ \A j \in Items \ {i} : t.item[j] = s.item[j]

LEMMA FlagIs ==
  ASSUME NEW s \in Ledger, NEW i \in Items, NEW new, Marked(s.item[i], new)
  PROVE  FlaggedAs(s, [s EXCEPT !.item[i] = new], i, new)
<1> PICK t : t = [s EXCEPT !.item[i] = new]
  OBVIOUS
<1>1. /\ t \in Ledger /\ t.lots = s.lots /\ t.rows = s.rows /\ t.batch = s.batch
      /\ t.item[i] = new /\ \A j \in Items \ {i} : t.item[j] = s.item[j]
  BY DEF Ledger, Marked
<1>2. ASSUME NEW j \in Items
      PROVE  /\ t.item[j].qty = s.item[j].qty /\ t.item[j].avgCost = s.item[j].avgCost
             /\ t.item[j].moved = s.item[j].moved /\ t.item[j].qtyAfter = s.item[j].qtyAfter
             /\ s.item[j].created => t.item[j].created
             /\ s.item[j].deleted => t.item[j].deleted
  BY <1>1 DEF Marked
<1> QED BY <1>1, <1>2 DEF Flagged, FlaggedAs

LEMMA FlaggedInv ==
  ASSUME NEW s, NEW t, NEW p, NEW x, NEW o, Inv(s, p, x, o), Flagged(s, t), \A j \in Items : Known(t, j) => Known(s, j)
  PROVE  Inv(t, p, x, o)
<1>1. t.lots = s.lots /\ t.rows = s.rows /\ t.batch = s.batch
  BY DEF Flagged
<1>2. Sound(t)
  BY FlaggedSound DEF Inv
<1>3. Bought(t, p)
  BY <1>1 DEF Inv, Bought
<1>4. Delivered(t, o) /\ Booked(t, x)
  BY <1>1, SameRows DEF Inv
<1> QED BY <1>2, <1>3, <1>4 DEF Inv

LEMMA CreateKeeps ==
  ASSUME IInv, NEW i \in Items, NEW qty \in Nat, NEW cost \in Costs, Create(i, qty, cost)
  PROVE  IInv' /\ Fifo(stock, stock')
<1>0. Inv(stock, purchases, losses, out) /\ stock \in Ledger
  BY DEF IInv, Inv, Sound, Typed
<1>1. PICK s : s = [stock EXCEPT !.item[i].created = TRUE]
  OBVIOUS
<1>2. /\ ~stock.item[i].created /\ UNCHANGED <<purchases, losses, out, pending>>
      /\ stock' = IF qty > 0 THEN ReceiveLot(s, i, qty, cost, Now(s), 0, Nobody) ELSE s
  BY <1>1 DEF Create
<1>3. PICK old, new : old = stock.item[i] /\ new = [old EXCEPT !.created = TRUE]
  OBVIOUS
<1>4. old \in ItemType
  BY <1>0, <1>3 DEF Ledger
<1>5. Marked(old, new) /\ new.created /\ (new.deleted <=> old.deleted)
  BY <1>3, <1>4 DEF ItemType, Marked
<1>6. Flagged(stock, s) /\ s.item[i] = new /\ s.item[i].created /\ \A j \in Items \ {i} : s.item[j] = stock.item[j]
  <2>1. s = [stock EXCEPT !.item[i] = new]
    BY <1>1, <1>3
  <2>2. Marked(stock.item[i], new)
    BY <1>3, <1>5
  <2>3. FlaggedAs(stock, [stock EXCEPT !.item[i] = new], i, new)
    BY <1>0, <2>2, FlagIs
  <2>4. FlaggedAs(stock, s, i, new)
    BY <2>1, <2>3
  <2> QED BY <1>5, <2>4 DEF FlaggedAs
<1>7. \A j \in Items : Known(s, j) => Known(stock, j)
  BY <1>2, <1>3, <1>5, <1>6 DEF Known
<1>8. Inv(s, purchases, losses, out)
  BY <1>0, <1>6, <1>7, FlaggedInv
<1>9. Inv(stock', purchases, losses, out) /\ stock'.rows = stock.rows
  <2>1. CASE qty > 0
    <3>1. stock' = ReceiveLot(s, i, qty, cost, Now(s), 0, Nobody)
      BY <1>2, <2>1
    <3>2. s \in Ledger /\ purchases \in Seq(BOOLEAN)
      BY <1>8 DEF Inv, Sound, Typed, Bought
    <3>3. Now(s) \in Nat /\ 0 \in 0..Len(purchases) /\ Nobody \in Owners /\ cost \in Nat
      BY <3>2, WarehouseAssumption, LotsFinite DEF Now, Owners
    <3>4. Inv(stock', purchases, losses, out) /\ SameBut(s, stock')
      BY <1>6, <1>8, <2>1, <3>1, <3>3, ReceivedInv
    <3> QED BY <1>6, <3>4 DEF Flagged, SameBut
  <2>2. CASE ~(qty > 0)
    BY <1>2, <1>6, <1>8, <2>2 DEF Flagged
  <2> QED BY <2>1, <2>2
<1>10. Fifo(stock, stock')
  BY <1>0, <1>9, FifoSame DEF Inv
<1> QED BY <1>2, <1>9, <1>10 DEF IInv, PendingOk, Doing

LEMMA AdjustDownKeeps ==
  ASSUME IInv, NEW i \in Items, NEW newQty \in Nat, AdjustDown(i, newQty)
  PROVE  IInv' /\ Fifo(stock, stock')
<1>0. Inv(stock, purchases, losses, out) /\ stock \in Ledger /\ Sound(stock)
  BY DEF IInv, Inv, Sound, Typed
<1>1. PICK need : need = stock.item[i].qty - newQty
  OBVIOUS
<1>2. /\ InStock(stock, i) /\ need > 0 /\ Enough(stock, i, need)
      /\ stock' = ConsumeLots(stock, i, Nobody, need, NoLine, "ADJUSTMENT")
      /\ UNCHANGED <<purchases, losses, out, pending>>
  BY <1>1 DEF AdjustDown
<1>3. need \in Nat
  BY <1>0, <1>1, <1>2 DEF Ledger, ItemType
<1>4. NoLine \in Outlets /\ NoLine \notin Lines /\ "ADJUSTMENT" \in RowKinds
  BY NoSuchLine DEF Outlets, RowKinds
<1>5. Consumes(stock, stock', i, Nobody, need, NoLine, "ADJUSTMENT")
  BY <1>0, <1>2, <1>4 DEF Consumes, Enough
<1>6. LossesAfter(stock, losses, i, Nobody, need, "ADJUSTMENT") = losses /\ OutAfter(out, NoLine, need) = out
  BY <1>4 DEF LossesAfter, OutAfter
<1>7. Inv(stock', purchases, LossesAfter(stock, losses, i, Nobody, need, "ADJUSTMENT"), OutAfter(out, NoLine, need))
  BY <1>0, <1>3, <1>4, <1>5, ConsumedInv
<1>8. Fifo(stock, stock')
  BY <1>3, <1>4, <1>5, FifoConsumed
<1> QED BY <1>2, <1>6, <1>7, <1>8 DEF IInv, PendingOk, Doing

LEMMA SupplierReturnKeeps ==
  ASSUME IInv, NEW i \in Items, NEW qty \in Nat, NEW sup, SupplierReturn(i, qty, sup)
  PROVE  IInv' /\ Fifo(stock, stock')
<1>0. Inv(stock, purchases, losses, out) /\ Sound(stock)
  BY DEF IInv, Inv
<1>2. /\ InStock(stock, i) /\ Enough(stock, i, qty)
      /\ stock' = ConsumeLots(stock, i, sup, qty, NoLine, "RETURN_SUPPLIER")
      /\ UNCHANGED <<purchases, losses, out, pending>>
  BY DEF SupplierReturn
<1>4. NoLine \in Outlets /\ NoLine \notin Lines /\ "RETURN_SUPPLIER" \in RowKinds
  BY NoSuchLine DEF Outlets, RowKinds
<1>5. Consumes(stock, stock', i, sup, qty, NoLine, "RETURN_SUPPLIER")
  BY <1>0, <1>2, <1>4 DEF Consumes, Enough
<1>6. LossesAfter(stock, losses, i, sup, qty, "RETURN_SUPPLIER") = losses /\ OutAfter(out, NoLine, qty) = out
  BY <1>4 DEF LossesAfter, OutAfter
<1>7. Inv(stock', purchases, LossesAfter(stock, losses, i, sup, qty, "RETURN_SUPPLIER"), OutAfter(out, NoLine, qty))
  BY <1>0, <1>4, <1>5, ConsumedInv
<1>8. Fifo(stock, stock')
  BY <1>4, <1>5, FifoConsumed
<1> QED BY <1>2, <1>6, <1>7, <1>8 DEF IInv, PendingOk, Doing

LEMMA WriteOffKeeps ==
  ASSUME IInv, NEW i \in Items, NEW qty \in Nat, WriteOff(i, qty)
  PROVE  IInv' /\ Fifo(stock, stock')
<1>0. Inv(stock, purchases, losses, out) /\ Sound(stock)
  BY DEF IInv, Inv
<1>1. PICK y : y = losses + RoundDiv(PlanCost(stock, i, Nobody, qty), MoneyUnit)
  OBVIOUS
<1>2. /\ InStock(stock, i) /\ Enough(stock, i, qty)
      /\ stock' = ConsumeLots(stock, i, Nobody, qty, NoLine, "WRITE_OFF")
      /\ losses' = y
      /\ UNCHANGED <<purchases, out, pending>>
  BY <1>1 DEF WriteOff
<1>4. NoLine \in Outlets /\ NoLine \notin Lines /\ "WRITE_OFF" \in RowKinds
  BY NoSuchLine DEF Outlets, RowKinds
<1>5. Consumes(stock, stock', i, Nobody, qty, NoLine, "WRITE_OFF")
  BY <1>0, <1>2, <1>4 DEF Consumes, Enough
<1>6. LossesAfter(stock, losses, i, Nobody, qty, "WRITE_OFF") = y /\ OutAfter(out, NoLine, qty) = out
  BY <1>1, <1>4 DEF LossesAfter, OutAfter
<1>7. Inv(stock', purchases, LossesAfter(stock, losses, i, Nobody, qty, "WRITE_OFF"), OutAfter(out, NoLine, qty))
  BY <1>0, <1>4, <1>5, ConsumedInv
<1>8. Fifo(stock, stock')
  BY <1>4, <1>5, FifoConsumed
<1> QED BY <1>2, <1>6, <1>7, <1>8 DEF IInv, PendingOk, Doing

LEMMA SellKeeps ==
  ASSUME IInv, NEW l \in Lines, NEW qty \in Nat, Sell(l, qty)
  PROVE  IInv' /\ Fifo(stock, stock')
<1>0. Inv(stock, purchases, losses, out) /\ Sound(stock)
  BY DEF IInv, Inv
<1>1. PICK u : u = [out EXCEPT ![l] = @ + qty]
  OBVIOUS
<1>2. /\ InStock(stock, ItemOf[l]) /\ Enough(stock, ItemOf[l], qty)
      /\ stock' = ConsumeLots(stock, ItemOf[l], Nobody, qty, l, "SALE")
      /\ out' = u
      /\ UNCHANGED <<purchases, losses, pending>>
  BY <1>1 DEF Sell
<1>4. l \in Outlets /\ "SALE" \in RowKinds /\ ItemOf[l] \in Items
  BY WarehouseAssumption DEF Outlets, RowKinds
<1>5. Consumes(stock, stock', ItemOf[l], Nobody, qty, l, "SALE")
  BY <1>0, <1>2, <1>4 DEF Consumes, Enough
<1>6. LossesAfter(stock, losses, ItemOf[l], Nobody, qty, "SALE") = losses /\ OutAfter(out, l, qty) = u
  BY <1>1, <1>4 DEF LossesAfter, OutAfter
<1>7. Inv(stock', purchases, LossesAfter(stock, losses, ItemOf[l], Nobody, qty, "SALE"), OutAfter(out, l, qty))
  BY <1>0, <1>4, <1>5, ConsumedInv
<1>8. Fifo(stock, stock')
  BY <1>4, <1>5, FifoConsumed
<1> QED BY <1>2, <1>6, <1>7, <1>8 DEF IInv, PendingOk, Doing

LEMMA AdjustUpKeeps ==
  ASSUME IInv, NEW i \in Items, NEW newQty \in Nat, NEW cost \in Costs \cup {-1}, AdjustUp(i, newQty, cost)
  PROVE  IInv' /\ Fifo(stock, stock')
<1>0. Inv(stock, purchases, losses, out) /\ stock \in Ledger /\ purchases \in Seq(BOOLEAN)
  BY DEF IInv, Inv, Sound, Typed, Bought
<1>1. PICK delta, c : delta = newQty - stock.item[i].qty /\ c = IF cost >= 0 THEN cost ELSE stock.item[i].avgCost
  OBVIOUS
<1>2. /\ InStock(stock, i) /\ delta > 0
      /\ stock' = ReceiveLot(stock, i, delta, c, Now(stock), 0, Nobody)
      /\ UNCHANGED <<purchases, losses, out, pending>>
  BY <1>1 DEF AdjustUp
<1>3. delta \in Nat /\ delta # 0
  BY <1>0, <1>1, <1>2 DEF Ledger, ItemType
<1>4. c \in Nat
  BY <1>0, <1>1, WarehouseAssumption DEF Ledger, ItemType
<1>5. Now(stock) \in Nat /\ 0 \in 0..Len(purchases) /\ Nobody \in Owners
  BY <1>0, LotsFinite DEF Now, Owners
<1>6. stock.item[i].created
  BY <1>2 DEF InStock
<1>7. Inv(stock', purchases, losses, out) /\ SameBut(stock, stock')
  BY <1>0, <1>2, <1>3, <1>4, <1>5, <1>6, ReceivedInv
<1>8. Fifo(stock, stock')
  BY <1>0, <1>7, FifoSame DEF Inv, SameBut
<1> QED BY <1>2, <1>7, <1>8 DEF IInv, PendingOk, Doing

LEMMA SetCostKeeps ==
  ASSUME IInv, NEW i \in Items, NEW cost \in Costs, SetCost(i, cost)
  PROVE  IInv' /\ Fifo(stock, stock')
<1>0. Inv(stock, purchases, losses, out) /\ Sound(stock)
  BY DEF IInv, Inv
<1>1. PICK K : K = {k \in OpenLots(stock, i) : stock.lots[k].cost = 0}
  OBVIOUS
<1>2. /\ InStock(stock, i) /\ UNCHANGED <<purchases, losses, out, pending>>
      /\ stock' = RecomputeCaches(RecordMovement(Priced(stock, K, cost), i, 0, stock.item[i].qty), i)
  BY <1>1 DEF SetCost, Priced
<1>3. cost \in Nat /\ K \in SUBSET OpenLots(stock, i)
  BY <1>1, WarehouseAssumption
<1>4. RepricedKept(stock, stock')
  BY <1>0, <1>2, <1>3, RepricedSound
<1>5. Bought(stock', purchases)
  BY <1>0, <1>4 DEF Inv, Bought, RepricedKept
<1>6. \A j \in Items : Known(stock', j) => Known(stock, j)
  BY <1>4 DEF Known, RepricedKept
<1>7. Delivered(stock', out) /\ Booked(stock', losses)
  BY <1>0, <1>4, <1>6, SameRows DEF Inv, RepricedKept
<1>8. Fifo(stock, stock')
  BY <1>0, <1>4, FifoSame DEF RepricedKept
<1> QED BY <1>2, <1>4, <1>5, <1>7, <1>8 DEF IInv, Inv, PendingOk, Doing, RepricedKept

LEMMA RegisterKeeps ==
  ASSUME IInv, NEW i \in Items, NEW qty \in Nat, qty # 0, NEW cost \in Costs, NEW at \in Nat, NEW sup \in Owners,
         Register(i, qty, cost, at, sup)
  PROVE  IInv' /\ Fifo(stock, stock')
<1>0. Inv(stock, purchases, losses, out)
  BY DEF IInv
<1>1. PICK p, n : p = Append(purchases, TRUE) /\ n = Len(purchases) + 1
  OBVIOUS
<1>2. /\ InStock(stock, i)
      /\ stock' = ReceiveLot(stock, i, qty, cost, at, n, sup) /\ purchases' = p
      /\ UNCHANGED <<losses, out, pending>>
  BY <1>1 DEF Register
<1>3. Bought(stock, p) /\ Len(p) = n /\ p[n] = TRUE /\ Len(purchases) \in Nat
  BY <1>0, <1>1, BoughtMore DEF Inv
<1>4. Inv(stock, p, losses, out)
  BY <1>0, <1>3 DEF Inv
<1>5. n \in 0..Len(p) /\ p[n] /\ cost \in Nat /\ stock.item[i].created
  BY <1>1, <1>2, <1>3, WarehouseAssumption DEF InStock
<1>6. Inv(stock', p, losses, out) /\ SameBut(stock, stock')
  BY <1>2, <1>4, <1>5, ReceivedInv
<1>7. DOMAIN purchases \subseteq DOMAIN p
  BY <1>0, <1>1 DEF Inv, Bought
<1>8. PendingOk'
  BY <1>2, <1>7 DEF IInv, PendingOk, Doing
<1>9. Fifo(stock, stock')
  BY <1>0, <1>6, FifoSame DEF Inv, SameBut
<1> QED BY <1>2, <1>6, <1>8, <1>9 DEF IInv

LEMMA RegisterTwoKeeps ==
  ASSUME IInv, NEW i \in Items, NEW j \in Items, NEW qty \in Nat, qty # 0, NEW cost \in Costs, NEW at \in Nat,
         NEW sup \in Owners, RegisterTwo(i, j, qty, cost, at, sup)
  PROVE  IInv' /\ Fifo(stock, stock')
<1>0. Inv(stock, purchases, losses, out)
  BY DEF IInv
<1>1. PICK p, n : p = Append(purchases, TRUE) /\ n = Len(purchases) + 1
  OBVIOUS
<1>a. PICK s : s = ReceiveLot(stock, i, qty, cost, at, n, sup)
  OBVIOUS
<1>2. /\ InStock(stock, i) /\ InStock(stock, j)
      /\ stock' = ReceiveLot(s, j, qty, cost, at, n, sup) /\ purchases' = p
      /\ UNCHANGED <<losses, out, pending>>
  BY <1>1, <1>a DEF RegisterTwo
<1>3. Bought(stock, p) /\ Len(p) = n /\ p[n] = TRUE /\ Len(purchases) \in Nat
  BY <1>0, <1>1, BoughtMore DEF Inv
<1>4. Inv(stock, p, losses, out)
  BY <1>0, <1>3 DEF Inv
<1>5. n \in 0..Len(p) /\ p[n] /\ cost \in Nat /\ stock.item[i].created /\ stock.item[j].created
  BY <1>1, <1>2, <1>3, WarehouseAssumption DEF InStock
<1>6. Inv(s, p, losses, out) /\ SameBut(stock, s)
  BY <1>a, <1>4, <1>5, ReceivedInv
<1>7. Inv(stock', p, losses, out) /\ SameBut(s, stock')
  <2>1. s.item[j].created
    BY <1>5, <1>6 DEF SameBut
  <2> QED BY <1>2, <1>5, <1>6, <2>1, ReceivedInv
<1>8. DOMAIN purchases \subseteq DOMAIN p
  BY <1>0, <1>1 DEF Inv, Bought
<1>9. PendingOk'
  BY <1>2, <1>8 DEF IInv, PendingOk, Doing
<1>10. Fifo(stock, stock')
  BY <1>0, <1>6, <1>7, FifoSame DEF Inv, SameBut
<1> QED BY <1>2, <1>7, <1>9, <1>10 DEF IInv

\* The price of a sale is a price.
LEMMA SnapshotType ==
  ASSUME NEW s, Sound(s), NEW l PROVE UnitCostAtSaleFor(s, l) \in Nat \/ UnitCostAtSaleFor(s, l) = -1
<1>1. Typed(s) /\ RowsOk(s) /\ RowsOf(s, l) \in SUBSET s.rows /\ IsFiniteSet(RowsOf(s, l))
  BY FS_Subset DEF Sound, RowsOf, Typed
<1>2. PICK e, f : e = [r \in RowsOf(s, l) |-> Remaining(r)] /\ f = [r \in RowsOf(s, l) |-> Remaining(r) * r.cost]
  OBVIOUS
<1>3. (\A r \in RowsOf(s, l) : e[r] \in Nat) /\ (\A r \in RowsOf(s, l) : f[r] \in Nat)
  <2>1. ASSUME NEW r \in RowsOf(s, l) PROVE e[r] \in Nat /\ f[r] \in Nat
    <3>1. r \in s.rows /\ e[r] = Remaining(r) /\ f[r] = Remaining(r) * r.cost
      BY <1>1, <1>2
    <3>2. Rest[r] = Remaining(r) /\ Rest[r] \in Nat /\ Worth[r] = Remaining(r) * r.cost /\ Worth[r] \in Nat
      BY <1>1, <3>1, RestType, WorthType
    <3> QED BY <3>1, <3>2
  <2> QED BY <2>1
<1>4. Sum(e, RowsOf(s, l)) \in Nat /\ Sum(f, RowsOf(s, l)) \in Nat
  BY <1>1, <1>3, SumType
<1>5. NetQty(s, l) \in Nat /\ NetCost(s, l) \in Nat
  BY <1>2, <1>4 DEF NetQty, NetCost, SumFunction, Sum
<1> QED BY <1>5, Rounded DEF UnitCostAtSaleFor

LEMMA TakeBackKeeps ==
  ASSUME IInv, NEW l \in Lines, NEW qty \in Nat, qty # 0, TakeBack(l, qty)
  PROVE  IInv' /\ Fifo(stock, stock')
<1>0. Inv(stock, purchases, losses, out) /\ Sound(stock) /\ stock \in Ledger /\ out \in [Lines -> Nat] /\ purchases \in Seq(BOOLEAN)
  BY DEF IInv, Inv, Sound, Typed, Delivered, Bought
<1>1. PICK u, i, c : u = [out EXCEPT ![l] = @ - qty] /\ i = ItemOf[l] /\ c = UnitCostAtSaleFor(stock, l)
  OBVIOUS
<1>2. /\ qty <= out[l] /\ stock.item[i].created /\ ~ReturnFails(stock, i, l, qty)
      /\ stock' = ReturnUnits(stock, i, l, qty, c) /\ out' = u
      /\ UNCHANGED <<purchases, losses, pending>>
  BY <1>1 DEF TakeBack
<1>3. i \in Items
  BY <1>1, WarehouseAssumption
<1>4. u \in [Lines -> Nat] /\ u[l] = out[l] - qty /\ \A m \in Lines \ {l} : u[m] = out[m]
  BY <1>0, <1>1, <1>2
<1>5. Inv(stock', purchases, losses, u) /\ Fifo(stock, stock')
  <2>1. CASE ~NoConsumptions(stock, i, l)
    <3>1. stock' = ReverseConsumption(stock, i, l, qty) /\ InStock(stock, i) /\ qty <= ReversibleQty(stock, l)
      <4>1. ReversibleQty(stock, l) \in Nat
        BY <1>0, ReversibleIs DEF Sound
      <4> QED BY <1>2, <2>1, <4>1 DEF ReturnUnits, ReturnFails, NoConsumptions
    <3>2. Reverses(stock, stock', i, l, qty)
      BY <1>0, <1>1, <3>1 DEF Reverses
    <3>3. Inv(stock', purchases, losses, u)
      BY <1>0, <1>1, <1>2, <1>3, <3>2, ReversedInv
    <3> QED BY <1>3, <3>2, <3>3, FifoReversed
  <2>2. CASE NoConsumptions(stock, i, l) /\ InStock(stock, i)
    <3>1. PICK price : price = IF c >= 0 THEN c ELSE stock.item[i].avgCost
      OBVIOUS
    <3>2. stock' = ReceiveLot(stock, i, qty, price, Now(stock), 0, Nobody)
      BY <1>2, <2>2, <3>1 DEF ReturnUnits, Restock
    <3>3. price \in Nat
      <4>1. c \in Nat \/ c = -1
        BY <1>0, <1>1, SnapshotType
      <4>2. stock.item[i].avgCost \in Nat
        BY <1>0, <1>3 DEF Ledger, ItemType
      <4> QED BY <3>1, <4>1, <4>2
    <3>4. Now(stock) \in Nat /\ 0 \in 0..Len(purchases) /\ Nobody \in Owners
      BY <1>0, LotsFinite DEF Now, Owners
    <3>5. Inv(stock', purchases, losses, out) /\ SameBut(stock, stock')
      BY <1>0, <1>2, <1>3, <3>2, <3>3, <3>4, ReceivedInv
    <3>6. ReversibleQty(stock', l) = 0
      <4>1. Reversible(stock', l) = {}
        BY <2>2, <3>5 DEF NoConsumptions, Reversible, SameBut
      <4> QED BY <3>5, <4>1, ReversibleIs DEF Inv, Sound
    <3>7. Returnable(stock', out, l)
      <4>1. Known(stock', i)
        BY <1>3, <2>2, <3>5 DEF Known, InStock, SameBut
      <4> QED BY <1>1, <3>5, <4>1 DEF Inv, Delivered
    <3>8. Returnable(stock', u, l)
      <4>1. PICK a, b \in Nat : a = out[l] /\ b = u[l]
        BY <1>0, <1>4
      <4>2. a - b = qty
        BY <1>4, <4>1
      <4> QED BY <3>6, <3>7, <4>1, <4>2 DEF Returnable
    <3>9. \A m \in Lines \ {l} : Returnable(stock', out, m) => Returnable(stock', u, m)
      BY <1>4 DEF Returnable
    <3>10. Fifo(stock, stock')
      BY <1>0, <3>5, FifoSame DEF SameBut
    <3> QED BY <1>4, <3>5, <3>8, <3>9, <3>10 DEF Inv, Delivered
  <2>3. CASE ~InStock(stock, i)
    <3>1. stock' = RecordMovement(stock, i, qty, qty)
      BY <1>2, <2>3 DEF ReturnUnits, NoConsumptions, Restock
    <3>2. Sound(stock') /\ stock'.lots = stock.lots /\ stock'.rows = stock.rows /\ stock'.batch = stock.batch
      BY <1>0, <1>2, <1>3, <2>3, <3>1, BareSound
    <3>3. \A j \in Items : /\ stock'.item[j].created <=> stock.item[j].created
                           /\ stock'.item[j].deleted <=> stock.item[j].deleted
      BY <1>0, <1>3, <3>1, Recorded
    <3>4. Bought(stock', purchases)
      BY <1>0, <3>2 DEF Inv, Bought
    <3>5. \A j \in Items : Known(stock', j) => Known(stock, j)
      BY <3>3 DEF Known
    <3>6. Delivered(stock', out) /\ Booked(stock', losses)
      BY <1>0, <3>2, <3>5, SameRows DEF Inv
    <3>7. ~Known(stock', i)
      BY <1>2, <1>3, <2>3, <3>3 DEF Known, InStock
    <3>8. \A m \in Lines \ {l} : Returnable(stock', out, m) => Returnable(stock', u, m)
      BY <1>4 DEF Returnable
    <3>9. Delivered(stock', u)
      BY <1>1, <1>4, <3>6, <3>7, <3>8 DEF Delivered
    <3>10. Fifo(stock, stock')
      BY <1>0, <3>2, FifoSame
    <3> QED BY <3>2, <3>4, <3>6, <3>9, <3>10 DEF Inv
  <2> QED BY <2>1, <2>2, <2>3 DEF NoConsumptions
<1> QED BY <1>2, <1>5 DEF IInv, PendingOk, Doing

\* A handler that is done asks for nothing.
LEMMA DoneOk ==
  ASSUME PendingOk, NEW h \in Handlers, Done(h), DOMAIN purchases \subseteq DOMAIN purchases'
  PROVE  PendingOk'
<1>1. pending' = [pending EXCEPT ![h] = Idle] /\ pending \in [Handlers -> Requests \cup {Idle}]
  BY DEF Done, PendingOk
<1>2. pending' \in [Handlers -> Requests \cup {Idle}]
  BY <1>1
<1>3. ASSUME NEW g \in Handlers, pending'[g] # Idle, pending'[g].op = "void"
      PROVE  pending'[g].purchase \in DOMAIN purchases'
  <2>1. g # h /\ pending'[g] = pending[g]
    BY <1>1, <1>3
  <2> QED BY <1>3, <2>1 DEF PendingOk, Doing
<1> QED BY <1>2, <1>3 DEF PendingOk, Doing

LEMMA BeginKeeps ==
  ASSUME IInv, NEW h \in Handlers, NEW req \in Requests, Begin(h, req)
  PROVE  IInv' /\ Fifo(stock, stock')
<1>1. Inv(stock', purchases', losses', out')
  BY DEF Begin, IInv
<1>2. pending' = [pending EXCEPT ![h] = req] /\ pending \in [Handlers -> Requests \cup {Idle}] /\ purchases' = purchases
  BY DEF Begin, IInv, PendingOk
<1>3. pending' \in [Handlers -> Requests \cup {Idle}]
  BY <1>2
<1>4. req.op = "void" => req.purchase \in DOMAIN purchases
  BY DEF Begin, Admits
<1>5. ASSUME NEW g \in Handlers, pending'[g] # Idle, pending'[g].op = "void"
      PROVE  pending'[g].purchase \in DOMAIN purchases'
  <2>1. CASE g = h
    BY <1>2, <1>4, <1>5, <2>1
  <2>2. CASE g # h
    <3>1. pending'[g] = pending[g]
      BY <1>2, <2>2
    <3> QED BY <1>2, <1>5, <3>1 DEF IInv, PendingOk, Doing
  <2> QED BY <2>1, <2>2
<1>6. Fifo(stock, stock')
  BY FifoSame DEF Begin, IInv, Inv
<1> QED BY <1>1, <1>3, <1>5, <1>6 DEF IInv, PendingOk, Doing

\* An item of the stock gets other flags.
LEMMA FlagKeeps ==
  ASSUME IInv, NEW i \in Items, NEW new, Marked(stock.item[i], new), stock' = [stock EXCEPT !.item[i] = new],
         new.created => stock.item[i].created, UNCHANGED <<purchases, losses, out>>, PendingOk'
  PROVE  IInv' /\ Fifo(stock, stock')
<1>1. Inv(stock, purchases, losses, out) /\ stock \in Ledger
  BY DEF IInv, Inv, Sound, Typed
<1>2. FlaggedAs(stock, [stock EXCEPT !.item[i] = new], i, new)
  BY <1>1, FlagIs
<1>3. FlaggedAs(stock, stock', i, new)
  BY <1>2
<1>4. \A j \in Items : Known(stock', j) => Known(stock, j)
  BY <1>3 DEF FlaggedAs, Known, Marked
<1>5. Inv(stock', purchases, losses, out)
  BY <1>1, <1>3, <1>4, FlaggedInv DEF FlaggedAs
<1>6. Fifo(stock, stock')
  BY <1>1, <1>3, FifoSame DEF FlaggedAs, Flagged, Inv
<1> QED BY <1>5, <1>6 DEF IInv

LEMMA RemoveKeeps == ASSUME IInv, NEW h \in Handlers, Remove(h) PROVE IInv' /\ Fifo(stock, stock')
<1>1. PICK i, old, new : i = pending[h].item /\ old = stock.item[i] /\ new = [old EXCEPT !.deleted = TRUE]
  OBVIOUS
<1>2. i \in Items
  BY <1>1, RequestFacts DEF Remove, IInv
<1>3. old \in ItemType
  BY <1>1, <1>2 DEF IInv, Inv, Sound, Typed, Ledger
<1>4. Marked(old, new) /\ (new.created <=> old.created)
  BY <1>1, <1>3 DEF Marked, ItemType
<1>5. stock' = [stock EXCEPT !.item[i] = new] /\ UNCHANGED <<purchases, losses, out>> /\ Done(h)
  BY <1>1 DEF Remove
<1>6. PendingOk'
  BY <1>5, DoneOk DEF IInv
<1> QED BY <1>1, <1>2, <1>4, <1>5, <1>6, FlagKeeps

LEMMA ArchiveKeeps == ASSUME IInv, NEW h \in Handlers, Archive(h) PROVE IInv' /\ Fifo(stock, stock')
<1>1. PICK i, old, new : i = pending[h].item /\ old = stock.item[i] /\ new = [old EXCEPT !.archived = TRUE]
  OBVIOUS
<1>2. i \in Items
  BY <1>1, RequestFacts DEF Archive, IInv
<1>3. old \in ItemType
  BY <1>1, <1>2 DEF IInv, Inv, Sound, Typed, Ledger
<1>4. Marked(old, new) /\ (new.created <=> old.created)
  BY <1>1, <1>3 DEF Marked, ItemType
<1>5. stock' = [stock EXCEPT !.item[i] = new] /\ UNCHANGED <<purchases, losses, out>> /\ Done(h)
  BY <1>1 DEF Archive
<1>6. PendingOk'
  BY <1>5, DoneOk DEF IInv
<1> QED BY <1>1, <1>2, <1>4, <1>5, <1>6, FlagKeeps

LEMMA UnarchiveKeeps == ASSUME IInv, NEW i \in Items, Unarchive(i) PROVE IInv' /\ Fifo(stock, stock')
<1>1. PICK old, new : old = stock.item[i] /\ new = [old EXCEPT !.archived = FALSE]
  OBVIOUS
<1>3. old \in ItemType
  BY <1>1 DEF IInv, Inv, Sound, Typed, Ledger
<1>4. Marked(old, new) /\ (new.created <=> old.created)
  BY <1>1, <1>3 DEF Marked, ItemType
<1>5. stock' = [stock EXCEPT !.item[i] = new] /\ UNCHANGED <<purchases, losses, out, pending>>
  BY <1>1 DEF Unarchive
<1>6. PendingOk'
  BY <1>5 DEF IInv, PendingOk, Doing
<1> QED BY <1>1, <1>4, <1>5, <1>6, FlagKeeps

LEMMA VoidPurchaseKeeps == ASSUME IInv, NEW h \in Handlers, VoidPurchase(h) PROVE IInv' /\ Fifo(stock, stock')
<1>0. Inv(stock, purchases, losses, out) /\ Sound(stock) /\ stock \in Ledger /\ purchases \in Seq(BOOLEAN) /\ LotsOk(stock)
  BY DEF IInv, Inv, Sound, Typed, Bought
<1>1. PICK p, u : p = pending[h].purchase /\ u = [purchases EXCEPT ![p] = FALSE]
  OBVIOUS
<1>2. PICK K, I : /\ K = {k \in DOMAIN stock.lots : stock.lots[k].purchase = p /\ stock.lots[k].live}
                  /\ I = {stock.lots[k].item : k \in {k \in DOMAIN stock.lots : stock.lots[k].purchase = p}}
  OBVIOUS
<1>3. /\ Doing(h, "void") /\ Done(h) /\ UNCHANGED <<losses, out>>
      /\ \/ (\A k \in K : Untouched(stock, k)) /\ stock' = VoidLots(stock, K, I) /\ purchases' = u
         \/ UNCHANGED <<stock, purchases>>
  BY <1>1, <1>2 DEF VoidPurchase
<1>4. p \in DOMAIN purchases
  BY <1>1, <1>3 DEF IInv, PendingOk
<1>5. u \in Seq(BOOLEAN) /\ DOMAIN u = DOMAIN purchases /\ Len(u) = Len(purchases) /\ u[p] = FALSE
      /\ \A n \in DOMAIN purchases : n # p => u[n] = purchases[n]
  BY <1>0, <1>1, <1>4
<1>6. PendingOk'
  <2>1. DOMAIN purchases \subseteq DOMAIN purchases'
    BY <1>3, <1>5
  <2> QED BY <1>3, <2>1, DoneOk DEF IInv
<1>7. CASE UNCHANGED <<stock, purchases>>
  <2>1. Fifo(stock, stock')
    BY <1>0, <1>7, FifoSame
  <2> QED BY <1>0, <1>3, <1>6, <1>7, <2>1 DEF IInv
<1>8. CASE (\A k \in K : Untouched(stock, k)) /\ stock' = VoidLots(stock, K, I) /\ purchases' = u
  <2>1. Voids(stock, stock', K, I)
    <3>1. K \in SUBSET (DOMAIN stock.lots) /\ \A k \in K : stock.lots[k].item \in I
      BY <1>2
    <3>2. \A k \in DOMAIN stock.lots : stock.lots[k].item \in Items /\ stock.item[stock.lots[k].item].created
      BY <1>0, LotsFinite DEF LotType, LotsOk
    <3>3. I \in SUBSET Items /\ \A i \in I : stock.item[i].created
      BY <1>2, <3>2
    <3> QED BY <1>0, <1>8, <3>1, <3>3 DEF Voids
  <2>2. Voided(stock, stock', K)
    BY <2>1, VoidedIs
  <2>3. Bought(stock', u)
    <3>1. ASSUME NEW k \in DOMAIN stock.lots
          PROVE  /\ stock'.lots[k].purchase \in 0..Len(u)
                 /\ stock'.lots[k].live <=> stock'.lots[k].purchase = 0 \/ u[stock'.lots[k].purchase]
      <4>1. /\ stock'.lots[k].purchase = stock.lots[k].purchase
            /\ stock'.lots[k].live <=> stock.lots[k].live /\ k \notin K
        BY <2>2 DEF Voided
      <4>2. /\ stock.lots[k].purchase \in 0..Len(purchases)
            /\ stock.lots[k].live <=> stock.lots[k].purchase = 0 \/ purchases[stock.lots[k].purchase]
        BY <1>0 DEF Inv, Bought
      <4>3. PICK n : n = stock.lots[k].purchase
        OBVIOUS
      <4>4. CASE n = p
        <5>1. n # 0 /\ u[n] = FALSE
          BY <1>0, <1>4, <1>5, <4>4
        <5>2. ~stock'.lots[k].live
          BY <1>2, <4>1, <4>3, <4>4
        <5> QED BY <1>5, <4>1, <4>2, <4>3, <5>1, <5>2
      <4>5. CASE n # p
        <5>1. k \notin K
          BY <1>2, <4>3, <4>5
        <5>2. n = 0 \/ u[n] = purchases[n]
          BY <1>0, <1>5, <4>2, <4>3, <4>5
        <5> QED BY <1>5, <4>1, <4>2, <4>3, <5>1, <5>2
      <4> QED BY <4>4, <4>5
    <3> QED BY <1>5, <2>2, <3>1 DEF Bought, Voided
  <2>4. \A j \in Items : Known(stock', j) => Known(stock, j)
    BY <2>2 DEF Known, Voided
  <2>5. Delivered(stock', out) /\ Booked(stock', losses)
    BY <1>0, <2>2, <2>4, SameRows DEF Inv, Voided
  <2>6. Fifo(stock, stock')
    BY <1>0, <2>2, FifoSame DEF Voided
  <2> QED BY <1>3, <1>6, <1>8, <2>2, <2>3, <2>5, <2>6 DEF IInv, Inv, Voided
<1> QED BY <1>3, <1>7, <1>8

LEMMA InitInv == Init => IInv
<1> SUFFICES ASSUME Init PROVE IInv
  OBVIOUS
<1>1. PICK s : s = EmptyStock
  OBVIOUS
<1>2. /\ stock = s /\ purchases = <<>> /\ losses = 0 /\ pending = [h \in Handlers |-> Idle]
      /\ out = [l \in Lines |-> IF l \in LegacyLines THEN 1 ELSE 0]
  BY <1>1 DEF Init
<1>3. PICK rec : rec = [qty |-> 0, avgCost |-> 0, moved |-> 0, qtyAfter |-> 0, created |-> FALSE, deleted |-> FALSE, archived |-> FALSE]
  OBVIOUS
<1>4. rec \in ItemType /\ rec.qty = 0 /\ rec.avgCost = 0 /\ rec.moved = 0 /\ rec.qtyAfter = 0 /\ ~rec.created
  BY <1>3 DEF ItemType
<1>5. s = [item |-> [i \in Items |-> rec], lots |-> <<>>, rows |-> {}, batch |-> 0]
  BY <1>1, <1>3 DEF EmptyStock
<1>6. s \in Ledger /\ s.lots = <<>> /\ s.rows = {} /\ s.batch = 0 /\ \A i \in Items : s.item[i] = rec
  <2>1. <<>> \in Seq(LotType) /\ {} \in SUBSET RowType /\ [i \in Items |-> rec] \in [Items -> ItemType] /\ 0 \in Nat
    BY <1>4
  <2> QED BY <1>5, <2>1 DEF Ledger
<1>7. DOMAIN s.lots = {}
  BY <1>6
<1>8. Typed(s)
  BY <1>6, FS_EmptySet DEF Typed
<1>9. RowsOk(s) /\ LotsOk(s)
  BY <1>6, <1>7 DEF RowsOk, LotsOk
<1>10. ASSUME NEW i \in Items PROVE Cached(s, i) /\ Journalled(s, i)
  <2>1. Held(s, i) = {}
    BY <1>7 DEF Held
  <2>2. LotQty(s, i) = 0
    BY <1>6, <2>1, HeldQty, SumEmpty
  <2> QED BY <1>4, <1>6, <2>2 DEF Cached, Journalled, InStock
<1>11. Sound(s)
  BY <1>8, <1>9, <1>10 DEF Sound, BooksOk
<1>12. Bought(s, <<>>)
  BY <1>7 DEF Bought
<1>13. Booked(s, 0)
  <2>1. 1..0 = {}
    OBVIOUS
  <2> QED BY <1>6, <2>1, SumEmpty DEF Booked
<1>14. Delivered(s, out)
  <2>1. ASSUME NEW l \in Lines PROVE Returnable(s, out, l)
    <3>1. Reversible(s, l) = {}
      BY <1>6 DEF Reversible
    <3>2. ReversibleQty(s, l) = 0
      BY <1>8, <1>9, <3>1, ReversibleIs
    <3> QED BY <1>2, <3>2 DEF Returnable
  <2>2. out \in [Lines -> Nat]
    BY <1>2
  <2> QED BY <2>1, <2>2 DEF Delivered
<1>15. PendingOk
  BY <1>2 DEF PendingOk, Doing
<1> QED BY <1>2, <1>11, <1>12, <1>13, <1>14, <1>15 DEF IInv, Inv

LEMMA Amounts ==
  /\ \A n \in 0..MaxQty : n \in Nat
  /\ \A n \in Qtys : n \in Nat /\ n # 0
  BY WarehouseAssumption DEF Qtys

LEMMA NextKeeps == IInv /\ Next => IInv' /\ Fifo(stock, stock')
<1> SUFFICES ASSUME IInv, Next PROVE IInv' /\ Fifo(stock, stock')
  OBVIOUS
<1>1. ASSUME NEW i \in Items, NEW qty \in 0..MaxQty, NEW cost \in Costs, Create(i, qty, cost) PROVE IInv' /\ Fifo(stock, stock')
  BY <1>1, Amounts, CreateKeeps
<1>2. ASSUME NEW i \in Items, NEW qty \in 0..MaxQty, AdjustDown(i, qty) PROVE IInv' /\ Fifo(stock, stock')
  BY <1>2, Amounts, AdjustDownKeeps
<1>3. ASSUME NEW i \in Items, NEW qty \in 0..MaxQty, NEW cost \in Costs \cup {-1}, AdjustUp(i, qty, cost)
      PROVE  IInv' /\ Fifo(stock, stock')
  BY <1>3, Amounts, AdjustUpKeeps
<1>4. ASSUME NEW i \in Items, NEW qty \in Qtys, WriteOff(i, qty) PROVE IInv' /\ Fifo(stock, stock')
  BY <1>4, Amounts, WriteOffKeeps
<1>5. ASSUME NEW i \in Items, NEW cost \in Costs, SetCost(i, cost) PROVE IInv' /\ Fifo(stock, stock')
  BY <1>5, SetCostKeeps
<1>6. ASSUME NEW i \in Items, NEW qty \in Qtys, NEW cost \in Costs, NEW at \in 0..Now(stock), NEW sup \in Suppliers \cup {Nobody},
             Register(i, qty, cost, at, sup)
      PROVE  IInv' /\ Fifo(stock, stock')
  <2>1. at \in Nat /\ sup \in Owners
    <3>1. stock \in Ledger
      BY DEF IInv, Inv, Sound, Typed
    <3> QED BY <3>1, LotsFinite DEF Now, Owners
  <2> QED BY <1>6, <2>1, Amounts, RegisterKeeps
<1>7. ASSUME NEW i \in Items, NEW j \in Items, NEW qty \in Qtys, NEW cost \in Costs, RegisterTwo(i, j, qty, cost, Now(stock), Nobody)
      PROVE  IInv' /\ Fifo(stock, stock')
  <2>1. Now(stock) \in Nat /\ Nobody \in Owners
    <3>1. stock \in Ledger
      BY DEF IInv, Inv, Sound, Typed
    <3> QED BY <3>1, LotsFinite DEF Now, Owners
  <2> QED BY <1>7, <2>1, Amounts, RegisterTwoKeeps
<1>8. ASSUME NEW l \in Lines, NEW qty \in Qtys, Sell(l, qty) PROVE IInv' /\ Fifo(stock, stock')
  BY <1>8, Amounts, SellKeeps
<1>9. ASSUME NEW l \in Lines, NEW qty \in Qtys, TakeBack(l, qty) PROVE IInv' /\ Fifo(stock, stock')
  BY <1>9, Amounts, TakeBackKeeps
<1>10. ASSUME NEW i \in Items, NEW qty \in Qtys, NEW sup, SupplierReturn(i, qty, sup) PROVE IInv' /\ Fifo(stock, stock')
  BY <1>10, Amounts, SupplierReturnKeeps
<1>11. ASSUME NEW h \in Handlers, NEW req \in Requests, Begin(h, req) PROVE IInv' /\ Fifo(stock, stock')
  BY <1>11, BeginKeeps
<1>12. ASSUME NEW h \in Handlers, Remove(h) \/ Archive(h) \/ VoidPurchase(h) PROVE IInv' /\ Fifo(stock, stock')
  BY <1>12, RemoveKeeps, ArchiveKeeps, VoidPurchaseKeeps
<1>13. ASSUME NEW i \in Items, Unarchive(i) PROVE IInv' /\ Fifo(stock, stock')
  BY <1>13, UnarchiveKeeps
<1> QED BY <1>1, <1>2, <1>3, <1>4, <1>5, <1>6, <1>7, <1>8, <1>9, <1>10, <1>11, <1>12, <1>13 DEF Next

LEMMA StutterKeeps == IInv /\ UNCHANGED vars => IInv'
  BY DEF IInv, PendingOk, Doing, vars

(***************************************************************************)
(* The ledger is sound and agrees with purchases, losses and deliveries    *)
(* after every operation of WarehouseService and PurchaseService, those    *)
(* that read before they lock included: IInv is inductive.                 *)
(***************************************************************************)
THEOREM Inductive == Spec => []IInv
<1>1. IInv /\ [Next]_vars => IInv'
  BY NextKeeps, StutterKeeps
<1> QED BY <1>1, InitInv, PTL DEF Spec

-----------------------------------------------------------------------------
(***************************************************************************)
(* Every lot holds what arrived minus what its consumption rows have out;  *)
(* it lives as long as its purchase, and one taken back was never touched  *)
(* (consumeLots, reverseConsumption, voidUntouchedLots).                   *)
(***************************************************************************)
THEOREM LotsAccountedFor == Spec => []LotLedger
<1>1. IInv => LotLedger
  <2> SUFFICES ASSUME IInv PROVE LotLedger
    OBVIOUS
  <2>1. Sound(stock) /\ Typed(stock) /\ RowsOk(stock) /\ LotsOk(stock) /\ Bought(stock, purchases) /\ stock \in Ledger
    BY DEF IInv, Inv, Sound, Typed
  <2>2. \A r \in stock.rows : r.back <= r.qty
    BY <2>1 DEF RowsOk
  <2>3. ASSUME NEW k \in DOMAIN stock.lots
        PROVE  /\ stock.lots[k].left = stock.lots[k].initial - SumFunction([r \in RowsOn(k) |-> Remaining(r)])
               /\ stock.lots[k].live = (stock.lots[k].purchase = 0 \/ purchases[stock.lots[k].purchase])
               /\ ~stock.lots[k].live => RowsOn(k) = {} /\ stock.lots[k].left = stock.lots[k].initial
    <3>1. RowsOn(k) = On(stock, k) /\ IsFiniteSet(On(stock, k)) /\ On(stock, k) \in SUBSET stock.rows
      BY <2>1, FS_Subset DEF RowsOn, On, Typed
    <3>2. PICK f : f = [r \in RowsOn(k) |-> Remaining(r)]
      OBVIOUS
    <3>3. SumFunction([r \in RowsOn(k) |-> Remaining(r)]) = Sum(f, On(stock, k))
      BY <3>1, <3>2 DEF SumFunction, Sum
    <3>4. \A r \in On(stock, k) : f[r] = Rest[r]
      BY <2>1, <3>1, <3>2, RestType
    <3>5. Sum(f, On(stock, k)) = Sum(Rest, On(stock, k))
      BY <3>1, <3>4, SumSame
    <3>6. /\ stock.lots[k].left = stock.lots[k].initial - Sum(Rest, On(stock, k))
          /\ ~stock.lots[k].live => On(stock, k) = {}
      BY <2>1 DEF LotsOk
    <3>7. stock.lots[k].live = (stock.lots[k].purchase = 0 \/ purchases[stock.lots[k].purchase])
      <4>1. stock.lots[k] \in LotType
        BY <2>1, LotsFinite
      <4>2. stock.lots[k].live \in BOOLEAN
        BY <4>1 DEF LotType
      <4>3. stock.lots[k].live <=> stock.lots[k].purchase = 0 \/ purchases[stock.lots[k].purchase]
        BY <2>1 DEF Bought
      <4> QED BY <4>2, <4>3
    <3>8. ~stock.lots[k].live => stock.lots[k].left = stock.lots[k].initial
      <4>1. stock.lots[k].initial \in Nat
        BY <2>1, LotsFinite DEF LotType
      <4>2. ~stock.lots[k].live => Sum(Rest, On(stock, k)) = 0
        BY <3>6, SumEmpty
      <4> QED BY <3>6, <4>1, <4>2
    <3> QED BY <3>1, <3>3, <3>5, <3>6, <3>7, <3>8
  <2> QED BY <2>2, <2>3 DEF LotLedger
<1> QED BY <1>1, Inductive, PTL

(***************************************************************************)
(* The caches of an item (recomputeCaches), the journal of its movements   *)
(* (recordMovement) and the losses booked by writeOff are what the lots    *)
(* say.                                                                    *)
(***************************************************************************)
THEOREM BooksFollowLots == Spec => []BooksMatchLots
<1>1. IInv => BooksMatchLots
  <2> SUFFICES ASSUME IInv PROVE BooksMatchLots
    OBVIOUS
  <2>1. Sound(stock) /\ Typed(stock) /\ RowsOk(stock) /\ Booked(stock, losses) /\ stock \in Ledger
    BY DEF IInv, Inv, Sound, Typed
  <2>2. ASSUME NEW i \in Items PROVE Cached(stock, i) /\ Journalled(stock, i) /\ LotQty(stock, i) \in Nat
    BY <2>1, HeldQty DEF Sound, BooksOk
  <2>3. CachesMatchLots
    <3> SUFFICES ASSUME NEW i \in Items
                 PROVE  /\ stock.item[i].qty = LotQty(stock, i)
                        /\ stock.item[i].avgCost = IF LotQty(stock, i) = 0 THEN 0
                                                   ELSE RoundDiv(LotValue(stock, i), LotQty(stock, i))
      BY DEF CachesMatchLots
    <3>1. PICK q \in Nat : q = LotQty(stock, i)
      BY <2>2
    <3> QED BY <2>2, <3>1 DEF Cached
  <2>4. JournalExplainsStock
    BY <2>2 DEF JournalExplainsStock, Journalled
  <2>5. LossesMatchLedger
    <3>1. PICK n \in Nat : n = stock.batch
      BY <2>1 DEF Ledger
    <3>2. PICK f : f = [b \in 1..n |-> RoundDiv(SumFunction([r \in WrittenOff(b) |-> Remaining(r) * r.cost]), MoneyUnit)]
      OBVIOUS
    <3>3. ASSUME NEW b \in 1..n PROVE f[b] = LossOf(stock)[b]
      <4>1. WrittenOff(b) = WrittenOffIn(stock, b) /\ b \in Nat
        BY DEF WrittenOff, WrittenOffIn
      <4>2. IsFiniteSet(WrittenOff(b)) /\ WrittenOff(b) \in SUBSET stock.rows
        BY <2>1, FS_Subset DEF WrittenOff, Typed
      <4>3. PICK e : e = [r \in WrittenOff(b) |-> Remaining(r) * r.cost]
        OBVIOUS
      <4>4. \A r \in WrittenOff(b) : e[r] = Worth[r]
        BY <2>1, <4>2, <4>3, WorthType
      <4>5. Sum(e, WrittenOff(b)) = Sum(Worth, WrittenOff(b))
        BY <4>2, <4>4, SumSame
      <4>6. SumFunction([r \in WrittenOff(b) |-> Remaining(r) * r.cost]) = Sum(Worth, WrittenOff(b))
        BY <4>3, <4>5 DEF SumFunction, Sum
      <4> QED BY <3>2, <4>1, <4>6 DEF LossOf
    <3>4. IsFiniteSet(1..n)
      BY FS_Interval
    <3>5. Sum(f, 1..n) = Sum(LossOf(stock), 1..n)
      BY <3>3, <3>4, SumSame
    <3>6. SumFunction(f) = Sum(f, 1..n)
      BY <3>2 DEF SumFunction, Sum
    <3> QED BY <2>1, <3>1, <3>2, <3>5, <3>6 DEF LossesMatchLedger, Booked
  <2> QED BY <2>3, <2>4, <2>5 DEF BooksMatchLots
<1> QED BY <1>1, Inductive, PTL

(***************************************************************************)
(* What an order line has out can be given back to the very lots it came   *)
(* from (decrementForSale, reverseConsumption, restock).                   *)
(***************************************************************************)
THEOREM ReturnsCanBeServed == Spec => []LinesReversible
<1>1. IInv => LinesReversible
  <2> SUFFICES ASSUME IInv, NEW l \in Lines, InStock(stock, ItemOf[l])
               PROVE  IF l \in LegacyLines THEN out[l] - ReversibleQty(stock, l) \in {0, 1}
                                           ELSE out[l] = ReversibleQty(stock, l)
    BY DEF LinesReversible
  <2>1. Known(stock, ItemOf[l])
    BY DEF InStock, Known
  <2> QED BY <2>1 DEF IInv, Inv, Delivered, Returnable
<1> QED BY <1>1, Inductive, PTL

(***************************************************************************)
(* No operation but supplierReturn takes from a lot while an earlier one   *)
(* keeps something (consumePlan), and a return of an order line reaches an *)
(* earlier sale only when the later ones are settled (reversePlan).        *)
(***************************************************************************)
THEOREM OldestOutLatestBack == Spec => FifoDiscipline
<1>1. IInv /\ [Next]_vars =>
        [/\ \A r \in NewRows : r.kind # "RETURN_SUPPLIER" =>
              \A j \in OpenLots(stock, stock.lots[r.lot].item) :
                Earlier(Received(j), Received(r.lot)) => stock'.lots[j].left = 0
         /\ \A q, r \in stock.rows :
              q.line = r.line /\ r.line # NoLine /\ r \notin stock'.rows /\ q.batch > r.batch => Settled(q)]_vars
  <2> SUFFICES ASSUME IInv, Next
               PROVE  /\ \A r \in NewRows : r.kind # "RETURN_SUPPLIER" =>
                           \A j \in OpenLots(stock, stock.lots[r.lot].item) :
                             Earlier(Received(j), Received(r.lot)) => stock'.lots[j].left = 0
                      /\ \A q, r \in stock.rows :
                           q.line = r.line /\ r.line # NoLine /\ r \notin stock'.rows /\ q.batch > r.batch => Settled(q)
    OBVIOUS
  <2>1. Fifo(stock, stock')
    BY NextKeeps
  <2>2. \A j, k : Earlier(Received(j), Received(k)) <=> ReceivedBefore(stock, j, k)
    BY DEF Earlier, Received, ReceivedBefore
  <2>3. \A r \in NewRows : r \in stock'.rows /\ r.batch > stock.batch
    BY DEF NewRows
  <2> QED BY <2>1, <2>2, <2>3 DEF Fifo, Settled
<1> QED BY <1>1, Inductive, PTL DEF Spec, FifoDiscipline

-----------------------------------------------------------------------------
(***************************************************************************)
(* Theorems about the synchronisation of a connection, for every set of    *)
(* operations and of overlapping runs, both adapters, every window and     *)
(* every lateness of the bank the look-back allows for: the cursor leaves  *)
(* nothing behind (NothingLeftBehind), and reloading a statement leaves no *)
(* money without its line (ReloadIsClean).                                 *)
(*                                                                         *)
(* NothingLeftBehind is not inductive: a run writes a cursor it computed   *)
(* when it read the connection, which others have moved since.  SyncIInv   *)
(* adds, beside the types (SyncTyped):                                     *)
(*   - Clock: nothing is dated after today, and no cursor, written or about*)
(*     to be, has passed today (Alfa: a day that is over), so that what the*)
(*     bank shows late is not behind any of them;                          *)
(*   - Covered: what is behind the cursor a run will write has its line, or*)
(*     the run is still to put it into the inbox.                          *)
(***************************************************************************)
LineType == [status : {"absent", "NEW", "BOOKED"}, tx : Nat, adopted : BOOLEAN]
EntryType == [kind : {"OTHER", "ORDER_PAYMENT"}, hand : BOOLEAN, live : BOOLEAN]
RunType ==
  {NoRun} \cup [at : {"ingest"}, todo : SUBSET Ops, next : Nat, claimed : SUBSET Nat, twin : {NoTwin}, rewound : BOOLEAN]
         \cup [at : {"adopt"}, todo : SUBSET Ops, next : Nat, claimed : SUBSET Nat, twin : Ops \X Nat, rewound : BOOLEAN]

SyncTyped ==
  /\ today \in Nat \ {0}
  /\ day \in [Ops -> Nat]
  /\ conn \in [status : {"ACTIVE", "ERROR", "DISABLED"}, cursor : Nat, from : Nat \ {0}]
  /\ line \in [Ops -> LineType]
  /\ txs \in Seq(EntryType)
  /\ run \in [Runs -> RunType]
  /\ reset \in [Ops -> LineType]
  /\ missed \subseteq Ops

\* The days up to the cursor are over (Alfa), or shown and asked for again (T-Bank).
Passed(cursor) == IF Provider = "ALFA" THEN cursor < today ELSE cursor <= today
Clock ==
  /\ \A o \in Ops : day[o] <= today
  /\ Passed(conn.cursor)
  /\ \A r \in Runs : ~At(r, "idle") => Passed(run[r].next)

\* What no synchronisation after this cursor will ask for.
Behind(o, cursor) == Wanted(o) /\ day[o] < FirstDay(cursor, conn.from)
Covered ==
  \A r \in Runs : ~At(r, "idle") /\ ~run[r].rewound =>
    \A o \in Ops \ missed : Behind(o, run[r].next) => o \in Stored \cup run[r].todo

SyncIInv == SyncTyped /\ Clock /\ Covered /\ NothingLeftBehind

-----------------------------------------------------------------------------
\* The greatest of a set of days.
LEMMA Greatest ==
  ASSUME NEW N \in Nat, NEW S \in SUBSET (0..N), S # {}
  PROVE Max(S) \in S /\ \A d \in S : d <= Max(S)
<1> DEFINE Smaller == {ss \in Nat \X Nat : ss[1] < ss[2]}
           T == {N - d : d \in S}
<1>1. IsWellFoundedOn(Smaller, Nat)
  BY NatLessThanWellFounded DEF OpToRel
<1>2. T \subseteq Nat /\ T # {}
  <2>1. PICK d \in S : TRUE
    OBVIOUS
  <2>2. N - d \in T
    BY <2>1
  <2> QED BY <2>2
<1>3. PICK t \in T : \A u \in T : ~ (<<u, t>> \in Smaller)
  <2> HIDE DEF T, Smaller
  <2> QED BY <1>1, <1>2, WFMin
<1>4. PICK x \in S : t = N - x
  OBVIOUS
<1>5. \A d \in S : x >= d
  <2> TAKE d \in S
  <2>1. N - d \in T
    OBVIOUS
  <2>2. ~ (<<N - d, t>> \in Smaller)
    BY <1>3, <2>1
  <2>3. N - d \in Nat /\ t \in Nat
    BY <1>2, <2>1
  <2>4. ~ (N - d < t)
    BY <2>2, <2>3
  <2> QED BY <2>4, <1>4
<1>6. Max(S) \in S /\ \A d \in S : Max(S) >= d
  BY <1>5 DEF Max
<1> QED BY <1>6

-----------------------------------------------------------------------------
(***************************************************************************)
(* The adapters.                                                           *)
(***************************************************************************)
\* The cursor handed back has not passed today.
LEMMA NextPassed ==
  ASSUME SyncTyped, Clock
  PROVE LET first == FirstDay(conn.cursor, conn.from)
            next == NextCursor(conn.cursor, first)
        IN  next \in Nat /\ Passed(next)
<1> DEFINE first == FirstDay(conn.cursor, conn.from)
<1>1. conn.cursor \in Nat /\ conn.from \in Nat \ {0} /\ today \in Nat \ {0} /\ Passed(conn.cursor)
  BY DEF SyncTyped, Clock
<1>2. first \in Int
  BY <1>1, SyncAssumption DEF FirstDay
<1>3. CASE Provider = "ALFA"
  <2>1. first >= 1
    BY <1>1, <1>3 DEF FirstDay
  <2>2. first > today => NextCursor(conn.cursor, first) = conn.cursor
    BY <1>3 DEF NextCursor
  <2>3. first <= today => NextCursor(conn.cursor, first) \in Nat /\ NextCursor(conn.cursor, first) < today
    BY <1>1, <1>2, <1>3, <2>1, SyncAssumption DEF NextCursor, FinalDay
  <2> QED BY <1>1, <1>2, <1>3, <2>2, <2>3 DEF Passed
<1>4. CASE Provider # "ALFA"
  <2> DEFINE days == {conn.cursor} \cup {day[o] : o \in Shown(first)}
  <2>1. days \subseteq 0..today
    BY <1>1, <1>4 DEF Shown, Passed, SyncTyped, Clock
  <2>2. Max(days) \in days
    <3> HIDE DEF days
    <3> SUFFICES days # {} BY <1>1, <2>1, Greatest
    <3> QED BY DEF days
  <2>3. NextCursor(conn.cursor, first) = Max(days)
    BY <1>4 DEF NextCursor
  <2>4. Max(days) \in 0..today
    <3> HIDE DEF days
    <3> QED BY <2>1, <2>2
  <2> HIDE DEF days
  <2> QED BY <1>1, <1>4, <2>3, <2>4 DEF Passed
<1> QED BY <1>3, <1>4

\* What lies behind the cursor handed back was behind the former one, or is shown.
LEMMA NextCovers ==
  ASSUME SyncTyped, Clock, NEW o \in Ops,
         Behind(o, NextCursor(conn.cursor, FirstDay(conn.cursor, conn.from)))
  PROVE Behind(o, conn.cursor) \/ o \in Shown(FirstDay(conn.cursor, conn.from))
<1> DEFINE first == FirstDay(conn.cursor, conn.from)
           next == NextCursor(conn.cursor, first)
<1>1. conn.cursor \in Nat /\ conn.from \in Nat \ {0} /\ today \in Nat \ {0} /\ day[o] \in Nat /\ day[o] <= today
  BY DEF SyncTyped, Clock
<1>2. first \in Int
  BY <1>1, SyncAssumption DEF FirstDay
<1>3. next \in Nat
  BY NextPassed
<1>4. Wanted(o) /\ day[o] < FirstDay(next, conn.from)
  BY DEF Behind
<1>5. CASE day[o] < first
  BY <1>4, <1>5 DEF Behind
<1>6. CASE day[o] >= first
  <2>1. next # 0
    <3> HIDE DEF next
    <3> QED BY <1>1, <1>4 DEF FirstDay, Wanted
  <2>2. CASE Provider = "ALFA"
    <3>1. day[o] <= next
      <4> HIDE DEF next
      <4> QED BY <1>1, <1>3, <1>4, <2>1, <2>2 DEF FirstDay
    <3>2. first <= today
      BY <1>1, <1>2, <1>6
    <3>3. next <= FinalDay(first)
      BY <1>1, <1>2, <2>2, <3>2, SyncAssumption DEF NextCursor, FinalDay
    <3>4. FinalDay(first) \in Int
      BY <1>1, <1>2, SyncAssumption DEF FinalDay
    <3>5. o \in Shown(first)
      <4> HIDE DEF first, next
      <4> QED BY <1>1, <1>2, <1>3, <1>4, <1>6, <3>1, <3>3, <3>4 DEF Shown, Wanted
    <3> QED BY <3>5
  <2>3. CASE Provider # "ALFA"
    <3>1. FinalDay(first) = today
      BY <2>3 DEF FinalDay
    <3> QED BY <1>1, <1>2, <1>4, <1>6, <3>1 DEF Shown, Wanted
  <2> QED BY <2>2, <2>3
<1>7. day[o] < first \/ day[o] >= first
  <2> HIDE DEF first
  <2> QED BY <1>1, <1>2
<1> QED BY <1>5, <1>6, <1>7

\* An operation the bank shows late is behind no cursor that has not passed today.
LEMMA LateIsNotBehind ==
  ASSUME SyncTyped, NEW cursor \in Nat, Passed(cursor), NEW d \in (today - Lag)..today,
         d >= conn.from
  PROVE ~(d < FirstDay(cursor, conn.from))
<1>1. today \in Nat /\ conn.from \in Nat /\ d \in Int
  BY SyncAssumption DEF SyncTyped
<1> QED BY <1>1, SyncAssumption DEF FirstDay, Passed

-----------------------------------------------------------------------------
(***************************************************************************)
(* Types.                                                                  *)
(***************************************************************************)
LEMMA RunTyped ==
  ASSUME SyncTyped, NEW r \in Runs, ~At(r, "idle")
  PROVE /\ run[r] \in [at : {"ingest", "adopt"}, todo : SUBSET Ops, next : Nat, claimed : SUBSET Nat,
                       twin : {NoTwin} \cup Ops \X Nat, rewound : BOOLEAN]
        /\ At(r, "ingest") => run[r].twin = NoTwin
        /\ At(r, "adopt") => run[r].twin \in Ops \X Nat
<1>1. run[r] \in RunType
  BY DEF SyncTyped
<1> QED BY <1>1 DEF RunType, NoRun, At

LEMMA AdoptFields ==
  ASSUME NEW A, NEW B, NEW C, NEW D, NEW E, NEW F,
         NEW j \in [at : A, todo : B, next : C, claimed : D, twin : E, rewound : F], NEW d, NEW v,
         NEW D2, NEW E2, j.claimed \cup d \in D2, v \in E2
  PROVE  [j EXCEPT !.at = "adopt", !.claimed = @ \cup d, !.twin = v]
           \in [at : {"adopt"}, todo : B, next : C, claimed : D2, twin : E2, rewound : F]
  OBVIOUS

LEMMA IngestFields ==
  ASSUME NEW A, NEW B, NEW C, NEW D, NEW E, NEW F,
         NEW j \in [at : A, todo : B, next : C, claimed : D, twin : E, rewound : F], NEW v
  PROVE  [j EXCEPT !.at = "ingest", !.twin = v]
           \in [at : {"ingest"}, todo : B, next : C, claimed : D, twin : {v}, rewound : F]
  OBVIOUS

LEMMA InitTyped == SyncInit => SyncTyped
  BY SyncAssumption DEF SyncInit, SyncTyped, RunType, LineType, EntryType, NotResetting, Unstored

LEMMA NextTyped == ASSUME SyncTyped, Clock, SyncNext PROVE SyncTyped'
<1> USE DEF bank, counters
<1>1. ASSUME DayPasses PROVE SyncTyped'
  BY <1>1 DEF DayPasses, SyncTyped
<1>2. ASSUME EnterByHand PROVE SyncTyped'
  BY <1>2 DEF EnterByHand, SyncTyped, Entry, EntryType
<1>3. ASSUME NEW o \in Ops, Post(o) PROVE SyncTyped'
  <2>1. PICK d \in (today - Lag)..today : d > 0 /\ day' = [day EXCEPT ![o] = d]
    BY <1>3 DEF Post
  <2>2. d \in Nat
    BY <2>1, SyncAssumption DEF SyncTyped
  <2>3. day' \in [Ops -> Nat]
    BY <2>1, <2>2 DEF SyncTyped
  <2> QED BY <1>3, <2>3 DEF Post, SyncTyped
<1>4. ASSUME NEW o \in Ops, NEW kind \in {"OTHER", "ORDER_PAYMENT"}, Book(o, kind) PROVE SyncTyped'
  <2>1. txs' \in Seq(EntryType)
    BY <1>4 DEF Book, SyncTyped, Entry, EntryType
  <2>2. line' \in [Ops -> LineType]
    BY <1>4 DEF Book, SyncTyped, LineType
  <2> QED BY <1>4, <2>1, <2>2 DEF Book, SyncTyped
<1>5. ASSUME NEW r \in Runs, FetchStatement(r) PROVE SyncTyped'
  <2>0. PICK next \in Nat : next = NextCursor(conn.cursor, FirstDay(conn.cursor, conn.from))
    BY NextPassed
  <2>1. PICK rec : /\ run' = [run EXCEPT ![r] = rec]
                   /\ rec = [at |-> "ingest", todo |-> Shown(FirstDay(conn.cursor, conn.from)), next |-> next,
                             claimed |-> {}, twin |-> NoTwin, rewound |-> FALSE]
    BY <1>5, <2>0 DEF FetchStatement, Keep
  <2>2. rec \in RunType
    BY <2>0, <2>1 DEF RunType, Shown
  <2>3. run' \in [Runs -> RunType]
    BY <2>1, <2>2 DEF SyncTyped
  <2> QED BY <1>5, <2>3 DEF FetchStatement, SyncTyped
<1>6. ASSUME NEW r \in Runs, NEW o \in Ops, IngestKnown(r, o) PROVE SyncTyped'
  <2>1. Handled(run[r], o) \in RunType
    BY <1>6, RunTyped DEF IngestKnown, Handled, RunType, At
  <2>2. run' \in [Runs -> RunType]
    BY <1>6, <2>1 DEF IngestKnown, Keep, SyncTyped
  <2> QED BY <1>6, <2>2 DEF IngestKnown, SyncTyped
<1>7. ASSUME NEW r \in Runs, NEW o \in Ops, IngestNew(r, o) PROVE SyncTyped'
  <2>1. Handled(run[r], o) \in RunType
    BY <1>7, RunTyped DEF IngestNew, Handled, RunType, At
  <2>2. run' \in [Runs -> RunType]
    BY <1>7, <2>1 DEF IngestNew, Keep, SyncTyped
  <2>3. txs' \in Seq(EntryType)
    <3>1. txs' = txs \/ txs' = Append(txs, Entry("OTHER", FALSE))
      BY <1>7 DEF IngestNew
    <3>2. PICK entry \in EntryType : entry = Entry("OTHER", FALSE)
      BY DEF Entry, EntryType
    <3>3. txs \in Seq(EntryType)
      BY DEF SyncTyped
    <3>4. Append(txs, entry) \in Seq(EntryType)
      BY <3>3
    <3> QED BY <3>1, <3>2, <3>3, <3>4
  <2>4. line' \in [Ops -> LineType]
    <3>1. PICK rec : line' = [line EXCEPT ![o] = rec] /\ rec \in LineType
      <4>1. [Unstored EXCEPT !.status = "NEW"] \in LineType
        BY DEF Unstored, LineType
      <4>2. [status |-> "BOOKED", tx |-> Len(txs) + 1, adopted |-> FALSE] \in LineType
        BY DEF SyncTyped, LineType
      <4> QED BY <1>7, <4>1, <4>2 DEF IngestNew
    <3> QED BY <3>1 DEF SyncTyped
  <2> QED BY <1>7, <2>2, <2>3, <2>4 DEF IngestNew, SyncTyped
<1>8. ASSUME NEW r \in Runs, NEW o \in Ops, FindTwin(r, o) PROVE SyncTyped'
  <2>1. PICK n \in Twins(run[r]) :
          run' = [run EXCEPT ![r] = [run[r] EXCEPT !.at = "adopt", !.claimed = @ \cup {n}, !.twin = <<o, n>>]]
    BY <1>8 DEF FindTwin, Keep
  <2>2. n \in Nat
    BY <2>1 DEF Twins, Free, SyncTyped
  <2>3. PICK rec : rec = [run[r] EXCEPT !.at = "adopt", !.claimed = @ \cup {n}, !.twin = <<o, n>>]
    OBVIOUS
  <2>4. run[r] \in [at : {"ingest", "adopt"}, todo : SUBSET Ops, next : Nat, claimed : SUBSET Nat,
                    twin : {NoTwin} \cup Ops \X Nat, rewound : BOOLEAN]
    BY <1>8, RunTyped DEF FindTwin, At
  <2>5. run[r].claimed \cup {n} \in SUBSET Nat /\ <<o, n>> \in Ops \X Nat
    BY <2>2, <2>4
  <2>6. rec \in [at : {"adopt"}, todo : SUBSET Ops, next : Nat, claimed : SUBSET Nat, twin : Ops \X Nat, rewound : BOOLEAN]
    BY <2>3, <2>4, <2>5, AdoptFields, Zenon
  <2>7. run' \in [Runs -> RunType]
    <3>1. rec \in RunType
      BY <2>6 DEF RunType
    <3> QED BY <2>1, <2>3, <3>1 DEF SyncTyped
  <2> QED BY <1>8, <2>7 DEF FindTwin, SyncTyped
<1>9. ASSUME NEW r \in Runs, AdoptLine(r) PROVE SyncTyped'
  <2>1. PICK o \in Ops, n \in Nat : run[r].twin = <<o, n>>
    BY <1>9, RunTyped DEF AdoptLine, At
  <2>2. line' = line \/ line' = [line EXCEPT ![o] = [status |-> "BOOKED", tx |-> n, adopted |-> TRUE]]
    BY <1>9, <2>1 DEF AdoptLine
  <2>3. line' \in [Ops -> LineType]
    <3>1. [status |-> "BOOKED", tx |-> n, adopted |-> TRUE] \in LineType
      BY DEF LineType
    <3> QED BY <2>2, <3>1 DEF SyncTyped
  <2>4. missed' \subseteq Ops
    BY <1>9, <2>1 DEF AdoptLine, SyncTyped
  <2>5. PICK rec : rec = [Handled(run[r], o) EXCEPT !.at = "ingest", !.twin = NoTwin]
    OBVIOUS
  <2>6. rec \in RunType
    <3>1. run[r] \in [at : {"ingest", "adopt"}, todo : SUBSET Ops, next : Nat, claimed : SUBSET Nat,
                      twin : {NoTwin} \cup Ops \X Nat, rewound : BOOLEAN]
      BY <1>9, RunTyped DEF AdoptLine, At
    <3>2. Handled(run[r], o) \in [at : {"ingest", "adopt"}, todo : SUBSET Ops, next : Nat, claimed : SUBSET Nat,
                               twin : {NoTwin} \cup Ops \X Nat, rewound : BOOLEAN]
      BY ONLY <3>1, SMT DEF Handled
    <3>3. rec \in [at : {"ingest"}, todo : SUBSET Ops, next : Nat, claimed : SUBSET Nat, twin : {NoTwin}, rewound : BOOLEAN]
      BY <2>5, <3>2, IngestFields, Zenon
    <3> QED BY <3>3 DEF RunType
  <2>7. run' \in [Runs -> RunType]
    BY <1>9, <2>1, <2>5, <2>6 DEF AdoptLine, Keep, SyncTyped
  <2> QED BY <1>9, <2>3, <2>4, <2>7 DEF AdoptLine, SyncTyped
<1>10. ASSUME NEW r \in Runs, Finish(r) PROVE SyncTyped'
  <2>1. run[r].next \in Nat
    BY <1>10, RunTyped DEF Finish, At
  <2>2. run' \in [Runs -> RunType]
    BY <1>10 DEF Finish, Keep, SyncTyped, RunType
  <2>3. conn' \in [status : {"ACTIVE", "ERROR", "DISABLED"}, cursor : Nat, from : Nat \ {0}]
    BY <1>10, <2>1 DEF Finish, SyncTyped
  <2>4. missed' \subseteq Ops
    BY <1>10 DEF Finish, SyncTyped
  <2> QED BY <1>10, <2>2, <2>3, <2>4 DEF Finish, SyncTyped
<1>11. ASSUME NEW r \in Runs, FailSync(r) PROVE SyncTyped'
  <2>1. run' \in [Runs -> RunType]
    BY <1>11 DEF FailSync, Keep, SyncTyped, RunType
  <2> QED BY <1>11, <2>1 DEF FailSync, SyncTyped
<1>12. ASSUME Crash PROVE SyncTyped'
  <2>1. run' \in [Runs -> RunType]
    BY <1>12 DEF Crash, RunType
  <2>2. reset' \in [Ops -> LineType]
    BY <1>12 DEF Crash, NotResetting, Unstored, LineType
  <2> QED BY <1>12, <2>1, <2>2 DEF Crash, SyncTyped
<1>13. ASSUME NEW status \in {"ACTIVE", "DISABLED"}, SetStatus(status) PROVE SyncTyped'
  BY <1>13 DEF SetStatus, SyncTyped
<1>14. ASSUME Rewind PROVE run' \in [Runs -> RunType]
  <2>1. SUFFICES ASSUME NEW r \in Runs PROVE run'[r] \in RunType
    BY <1>14 DEF Rewind
  <2>2. CASE At(r, "idle")
    BY <1>14, <2>2 DEF Rewind, RunType
  <2>3. CASE ~At(r, "idle")
    <3>1. run'[r] = [run[r] EXCEPT !.rewound = TRUE]
      BY <1>14, <2>3 DEF Rewind
    <3> QED BY <2>3, <3>1, RunTyped DEF RunType, At
  <2> QED BY <2>2, <2>3
<1>15. ASSUME MoveBackfill PROVE SyncTyped'
  <2>1. conn' = [status |-> conn.status, cursor |-> 0, from |-> 1]
    BY <1>15 DEF MoveBackfill, SyncTyped
  <2> QED BY <1>14, <1>15, <2>1 DEF MoveBackfill, SyncTyped
<1>16. ASSUME BeginReset PROVE SyncTyped'
  BY <1>16 DEF BeginReset, SyncTyped
<1>17. ASSUME Reset PROVE SyncTyped'
  <2>1. txs' \in Seq(EntryType)
    <3>1. PICK g : g = txs'
      OBVIOUS
    <3>2. \A n \in 1..Len(txs) : g[n] \in EntryType
      <4> SUFFICES ASSUME NEW n \in 1..Len(txs) PROVE g[n] \in EntryType
        OBVIOUS
      <4>1. txs[n] \in EntryType
        BY DEF SyncTyped
      <4>2. g[n] = txs[n] \/ g[n] = [txs[n] EXCEPT !.live = FALSE]
        <5>1. n \in DOMAIN txs
          BY DEF SyncTyped
        <5>2. g[n] = IF \E o \in Dropped : reset[o].tx = n THEN [txs[n] EXCEPT !.live = FALSE] ELSE txs[n]
          BY <1>17, <3>1, <5>1, Zenon DEF Reset
        <5> QED BY <5>2
      <4> QED BY <4>1, <4>2 DEF EntryType
    <3>3. g = [n \in 1..Len(txs) |-> g[n]]
      BY <1>17, <3>1 DEF Reset, SyncTyped
    <3>4. Len(txs) \in Nat
      BY DEF SyncTyped
    <3> QED BY <3>1, <3>2, <3>3, <3>4
  <2>2. line' \in [Ops -> LineType]
    BY <1>17 DEF Reset, SyncTyped, Unstored, LineType
  <2>3. reset' \in [Ops -> LineType]
    BY <1>17 DEF Reset, NotResetting, Unstored, LineType
  <2> QED BY <1>14, <1>17, <2>1, <2>2, <2>3 DEF Reset, SyncTyped
<1> QED
  BY <1>1, <1>2, <1>3, <1>4, <1>5, <1>6, <1>7, <1>8, <1>9, <1>10, <1>11, <1>12, <1>13, <1>15, <1>16, <1>17
  DEF SyncNext, Serve

-----------------------------------------------------------------------------
(***************************************************************************)
(* The cursor.                                                             *)
(***************************************************************************)
\* What a run that goes on still knows: its cursor, and what it has not put into the inbox.
GoesOn(r) ==
  /\ ~At(r, "idle") /\ run'[r].next = run[r].next
  /\ ~run'[r].rewound => /\ ~run[r].rewound
                         /\ run[r].todo \subseteq run'[r].todo \cup Stored' \cup missed'

\* Steps that add lines and leave the days and the cursor alone.
LEMMA Carried ==
  ASSUME SyncTyped, SyncTyped', Clock, Covered, NothingLeftBehind,
         today <= today', UNCHANGED day, conn'.cursor = conn.cursor, conn'.from = conn.from,
         Stored \subseteq Stored', missed \subseteq missed',
         \A r \in Runs : ~At(r, "idle")' => GoesOn(r)
  PROVE Clock' /\ Covered' /\ NothingLeftBehind'
<1>1. Clock'
  <2>1. today \in Nat /\ today' \in Nat /\ conn.cursor \in Nat /\ day \in [Ops -> Nat]
    BY DEF SyncTyped
  <2>2. \A o \in Ops : day'[o] <= today'
    BY <2>1 DEF Clock
  <2>3. Passed(conn.cursor)'
    BY <2>1 DEF Clock, Passed
  <2>4. ASSUME NEW r \in Runs, ~At(r, "idle")' PROVE Passed(run[r].next)'
    <3>1. run'[r].next = run[r].next /\ Passed(run[r].next) /\ run[r].next \in Nat
      BY <2>4, RunTyped DEF GoesOn, Clock
    <3> QED BY <2>1, <3>1 DEF Passed
  <2> QED BY <2>2, <2>3, <2>4 DEF Clock
<1>2. ASSUME NEW o \in Ops, NEW cursor, Behind(o, cursor)' PROVE Behind(o, cursor)
  BY <1>2 DEF Behind, Wanted, FirstDay
<1>3. Covered'
  <2> SUFFICES ASSUME NEW r \in Runs, ~At(r, "idle")', ~run'[r].rewound,
                      NEW o \in Ops \ missed', Behind(o, run[r].next)'
               PROVE o \in Stored' \cup run'[r].todo
    BY DEF Covered
  <2>1. GoesOn(r)
    OBVIOUS
  <2>2. Behind(o, run[r].next)
    <3>1. PICK c : c = run[r].next /\ run'[r].next = c
      BY <2>1 DEF GoesOn
    <3>2. Behind(o, c)'
      BY <3>1
    <3> QED BY <1>2, <3>1, <3>2
  <2>3. o \in Stored \cup run[r].todo
    BY <2>1, <2>2 DEF Covered, GoesOn
  <2> QED BY <2>1, <2>3 DEF GoesOn
<1>4. NothingLeftBehind'
  <2> SUFFICES ASSUME NEW o \in Ops \ missed', Wanted(o)', Closed(o)' PROVE o \in Stored'
    BY DEF NothingLeftBehind
  <2>1. Wanted(o) /\ Closed(o)
    BY DEF Wanted, Closed, FirstDay
  <2> QED BY <2>1 DEF NothingLeftBehind
<1> QED BY <1>1, <1>3, <1>4

\* The owner puts the cursor back: what is under way may overwrite it, and is known to.
LEMMA PutBack ==
  ASSUME SyncTyped, SyncTyped', Clock, Rewind, UNCHANGED bank, conn'.cursor = 0
  PROVE Clock' /\ Covered' /\ NothingLeftBehind'
<1>1. ASSUME NEW r \in Runs, ~At(r, "idle")'
      PROVE ~At(r, "idle") /\ run'[r].next = run[r].next /\ run'[r].rewound
  <2>1. ~At(r, "idle")
    BY <1>1 DEF Rewind, At, NoRun
  <2>2. run'[r] = [run[r] EXCEPT !.rewound = TRUE]
    BY <2>1 DEF Rewind
  <2> QED BY <2>1, <2>2, RunTyped
<1>2. Clock'
  <2>1. today \in Nat \ {0}
    BY DEF SyncTyped
  <2> QED BY <1>1, <2>1 DEF Clock, Passed, bank
<1>3. Covered'
  BY <1>1 DEF Covered
<1>4. NothingLeftBehind'
  <2> SUFFICES ASSUME NEW o \in Ops PROVE ~(Wanted(o)' /\ Closed(o)')
    BY DEF NothingLeftBehind
  <2>1. conn'.from \in Nat /\ day'[o] \in Nat
    BY DEF SyncTyped
  <2> QED BY <2>1 DEF Wanted, Closed, FirstDay
<1> QED BY <1>2, <1>3, <1>4

LEMMA InitCursor == SyncInit => Clock /\ Covered /\ NothingLeftBehind
<1> SUFFICES ASSUME SyncInit PROVE Clock /\ Covered /\ NothingLeftBehind
  OBVIOUS
<1>1. \A r \in Runs : At(r, "idle")
  BY DEF SyncInit, NoRun, At
<1>2. today = Connected /\ conn.cursor = 0 /\ conn.from = Connected /\ \A o \in Ops : day[o] \in 0..(Connected - 1)
  BY DEF SyncInit
<1>3. Clock
  BY <1>1, <1>2, SyncAssumption DEF Clock, Passed
<1>4. NothingLeftBehind
  BY <1>2, SyncAssumption DEF NothingLeftBehind, Wanted, Closed, FirstDay
<1> QED BY <1>1, <1>3, <1>4 DEF Covered

LEMMA NextCursorOk == ASSUME SyncIInv, SyncTyped', SyncNext PROVE Clock' /\ Covered' /\ NothingLeftBehind'
<1> USE DEF bank, counters
<1>0. SyncTyped /\ Clock /\ Covered /\ NothingLeftBehind
  BY DEF SyncIInv
<1> DEFINE Good == Clock' /\ Covered' /\ NothingLeftBehind'
<1> HIDE DEF Good
<1>a. ASSUME UNCHANGED <<day, missed, run>>, today <= today', conn'.cursor = conn.cursor, conn'.from = conn.from,
             Stored \subseteq Stored'
      PROVE Good
  <2>1. \A r \in Runs : ~At(r, "idle")' => GoesOn(r)
    BY <1>a DEF GoesOn, At
  <2>2. missed \subseteq missed'
    BY <1>a
  <2> QED BY <1>0, <1>a, <2>1, <2>2, Carried DEF Good
<1>b. ASSUME NEW r \in Runs, UNCHANGED <<today, day>>, conn'.cursor = conn.cursor, conn'.from = conn.from,
             Stored \subseteq Stored', missed \subseteq missed', \A q \in Runs \ {r} : run'[q] = run[q],
             ~At(r, "idle")' => GoesOn(r)
      PROVE Good
  <2>1. ASSUME NEW q \in Runs, ~At(q, "idle")' PROVE GoesOn(q)
    BY <1>b, <2>1 DEF GoesOn, At
  <2>2. today <= today'
    BY <1>0, <1>b DEF SyncTyped
  <2> QED BY <1>0, <1>b, <2>1, <2>2, Carried DEF Good
<1>1. ASSUME DayPasses PROVE Good
  <2>1. Stored' = Stored /\ today <= today'
    BY <1>0, <1>1 DEF DayPasses, Stored, SyncTyped
  <2> QED BY <1>1, <1>a, <2>1 DEF DayPasses
<1>2. ASSUME EnterByHand PROVE Good
  <2>1. Stored' = Stored /\ today <= today'
    BY <1>0, <1>2 DEF EnterByHand, Stored, SyncTyped
  <2> QED BY <1>2, <1>a, <2>1 DEF EnterByHand
<1>3. ASSUME NEW o \in Ops, Post(o) PROVE Good
  <2>1. PICK d \in (today - Lag)..today : d > 0 /\ day' = [day EXCEPT ![o] = d]
    BY <1>3 DEF Post
  <2>2. /\ UNCHANGED <<today, conn, line, run, missed>>
        /\ today \in Nat /\ d \in Nat /\ day'[o] = d /\ \A k \in Ops \ {o} : day'[k] = day[k]
    BY <1>0, <1>3, <2>1, SyncAssumption DEF Post, SyncTyped
  <2>3. Clock'
    BY <1>0, <2>2 DEF Clock, Passed, At
  <2>4. ASSUME NEW k \in Ops, NEW cursor \in Nat, Passed(cursor), Behind(k, cursor)' PROVE Behind(k, cursor)
    <3>1. CASE k = o
      <4>1. d >= conn.from /\ d < FirstDay(cursor, conn.from)
        BY <2>2, <2>4, <3>1 DEF Behind, Wanted, FirstDay
      <4> QED BY <1>0, <2>4, <4>1, LateIsNotBehind
    <3>2. CASE k # o
      BY <2>2, <2>4, <3>2 DEF Behind, Wanted, FirstDay
    <3> QED BY <3>1, <3>2
  <2>5. Covered'
    <3> SUFFICES ASSUME NEW r \in Runs, ~At(r, "idle")', ~run'[r].rewound,
                        NEW k \in Ops \ missed', Behind(k, run[r].next)'
                 PROVE k \in Stored' \cup run[r].todo'
      BY DEF Covered
    <3>1. PICK c \in Nat : c = run[r].next
      BY <1>0, <2>2, RunTyped DEF At
    <3>2. Passed(c) /\ ~At(r, "idle") /\ ~run[r].rewound
      BY <1>0, <2>2, <3>1 DEF Clock, At
    <3>3. Behind(k, c)'
      BY <2>2, <3>1
    <3>4. Behind(k, run[r].next)
      BY <2>4, <3>1, <3>2, <3>3
    <3> QED BY <1>0, <2>2, <3>2, <3>4 DEF Covered, Stored
  <2>6. NothingLeftBehind'
    <3> SUFFICES ASSUME NEW k \in Ops \ missed', Wanted(k)', Closed(k)' PROVE k \in Stored'
      BY DEF NothingLeftBehind
    <3>1. PICK c \in Nat : c = conn.cursor
      BY <1>0 DEF SyncTyped
    <3>2. Behind(k, c)'
      BY <2>2, <3>1 DEF Behind, Closed, Wanted, FirstDay
    <3>3. Behind(k, c)
      BY <1>0, <2>4, <3>1, <3>2 DEF Clock
    <3> QED BY <1>0, <2>2, <3>1, <3>3 DEF NothingLeftBehind, Behind, Closed, Stored
  <2> QED BY <2>3, <2>5, <2>6 DEF Good
<1>4. ASSUME NEW o \in Ops, NEW kind \in {"OTHER", "ORDER_PAYMENT"}, Book(o, kind) PROVE Good
  <2>1. Stored \subseteq Stored' /\ today <= today'
    BY <1>0, <1>4 DEF Book, Stored, SyncTyped
  <2> QED BY <1>4, <1>a, <2>1 DEF Book
<1>5. ASSUME NEW r \in Runs, FetchStatement(r) PROVE Good
  <2>1. PICK next \in Nat : next = NextCursor(conn.cursor, FirstDay(conn.cursor, conn.from)) /\ Passed(next)
    BY <1>0, NextPassed
  <2>2. UNCHANGED <<today, day, conn, line, missed>>
    BY <1>5 DEF FetchStatement
  <2>3. /\ run'[r].next = next /\ run'[r].todo = Shown(FirstDay(conn.cursor, conn.from))
        /\ \A q \in Runs \ {r} : run'[q] = run[q]
    BY <1>0, <1>5, <2>1 DEF FetchStatement, Keep, SyncTyped
  <2>4. Clock'
    BY <1>0, <2>1, <2>2, <2>3 DEF Clock, Passed, At
  <2>5. Covered'
    <3> SUFFICES ASSUME NEW q \in Runs, ~At(q, "idle")', ~run'[q].rewound,
                        NEW o \in Ops \ missed', Behind(o, run[q].next)'
                 PROVE o \in Stored' \cup run'[q].todo
      BY DEF Covered
    <3>1. CASE q = r
      <4>1. Behind(o, next)
        BY <2>2, <2>3, <3>1 DEF Behind, Wanted, FirstDay
      <4>2. Behind(o, conn.cursor) \/ o \in Shown(FirstDay(conn.cursor, conn.from))
        BY <1>0, <2>1, <4>1, NextCovers
      <4>3. Behind(o, conn.cursor) => o \in Stored
        BY <1>0, <2>2 DEF NothingLeftBehind, Behind, Closed
      <4> QED BY <2>2, <2>3, <3>1, <4>2, <4>3 DEF Stored
    <3>2. CASE q # r
      <4>1. Behind(o, run[q].next) /\ ~At(q, "idle") /\ ~run[q].rewound
        BY <2>2, <2>3, <3>2 DEF Behind, Wanted, FirstDay, At
      <4> QED BY <1>0, <2>2, <2>3, <3>2, <4>1 DEF Covered, Stored
    <3> QED BY <3>1, <3>2
  <2>6. NothingLeftBehind'
    BY <1>0, <2>2 DEF NothingLeftBehind, Wanted, Closed, Stored, FirstDay
  <2> QED BY <2>4, <2>5, <2>6 DEF Good
<1>6. ASSUME NEW r \in Runs, NEW o \in Ops, IngestKnown(r, o) PROVE Good
  <2>1. run' = [run EXCEPT ![r] = Handled(run[r], o)] /\ ~At(r, "idle") /\ UNCHANGED <<today, day, conn, line, missed>>
    BY <1>6 DEF IngestKnown, Keep, At
  <2>2. run'[r] = Handled(run[r], o) /\ \A q \in Runs \ {r} : run'[q] = run[q]
    BY <1>0, <2>1 DEF SyncTyped
  <2>3. o \in Stored /\ Stored' = Stored
    BY <1>6, <2>1 DEF IngestKnown, Stored
  <2>4. /\ run'[r].next = run[r].next /\ run'[r].rewound = run[r].rewound
        /\ run'[r].todo = run[r].todo \ {o}
    BY <1>0, <2>1, <2>2, RunTyped DEF Handled
  <2>5. GoesOn(r)
    BY <2>1, <2>3, <2>4 DEF GoesOn
  <2> QED BY <1>b, <2>1, <2>2, <2>3, <2>5
<1>7. ASSUME NEW r \in Runs, NEW o \in Ops, IngestNew(r, o) PROVE Good
  <2>1. run' = [run EXCEPT ![r] = Handled(run[r], o)] /\ ~At(r, "idle") /\ UNCHANGED <<today, day, conn, missed>>
    BY <1>7 DEF IngestNew, Keep, At
  <2>2. run'[r] = Handled(run[r], o) /\ \A q \in Runs \ {r} : run'[q] = run[q]
    BY <1>0, <2>1 DEF SyncTyped
  <2>3. o \in Stored' /\ Stored \subseteq Stored'
    <3>1. PICK new : new = [Unstored EXCEPT !.status = "NEW"]
      OBVIOUS
    <3>2. PICK booked : booked = [status |-> "BOOKED", tx |-> Len(txs) + 1, adopted |-> FALSE]
      OBVIOUS
    <3>3. new.status # "absent" /\ booked.status # "absent"
      BY <3>1, <3>2 DEF Unstored
    <3>4. line' = [line EXCEPT ![o] = new] \/ line' = [line EXCEPT ![o] = booked]
      BY <1>7, <3>1, <3>2 DEF IngestNew
    <3> QED BY <1>0, <3>3, <3>4 DEF Stored, SyncTyped
  <2>4. /\ run'[r].next = run[r].next /\ run'[r].rewound = run[r].rewound
        /\ run'[r].todo = run[r].todo \ {o}
    BY <1>0, <2>1, <2>2, RunTyped DEF Handled
  <2>5. GoesOn(r)
    BY <2>1, <2>3, <2>4 DEF GoesOn
  <2> QED BY <1>b, <2>1, <2>2, <2>3, <2>5
<1>8. ASSUME NEW r \in Runs, NEW o \in Ops, FindTwin(r, o) PROVE Good
  <2>1. PICK n \in Twins(run[r]) :
          run' = [run EXCEPT ![r] = [run[r] EXCEPT !.at = "adopt", !.claimed = @ \cup {n}, !.twin = <<o, n>>]]
    BY <1>8 DEF FindTwin, Keep
  <2>2. ~At(r, "idle") /\ UNCHANGED <<today, day, conn, line, missed>>
    BY <1>8 DEF FindTwin, At
  <2>3. /\ run'[r] = [run[r] EXCEPT !.at = "adopt", !.claimed = @ \cup {n}, !.twin = <<o, n>>]
        /\ \A q \in Runs \ {r} : run'[q] = run[q]
    BY <1>0, <2>1 DEF SyncTyped
  <2>4. run'[r].next = run[r].next /\ run'[r].rewound = run[r].rewound /\ run'[r].todo = run[r].todo
    BY <1>0, <2>2, <2>3, RunTyped
  <2>5. GoesOn(r)
    BY <2>2, <2>4 DEF GoesOn
  <2>6. Stored' = Stored
    BY <2>2 DEF Stored
  <2> QED BY <1>b, <2>2, <2>3, <2>5, <2>6
<1>9. ASSUME NEW r \in Runs, AdoptLine(r) PROVE Good
  <2>1. PICK o \in Ops, n \in Nat : run[r].twin = <<o, n>>
    BY <1>0, <1>9, RunTyped DEF AdoptLine, At
  <2>2. ~At(r, "idle") /\ UNCHANGED <<today, day, conn>>
    BY <1>9 DEF AdoptLine, At
  <2>3. run' = [run EXCEPT ![r] = [Handled(run[r], o) EXCEPT !.at = "ingest", !.twin = NoTwin]]
    BY <1>9, <2>1 DEF AdoptLine, Keep
  <2>4. /\ run'[r] = [Handled(run[r], o) EXCEPT !.at = "ingest", !.twin = NoTwin]
        /\ \A q \in Runs \ {r} : run'[q] = run[q]
    BY <1>0, <2>3 DEF SyncTyped
  <2>5. /\ run'[r].next = run[r].next /\ run'[r].rewound = run[r].rewound
        /\ run'[r].todo = run[r].todo \ {o}
    BY <1>0, <2>2, <2>4, RunTyped DEF Handled
  <2>6. Stored \subseteq Stored' /\ missed \subseteq missed' /\ o \in Stored' \cup missed'
    <3>1. CASE Linked(n) \/ o \in Stored
      BY <1>9, <2>1, <3>1 DEF AdoptLine, Stored
    <3>2. CASE ~(Linked(n) \/ o \in Stored)
      BY <1>0, <1>9, <2>1, <3>2 DEF AdoptLine, Stored, SyncTyped
    <3> QED BY <3>1, <3>2
  <2>7. GoesOn(r)
    BY <2>2, <2>5, <2>6 DEF GoesOn
  <2> QED BY <1>b, <2>2, <2>4, <2>6, <2>7
<1>10. ASSUME NEW r \in Runs, Finish(r) PROVE Good
  <2>1. PICK next \in Nat : next = run[r].next /\ conn'.cursor = next /\ conn'.from = conn.from /\ Passed(next)
    BY <1>0, <1>10, RunTyped DEF Finish, SyncTyped, Clock, At
  <2>2. UNCHANGED <<today, day, line>> /\ missed \subseteq missed' /\ Stored' = Stored /\ ~At(r, "idle")
    BY <1>10 DEF Finish, Stored, At
  <2>3. At(r, "idle")' /\ \A q \in Runs \ {r} : run'[q] = run[q]
    BY <1>0, <1>10 DEF Finish, Keep, NoRun, At, SyncTyped
  <2>4. Clock'
    BY <1>0, <2>1, <2>2, <2>3 DEF Clock, Passed, At
  <2>5. Covered'
    <3> SUFFICES ASSUME NEW q \in Runs, ~At(q, "idle")', ~run'[q].rewound,
                        NEW o \in Ops \ missed', Behind(o, run[q].next)'
                 PROVE o \in Stored' \cup run'[q].todo
      BY DEF Covered
    <3>1. q # r
      BY <2>3
    <3>2. Behind(o, run[q].next) /\ ~At(q, "idle") /\ ~run[q].rewound
      BY <2>1, <2>2, <2>3, <3>1 DEF Behind, Wanted, FirstDay, At
    <3> QED BY <1>0, <2>2, <2>3, <3>1, <3>2 DEF Covered
  <2>6. NothingLeftBehind'
    <3> SUFFICES ASSUME NEW o \in Ops \ missed', Wanted(o)', Closed(o)' PROVE o \in Stored
      BY <2>2 DEF NothingLeftBehind
    <3>1. CASE run[r].rewound
      BY <1>10, <3>1 DEF Finish
    <3>2. CASE ~run[r].rewound
      <4>1. Behind(o, run[r].next)
        BY <2>1, <2>2 DEF Behind, Wanted, Closed, FirstDay
      <4> QED BY <1>0, <1>10, <2>2, <3>2, <4>1 DEF Covered, Finish
    <3> QED BY <3>1, <3>2
  <2> QED BY <2>4, <2>5, <2>6 DEF Good
<1>11. ASSUME NEW r \in Runs, FailSync(r) PROVE Good
  <2>1. UNCHANGED <<today, day, line, missed>> /\ conn'.cursor = conn.cursor /\ conn'.from = conn.from
    BY <1>0, <1>11 DEF FailSync, SyncTyped
  <2>2. At(r, "idle")' /\ (\A q \in Runs \ {r} : run'[q] = run[q]) /\ Stored' = Stored
    BY <1>0, <1>11 DEF FailSync, Keep, NoRun, At, SyncTyped, Stored
  <2> QED BY <1>b, <2>1, <2>2
<1>12. ASSUME Crash PROVE Good
  <2>1. UNCHANGED <<today, day, conn, missed>> /\ Stored' = Stored /\ today <= today'
    BY <1>0, <1>12 DEF Crash, Stored, SyncTyped
  <2>2. ASSUME NEW r \in Runs PROVE At(r, "idle")'
    BY <1>12 DEF Crash, NoRun, At
  <2> QED BY <1>0, <2>1, <2>2, Carried DEF Good
<1>13. ASSUME NEW status \in {"ACTIVE", "DISABLED"}, SetStatus(status) PROVE Good
  <2>1. /\ UNCHANGED <<today, day, run, missed>> /\ Stored' = Stored /\ today <= today'
        /\ conn'.cursor = conn.cursor /\ conn'.from = conn.from
    BY <1>0, <1>13 DEF SetStatus, Stored, SyncTyped
  <2> QED BY <1>a, <2>1
<1>14. ASSUME MoveBackfill PROVE Good
  <2>1. conn'.cursor = 0 /\ Rewind /\ UNCHANGED bank
    BY <1>0, <1>14 DEF MoveBackfill, SyncTyped
  <2> QED BY <1>0, <2>1, PutBack DEF Good
<1>15. ASSUME BeginReset PROVE Good
  <2>1. UNCHANGED <<day, missed, run, conn>> /\ Stored' = Stored /\ today <= today'
    BY <1>0, <1>15 DEF BeginReset, Stored, SyncTyped
  <2> QED BY <1>a, <2>1
<1>16. ASSUME Reset PROVE Good
  <2>1. conn'.cursor = 0 /\ Rewind /\ UNCHANGED bank
    BY <1>0, <1>16 DEF Reset, SyncTyped
  <2> QED BY <1>0, <2>1, PutBack DEF Good
<1> QED
  BY <1>1, <1>2, <1>3, <1>4, <1>5, <1>6, <1>7, <1>8, <1>9, <1>10, <1>11, <1>12, <1>13, <1>14, <1>15, <1>16
  DEF SyncNext, Serve, Good

LEMMA NextIInv == SyncIInv /\ [SyncNext]_syncVars => SyncIInv'
<1> SUFFICES ASSUME SyncIInv, [SyncNext]_syncVars PROVE SyncIInv'
  OBVIOUS
<1>1. CASE SyncNext
  <2>1. SyncTyped'
    BY <1>1, NextTyped DEF SyncIInv
  <2> QED BY <1>1, <2>1, NextCursorOk DEF SyncIInv
<1>2. CASE UNCHANGED syncVars
  BY <1>2 DEF syncVars, bank, counters, SyncIInv, SyncTyped, Clock, Passed, Covered, NothingLeftBehind, Behind, Wanted, Closed,
              FirstDay, Stored, At
<1> QED BY <1>1, <1>2

(***************************************************************************)
(* The cursor leaves no operation of the bank behind, with any number of   *)
(* runs, portions and days (sync.service.ts syncConnection; the cursors of *)
(* alfa.adapter.ts and tbank.adapter.ts).                                  *)
(***************************************************************************)
THEOREM CursorLeavesNothing == SyncSpec => []NothingLeftBehind
<1>1. SyncInit => SyncIInv
  BY InitTyped, InitCursor DEF SyncIInv
<1>2. SyncIInv /\ [SyncNext]_syncVars => SyncIInv'
  BY NextIInv
<1>3. SyncIInv => NothingLeftBehind
  BY DEF SyncIInv
<1> QED BY <1>1, <1>2, <1>3, PTL DEF SyncSpec

-----------------------------------------------------------------------------
(***************************************************************************)
(* Reloading.                                                              *)
(***************************************************************************)
\* Of the steps that end a reloading only the deletion changes lines.
LEMMA OnlyResetDrops ==
  ASSUME SyncNext, reset # NotResetting, reset' = NotResetting, line' # line
  PROVE Reset
<1> USE DEF counters
<1>1. ~DayPasses /\ ~EnterByHand /\ ~MoveBackfill /\ ~BeginReset /\ ~Crash
  BY DEF DayPasses, EnterByHand, MoveBackfill, BeginReset, Crash
<1>2. \A o \in Ops : ~Post(o)
  BY DEF Post
<1>3. \A o \in Ops, kind \in {"OTHER", "ORDER_PAYMENT"} : ~Book(o, kind)
  BY DEF Book
<1>4. \A r \in Runs : ~FetchStatement(r) /\ ~AdoptLine(r) /\ ~Finish(r) /\ ~FailSync(r)
  BY DEF FetchStatement, AdoptLine, Finish, FailSync
<1>5. \A r \in Runs, o \in Ops : ~IngestKnown(r, o) /\ ~IngestNew(r, o) /\ ~FindTwin(r, o)
  BY DEF IngestKnown, IngestNew, FindTwin
<1>6. \A status \in {"ACTIVE", "DISABLED"} : ~SetStatus(status)
  BY DEF SetStatus
<1> QED BY <1>1, <1>2, <1>3, <1>4, <1>5, <1>6 DEF SyncNext, Serve

(***************************************************************************)
(* Reloading a statement leaves no entry without the line it was made of,  *)
(* if nobody booked a line meanwhile (integrations.service.ts              *)
(* resetStatement).                                                        *)
(***************************************************************************)
THEOREM ReloadLeavesNoMoney == SyncSpec => ReloadIsClean
<1>1. SyncInit => SyncIInv
  BY InitTyped, InitCursor DEF SyncIInv
<1>2. SyncIInv /\ [SyncNext]_syncVars => SyncIInv'
  BY NextIInv
<1>3. SyncIInv /\ [SyncNext]_syncVars =>
        [reset # NotResetting /\ reset' = NotResetting /\ line' # line /\ Undisturbed =>
           \A n \in DOMAIN txs : txs[n].live /\ ~txs[n].hand /\ Linked(n) =>
             (txs'[n].live => \E o \in Ops : line'[o].tx = n)]_syncVars
  <2> SUFFICES ASSUME SyncIInv, SyncNext, reset # NotResetting, reset' = NotResetting, line' # line, Undisturbed,
                      NEW n \in DOMAIN txs, NEW o \in Ops, line[o].tx = n, txs'[n].live
               PROVE \E k \in Ops : line'[k].tx = n
    BY DEF Linked
  <2>1. Reset
    BY OnlyResetDrops
  <2>2. o \notin Dropped
    <3> SUFFICES ASSUME o \in Dropped PROVE FALSE
      OBVIOUS
    <3>1. reset[o].tx = n
      BY DEF Undisturbed
    <3>2. txs'[n] = [txs[n] EXCEPT !.live = FALSE]
      BY <2>1, <3>1, Zenon DEF Reset
    <3>3. txs[n] \in EntryType
      BY DEF SyncIInv, SyncTyped
    <3> QED BY <3>2, <3>3 DEF EntryType
  <2>3. line'[o] = line[o]
    BY <2>1, <2>2 DEF Reset
  <2> QED BY <2>3
<1> QED BY <1>1, <1>2, <1>3, PTL DEF SyncSpec, ReloadIsClean
=============================================================================
