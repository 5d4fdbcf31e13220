---------------------------- MODULE OrdersProofs ----------------------------
(***************************************************************************)
(* Theorems about the orders, for every set of orders, items and lines,    *)
(* any prices, costs and amounts and any bounds: what an order delivered   *)
(* can come back to the stock and its margin follows the cost the stock    *)
(* consumed, its totals and payment state follow its transactions, a       *)
(* deleted transaction holds no bank line, and an order that is undone     *)
(* leaves nothing behind.                                                  *)
(*                                                                         *)
(* The invariant is IInv.  Tables says of each order, its lines, their     *)
(* events and the transactions what the record of the order promises       *)
(* (OrderOk); Goods says that the ledger is sound and that each line is    *)
(* served (Served): the rows of a line sum up to what it has out, and its  *)
(* snapshot is what they cost.                                             *)
(*                                                                         *)
(* Closing an order and undoing it go through its lines one by one, each   *)
(* on the ledger the one before left.  Worked is where that loop ends;     *)
(* Courses says that it is the last of a course of ledgers, one per line,  *)
(* and what holds of every ledger on the course is shown by looking at the *)
(* first line it would fail for.                                           *)
(***************************************************************************)
EXTENDS Orders, StockLedgerProofs, SequenceTheorems

-----------------------------------------------------------------------------
(***************************************************************************)
(* The inductive invariant.                                                *)
(***************************************************************************)
OrderType == [status : Statuses, deleted : BOOLEAN, discount : Nat, subtotal : Nat, total : Nat,
              paid : Int, payState : PaymentStates]
LineType == [qty : Nat, shipped : Nat, returned : Nat, snap : Nat \cup {-1}]
EventType == [qty : Nat, revenue : Nat, cost : Int]
TxType == [order : OrderIds, kind : Kinds, amount : Int, deleted : BOOLEAN, bankLine : BOOLEAN,
           late : BOOLEAN]

\* A line never comes back more than it went out, and its events say what came back.
LineOk(rec, ev, l) ==
  /\ rec \in LineType /\ ev \in EventType
  /\ rec.returned <= rec.shipped /\ rec.shipped <= rec.qty
  /\ ev.qty = rec.returned
  /\ MoneyUnit = 1 => ev.revenue = rec.returned * Price[l]

Mine(T, o) == {n \in DOMAIN T : T[n].order = o}
Costs(T, o) == Live(T, o, "COGS") \cup Live(T, o, "COGS_REVERSAL")
Undone(rec) == rec.deleted \/ rec.status = "CANCELLED"

\* What the record of an order says of its lines L, their events E and the transactions T.
OrderOk(rec, o, L, E, T) ==
  /\ rec \in OrderType /\ rec.total = rec.subtotal - rec.discount
  /\ rec.status = "none" =>
       rec = NoOrder /\ Mine(T, o) = {} /\ \A l \in LinesIn(o) : L[l].shipped = 0
  /\ rec.status = "DONE" /\ ~rec.deleted => \A l \in LinesIn(o) : L[l].shipped = L[l].qty
  /\ Undone(rec) => Costs(T, o) = {} /\ \A l \in LinesIn(o) : L[l].shipped = 0 /\ E[l] = NoEvents
  /\ rec.deleted => \A n \in Mine(T, o) : T[n].deleted
  /\ rec.status # "none" /\ ~rec.deleted => rec.paid = Paid(T, o)
  /\ rec.status \notin {"none", "CANCELLED"} /\ ~rec.deleted /\ (rec.total > 0 \/ rec.paid # 0) =>
       rec.payState = ResolvePaymentState(rec.paid, NetRevenue(L, rec, o))

\* Only a link written late is held by a deleted transaction.
TxsOk(T) == T \in Seq(TxType) /\ \A n \in DOMAIN T : T[n].bankLine /\ T[n].deleted => T[n].late

Tables(O, L, E, T) ==
  /\ O \in [OrderIds -> OrderType] /\ L \in [Lines -> LineType] /\ E \in [Lines -> EventType] /\ TxsOk(T)
  /\ \A l \in Lines : LineOk(L[l], E[l], l)
  /\ \A o \in OrderIds : OrderOk(O[o], o, L, E, T)

\* The ledger can give back what a line has out, and knows what it cost.
Served(s, rec, l) ==
  ~Manual(l) /\ InStock(s, ItemOf[l]) =>
    /\ ReversibleQty(s, l) = rec.shipped - rec.returned
    /\ rec.shipped > 0 => rec.snap = UnitCostAtSaleFor(s, l)

Goods(s, L) ==
  /\ Sound(s) /\ \A i \in Items : s.item[i].created
  /\ \A o \in OrderIds : \A l \in LinesIn(o) : Served(s, L[l], l)

IInv == Tables(order, line, events, txs) /\ Goods(stock, line)

-----------------------------------------------------------------------------
(***************************************************************************)
(* What a sale and a return do to the ledger.                              *)
(***************************************************************************)
SameFlags(s, t) ==
  \A j \in Items : /\ t.item[j].created <=> s.item[j].created
                   /\ t.item[j].deleted <=> s.item[j].deleted

\* The rows of a line say what can be reversed and what it costs.
LEMMA RowsTell ==
  ASSUME NEW s, NEW t, NEW l, RowsOf(t, l) = RowsOf(s, l)
  PROVE  ReversibleQty(t, l) = ReversibleQty(s, l) /\ UnitCostAtSaleFor(t, l) = UnitCostAtSaleFor(s, l)
<1>1. Reversible(t, l) = Reversible(s, l)
  BY DEF Reversible, RowsOf
<1>2. ReversibleQty(t, l) = ReversibleQty(s, l)
  BY <1>1 DEF ReversibleQty
<1>3. NetQty(t, l) = NetQty(s, l) /\ NetCost(t, l) = NetCost(s, l)
  BY DEF NetQty, NetCost
<1> QED BY <1>2, <1>3 DEF UnitCostAtSaleFor

LEMMA SnapType ==
  ASSUME NEW s, Sound(s), NEW l
  PROVE  UnitCostAtSaleFor(s, l) \in Nat \cup {-1}
<1> DEFINE R == RowsOf(s, l)
<1>1. Typed(s) /\ RowsOk(s)
  BY DEF Sound
<1>2. R \in SUBSET s.rows /\ IsFiniteSet(R)
  BY <1>1, FS_Subset DEF Typed, RowsOf
<1>3. \A r \in R : Rest[r] = Remaining(r) /\ Rest[r] \in Nat /\ Worth[r] = Remaining(r) * r.cost
      /\ Worth[r] \in Nat
  BY <1>1, <1>2, RestType, WorthType
<1> HIDE DEF R
<1>4. Sum([r \in R |-> Remaining(r)], R) = Sum(Rest, R)
  BY <1>2, <1>3, SumSame
<1>5. Sum([r \in R |-> Remaining(r) * r.cost], R) = Sum(Worth, R)
  BY <1>2, <1>3, SumSame
<1>6. Sum(Rest, R) \in Nat /\ Sum(Worth, R) \in Nat
  BY <1>2, <1>3, SumType
<1>7. NetQty(s, l) = Sum(Rest, R) /\ NetCost(s, l) = Sum(Worth, R)
  BY <1>4, <1>5 DEF NetQty, NetCost, R, SumFunction, Sum
<1>8. NetQty(s, l) > 0 => RoundDiv(NetCost(s, l), NetQty(s, l)) \in Nat
  BY <1>6, <1>7, Rounded
<1> QED BY <1>8 DEF UnitCostAtSaleFor

\* t is s after a sale of need units of item i on line l.
Sold(s, t, i, l, need) ==
  /\ Sound(t) /\ SameFlags(s, t)
  /\ ReversibleQty(t, l) = ReversibleQty(s, l) + need
  /\ \A m \in Lines : m # l => RowsOf(t, m) = RowsOf(s, m)
  /\ LotQty(t, i) = LotQty(s, i) - need
  /\ \A j \in Items : j # i => LotQty(t, j) = LotQty(s, j)

LEMMA SoldOne ==
  ASSUME NEW s, Sound(s), NEW l \in Lines, NEW i \in Items, ItemOf[l] = i, InStock(s, i), NEW need \in Nat,
         need <= LotQty(s, i), NEW t, t = ConsumeLots(s, i, Nobody, need, l, "SALE")
  PROVE  Sold(s, t, i, l, need)
<1>1. l \in Outlets /\ "SALE" \in RowKinds
  BY DEF Outlets, RowKinds
<1>2. Consumes(s, t, i, Nobody, need, l, "SALE")
  BY DEF Consumes
<1>3. Sound(t)
  BY <1>1, <1>2, ConsumedSound
<1>4. ReversibleQty(t, l) = ReversibleQty(s, l) + need
  BY <1>1, <1>2, ConsumedLines
<1>5. PICK T, N : ConsumedFacts(s, t, i, T, N, need, l, "SALE")
  BY <1>1, <1>2, ConsumingIs
<1>6. Moved(s, t, i, -need, s.item[i].qty - need)
  BY <1>5 DEF ConsumedFacts
<1>7. SameFlags(s, t)
  BY <1>6 DEF Moved, SameFlags
<1>8. ASSUME NEW m \in Lines, m # l PROVE RowsOf(t, m) = RowsOf(s, m)
  <2>1. t.rows = s.rows \cup N /\ \A r \in N : r.line = l
    BY <1>5 DEF ConsumedFacts
  <2> QED BY <2>1, <1>8 DEF RowsOf
<1>9. LotQty(t, i) = LotQty(s, i) - need
  <2>1. InStock(t, i)
    BY <1>7 DEF InStock, SameFlags
  <2>2. t.item[i].qty = LotQty(t, i) /\ t.item[i].qty = t.item[i].moved
    BY <2>1, <1>3 DEF Sound, BooksOk, Cached, Journalled
  <2>3. s.item[i].qty = LotQty(s, i) /\ s.item[i].qty = s.item[i].moved
    BY DEF Sound, BooksOk, Cached, Journalled
  <2>4. t.item[i].moved = s.item[i].moved + (-need)
    BY <1>6 DEF Moved
  <2>5. LotQty(s, i) \in Nat
    BY HeldQty DEF Sound, Typed
  <2> QED BY <2>2, <2>3, <2>4, <2>5
<1>10. ASSUME NEW j \in Items, j # i PROVE LotQty(t, j) = LotQty(s, j)
  <2>1. t.item[j] = s.item[j]
    BY <1>6, <1>10 DEF Moved
  <2> QED BY <2>1, <1>3 DEF Sound, BooksOk, Cached
<1> QED BY <1>3, <1>4, <1>7, <1>8, <1>9, <1>10 DEF Sold

\* t is s after a return of qty units of item i on line l.
Returned(s, t, i, l, qty) ==
  /\ Sound(t) /\ SameFlags(s, t)
  /\ InStock(s, i) => ReversibleQty(t, l) = ReversibleQty(s, l) - qty
  /\ \A m \in Lines : m # l => RowsOf(t, m) = RowsOf(s, m)

LEMMA ReturnedOne ==
  ASSUME NEW s, Sound(s), NEW l \in Lines, NEW i \in Items, ItemOf[l] = i, s.item[i].created, NEW qty \in Nat,
         qty > 0,
         InStock(s, i) => qty <= ReversibleQty(s, l),
         NEW cost, NEW t, t = ReturnUnits(s, i, l, qty, cost)
  PROVE  Returned(s, t, i, l, qty)
<1>1. Typed(s) /\ RowsOk(s)
  BY DEF Sound
<1>2. CASE InStock(s, i)
  <2>1. ReversibleQty(s, l) \in Nat /\ (Reversible(s, l) = {} => ReversibleQty(s, l) = 0)
    BY <1>1, ReversibleIs
  <2>2. Reversible(s, l) # {}
    BY <2>1, <1>2
  <2>3. t = ReverseConsumption(s, i, l, qty)
    BY <2>2, <1>2 DEF ReturnUnits, NoConsumptions
  <2>4. Reverses(s, t, i, l, qty)
    BY <2>3, <1>2 DEF Reverses
  <2>5. Sound(t)
    BY <2>4, ReversedSound
  <2>6. ReversibleQty(s, l) = ReversibleQty(t, l) + qty
    BY <2>4, ReversedLines
  <2>7. ReversibleQty(t, l) \in Nat
    BY <2>5, ReversibleIs DEF Sound
  <2>8. PICK G, M, H : ReversedFacts(s, t, i, G, M, H, l, qty)
    BY <2>4, ReversingIs
  <2>9. SameFlags(s, t)
    <3>1. Moved(s, t, i, qty, s.item[i].qty + qty)
      BY <2>8 DEF ReversedFacts
    <3> QED BY <3>1 DEF Moved, SameFlags
  <2>10. ASSUME NEW m \in Lines, m # l PROVE RowsOf(t, m) = RowsOf(s, m)
    <3>1. RowsGiven(s, t, G, M, l)
      BY <2>8 DEF ReversedFacts
    <3>2. t.rows = {M[r] : r \in s.rows} /\ \A r \in s.rows : M[r].line = r.line
      BY <3>1 DEF RowsGiven, SameRow
    <3>3. \A r \in s.rows : r.line # l => M[r] = r
      BY <3>1 DEF RowsGiven, Reversible
    <3> QED BY <3>2, <3>3, <2>10 DEF RowsOf
  <2>11. ReversibleQty(t, l) = ReversibleQty(s, l) - qty
    BY <2>6, <2>7
  <2> QED BY <2>5, <2>9, <2>10, <2>11 DEF Returned
<1>3. CASE ~InStock(s, i)
  <2>1. t = RecordMovement(s, i, qty, qty)
    BY <1>3 DEF ReturnUnits, NoConsumptions, Restock
  <2>2. Sound(t) /\ t.rows = s.rows
    BY <2>1, <1>3, BareSound
  <2>3. SameFlags(s, t)
    BY <2>1, <1>1, Recorded DEF SameFlags, Typed
  <2> QED BY <2>2, <2>3, <1>3 DEF Returned, RowsOf
<1> QED BY <1>2, <1>3

-----------------------------------------------------------------------------
(***************************************************************************)
(* Closing an order and undoing it go through its lines one by one.        *)
(***************************************************************************)
\* What closing (m) or undoing an order does for one line, and for all of them in turn.
SellOne(o, s, l) == IF l \in ToSell(o) THEN ConsumeLots(s, ItemOf[l], Nobody, Unshipped(l), l, "SALE") ELSE s
BackOne(o, s, l) == IF NetOut(o, l) > 0 THEN GoBack(s, l, NetOut(o, l)) ELSE s
Work(m, o, s, l) == IF m THEN SellOne(o, s, l) ELSE BackOne(o, s, l)

Worked(m, o) == FoldLeft(LAMBDA s, l : Work(m, o, s, l), stock, LinesOf[o])

\* The function by which the library defines that fold: over sets of places, the last one first.
Latest(K) == Max(K)
Runs(g, m, o, q) ==
  g = [K \in SUBSET (DOMAIN q) |-> IF K = {} THEN stock ELSE Work(m, o, g[K \ {Latest(K)}], q[Latest(K)])]

LEMMA WorkedIs ==
  ASSUME NEW m, NEW o PROVE Worked(m, o) = (CHOOSE g : Runs(g, m, o, LinesOf[o]))[DOMAIN LinesOf[o]]
  BY DEF Worked, FoldLeft, MapThenFoldSet, Runs, Latest

LEMMA SellIsWorked == ASSUME NEW o PROVE SellRemaining(o) = Worked(TRUE, o)
  BY DEF SellRemaining, Worked, Work, SellOne

LEMMA BackIsWorked ==
  ASSUME NEW o, ReverseFinalization(o) PROVE stock' = Worked(FALSE, o)
<1> QED BY DEF ReverseFinalization, Worked, Work, BackOne, FoldLeft, MapThenFoldSet

LEMMA LatestIs ==
  ASSUME NEW n \in Nat, NEW K \in SUBSET (1..n), K # {}
  PROVE  Latest(K) \in K
<1> DEFINE Bad == {b \in Nat : \E a \in K : a = n - b}
<1>1. Bad # {}
  <2>1. PICK a \in K : TRUE
    OBVIOUS
  <2>2. n - a \in Nat /\ a = n - (n - a)
    OBVIOUS
  <2> QED BY <2>2
<1>2. PICK b \in Bad : \A c \in Nat : c < b => c \notin Bad
  <2> HIDE DEF Bad
  <2>1. Bad \in SUBSET Nat
    BY DEF Bad
  <2> QED BY <2>1, <1>1, SmallestNumber
<1>3. PICK x \in K : x = n - b
  BY <1>2
<1>4. \A y \in K : x >= y
  <2> SUFFICES ASSUME NEW y \in K, x < y PROVE FALSE
    OBVIOUS
  <2>1. n - y \in Nat /\ y = n - (n - y) /\ n - y < b
    BY <1>3
  <2>2. n - y \in Bad
    BY <2>1
  <2> QED BY <2>1, <2>2, <1>2
<1>5. \E z \in K : \A y \in K : z >= y
  BY <1>4
<1>6. Latest(K) = CHOOSE z \in K : \A y \in K : z >= y
  BY DEF Latest, Max
<1> QED BY <1>5, <1>6

\* The library's recursion defines a function here too.
LEMMA RunsExist ==
  ASSUME NEW m, NEW o, NEW q, NEW n \in Nat, DOMAIN q = 1..n PROVE \E g : Runs(g, m, o, q)
<1> DEFINE S == 1..n
           Body(g, s) == IF s = {} THEN stock ELSE Work(m, o, g[s \ {Latest(s)}], q[Latest(s)])
           Good(g, k) == /\ g = [s \in SUBSET S |-> g[s]]
                         /\ \A s \in SUBSET S : Cardinality(s) <= k => g[s] = Body(g, s)
           Bad == {k \in Nat : ~ \E g : Good(g, k)}
<1>a. IsFiniteSet(S)
  BY FS_Interval
<1>0. \A s \in SUBSET S : IsFiniteSet(s) /\ Cardinality(s) \in Nat /\ Cardinality(s) <= Cardinality(S)
  BY <1>a, FS_Subset, FS_CardinalityType
<1>1. Bad = {}
  <2> SUFFICES ASSUME Bad # {} PROVE FALSE
    OBVIOUS
  <2>1. PICK k \in Bad : \A j \in Nat : j < k => j \notin Bad
    <3> HIDE DEF Bad
    <3>1. Bad \in SUBSET Nat
      BY DEF Bad
    <3> QED BY <3>1, SmallestNumber
  <2>2. k # 0
    <3> SUFFICES ASSUME k = 0 PROVE FALSE
      OBVIOUS
    <3> DEFINE g == [s \in SUBSET S |-> stock]
    <3>1. g = [s \in SUBSET S |-> g[s]]
      OBVIOUS
    <3>2. ASSUME NEW s \in SUBSET S, Cardinality(s) <= 0 PROVE g[s] = Body(g, s)
      <4>1. s = {}
        BY <1>0, <3>2, FS_EmptySet
      <4> QED BY <4>1
    <3>3. Good(g, 0)
      BY <3>1, <3>2
    <3> QED
      <4> HIDE DEF g
      <4> QED BY <3>3
  <2>a. k - 1 \in Nat /\ k - 1 < k
    BY <2>1, <2>2
  <2>b. k - 1 \notin Bad
    BY <2>1, <2>a
  <2>3. PICK g : Good(g, k - 1)
    BY <2>a, <2>b
  <2> DEFINE h == [s \in SUBSET S |-> IF Cardinality(s) = k THEN Body(g, s) ELSE g[s]]
  <2>4. h = [s \in SUBSET S |-> h[s]]
    OBVIOUS
  <2>5. ASSUME NEW s \in SUBSET S, Cardinality(s) <= k PROVE h[s] = Body(h, s)
    <3>1. CASE s = {}
      <4>1. Cardinality(s) = 0
        BY <3>1, FS_EmptySet
      <4>2. h[s] = g[s]
        BY <2>2, <4>1
      <4>3. g[s] = Body(g, s)
        <5>1. Cardinality(s) <= k - 1
          BY <2>a, <4>1
        <5> QED BY <2>3, <2>5, <5>1
      <4> QED BY <3>1, <4>2, <4>3
    <3>2. CASE s # {}
      <4> DEFINE t == s \ {Latest(s)}
      <4>1. Latest(s) \in s /\ t \in SUBSET S
        BY <3>2, LatestIs
      <4>2. Cardinality(t) = Cardinality(s) - 1
        BY <1>0, <4>1, FS_RemoveElement
      <4>3. h[t] = g[t]
        BY <1>0, <2>1, <2>5, <4>1, <4>2
      <4>4. Body(h, s) = Body(g, s)
        BY <3>2, <4>3
      <4>5. CASE Cardinality(s) = k
        BY <4>4, <4>5
      <4>6. CASE Cardinality(s) # k
        <5>1. Cardinality(s) <= k - 1
          BY <1>0, <2>1, <2>5, <4>6
        <5>2. g[s] = Body(g, s)
          BY <2>3, <5>1
        <5> QED BY <4>4, <4>6, <5>2
      <4> QED BY <4>5, <4>6
    <3> QED BY <3>1, <3>2
  <2>6. Good(h, k)
    <3> HIDE DEF h, Body
    <3> QED BY <2>4, <2>5
  <2>7. k \in Nat /\ ~ \E f : Good(f, k)
    BY <2>1
  <2> HIDE DEF h, Good
  <2> QED BY <2>6, <2>7
<1>2. Cardinality(S) \in Nat
  BY <1>a, FS_CardinalityType
<1>3. PICK g : Good(g, Cardinality(S))
  BY <1>1, <1>2
<1>4. \A s \in SUBSET S : g[s] = Body(g, s)
  BY <1>0, <1>3
<1>5. g = [s \in SUBSET S |-> Body(g, s)]
  BY <1>3, <1>4
<1> QED BY <1>5 DEF Runs

\* The course of the work: p[k] is the ledger after the first k lines.
Course(p, m, o, n) ==
  /\ n = Len(LinesOf[o]) /\ n \in Nat /\ p[0] = stock /\ p[n] = Worked(m, o)
  /\ \A k \in 1..n : p[k] = Work(m, o, p[k - 1], LinesOf[o][k])

LEMMA Courses ==
  ASSUME NEW m, NEW o \in OrderIds PROVE \E p, n : Course(p, m, o, n)
<1> DEFINE q == LinesOf[o]
           n == Len(q)
<1>1. q \in Seq(Lines) /\ n \in Nat /\ DOMAIN q = 1..n
  BY OrdersAssumption, LenProperties
<1>2. PICK h : Runs(h, m, o, q)
  BY <1>1, RunsExist
<1>3. PICK g : g = (CHOOSE f : Runs(f, m, o, q))
  OBVIOUS
<1>4. Runs(g, m, o, q)
  BY <1>2, <1>3
<1>5. Worked(m, o) = g[DOMAIN q]
  BY <1>3, WorkedIs
<1> DEFINE p == [k \in 0..n |-> g[1..k]]
<1> HIDE DEF n, q
<1>6. p[0] = stock
  <2>1. 1..0 = {} /\ 0 \in 0..n
    BY <1>1
  <2>2. g[{}] = stock
    BY <1>4 DEF Runs
  <2> QED BY <2>1, <2>2
<1>7. p[n] = Worked(m, o)
  BY <1>1, <1>5
<1>8. ASSUME NEW k \in 1..n PROVE p[k] = Work(m, o, p[k - 1], q[k])
  <2>1. k \in Nat /\ k \in 0..n /\ k - 1 \in 0..n /\ (1..k) \in SUBSET (DOMAIN q) /\ (1..k) # {}
    <3>1. k \in Nat /\ 1 <= k /\ k <= n
      BY <1>1
    <3>2. k \in 0..n /\ k - 1 \in 0..n /\ 1 \in 1..k
      BY <1>1, <3>1
    <3>3. \A j \in 1..k : j \in 1..n
      BY <1>1, <3>1
    <3> QED BY <1>1, <3>1, <3>2, <3>3
  <2>2. Latest(1..k) = k
    <3>1. \A y \in 1..k : k >= y
      BY <2>1
    <3>2. \A z \in 1..k : z >= k => z = k
      BY <2>1
    <3>3. k \in 1..k
      BY <2>1
    <3>4. (CHOOSE z \in 1..k : \A y \in 1..k : z >= y) = k
      BY <3>1, <3>2, <3>3
    <3> QED BY <3>4 DEF Latest, Max
  <2>3. (1..k) \ {k} = 1..(k - 1)
    BY <2>1
  <2>4. g[1..k] = Work(m, o, g[(1..k) \ {Latest(1..k)}], q[Latest(1..k)])
    BY <2>1, <1>4 DEF Runs
  <2>5. p[k] = g[1..k] /\ p[k - 1] = g[1..(k - 1)]
    BY <2>1
  <2> HIDE DEF p
  <2> QED BY <2>2, <2>3, <2>4, <2>5
<1> HIDE DEF p
<1>9. Course(p, m, o, n)
  BY <1>1, <1>6, <1>7, <1>8 DEF Course, q, n
<1> QED BY <1>9

-----------------------------------------------------------------------------
(***************************************************************************)
(* Lines.                                                                  *)
(***************************************************************************)
\* The first k lines of o.
Past(o, k) == {LinesOf[o][j] : j \in 1..k}

LEMMA LinesOfOrder ==
  ASSUME NEW o \in OrderIds
  PROVE  /\ LinesIn(o) \in SUBSET Lines /\ IsFiniteSet(LinesIn(o))
         /\ Past(o, 0) = {} /\ Len(LinesOf[o]) \in Nat /\ Past(o, Len(LinesOf[o])) = LinesIn(o)
<1> DEFINE q == LinesOf[o]
<1>1. q \in Seq(Lines) /\ Len(q) \in Nat /\ DOMAIN q = 1..Len(q) /\ \A j \in 1..Len(q) : q[j] \in Lines
  BY OrdersAssumption, LenProperties, ElementOfSeq
<1>2. LinesIn(o) = {q[j] : j \in 1..Len(q)}
  BY <1>1 DEF LinesIn, Range
<1>3. IsFiniteSet(1..Len(q))
  BY <1>1, FS_Interval
<1>4. IsFiniteSet({q[j] : j \in 1..Len(q)})
  BY <1>3, ImageFinite
<1> QED BY <1>1, <1>2, <1>4 DEF Past

\* One line after the other, each once.
LEMMA NextLine ==
  ASSUME NEW o \in OrderIds, NEW k \in 1..Len(LinesOf[o])
  PROVE  /\ k - 1 \in Nat /\ LinesOf[o][k] \in LinesIn(o) /\ LinesOf[o][k] \notin Past(o, k - 1)
         /\ Past(o, k) = Past(o, k - 1) \cup {LinesOf[o][k]}
<1> DEFINE q == LinesOf[o]
<1>1. q \in Seq(Lines) /\ Len(q) \in Nat /\ DOMAIN q = 1..Len(q) /\ IsInjective(q)
  BY OrdersAssumption, LenProperties
<1>2. k \in Nat /\ k > 0 /\ 1..k = 1..(k - 1) \cup {k} /\ k \notin 1..(k - 1) /\ k \in 1..Len(q)
  BY <1>1
<1>3. \A j \in 1..(k - 1) : q[j] # q[k]
  <2>1. \A j \in 1..(k - 1) : j \in 1..Len(q) /\ j # k
    BY <1>1, <1>2
  <2> QED BY <2>1, <1>1, <1>2 DEF IsInjective
<1> QED BY <1>1, <1>2, <1>3 DEF Past, LinesIn, Range

\* A line belongs to one order.
LEMMA OneOrder ==
  ASSUME NEW o \in OrderIds, NEW p \in OrderIds, NEW l \in LinesIn(o), l \in LinesIn(p)
  PROVE  o = p
BY OrdersAssumption DEF LinesIn

LEMMA ItemOfLine ==
  ASSUME NEW l \in Lines PROVE (~Manual(l) => ItemOf[l] \in Items) /\ (Manual(l) => ItemOf[l] \notin Items)
BY OrdersAssumption DEF Manual

LEMMA FlagsKeep ==
  ASSUME NEW s, NEW t, SameFlags(s, t), NEW i \in Items PROVE InStock(t, i) <=> InStock(s, i)
BY DEF SameFlags, InStock

LEMMA FlagsChain ==
  ASSUME NEW s, NEW t, NEW u, SameFlags(s, t), SameFlags(t, u) PROVE SameFlags(s, u)
BY DEF SameFlags

\* The lines of the invariant.
LEMMA LineFacts ==
  ASSUME IInv, NEW l \in Lines
  PROVE  /\ line[l] \in LineType /\ line[l].qty \in Nat /\ line[l].shipped \in Nat /\ line[l].returned \in Nat
         /\ line[l].returned <= line[l].shipped /\ line[l].shipped <= line[l].qty
         /\ LineOk(line[l], events[l], l)
<1>1. LineOk(line[l], events[l], l)
  BY DEF IInv, Tables
<1> QED BY <1>1 DEF LineOk, LineType

-----------------------------------------------------------------------------
(***************************************************************************)
(* Closing an order: every line gets what it still needs.                  *)
(***************************************************************************)
\* What closing o will take of item i once the lines P are served.
Rests == [l \in Lines |-> Unshipped(l)]
Waiting(o, i, P) == {l \in ToSell(o) : ItemOf[l] = i /\ l \notin P}

\* s is the ledger when the lines P of o have been served.
Selling(o, s, P) ==
  /\ Sound(s) /\ SameFlags(stock, s)
  /\ \A l \in Lines : l \in ToSell(o) /\ l \in P => ReversibleQty(s, l) = ReversibleQty(stock, l) + Unshipped(l)
  /\ \A l \in Lines : ~(l \in ToSell(o) /\ l \in P) => RowsOf(s, l) = RowsOf(stock, l)
  /\ \A i \in Items : Sum(Rests, Waiting(o, i, P)) <= LotQty(s, i)

LEMMA WaitingIs ==
  ASSUME IInv, NEW o \in OrderIds, NEW i, NEW P
  PROVE  /\ ToSell(o) \in SUBSET LinesIn(o) /\ Waiting(o, i, P) \in SUBSET Lines /\ IsFiniteSet(Waiting(o, i, P))
         /\ \A l \in Waiting(o, i, P) : Rests[l] = Unshipped(l) /\ Rests[l] \in Nat /\ Rests[l] \in Int
         /\ Sum(Rests, Waiting(o, i, P)) \in Nat
<1> DEFINE W == Waiting(o, i, P)
<1>1. ToSell(o) \in SUBSET LinesIn(o)
  BY DEF ToSell, Present
<1>2. W \in SUBSET LinesIn(o)
  BY <1>1 DEF Waiting
<1>3. W \in SUBSET Lines /\ IsFiniteSet(W)
  BY <1>2, LinesOfOrder, FS_Subset
<1>4. \A l \in W : Rests[l] = Unshipped(l) /\ Rests[l] \in Nat /\ Rests[l] \in Int
  <2> SUFFICES ASSUME NEW l \in W PROVE Rests[l] = Unshipped(l) /\ Rests[l] \in Nat
    OBVIOUS
  <2>1. l \in Lines
    BY <1>3
  <2> HIDE DEF W
  <2>2. Rests[l] = line[l].qty - line[l].shipped
    BY <2>1 DEF Rests, Unshipped
  <2> QED BY <2>1, <2>2, LineFacts DEF Unshipped
<1> HIDE DEF W
<1>5. Sum(Rests, W) \in Nat
  BY <1>3, <1>4, SumType
<1> QED BY <1>1, <1>3, <1>4, <1>5 DEF W

LEMMA SellingStarts ==
  ASSUME IInv, NEW o \in OrderIds, EnoughForAll(o) PROVE Selling(o, stock, {})
<1>1. Sound(stock) /\ SameFlags(stock, stock)
  BY DEF IInv, Goods, SameFlags
<1>2. ASSUME NEW i \in Items PROVE Sum(Rests, Waiting(o, i, {})) <= LotQty(stock, i)
  <2> DEFINE W == Waiting(o, i, {})
  <2>1. W \in SUBSET Lines /\ IsFiniteSet(W) /\ \A l \in W : Rests[l] = Unshipped(l) /\ Rests[l] \in Nat
    BY WaitingIs
  <2>2. LotQty(stock, i) \in Nat
    BY <1>1, HeldQty DEF Sound, Typed
  <2>3. CASE W = {}
    <3>1. Sum(Rests, W) = 0
      BY <2>3, SumEmpty
    <3> QED BY <3>1, <2>2
  <2>4. CASE W # {}
    <3>1. PICK l \in W : TRUE
      BY <2>4
    <3>2. l \in ToSell(o) /\ ItemOf[l] = i
      BY <3>1 DEF Waiting
    <3>3. W = {m \in ToSell(o) : ItemOf[m] = i}
      BY DEF Waiting
    <3>4. Enough(stock, i, SumFunction([m \in W |-> Unshipped(m)]))
      BY <3>2, <3>3 DEF EnoughForAll
    <3> HIDE DEF W
    <3>5. SumFunction([m \in W |-> Unshipped(m)]) = Sum([m \in W |-> Unshipped(m)], W)
      BY DEF SumFunction, Sum
    <3>6. Sum([m \in W |-> Unshipped(m)], W) = Sum(Rests, W)
      BY <2>1, SumSame
    <3> QED BY <3>4, <3>5, <3>6 DEF Enough, W
  <2> QED BY <2>3, <2>4
<1> QED BY <1>1, <1>2 DEF Selling

LEMMA SellingGoesOn ==
  ASSUME IInv, NEW o \in OrderIds, EnoughForAll(o), NEW s, NEW P, Selling(o, s, P), NEW l \in LinesIn(o),
         l \notin P,
         NEW t, t = SellOne(o, s, l)
  PROVE  Selling(o, t, P \cup {l})
<1> DEFINE Q == P \cup {l}
<1>0. l \in Lines
  BY LinesOfOrder
<1>1. CASE l \notin ToSell(o)
  <2>1. t = s
    BY <1>1 DEF SellOne
  <2>2. \A m : m \in ToSell(o) => (m \in Q <=> m \in P)
    BY <1>1
  <2>3. \A i : Waiting(o, i, Q) = Waiting(o, i, P)
    BY <2>2 DEF Waiting
  <2> HIDE DEF Q
  <2>4. Selling(o, s, Q)
    BY <2>2, <2>3 DEF Selling
  <2> QED BY <2>1, <2>4 DEF Q
<1>2. CASE l \in ToSell(o)
  <2> DEFINE i == ItemOf[l]
             u == Unshipped(l)
  <2>1. t = ConsumeLots(s, i, Nobody, u, l, "SALE")
    BY <1>2 DEF SellOne
  <2>2. i \in Items
    BY <1>0, <1>2, ItemOfLine DEF ToSell
  <2>3. InStock(stock, i)
    BY <1>2 DEF EnoughForAll
  <2>4. Sound(s) /\ SameFlags(stock, s)
    BY DEF Selling
  <2>5. InStock(s, i)
    BY <2>2, <2>3, <2>4, FlagsKeep
  <2> DEFINE W == Waiting(o, i, P)
             V == Waiting(o, i, Q)
  <2>6. l \in W /\ V = W \ {l}
    BY <1>2 DEF Waiting
  <2>7. IsFiniteSet(W) /\ \A m \in W : Rests[m] = Unshipped(m) /\ Rests[m] \in Nat /\ Rests[m] \in Int
    BY WaitingIs
  <2>8. Sum(Rests, V) \in Nat
    BY WaitingIs
  <2>9. Sum(Rests, W) <= LotQty(s, i)
    BY <2>2 DEF Selling
  <2>10. LotQty(s, i) \in Nat
    BY <2>2, <2>4, HeldQty DEF Sound, Typed
  <2> HIDE DEF W, V, i
  <2>11. Sum(Rests, W) = Rests[l] + Sum(Rests, W \ {l})
    BY <2>6, <2>7, SumTake
  <2>12. Rests[l] = u /\ u \in Nat
    BY <2>6, <2>7
  <2> HIDE DEF u
  <2>13. u <= LotQty(s, i) /\ Sum(Rests, V) <= LotQty(s, i) - u
    BY <2>6, <2>8, <2>9, <2>10, <2>11, <2>12
  <2>14. ItemOf[l] = i
    BY DEF i
  <2>15. Sold(s, t, i, l, u)
    BY <1>0, <2>1, <2>2, <2>4, <2>5, <2>12, <2>13, <2>14, SoldOne
  <2>16. Sound(t) /\ SameFlags(stock, t)
    BY <2>4, <2>15, FlagsChain DEF Sold
  <2>17. ASSUME NEW m \in Lines, m \in ToSell(o), m \in Q
         PROVE ReversibleQty(t, m) = ReversibleQty(stock, m) + Unshipped(m)
    <3>1. CASE m = l
      <4>1. RowsOf(s, l) = RowsOf(stock, l)
        BY <1>0 DEF Selling
      <4>2. ReversibleQty(s, l) = ReversibleQty(stock, l)
        BY <4>1, RowsTell
      <4>3. ReversibleQty(t, l) = ReversibleQty(s, l) + u
        BY <2>15 DEF Sold
      <4> QED BY <3>1, <4>2, <4>3 DEF u
    <3>2. CASE m # l
      <4>1. m \in P
        BY <3>2, <2>17
      <4>2. ReversibleQty(s, m) = ReversibleQty(stock, m) + Unshipped(m)
        BY <4>1, <2>17 DEF Selling
      <4>3. RowsOf(t, m) = RowsOf(s, m)
        BY <3>2, <2>15 DEF Sold
      <4>4. ReversibleQty(t, m) = ReversibleQty(s, m)
        BY <4>3, RowsTell
      <4> QED BY <4>2, <4>4
    <3> QED BY <3>1, <3>2
  <2>18. ASSUME NEW m \in Lines, ~(m \in ToSell(o) /\ m \in Q) PROVE RowsOf(t, m) = RowsOf(stock, m)
    <3>1. m # l /\ ~(m \in ToSell(o) /\ m \in P)
      BY <1>2, <2>18
    <3>2. RowsOf(s, m) = RowsOf(stock, m)
      BY <3>1 DEF Selling
    <3>3. RowsOf(t, m) = RowsOf(s, m)
      BY <3>1, <2>15 DEF Sold
    <3> QED BY <3>2, <3>3
  <2>19. ASSUME NEW j \in Items PROVE Sum(Rests, Waiting(o, j, Q)) <= LotQty(t, j)
    <3>1. CASE j = i
      <4>1. LotQty(t, i) = LotQty(s, i) - u
        BY <2>15 DEF Sold
      <4> QED BY <3>1, <4>1, <2>13 DEF V
    <3>2. CASE j # i
      <4>1. LotQty(t, j) = LotQty(s, j)
        BY <3>2, <2>15 DEF Sold
      <4>2. Waiting(o, j, Q) = Waiting(o, j, P)
        BY <3>2, <2>14 DEF Waiting
      <4>3. Sum(Rests, Waiting(o, j, P)) <= LotQty(s, j)
        BY DEF Selling
      <4> QED BY <4>1, <4>2, <4>3
    <3> QED BY <3>1, <3>2
  <2> HIDE DEF Q
  <2>20. Selling(o, t, Q)
    BY <2>16, <2>17, <2>18, <2>19 DEF Selling
  <2> QED BY <2>20 DEF Q
<1> QED BY <1>1, <1>2

LEMMA SellingEnds ==
  ASSUME IInv, NEW o \in OrderIds, EnoughForAll(o) PROVE Selling(o, SellRemaining(o), LinesIn(o))
<1>1. PICK p, n : Course(p, TRUE, o, n)
  BY Courses
<1>2. n = Len(LinesOf[o]) /\ n \in Nat /\ p[0] = stock /\ p[n] = SellRemaining(o)
  BY <1>1, SellIsWorked DEF Course
<1> DEFINE Bad == {k \in 0..n : ~Selling(o, p[k], Past(o, k))}
<1>3. Bad = {}
  <2> SUFFICES ASSUME Bad # {} PROVE FALSE
    OBVIOUS
  <2>1. PICK k \in Bad : \A j \in Nat : j < k => j \notin Bad
    <3> HIDE DEF Bad
    <3>1. Bad \in SUBSET Nat
      BY <1>2 DEF Bad
    <3> QED BY <3>1, SmallestNumber
  <2>2. k # 0
    BY <1>2, SellingStarts, LinesOfOrder
  <2>3. k \in 1..Len(LinesOf[o]) /\ k - 1 \in 0..n /\ k - 1 \in Nat /\ k - 1 < k
    BY <1>2, <2>2
  <2>4. Selling(o, p[k - 1], Past(o, k - 1))
    BY <2>1, <2>3
  <2>5. p[k] = SellOne(o, p[k - 1], LinesOf[o][k])
    BY <1>1, <1>2, <2>3 DEF Course, Work
  <2>6. Selling(o, p[k], Past(o, k))
    BY <2>3, <2>4, <2>5, NextLine, SellingGoesOn
  <2> QED BY <2>6
<1>4. n \in 0..n
  BY <1>2
<1>5. Selling(o, p[n], Past(o, n))
  BY <1>3, <1>4
<1> QED BY <1>2, <1>5, LinesOfOrder

-----------------------------------------------------------------------------
(***************************************************************************)
(* Undoing an order: every line gives back what it has out.                *)
(***************************************************************************)
LEMMA NetOutIs ==
  ASSUME IInv, NEW o \in OrderIds, Usable(o), NEW l \in LinesIn(o)
  PROVE  /\ NetOut(o, l) \in Nat
         /\ Manual(l) => NetOut(o, l) = 0
         /\ ~Manual(l) => NetOut(o, l) = line[l].shipped - line[l].returned
         /\ ~Manual(l) /\ InStock(stock, ItemOf[l]) => ReversibleQty(stock, l) = NetOut(o, l)
<1>1. l \in Lines
  BY LinesOfOrder
<1>2. line[l].qty \in Nat /\ line[l].shipped \in Nat /\ line[l].returned \in Nat
      /\ line[l].returned <= line[l].shipped
  BY <1>1, LineFacts
<1>3. order[o].status = "DONE" => line[l].shipped = line[l].qty
  BY DEF IInv, Tables, OrderOk, Usable
<1>4. CASE Manual(l)
  BY <1>4 DEF NetOut
<1>5. CASE ~Manual(l)
  <2>1. NetOut(o, l) = line[l].shipped - line[l].returned
    BY <1>3, <1>5 DEF NetOut
  <2>2. Served(stock, line[l], l)
    BY DEF IInv, Goods
  <2> QED BY <1>2, <1>5, <2>1, <2>2 DEF Served
<1> QED BY <1>4, <1>5

\* s is the ledger when the lines P of o have given back.
Backing(o, s, P) ==
  /\ Sound(s) /\ SameFlags(stock, s)
  /\ \A l \in Lines : l \in P /\ ~Manual(l) /\ InStock(stock, ItemOf[l]) => ReversibleQty(s, l) = 0
  /\ \A l \in Lines : l \notin P => RowsOf(s, l) = RowsOf(stock, l)

LEMMA BackingGoesOn ==
  ASSUME IInv, NEW o \in OrderIds, Usable(o), NEW s, NEW P, Backing(o, s, P), NEW l \in LinesIn(o), l \notin P,
         NEW t, t = BackOne(o, s, l)
  PROVE  Backing(o, t, P \cup {l})
<1> DEFINE Q == P \cup {l}
<1>0. l \in Lines
  BY LinesOfOrder
<1>1. Sound(s) /\ SameFlags(stock, s) /\ RowsOf(s, l) = RowsOf(stock, l)
  BY <1>0 DEF Backing
<1>2. ReversibleQty(s, l) = ReversibleQty(stock, l)
  BY <1>1, RowsTell
<1>3. /\ NetOut(o, l) \in Nat /\ (Manual(l) => NetOut(o, l) = 0)
      /\ ~Manual(l) /\ InStock(stock, ItemOf[l]) => ReversibleQty(stock, l) = NetOut(o, l)
  BY NetOutIs
<1>4. CASE ~(NetOut(o, l) > 0)
  <2>1. t = s /\ NetOut(o, l) = 0
    BY <1>3, <1>4 DEF BackOne
  <2>2. Backing(o, s, Q)
    <3>1. ASSUME NEW m \in Lines, m \in Q, ~Manual(m), InStock(stock, ItemOf[m]) PROVE ReversibleQty(s, m) = 0
      <4>1. CASE m = l
        BY <4>1, <3>1, <1>2, <1>3, <2>1
      <4>2. CASE m # l
        BY <4>2, <3>1 DEF Backing
      <4> QED BY <4>1, <4>2
    <3>2. \A m \in Lines : m \notin Q => RowsOf(s, m) = RowsOf(stock, m)
      BY DEF Backing
    <3> HIDE DEF Q
    <3> QED BY <1>1, <3>1, <3>2 DEF Backing
  <2> QED BY <2>1, <2>2
<1>5. CASE NetOut(o, l) > 0
  <2> DEFINE i == ItemOf[l]
             n == NetOut(o, l)
  <2>1. t = ReturnUnits(s, i, l, n, OrElse(line[l].snap, UnitCost[l]))
    BY <1>5 DEF BackOne, GoBack
  <2>2. ~Manual(l) /\ i \in Items
    BY <1>0, <1>3, <1>5, ItemOfLine
  <2>3. stock.item[i].created
    BY <2>2 DEF IInv, Goods
  <2>4. s.item[i].created
    BY <1>1, <2>2, <2>3 DEF SameFlags
  <2>5. InStock(s, i) <=> InStock(stock, i)
    BY <1>1, <2>2, FlagsKeep
  <2>6. InStock(s, i) => ReversibleQty(s, l) = n
    BY <1>2, <1>3, <2>2, <2>5
  <2>7. n \in Nat /\ n > 0 /\ ItemOf[l] = i
    BY <1>3, <1>5
  <2> HIDE DEF n, i
  <2>8. Returned(s, t, i, l, n)
    <3>1. InStock(s, i) => n <= ReversibleQty(s, l)
      BY <2>6, <2>7
    <3>2. PICK c : c = OrElse(line[l].snap, UnitCost[l])
      OBVIOUS
    <3>3. t = ReturnUnits(s, i, l, n, c)
      BY <2>1, <3>2
    <3> QED BY <1>0, <1>1, <2>2, <2>4, <2>7, <3>1, <3>3, ReturnedOne
  <2>9. Sound(t) /\ SameFlags(stock, t)
    BY <1>1, <2>8, FlagsChain DEF Returned
  <2>10. ASSUME NEW m \in Lines, m \in Q, ~Manual(m), InStock(stock, ItemOf[m]) PROVE ReversibleQty(t, m) = 0
    <3>1. CASE m = l
      BY <3>1, <2>10, <2>5, <2>6, <2>7, <2>8 DEF Returned
    <3>2. CASE m # l
      <4>1. m \in P
        BY <3>2, <2>10
      <4>2. ReversibleQty(s, m) = 0
        BY <4>1, <2>10 DEF Backing
      <4>3. RowsOf(t, m) = RowsOf(s, m)
        BY <3>2, <2>8 DEF Returned
      <4>4. ReversibleQty(t, m) = ReversibleQty(s, m)
        BY <4>3, RowsTell
      <4> QED BY <4>2, <4>4
    <3> QED BY <3>1, <3>2
  <2>11. ASSUME NEW m \in Lines, m \notin Q PROVE RowsOf(t, m) = RowsOf(stock, m)
    <3>1. m # l /\ m \notin P
      BY <2>11
    <3>2. RowsOf(s, m) = RowsOf(stock, m)
      BY <3>1 DEF Backing
    <3>3. RowsOf(t, m) = RowsOf(s, m)
      BY <3>1, <2>8 DEF Returned
    <3> QED BY <3>2, <3>3
  <2> HIDE DEF Q
  <2>12. Backing(o, t, Q)
    BY <2>9, <2>10, <2>11 DEF Backing
  <2> QED BY <2>12 DEF Q
<1> QED BY <1>4, <1>5

LEMMA BackingEnds ==
  ASSUME IInv, NEW o \in OrderIds, Usable(o) PROVE Backing(o, Worked(FALSE, o), LinesIn(o))
<1>1. PICK p, n : Course(p, FALSE, o, n)
  BY Courses
<1>2. n = Len(LinesOf[o]) /\ n \in Nat /\ p[0] = stock /\ p[n] = Worked(FALSE, o)
  BY <1>1 DEF Course
<1> DEFINE Bad == {k \in 0..n : ~Backing(o, p[k], Past(o, k))}
<1>3. Bad = {}
  <2> SUFFICES ASSUME Bad # {} PROVE FALSE
    OBVIOUS
  <2>1. PICK k \in Bad : \A j \in Nat : j < k => j \notin Bad
    <3> HIDE DEF Bad
    <3>1. Bad \in SUBSET Nat
      BY <1>2 DEF Bad
    <3> QED BY <3>1, SmallestNumber
  <2>2. k # 0
    <3>1. Backing(o, stock, {})
      BY DEF Backing, IInv, Goods, SameFlags
    <3> QED BY <1>2, <3>1, LinesOfOrder
  <2>3. k \in 1..Len(LinesOf[o]) /\ k - 1 \in 0..n /\ k - 1 \in Nat /\ k - 1 < k
    BY <1>2, <2>2
  <2>4. Backing(o, p[k - 1], Past(o, k - 1))
    BY <2>1, <2>3
  <2>5. p[k] = BackOne(o, p[k - 1], LinesOf[o][k])
    BY <1>1, <1>2, <2>3 DEF Course, Work
  <2>6. Backing(o, p[k], Past(o, k))
    BY <2>3, <2>4, <2>5, NextLine, BackingGoesOn
  <2> QED BY <2>6
<1>4. n \in 0..n
  BY <1>2
<1>5. Backing(o, p[n], Past(o, n))
  BY <1>3, <1>4
<1> QED BY <1>2, <1>5, LinesOfOrder

\* What sums to nothing is nothing.
LEMMA NothingLeft ==
  ASSUME NEW s, Sound(s), NEW l, ReversibleQty(s, l) = 0 PROVE Reversible(s, l) = {}
<1> DEFINE R == Reversible(s, l)
<1>1. Typed(s) /\ RowsOk(s)
  BY DEF Sound
<1>2. R \in SUBSET s.rows /\ IsFiniteSet(R)
  BY <1>1, FS_Subset DEF Typed, Reversible
<1>3. \A r \in R : Rest[r] = Remaining(r) /\ Rest[r] \in Nat /\ Rest[r] \in Int
  BY <1>1, <1>2, RestType
<1>4. \A r \in R : Remaining(r) > 0
  BY DEF Reversible
<1>5. ReversibleQty(s, l) = Sum([r \in R |-> Remaining(r)], R)
  BY DEF ReversibleQty, SumFunction, Sum
<1> HIDE DEF R
<1>6. Sum([r \in R |-> Remaining(r)], R) = Sum(Rest, R)
  BY <1>2, <1>3, SumSame
<1>7. ASSUME NEW r \in R PROVE FALSE
  <2>1. Sum(Rest, R) = Rest[r] + Sum(Rest, R \ {r})
    BY <1>2, <1>3, SumTake
  <2>2. Sum(Rest, R \ {r}) \in Nat
    BY <1>2, <1>3, SumType, FS_Subset
  <2> QED BY <1>3, <1>4, <1>5, <1>6, <2>1, <2>2
<1> QED BY <1>7 DEF R

-----------------------------------------------------------------------------
(***************************************************************************)
(* The goods after each action.                                            *)
(***************************************************************************)
\* The same delivery.
SameGoods(L, M, l) == M[l].shipped = L[l].shipped /\ M[l].returned = L[l].returned /\ M[l].snap = L[l].snap

\* Lines that a step leaves alone stay served; the others, D, are to be looked at.
Delivers(t, L, D) ==
  /\ Sound(t) /\ \A i \in Items : t.item[i].created /\ (InStock(t, i) => InStock(stock, i))
  /\ \A l \in Lines : l \notin D /\ ~Manual(l) => RowsOf(t, l) = RowsOf(stock, l) /\ SameGoods(line, L, l)
  /\ \A l \in Lines : l \in D => Served(t, L[l], l)

LEMMA GoodsKept ==
  ASSUME IInv, NEW t, NEW L, NEW D, Delivers(t, L, D)
  PROVE  Goods(t, L)
<1> SUFFICES ASSUME NEW o \in OrderIds, NEW l \in LinesIn(o) PROVE Served(t, L[l], l)
  BY DEF Goods, Delivers
<1>1. l \in Lines
  BY LinesOfOrder
<1>2. CASE l \in D \/ Manual(l)
  BY <1>1, <1>2 DEF Delivers, Served
<1>3. CASE l \notin D /\ ~Manual(l)
  <2>1. RowsOf(t, l) = RowsOf(stock, l) /\ SameGoods(line, L, l)
    BY <1>1, <1>3 DEF Delivers
  <2>2. ReversibleQty(t, l) = ReversibleQty(stock, l) /\ UnitCostAtSaleFor(t, l) = UnitCostAtSaleFor(stock, l)
    BY <2>1, RowsTell
  <2>3. Served(stock, line[l], l)
    BY DEF IInv, Goods
  <2>4. ItemOf[l] \in Items
    BY <1>1, <1>3, ItemOfLine
  <2>5. InStock(t, ItemOf[l]) => InStock(stock, ItemOf[l])
    BY <2>4 DEF Delivers
  <2> QED BY <2>1, <2>2, <2>3, <2>5 DEF Served, SameGoods
<1> QED BY <1>2, <1>3

\* A step that leaves the stock alone, and the deliveries of stock lines.
LEMMA GoodsLeft ==
  ASSUME IInv, NEW L, \A l \in Lines : Manual(l) \/ SameGoods(line, L, l)
                                       \/ (line[l].shipped = 0 /\ L[l].shipped = 0 /\ L[l].returned = 0)
  PROVE  Goods(stock, L)
<1> SUFFICES ASSUME NEW o \in OrderIds, NEW l \in LinesIn(o), ~Manual(l), InStock(stock, ItemOf[l])
             PROVE Served(stock, L[l], l)
  BY DEF Goods, IInv, Served
<1>1. l \in Lines
  BY LinesOfOrder
<1>2. Served(stock, line[l], l)
  BY DEF IInv, Goods
<1>3. CASE SameGoods(line, L, l)
  BY <1>2, <1>3 DEF Served, SameGoods
<1>4. CASE line[l].shipped = 0 /\ L[l].shipped = 0 /\ L[l].returned = 0
  <2>1. line[l].returned = 0
    BY <1>1, <1>4, LineFacts
  <2> QED BY <1>2, <1>4, <2>1 DEF Served
<1> QED BY <1>1, <1>3, <1>4

LEMMA ShipGoods ==
  ASSUME IInv, NEW o \in OrderIds, NEW l \in Lines, NEW qty \in Nat, Ship(o, l, qty)
  PROVE  Goods(stock', line')
<1>1. CASE Manual(l)
  <2>1. stock' = stock /\ line' = [line EXCEPT ![l].shipped = @ + qty]
    BY <1>1 DEF Ship
  <2>2. line \in [Lines -> LineType]
    BY DEF IInv, Tables
  <2>3. \A m \in Lines : m # l => line'[m] = line[m]
    BY <2>1, <2>2
  <2>4. \A m \in Lines : Manual(m) \/ SameGoods(line, line', m)
    BY <1>1, <2>3 DEF SameGoods
  <2>5. Goods(stock, line')
    BY <2>4, GoodsLeft
  <2> QED BY <2>1, <2>5
<1>2. CASE ~Manual(l)
  <2> DEFINE i == ItemOf[l]
  <2>1. PICK t : t = ConsumeLots(stock, i, Nobody, qty, l, "SALE")
    OBVIOUS
  <2>2. PICK L : L = [line EXCEPT ![l].shipped = @ + qty, ![l].snap = UnitCostAtSaleFor(t, l)]
    OBVIOUS
  <2>3. stock' = t /\ line' = L /\ InStock(stock, i) /\ Enough(stock, i, qty)
    BY <1>2, <2>1, <2>2 DEF Ship
  <2>4. i \in Items
    BY <1>2, ItemOfLine
  <2>5. Sound(stock)
    BY DEF IInv, Goods
  <2>6. Sold(stock, t, i, l, qty)
    BY <2>1, <2>3, <2>4, <2>5, SoldOne DEF Enough
  <2>7. line \in [Lines -> LineType]
    BY DEF IInv, Tables
  <2>8. /\ L[l].shipped = line[l].shipped + qty /\ L[l].returned = line[l].returned
        /\ L[l].snap = UnitCostAtSaleFor(t, l)
        /\ \A m \in Lines : m # l => L[m] = line[m]
    BY <2>2, <2>7 DEF LineType
  <2>9. Served(t, L[l], l)
    <3>1. Served(stock, line[l], l)
      BY <2>3 DEF IInv, Goods, Ship, Present
    <3>2. ReversibleQty(stock, l) = line[l].shipped - line[l].returned
      BY <1>2, <2>3, <3>1 DEF Served
    <3>3. ReversibleQty(t, l) = ReversibleQty(stock, l) + qty
      BY <2>6 DEF Sold
    <3>4. line[l].shipped \in Nat /\ line[l].returned \in Nat
      BY LineFacts
    <3> QED BY <2>8, <3>2, <3>3, <3>4 DEF Served
  <2>10. Sound(t) /\ SameFlags(stock, t)
    BY <2>6 DEF Sold
  <2>11. \A j \in Items : stock.item[j].created
    BY DEF IInv, Goods
  <2>12. \A j \in Items : t.item[j].created /\ (InStock(t, j) => InStock(stock, j))
    BY <2>10, <2>11 DEF SameFlags, InStock
  <2>13. \A m \in Lines : m # l => RowsOf(t, m) = RowsOf(stock, m) /\ SameGoods(line, L, m)
    BY <2>6, <2>8 DEF Sold, SameGoods
  <2>14. Delivers(t, L, {l})
    BY <2>9, <2>10, <2>12, <2>13 DEF Delivers
  <2>15. Goods(t, L)
    BY <2>14, GoodsKept
  <2> QED BY <2>3, <2>15
<1> QED BY <1>1, <1>2

LEMMA FinalizeGoods ==
  ASSUME IInv, NEW o \in OrderIds, Finalize(o)
  PROVE  Goods(stock', line')
<1>1. PICK s : s = SellRemaining(o)
  OBVIOUS
<1>2. PICK L : L = [l \in Lines |-> IF l \in Present(o)
                     THEN [line[l] EXCEPT !.shipped = line[l].qty,
                                          !.snap = IF Manual(l) THEN UnitCost[l] ELSE UnitCostAtSaleFor(s, l)]
                     ELSE line[l]]
  OBVIOUS
<1>3. stock' = s /\ line' = L /\ EnoughForAll(o)
  BY <1>1, <1>2 DEF Finalize
<1>4. Selling(o, s, LinesIn(o))
  BY <1>1, <1>3, SellingEnds
<1>5. Sound(s) /\ SameFlags(stock, s)
  BY <1>4 DEF Selling
<1>6. \A j \in Items : s.item[j].created /\ (InStock(s, j) => InStock(stock, j))
  BY <1>5 DEF SameFlags, InStock, IInv, Goods
<1>7. ToSell(o) \subseteq Present(o) /\ Present(o) \subseteq LinesIn(o)
  BY DEF ToSell, Present
<1>8. \A l \in Lines : l \notin ToSell(o) => RowsOf(s, l) = RowsOf(stock, l)
  BY <1>4 DEF Selling
<1>9. ASSUME NEW l \in Lines, l \in Present(o), ~Manual(l) PROVE Served(s, L[l], l)
  <2>1. LineOk(line[l], events[l], l) /\ line[l] \in LineType
    BY LineFacts
  <2>2. L[l].shipped = line[l].qty /\ L[l].returned = line[l].returned /\ L[l].snap = UnitCostAtSaleFor(s, l)
    BY <1>2, <1>9, <2>1 DEF LineType
  <2> SUFFICES ASSUME InStock(s, ItemOf[l]) PROVE ReversibleQty(s, l) = line[l].qty - line[l].returned
    BY <2>2 DEF Served
  <2>3. line[l].qty \in Nat /\ line[l].shipped \in Nat /\ line[l].returned \in Nat
        /\ line[l].shipped <= line[l].qty
    BY LineFacts
  <2>4. ItemOf[l] \in Items
    BY <1>9, ItemOfLine
  <2>5. InStock(stock, ItemOf[l])
    BY <1>6, <2>4
  <2>6. Served(stock, line[l], l)
    BY <1>7, <1>9 DEF IInv, Goods
  <2>7. ReversibleQty(stock, l) = line[l].shipped - line[l].returned
    BY <1>9, <2>5, <2>6 DEF Served
  <2>8. Unshipped(l) = line[l].qty - line[l].shipped
    BY DEF Unshipped
  <2>9. CASE l \in ToSell(o)
    <3>1. ReversibleQty(s, l) = ReversibleQty(stock, l) + Unshipped(l)
      BY <1>4, <1>7, <2>9 DEF Selling
    <3> QED BY <3>1, <2>3, <2>7, <2>8
  <2>10. CASE l \notin ToSell(o)
    <3>1. ~(Unshipped(l) > 0)
      BY <1>9, <2>10 DEF ToSell
    <3>2. ReversibleQty(s, l) = ReversibleQty(stock, l)
      BY <1>8, <2>10, RowsTell
    <3> QED BY <3>1, <3>2, <2>3, <2>7, <2>8
  <2> QED BY <2>9, <2>10
<1>10. \A l \in Lines : l \notin Present(o) => RowsOf(s, l) = RowsOf(stock, l) /\ SameGoods(line, L, l)
  BY <1>2, <1>7, <1>8 DEF SameGoods
<1>11. \A l \in Lines : l \in Present(o) => Served(s, L[l], l)
  BY <1>9 DEF Served
<1>12. Delivers(s, L, Present(o))
  BY <1>5, <1>6, <1>10, <1>11 DEF Delivers
<1>13. Goods(s, L)
  BY <1>12, GoodsKept
<1> QED BY <1>3, <1>13

LEMMA ReturnGoods ==
  ASSUME IInv, NEW o \in OrderIds, NEW l \in Lines, NEW qty \in Nat, qty > 0, NEW r, ReturnItem(o, l, qty, r)
  PROVE  Goods(stock', line')
<1>0. line \in [Lines -> LineType]
  BY DEF IInv, Tables
<1>1. CASE Manual(l)
  <2>1. stock' = stock /\ line' = [line EXCEPT ![l].returned = @ + qty, ![l].snap = line[l].snap]
    BY <1>1 DEF ReturnItem
  <2>3. \A m \in Lines : m # l => line'[m] = line[m]
    BY <2>1, <1>0
  <2>4. \A m \in Lines : Manual(m) \/ SameGoods(line, line', m)
    BY <1>1, <2>3 DEF SameGoods
  <2>5. Goods(stock, line')
    BY <2>4, GoodsLeft
  <2> QED BY <2>1, <2>5
<1>2. CASE ~Manual(l)
  <2> DEFINE i == ItemOf[l]
  <2>1. PICK t : t = GoBack(stock, l, qty)
    OBVIOUS
  <2>2. PICK L : L = [line EXCEPT ![l].returned = @ + qty, ![l].snap = UnitCostAtSaleFor(t, l)]
    OBVIOUS
  <2>3. /\ stock' = t /\ line' = L /\ Usable(o) /\ order[o].status = "DONE" /\ l \in LinesIn(o)
        /\ line[l].qty - line[l].returned - qty >= 0
    BY <1>2, <2>1, <2>2 DEF ReturnItem, Present
  <2>4. i \in Items
    BY <1>2, ItemOfLine
  <2>5. Sound(stock) /\ (\A j \in Items : stock.item[j].created)
    BY DEF IInv, Goods
  <2>6. line[l].qty \in Nat /\ line[l].shipped \in Nat /\ line[l].returned \in Nat
        /\ line[l].shipped = line[l].qty
    BY <2>3, LineFacts DEF IInv, Tables, OrderOk, Usable
  <2>7. InStock(stock, i) => ReversibleQty(stock, l) = line[l].shipped - line[l].returned
    BY <1>2, <2>3 DEF IInv, Goods, Served
  <2>8. Returned(stock, t, i, l, qty)
    <3>1. PICK c : c = OrElse(line[l].snap, UnitCost[l])
      OBVIOUS
    <3>2. t = ReturnUnits(stock, i, l, qty, c)
      BY <2>1, <3>1 DEF GoBack
    <3>3. InStock(stock, i) => qty <= ReversibleQty(stock, l)
      BY <2>3, <2>6, <2>7
    <3> QED BY <2>4, <2>5, <3>2, <3>3, ReturnedOne
  <2>9. /\ L[l].shipped = line[l].shipped /\ L[l].returned = line[l].returned + qty
        /\ L[l].snap = UnitCostAtSaleFor(t, l)
        /\ \A m \in Lines : m # l => L[m] = line[m]
    BY <2>2, <1>0 DEF LineType
  <2>10. Sound(t) /\ SameFlags(stock, t)
    BY <2>8 DEF Returned
  <2>11. \A j \in Items : t.item[j].created /\ (InStock(t, j) => InStock(stock, j))
    BY <2>5, <2>10 DEF SameFlags, InStock
  <2>12. Served(t, L[l], l)
    <3>1. InStock(t, i) => ReversibleQty(t, l) = ReversibleQty(stock, l) - qty
      BY <2>4, <2>8, <2>11 DEF Returned
    <3> QED BY <2>4, <2>6, <2>7, <2>9, <2>11, <3>1 DEF Served
  <2>13. \A m \in Lines : m # l => RowsOf(t, m) = RowsOf(stock, m) /\ SameGoods(line, L, m)
    BY <2>8, <2>9 DEF Returned, SameGoods
  <2>14. Delivers(t, L, {l})
    BY <2>10, <2>11, <2>12, <2>13 DEF Delivers
  <2>15. Goods(t, L)
    BY <2>14, GoodsKept
  <2> QED BY <2>3, <2>15
<1> QED BY <1>1, <1>2

LEMMA UndoneGoods ==
  ASSUME IInv, NEW o \in OrderIds, Usable(o), ReverseFinalization(o)
  PROVE  Goods(stock', line')
<1>1. PICK t : t = Worked(FALSE, o)
  OBVIOUS
<1>2. PICK L : L = ResetLines(o)
  OBVIOUS
<1>3. stock' = t
  BY <1>1, BackIsWorked
<1>4. line' = L
  BY <1>2 DEF ReverseFinalization
<1>5. Backing(o, t, LinesIn(o))
  BY <1>1, BackingEnds
<1>6. Sound(t) /\ SameFlags(stock, t)
  BY <1>5 DEF Backing
<1>7. \A j \in Items : t.item[j].created /\ (InStock(t, j) => InStock(stock, j))
  BY <1>6 DEF SameFlags, InStock, IInv, Goods
<1>8. ASSUME NEW l \in Lines, l \in LinesIn(o) PROVE Served(t, L[l], l)
  <2>1. L[l] = FreshLine(line[l].qty)
    BY <1>2, <1>8 DEF ResetLines
  <2>2. L[l].shipped = 0 /\ L[l].returned = 0
    BY <2>1 DEF FreshLine
  <2>3. ~Manual(l) /\ InStock(t, ItemOf[l]) => ReversibleQty(t, l) = 0
    BY <1>5, <1>7, <1>8, ItemOfLine DEF Backing
  <2> QED BY <2>2, <2>3 DEF Served
<1>9. \A l \in Lines : l \notin LinesIn(o) => RowsOf(t, l) = RowsOf(stock, l) /\ SameGoods(line, L, l)
  BY <1>2, <1>5 DEF Backing, ResetLines, SameGoods
<1>10. Delivers(t, L, LinesIn(o))
  BY <1>6, <1>7, <1>8, <1>9 DEF Delivers
<1>11. Goods(t, L)
  BY <1>10, GoodsKept
<1> QED BY <1>3, <1>4, <1>11

LEMMA ReceiveGoods ==
  ASSUME IInv, NEW i \in Items, NEW qty \in Nat, qty # 0, NEW cost \in Nat, Receive(i, qty, cost)
  PROVE  Goods(stock', line')
<1>1. PICK t : t = ReceiveLot(stock, i, qty, cost, Now(stock), 0, Nobody)
  OBVIOUS
<1>2. stock' = t /\ line' = line
  BY <1>1 DEF Receive
<1>3. Sound(stock) /\ \A j \in Items : stock.item[j].created
  BY DEF IInv, Goods
<1>4. Now(stock) \in Nat /\ Nobody \in Owners /\ stock \in Ledger
  BY <1>3, LotsFinite DEF Now, Owners, Sound, Typed
<1>5. Sound(t)
  BY <1>1, <1>3, <1>4, ReceivedSound
<1>6. Arrived(stock, t, i, qty, LotMade(i, qty, cost, Now(stock), 0, Nobody))
  BY <1>1, <1>4, Received1
<1>7. t.rows = stock.rows /\ Moved(stock, t, i, qty, stock.item[i].qty + qty)
  BY <1>6 DEF Arrived
<1>8. \A j \in Items : t.item[j].created /\ (InStock(t, j) => InStock(stock, j))
  BY <1>3, <1>7 DEF Moved, InStock
<1>9. \A l \in Lines : RowsOf(t, l) = RowsOf(stock, l) /\ SameGoods(line, line, l)
  BY <1>7 DEF RowsOf, SameGoods
<1>10. Delivers(t, line, {})
  BY <1>5, <1>8, <1>9 DEF Delivers
<1>11. Goods(t, line)
  BY <1>10, GoodsKept
<1> QED BY <1>2, <1>11

LEMMA RemoveGoods ==
  ASSUME IInv, NEW i \in Items, RemoveItem(i)
  PROVE  Goods(stock', line')
<1>1. PICK t : t = [stock EXCEPT !.item[i].deleted = TRUE]
  OBVIOUS
<1>2. stock' = t /\ line' = line
  BY <1>1 DEF RemoveItem
<1>3. Sound(stock) /\ (\A j \in Items : stock.item[j].created) /\ stock \in Ledger
  BY DEF IInv, Goods, Sound, Typed
<1>4. t \in Ledger /\ t.lots = stock.lots /\ t.rows = stock.rows /\ t.batch = stock.batch
  BY <1>1, <1>3 DEF Ledger, ItemType
<1>5. ASSUME NEW j \in Items
      PROVE  /\ t.item[j].qty = stock.item[j].qty /\ t.item[j].avgCost = stock.item[j].avgCost
             /\ t.item[j].moved = stock.item[j].moved /\ t.item[j].qtyAfter = stock.item[j].qtyAfter
             /\ t.item[j].created <=> stock.item[j].created
             /\ stock.item[j].deleted => t.item[j].deleted
  BY <1>1, <1>3 DEF Ledger, ItemType
<1>6. Flagged(stock, t)
  BY <1>4, <1>5 DEF Flagged
<1>7. Sound(t)
  BY <1>3, <1>6, FlaggedSound
<1>8. \A j \in Items : t.item[j].created /\ (InStock(t, j) => InStock(stock, j))
  BY <1>3, <1>5 DEF InStock
<1>9. \A l \in Lines : RowsOf(t, l) = RowsOf(stock, l) /\ SameGoods(line, line, l)
  BY <1>4 DEF RowsOf, SameGoods
<1>10. Delivers(t, line, {})
  BY <1>7, <1>8, <1>9 DEF Delivers
<1>11. Goods(t, line)
  BY <1>10, GoodsKept
<1> QED BY <1>2, <1>11

-----------------------------------------------------------------------------
(***************************************************************************)
(* Money.                                                                  *)
(***************************************************************************)
LEMMA MoneyType ==
  ASSUME NEW x \in Int
  PROVE  Money(x) \in Int /\ (x >= 0 => Money(x) \in Nat) /\ (x >= 0 /\ MoneyUnit = 1 => Money(x) = x)
<1>1. MoneyUnit \in Nat \ {0}
  BY OrdersAssumption
<1>2. CASE x < 0
  <2>1. -x \in Nat
    BY <1>2
  <2>2. RoundDiv(-x, MoneyUnit) \in Nat
    BY <1>1, <2>1, Rounded
  <2> QED BY <1>2, <2>2 DEF Money
<1>3. CASE x >= 0
  <2>1. RoundDiv(x, MoneyUnit) \in Nat
    BY <1>1, <1>3, Rounded
  <2>2. RoundDiv(x, 1) = x
    BY <1>3 DEF RoundDiv
  <2> QED BY <1>3, <2>1, <2>2 DEF Money
<1> QED BY <1>2, <1>3

LEMMA MoneyOfNothing == Money(0) = 0
<1>1. MoneyUnit \in Nat \ {0}
  BY OrdersAssumption
<1>2. PICK u \in Nat \ {0} : u = MoneyUnit
  BY <1>1
<1>3. (2 * 0 + u) \div (2 * u) = 0
  BY <1>2
<1> QED BY <1>2, <1>3 DEF Money, RoundDiv

LEMMA IntProducts == ASSUME NEW a \in Int, NEW b \in Int PROVE a * b \in Int
  OBVIOUS

LEMMA RevenueType ==
  ASSUME NEW o \in OrderIds, NEW rec, rec.total \in Nat, NEW L, \A l \in LinesIn(o) : L[l].returned \in Nat
  PROVE  /\ NetRevenue(L, rec, o) \in Nat
         /\ (\A l \in LinesIn(o) : L[l].returned = 0) => NetRevenue(L, rec, o) = rec.total
<1> DEFINE f == [l \in LinesIn(o) |-> L[l].returned * Price[l]]
<1>1. IsFiniteSet(LinesIn(o)) /\ \A l \in LinesIn(o) : Price[l] \in Nat
  BY LinesOfOrder, OrdersAssumption
<1>2. \A l \in LinesIn(o) : f[l] \in Nat
  BY <1>1, Products
<1>3. SumFunction(f) = Sum(f, LinesIn(o))
  BY DEF SumFunction, Sum
<1>4. Sum(f, LinesIn(o)) \in Nat
  <2> HIDE DEF f
  <2> QED BY <1>1, <1>2, SumType
<1>5. PICK m \in Int : m = Money(SumFunction(f))
  BY <1>3, <1>4, MoneyType
<1>6. NetRevenue(L, rec, o) = Max0(rec.total - m)
  BY <1>5 DEF NetRevenue
<1>7. ASSUME \A l \in LinesIn(o) : L[l].returned = 0 PROVE m = 0
  <2>1. \A l \in LinesIn(o) : f[l] = 0
    BY <1>1, <1>7
  <2>2. Sum(f, LinesIn(o)) = 0
    <3> HIDE DEF f
    <3> QED BY <1>1, <2>1, SumZero
  <2> QED BY <1>3, <1>5, <2>2, MoneyOfNothing
<1> QED BY <1>6, <1>7 DEF Max0

LEMMA RevenueSame ==
  ASSUME NEW o, NEW r, NEW q, r.total = q.total, NEW L, NEW K, \A l \in LinesIn(o) : L[l].returned = K[l].returned
  PROVE  NetRevenue(L, r, o) = NetRevenue(K, q, o)
<1>1. [l \in LinesIn(o) |-> L[l].returned * Price[l]] = [l \in LinesIn(o) |-> K[l].returned * Price[l]]
  OBVIOUS
<1> QED BY <1>1 DEF NetRevenue

LEMMA StateType ==
  ASSUME NEW a \in Int, NEW b \in Nat PROVE ResolvePaymentState(a, b) \in PaymentStates
<1>1. a < 0 \/ (a >= 0 /\ b = 0) \/ (a = 0 /\ b > 0) \/ (a > 0 /\ a < b) \/ (b > 0 /\ a > b) \/ (b > 0 /\ a = b)
  OBVIOUS
<1> QED BY <1>1 DEF ResolvePaymentState, PaymentStates

LEMMA SubtotalType ==
  ASSUME NEW o \in OrderIds, NEW qty \in Compositions(o) PROVE Subtotal(o, qty) \in Nat
<1> DEFINE f == [l \in DOMAIN qty |-> qty[l] * Price[l]]
<1>1. DOMAIN qty \in SUBSET LinesIn(o) /\ \A l \in DOMAIN qty : qty[l] \in Nat /\ l \in Lines
  BY LinesOfOrder, OrdersAssumption DEF Compositions
<1>2. \A l \in DOMAIN f : f[l] \in Nat
  BY <1>1, Products, OrdersAssumption
<1>3. IsFiniteSet(DOMAIN f)
  BY <1>1, LinesOfOrder, FS_Subset
<1> HIDE DEF f
<1>4. Sum(f, DOMAIN f) \in Nat
  BY <1>2, <1>3, SumType
<1>5. SumFunction(f) \in Nat
  BY <1>4 DEF SumFunction, Sum
<1> QED BY <1>5, MoneyType DEF Subtotal, f

-----------------------------------------------------------------------------
(***************************************************************************)
(* Transactions.                                                           *)
(***************************************************************************)
LEMMA TxFacts ==
  ASSUME NEW T \in Seq(TxType)
  PROVE  /\ DOMAIN T = 1..Len(T) /\ Len(T) \in Nat /\ IsFiniteSet(DOMAIN T)
         /\ \A n \in DOMAIN T : T[n] \in TxType /\ T[n].amount \in Int /\ T[n].order \in OrderIds
<1>1. DOMAIN T = 1..Len(T) /\ Len(T) \in Nat
  BY LenProperties
<1>2. IsFiniteSet(1..Len(T))
  BY <1>1, FS_Interval
<1>3. \A n \in DOMAIN T : T[n] \in TxType
  BY <1>1, ElementOfSeq
<1> QED BY <1>1, <1>2, <1>3 DEF TxType

LEMMA PaidType ==
  ASSUME NEW T \in Seq(TxType), NEW o PROVE Paid(T, o) \in Int
<1>1. ASSUME NEW kind PROVE Total(T, Live(T, o, kind)) \in Int
  <2> DEFINE ns == Live(T, o, kind)
             f == [n \in ns |-> T[n].amount]
  <2>1. ns \in SUBSET (DOMAIN T)
    BY DEF Live
  <2>2. IsFiniteSet(ns) /\ \A n \in ns : f[n] \in Int
    BY <2>1, TxFacts, FS_Subset
  <2>3. Total(T, ns) = Sum(f, ns)
    BY DEF Total, SumFunction, Sum
  <2> HIDE DEF f, ns
  <2>4. Sum(f, ns) \in Int
    BY <2>2, SumType
  <2> QED BY <2>3, <2>4 DEF ns
<1>2. PICK a \in Int : a = Total(T, Live(T, o, "ORDER_PAYMENT"))
  BY <1>1
<1>3. PICK b \in Int : b = Total(T, Live(T, o, "ORDER_REFUND"))
  BY <1>1
<1> QED BY <1>2, <1>3 DEF Paid

\* The same live transactions of a kind.
SameLive(T, U, o, kind) ==
  /\ Live(U, o, kind) = Live(T, o, kind)
  /\ \A n \in Live(T, o, kind) : U[n].amount = T[n].amount

LEMMA TotalSame ==
  ASSUME NEW T, NEW U, NEW o, NEW kind, SameLive(T, U, o, kind)
  PROVE  Total(U, Live(U, o, kind)) = Total(T, Live(T, o, kind))
<1>1. [n \in Live(U, o, kind) |-> U[n].amount] = [n \in Live(T, o, kind) |-> T[n].amount]
  BY DEF SameLive
<1> QED BY <1>1 DEF Total

LEMMA PaidSame ==
  ASSUME NEW T, NEW U, NEW o, SameLive(T, U, o, "ORDER_PAYMENT"), SameLive(T, U, o, "ORDER_REFUND")
  PROVE  Paid(U, o) = Paid(T, o)
BY TotalSame DEF Paid

\* The same transactions of an order.
SameTxs(T, U, p) ==
  /\ Mine(U, p) = Mine(T, p)
  /\ \A n \in Mine(T, p) : /\ U[n].kind = T[n].kind /\ U[n].amount = T[n].amount
                           /\ U[n].deleted <=> T[n].deleted

LEMMA SameTxsLive ==
  ASSUME NEW T, NEW U, NEW p, SameTxs(T, U, p)
  PROVE  (\A kind : SameLive(T, U, p, kind)) /\ Paid(U, p) = Paid(T, p) /\ Costs(U, p) = Costs(T, p)
<1>1. ASSUME NEW kind PROVE SameLive(T, U, p, kind)
  <2>1. ASSUME NEW V PROVE Live(V, p, kind) = {n \in Mine(V, p) : V[n].kind = kind /\ ~V[n].deleted}
    BY DEF Live, Mine
  <2>2. Live(U, p, kind) = {n \in Mine(U, p) : U[n].kind = kind /\ ~U[n].deleted}
    BY <2>1
  <2>3. Live(T, p, kind) = {n \in Mine(T, p) : T[n].kind = kind /\ ~T[n].deleted}
    BY <2>1
  <2> QED BY <2>2, <2>3 DEF SameLive, SameTxs
<1>2. Paid(U, p) = Paid(T, p)
  BY <1>1, PaidSame
<1>3. Costs(U, p) = Costs(T, p)
  BY <1>1 DEF Costs, SameLive
<1> QED BY <1>1, <1>2, <1>3

\* Transactions that an action adds to an order.
Fresh(S, o) == S \in Seq(TxType) /\ \A n \in DOMAIN S : S[n].order = o /\ ~S[n].bankLine

Added(T, U, S, o) ==
  /\ TxsOk(U) /\ \A p \in OrderIds : p # o => SameTxs(T, U, p)
  /\ \A kind : (\A n \in DOMAIN S : S[n].kind # kind) => SameLive(T, U, o, kind)

LEMMA TxsAdded ==
  ASSUME NEW T, TxsOk(T), NEW o \in OrderIds, NEW S, Fresh(S, o), NEW U, U = T \o S
  PROVE  Added(T, U, S, o)
<1>1. T \in Seq(TxType) /\ S \in Seq(TxType)
  BY DEF TxsOk, Fresh
<1> DEFINE a == Len(T)
           b == Len(S)
<1>2. a \in Nat /\ b \in Nat /\ DOMAIN T = 1..a /\ DOMAIN S = 1..b
  BY <1>1, TxFacts
<1>3. U \in Seq(TxType) /\ Len(U) = a + b /\ \A n \in 1..(a + b) : U[n] = IF n <= a THEN T[n] ELSE S[n - a]
  BY <1>1, ConcatProperties
<1>4. DOMAIN U = 1..(a + b)
  BY <1>3, TxFacts
<1> HIDE DEF a, b
<1>5. \A n \in DOMAIN T : n \in DOMAIN U /\ U[n] = T[n]
  BY <1>2, <1>3, <1>4
<1>6. \A n \in DOMAIN U : n \notin DOMAIN T => n - a \in DOMAIN S /\ U[n] = S[n - a]
  BY <1>2, <1>3, <1>4
<1>7. TxsOk(U)
  BY <1>3, <1>5, <1>6 DEF TxsOk, Fresh
<1>8. ASSUME NEW p \in OrderIds, p # o PROVE SameTxs(T, U, p)
  <2>1. Mine(U, p) = Mine(T, p)
    BY <1>5, <1>6, <1>8 DEF Mine, Fresh
  <2>2. \A n \in Mine(T, p) : U[n] = T[n]
    BY <1>5 DEF Mine
  <2> QED BY <2>1, <2>2 DEF SameTxs
<1>9. ASSUME NEW kind, \A n \in DOMAIN S : S[n].kind # kind PROVE SameLive(T, U, o, kind)
  <2>1. Live(U, o, kind) = Live(T, o, kind)
    BY <1>5, <1>6, <1>9 DEF Live
  <2>2. \A n \in Live(T, o, kind) : U[n] = T[n]
    BY <1>5 DEF Live
  <2> QED BY <2>1, <2>2 DEF SameLive
<1> QED BY <1>7, <1>8, <1>9 DEF Added

\* Transactions that an action deletes.
Deleted(T, U, ns) ==
  /\ TxsOk(U) /\ DOMAIN U = DOMAIN T
  /\ \A n \in DOMAIN T : /\ U[n].order = T[n].order /\ U[n].kind = T[n].kind /\ U[n].amount = T[n].amount
                         /\ U[n].deleted <=> (T[n].deleted \/ n \in ns)
  /\ \A p : (\A n \in ns : n \in DOMAIN T => T[n].order # p) => SameTxs(T, U, p)
  /\ \A o, kind : Live(U, o, kind) = Live(T, o, kind) \ ns

LEMMA TxsDeleted ==
  ASSUME NEW T, TxsOk(T), NEW ns, NEW U, U = DeleteTxs(T, ns)
  PROVE  Deleted(T, U, ns)
<1>1. T \in Seq(TxType)
  BY DEF TxsOk
<1>2. U = [n \in DOMAIN T |-> IF n \in ns THEN [T[n] EXCEPT !.deleted = TRUE, !.bankLine = FALSE, !.late = FALSE]
                                       ELSE T[n]]
  BY DEF DeleteTxs
<1>3. DOMAIN T = 1..Len(T) /\ Len(T) \in Nat /\ \A n \in DOMAIN T : T[n] \in TxType
  BY <1>1, TxFacts
<1>4. DOMAIN U = DOMAIN T
  BY <1>2
<1>5. ASSUME NEW n \in DOMAIN T
      PROVE  /\ U[n] \in TxType /\ U[n].order = T[n].order /\ U[n].kind = T[n].kind /\ U[n].amount = T[n].amount
             /\ U[n].deleted <=> (T[n].deleted \/ n \in ns)
             /\ U[n].bankLine => U[n] = T[n]
  <2>1. T[n] \in TxType
    BY <1>3
  <2>2. CASE n \in ns
    <3>1. U[n] = [T[n] EXCEPT !.deleted = TRUE, !.bankLine = FALSE, !.late = FALSE]
      BY <1>2, <2>2
    <3> QED BY <3>1, <2>1, <2>2 DEF TxType
  <2>3. CASE n \notin ns
    <3>1. U[n] = T[n]
      BY <1>2, <2>3
    <3> QED BY <3>1, <2>1, <2>3
  <2> QED BY <2>2, <2>3
<1>6. U \in Seq(TxType)
  <2>1. U = [n \in 1..Len(T) |-> U[n]] /\ \A n \in 1..Len(T) : U[n] \in TxType
    BY <1>2, <1>3, <1>5
  <2> QED BY <1>3, <2>1, Table
<1>7. TxsOk(U)
  BY <1>4, <1>5, <1>6 DEF TxsOk
<1>8. ASSUME NEW p, \A n \in ns : n \in DOMAIN T => T[n].order # p PROVE SameTxs(T, U, p)
  <2>1. Mine(U, p) = Mine(T, p)
    BY <1>4, <1>5 DEF Mine
  <2>2. \A n \in Mine(T, p) : n \in DOMAIN T /\ n \notin ns
    BY <1>8 DEF Mine
  <2> QED BY <2>1, <2>2, <1>5 DEF SameTxs
<1>9. ASSUME NEW o, NEW kind PROVE Live(U, o, kind) = Live(T, o, kind) \ ns
  BY <1>4, <1>5 DEF Live
<1> QED BY <1>4, <1>5, <1>7, <1>8, <1>9 DEF Deleted

-----------------------------------------------------------------------------
(***************************************************************************)
(* The tables after an action on one order.                                *)
(***************************************************************************)
LEMMA OrderFrame ==
  ASSUME NEW o \in OrderIds, NEW rec, NEW L, NEW E, NEW T, OrderOk(rec, o, L, E, T), NEW M, NEW F, NEW U,
         \A l \in LinesIn(o) : M[l] = L[l] /\ F[l] = E[l], SameTxs(T, U, o)
  PROVE  OrderOk(rec, o, M, F, U)
<1>1. Paid(U, o) = Paid(T, o) /\ Costs(U, o) = Costs(T, o)
  BY SameTxsLive
<1>2. Mine(U, o) = Mine(T, o) /\ \A n \in Mine(T, o) : U[n].deleted <=> T[n].deleted
  BY DEF SameTxs
<1>3. NetRevenue(M, rec, o) = NetRevenue(L, rec, o)
  BY RevenueSame
<1>4. rec.status = "none" => rec = NoOrder /\ Mine(U, o) = {} /\ \A l \in LinesIn(o) : M[l].shipped = 0
  BY <1>2 DEF OrderOk
<1>5. rec.status = "DONE" /\ ~rec.deleted => \A l \in LinesIn(o) : M[l].shipped = M[l].qty
  BY DEF OrderOk
<1>6. Undone(rec) => Costs(U, o) = {} /\ \A l \in LinesIn(o) : M[l].shipped = 0 /\ F[l] = NoEvents
  BY <1>1 DEF OrderOk
<1>7. rec.deleted => \A n \in Mine(U, o) : U[n].deleted
  BY <1>2 DEF OrderOk
<1>8. /\ rec.status # "none" /\ ~rec.deleted => rec.paid = Paid(U, o)
      /\ rec.status \notin {"none", "CANCELLED"} /\ ~rec.deleted /\ (rec.total > 0 \/ rec.paid # 0) =>
           rec.payState = ResolvePaymentState(rec.paid, NetRevenue(M, rec, o))
  BY <1>1, <1>3 DEF OrderOk
<1> QED BY <1>4, <1>5, <1>6, <1>7, <1>8 DEF OrderOk

\* An action on order o leaves the lines and transactions of the others alone.
Changes(o, rec, L, E, T) ==
  /\ OrderOk(rec, o, L, E, T)
  /\ L = [l \in Lines |-> L[l]] /\ E = [l \in Lines |-> E[l]]
  /\ \A l \in Lines : l \in LinesIn(o) => LineOk(L[l], E[l], l)
  /\ \A l \in Lines : l \notin LinesIn(o) => L[l] = line[l] /\ E[l] = events[l]
  /\ TxsOk(T) /\ \A p \in OrderIds : p # o => SameTxs(txs, T, p)

LEMMA TablesKept ==
  ASSUME IInv, NEW o \in OrderIds, NEW rec, NEW L, NEW E, NEW T, Changes(o, rec, L, E, T),
         NEW O, O = [order EXCEPT ![o] = rec]
  PROVE  Tables(O, L, E, T)
<1>1. rec \in OrderType
  BY DEF Changes, OrderOk
<1>2. order \in [OrderIds -> OrderType] /\ \A l \in Lines : LineOk(line[l], events[l], l)
  BY DEF IInv, Tables
<1>3. O \in [OrderIds -> OrderType] /\ O[o] = rec /\ \A p \in OrderIds : p # o => O[p] = order[p]
  BY <1>1, <1>2
<1>4. \A l \in Lines : LineOk(L[l], E[l], l)
  <2> SUFFICES ASSUME NEW l \in Lines PROVE LineOk(L[l], E[l], l)
    OBVIOUS
  <2>1. CASE l \in LinesIn(o)
    BY <2>1 DEF Changes
  <2>2. CASE l \notin LinesIn(o)
    <3>1. L[l] = line[l] /\ E[l] = events[l]
      BY <2>2 DEF Changes
    <3> QED BY <3>1, <1>2
  <2> QED BY <2>1, <2>2
<1>5. L \in [Lines -> LineType] /\ E \in [Lines -> EventType]
  <2>1. \A l \in Lines : L[l] \in LineType /\ E[l] \in EventType
    BY <1>4 DEF LineOk
  <2> QED BY <2>1 DEF Changes
<1>6. ASSUME NEW p \in OrderIds PROVE OrderOk(O[p], p, L, E, T)
  <2>1. CASE p = o
    BY <1>3, <2>1 DEF Changes
  <2>2. CASE p # o
    <3>1. \A l \in LinesIn(p) : l \in Lines /\ l \notin LinesIn(o)
      BY <2>2, LinesOfOrder, OneOrder
    <3>2. \A l \in LinesIn(p) : L[l] = line[l] /\ E[l] = events[l]
      BY <3>1 DEF Changes
    <3>3. OrderOk(order[p], p, line, events, txs) /\ SameTxs(txs, T, p)
      BY <2>2 DEF IInv, Tables, Changes
    <3>4. OrderOk(order[p], p, L, E, T)
      BY <3>2, <3>3, OrderFrame
    <3> QED BY <1>3, <2>2, <3>4
  <2> QED BY <2>1, <2>2
<1> QED BY <1>3, <1>4, <1>5, <1>6 DEF Tables, Changes

LEMMA SameTxsSelf == ASSUME NEW T, NEW p PROVE SameTxs(T, T, p)
  BY DEF SameTxs

LEMMA OrderFacts ==
  ASSUME IInv, NEW o \in OrderIds
  PROVE  /\ OrderOk(order[o], o, line, events, txs)
         /\ order[o] \in OrderType /\ order[o].subtotal \in Nat /\ order[o].discount \in Nat
         /\ order[o].total \in Nat
         /\ order[o].total = order[o].subtotal - order[o].discount /\ order[o].paid \in Int
<1>1. OrderOk(order[o], o, line, events, txs)
  BY DEF IInv, Tables
<1> QED BY <1>1 DEF OrderOk, OrderType

\* The tables are functions on the lines.
LEMMA TableShape ==
  ASSUME IInv
  PROVE  /\ line \in [Lines -> LineType] /\ events \in [Lines -> EventType]
         /\ line = [l \in Lines |-> line[l]] /\ events = [l \in Lines |-> events[l]]
         /\ TxsOk(txs) /\ txs \in Seq(TxType)
BY DEF IInv, Tables, TxsOk

\* What syncPaymentState writes.
Synced(r, rec, o, L, T) ==
  /\ r \in OrderType /\ r.status = rec.status /\ r.discount = rec.discount /\ r.subtotal = rec.subtotal
  /\ r.total = rec.total /\ r.paid = Paid(T, o)
  /\ r.deleted <=> rec.deleted
  /\ r.payState = ResolvePaymentState(r.paid, NetRevenue(L, r, o))

LEMMA SyncedIs ==
  ASSUME NEW o \in OrderIds, NEW rec \in OrderType, NEW L, \A l \in LinesIn(o) : L[l].returned \in Nat,
         NEW T \in Seq(TxType), NEW r, r = SyncPaymentState(rec, o, L, T)
  PROVE  Synced(r, rec, o, L, T)
<1>1. PICK p \in Int : p = Paid(T, o)
  BY PaidType
<1>2. rec.total \in Nat
  BY DEF OrderType
<1>3. NetRevenue(L, rec, o) \in Nat
  BY <1>2, RevenueType
<1>4. PICK q \in PaymentStates : q = ResolvePaymentState(p, NetRevenue(L, rec, o))
  BY <1>3, StateType
<1>5. r = [rec EXCEPT !.paid = p, !.payState = q]
  BY <1>1, <1>4 DEF SyncPaymentState
<1>6. /\ r \in OrderType /\ r.status = rec.status /\ r.discount = rec.discount /\ r.subtotal = rec.subtotal
      /\ r.total = rec.total /\ r.paid = p /\ r.payState = q
      /\ r.deleted <=> rec.deleted
  BY <1>5 DEF OrderType
<1>7. NetRevenue(L, r, o) = NetRevenue(L, rec, o)
  BY <1>6 DEF NetRevenue
<1> QED BY <1>1, <1>4, <1>6, <1>7 DEF Synced

Priced(r, rec, s, d) ==
  /\ r \in OrderType /\ r.status = rec.status /\ r.discount = d /\ r.subtotal = s /\ r.total = s - d
  /\ r.paid = rec.paid /\ r.payState = rec.payState
  /\ r.deleted <=> rec.deleted

LEMMA RepricedIs ==
  ASSUME NEW rec \in OrderType, NEW s \in Nat, NEW d \in Nat, d <= s, NEW r, r = Repriced(rec, s, d)
  PROVE  Priced(r, rec, s, d)
<1>1. PICK t \in Nat : t = s - d
  OBVIOUS
<1>2. r = [rec EXCEPT !.subtotal = s, !.discount = d, !.total = t]
  BY <1>1 DEF Repriced
<1> QED BY <1>1, <1>2 DEF OrderType, Priced

\* An order that can be worked on and is synced when the action ends.
LEMMA SyncedOk ==
  ASSUME NEW o \in OrderIds, NEW rec, rec.status # "none", ~rec.deleted, rec.total = rec.subtotal - rec.discount,
         NEW L, NEW E, NEW T, NEW r, Synced(r, rec, o, L, T),
         rec.status = "DONE" => \A l \in LinesIn(o) : L[l].shipped = L[l].qty,
         rec.status = "CANCELLED" => Costs(T, o) = {} /\ \A l \in LinesIn(o) : L[l].shipped = 0 /\ E[l] = NoEvents
  PROVE  OrderOk(r, o, L, E, T)
BY DEF Synced, OrderOk, Undone

-----------------------------------------------------------------------------
(***************************************************************************)
(* Composition.                                                            *)
(***************************************************************************)
LEMMA FreshLineOk ==
  ASSUME NEW q \in Nat, NEW ev \in EventType, NEW l \in Lines, ev.qty = 0, MoneyUnit = 1 => ev.revenue = 0
  PROVE  LineOk(FreshLine(q), ev, l) /\ FreshLine(q).shipped = 0 /\ FreshLine(q).returned = 0
         /\ FreshLine(q).qty = q
<1>1. FreshLine(q) \in LineType /\ FreshLine(q).shipped = 0 /\ FreshLine(q).returned = 0 /\ FreshLine(q).qty = q
  BY DEF FreshLine, LineType
<1>2. 0 * Price[l] = 0
  BY OrdersAssumption
<1> QED BY <1>1, <1>2 DEF LineOk

\* A line of which nothing was shipped has no events.
LEMMA Unreturned ==
  ASSUME IInv, NEW l \in Lines, line[l].shipped = 0
  PROVE  events[l] \in EventType /\ line[l].returned = 0 /\ events[l].qty = 0
         /\ (MoneyUnit = 1 => events[l].revenue = 0)
<1>1. line[l].returned = 0 /\ LineOk(line[l], events[l], l)
  BY LineFacts
<1>2. 0 * Price[l] = 0
  BY OrdersAssumption
<1> QED BY <1>1, <1>2 DEF LineOk

\* The lines of an order of which nothing was shipped, composed anew.
RecomposedOk(L, o) ==
  /\ L = [l \in Lines |-> L[l]]
  /\ \A l \in Lines : l \in LinesIn(o) => LineOk(L[l], events[l], l) /\ L[l].shipped = 0 /\ L[l].returned = 0
  /\ \A l \in Lines : l \notin LinesIn(o) => L[l] = line[l]

LEMMA RecomposedIs ==
  ASSUME IInv, NEW o \in OrderIds, NEW qty \in Compositions(o), \A l \in LinesIn(o) : line[l].shipped = 0,
         NEW L, L = Recomposed(o, qty)
  PROVE  RecomposedOk(L, o) /\ Goods(stock, L)
<1>1. DOMAIN qty \in SUBSET LinesIn(o) /\ \A l \in DOMAIN qty : qty[l] \in Nat
  BY OrdersAssumption DEF Compositions
<1>2. ASSUME NEW l \in Lines, l \in LinesIn(o)
      PROVE LineOk(L[l], events[l], l) /\ L[l].shipped = 0 /\ L[l].returned = 0
  <2>1. PICK q \in Nat : L[l] = FreshLine(q)
    BY <1>1, <1>2 DEF Recomposed
  <2>2. events[l] \in EventType /\ events[l].qty = 0 /\ (MoneyUnit = 1 => events[l].revenue = 0)
    BY <1>2, Unreturned
  <2> QED BY <2>1, <2>2, FreshLineOk
<1>3. \A l \in Lines : l \notin LinesIn(o) => L[l] = line[l]
  BY <1>1 DEF Recomposed
<1>4. L = [l \in Lines |-> L[l]]
  BY DEF Recomposed
<1>5. RecomposedOk(L, o)
  BY <1>2, <1>3, <1>4 DEF RecomposedOk
<1>6. \A l \in Lines : SameGoods(line, L, l) \/ (line[l].shipped = 0 /\ L[l].shipped = 0 /\ L[l].returned = 0)
  BY <1>2, <1>3 DEF SameGoods
<1>7. Goods(stock, L)
  BY <1>6, GoodsLeft
<1> QED BY <1>5, <1>7

LEMMA CreateKeeps ==
  ASSUME IInv, NEW o \in OrderIds, NEW qty \in Compositions(o), NEW d \in Discounts, Create(o, qty, d)
  PROVE  IInv'
<1>1. PICK s \in Nat : s = Subtotal(o, qty)
  BY SubtotalType
<1>2. d \in Nat /\ d <= s
  BY <1>1, OrdersAssumption DEF Create
<1>3. PICK L : L = Recomposed(o, qty)
  OBVIOUS
<1>4. OrderOk(order[o], o, line, events, txs)
  BY OrderFacts
<1>5. order[o] = NoOrder /\ Mine(txs, o) = {} /\ \A l \in LinesIn(o) : line[l].shipped = 0
  BY <1>4 DEF Create, OrderOk
<1>6. PICK q : q = [order[o] EXCEPT !.status = "OPEN"]
  OBVIOUS
<1>7. PICK r : r = Repriced(q, s, d)
  OBVIOUS
<1>8. q \in OrderType /\ q.status = "OPEN" /\ ~q.deleted /\ q.paid = 0 /\ q.payState = "UNPAID"
  <2>1. order[o] \in OrderType
    BY OrderFacts
  <2>2. ~order[o].deleted /\ order[o].paid = 0 /\ order[o].payState = "UNPAID"
    BY <1>5 DEF NoOrder
  <2>3. /\ q \in OrderType /\ q.status = "OPEN" /\ q.paid = order[o].paid /\ q.payState = order[o].payState
        /\ q.deleted <=> order[o].deleted
    BY <1>6, <2>1 DEF OrderType, Statuses
  <2> QED BY <2>2, <2>3
<1>9. /\ r \in OrderType /\ r.status = "OPEN" /\ ~r.deleted /\ r.subtotal = s /\ r.discount = d /\ r.total = s - d
      /\ r.paid = 0 /\ r.payState = "UNPAID"
  <2>1. Priced(r, q, s, d)
    BY <1>2, <1>7, <1>8, RepricedIs
  <2> QED BY <2>1, <1>2, <1>7, <1>8 DEF Priced
<1>10. order' = [order EXCEPT ![o] = r] /\ line' = L /\ stock' = stock /\ events' = events /\ txs' = txs
  BY <1>1, <1>3, <1>6, <1>7 DEF Create
<1>11. RecomposedOk(L, o) /\ Goods(stock, L)
  BY <1>3, <1>5, RecomposedIs
<1>12. OrderOk(r, o, L, events, txs)
  <2>1. Paid(txs, o) = 0
    <3>1. ASSUME NEW kind PROVE Total(txs, Live(txs, o, kind)) = 0
      <4>1. Live(txs, o, kind) = {}
        BY <1>5 DEF Live, Mine
      <4>2. Total(txs, {}) = Sum([n \in {} |-> txs[n].amount], {})
        BY DEF Total, SumFunction, Sum
      <4> QED BY <4>1, <4>2, SumEmpty
    <3> QED BY <3>1 DEF Paid
  <2>2. r.total \in Nat /\ \A l \in LinesIn(o) : L[l].returned = 0
    BY <1>9, <1>11, LinesOfOrder DEF OrderType, RecomposedOk
  <2>3. NetRevenue(L, r, o) = r.total
    BY <2>2, RevenueType
  <2>4. r.total > 0 => ResolvePaymentState(0, r.total) = "UNPAID"
    BY <2>2 DEF ResolvePaymentState
  <2>5. r.total = r.subtotal - r.discount
    BY <1>9
  <2> QED BY <1>9, <2>1, <2>2, <2>3, <2>4, <2>5 DEF OrderOk, Undone
<1>13. Changes(o, r, L, events, txs)
  BY <1>11, <1>12, TableShape, SameTxsSelf DEF Changes, RecomposedOk
<1>14. Tables([order EXCEPT ![o] = r], L, events, txs)
  BY <1>13, TablesKept
<1> QED BY <1>10, <1>11, <1>14 DEF IInv

LEMMA UpdateItemsKeeps ==
  ASSUME IInv, NEW o \in OrderIds, NEW qty \in Compositions(o), NEW d \in Discounts, UpdateItems(o, qty, d)
  PROVE  IInv'
<1>1. PICK s \in Nat : s = Subtotal(o, qty)
  BY SubtotalType
<1>2. d \in Nat /\ d <= s
  BY <1>1, OrdersAssumption DEF UpdateItems
<1>3. PICK L : L = Recomposed(o, qty)
  OBVIOUS
<1>4. order[o] \in OrderType /\ order[o].status = "OPEN" /\ ~order[o].deleted
  BY OrderFacts DEF UpdateItems, Open, Usable
<1>5. \A l \in LinesIn(o) : line[l].shipped = 0
  BY DEF UpdateItems
<1>6. RecomposedOk(L, o) /\ Goods(stock, L)
  BY <1>3, <1>5, RecomposedIs
<1>7. PICK q : q = Repriced(order[o], s, d)
  OBVIOUS
<1>8. PICK r : r = SyncPaymentState(q, o, L, txs)
  OBVIOUS
<1>9. q \in OrderType /\ q.status = "OPEN" /\ ~q.deleted /\ q.total = q.subtotal - q.discount
  <2>1. Priced(q, order[o], s, d)
    BY <1>2, <1>4, <1>7, RepricedIs
  <2> QED BY <2>1, <1>2, <1>4, <1>7 DEF Priced
<1>10. \A l \in LinesIn(o) : L[l].returned \in Nat
  BY <1>6, LinesOfOrder DEF RecomposedOk
<1>11. Synced(r, q, o, L, txs)
  BY <1>8, <1>9, <1>10, TableShape, SyncedIs
<1>12. OrderOk(r, o, L, events, txs)
  BY <1>9, <1>11, SyncedOk
<1>13. order' = [order EXCEPT ![o] = r] /\ line' = L /\ stock' = stock /\ events' = events /\ txs' = txs
  BY <1>1, <1>3, <1>7, <1>8 DEF UpdateItems
<1>14. Changes(o, r, L, events, txs)
  BY <1>6, <1>12, TableShape, SameTxsSelf DEF Changes, RecomposedOk
<1>15. Tables([order EXCEPT ![o] = r], L, events, txs)
  BY <1>14, TablesKept
<1> QED BY <1>6, <1>13, <1>15 DEF IInv

\* The lines as they were.
LEMMA LinesKept ==
  ASSUME IInv, NEW o \in OrderIds, NEW r, NEW T, OrderOk(r, o, line, events, T), TxsOk(T),
         \A p \in OrderIds : p # o => SameTxs(txs, T, p)
  PROVE  Tables([order EXCEPT ![o] = r], line, events, T)
<1>1. Changes(o, r, line, events, T)
  BY TableShape, LineFacts DEF Changes
<1> QED BY <1>1, TablesKept

LEMMA UpdateDiscountKeeps ==
  ASSUME IInv, NEW o \in OrderIds, NEW d \in Discounts, UpdateDiscount(o, d)
  PROVE  IInv'
<1>1. order[o] \in OrderType /\ order[o].status = "OPEN" /\ ~order[o].deleted /\ order[o].subtotal \in Nat
  BY OrderFacts DEF UpdateDiscount, Open, Usable
<1>2. d \in Nat /\ d <= order[o].subtotal
  BY OrdersAssumption DEF UpdateDiscount
<1>3. PICK q : q = Repriced(order[o], order[o].subtotal, d)
  OBVIOUS
<1>4. PICK r : r = SyncPaymentState(q, o, line, txs)
  OBVIOUS
<1>5. q \in OrderType /\ q.status = "OPEN" /\ ~q.deleted /\ q.total = q.subtotal - q.discount
  <2>1. Priced(q, order[o], order[o].subtotal, d)
    BY <1>1, <1>2, <1>3, RepricedIs
  <2> QED BY <2>1, <1>1, <1>2, <1>3 DEF Priced
<1>6. \A l \in LinesIn(o) : line[l].returned \in Nat
  BY LinesOfOrder, LineFacts
<1>7. Synced(r, q, o, line, txs)
  BY <1>4, <1>5, <1>6, TableShape, SyncedIs
<1>8. OrderOk(r, o, line, events, txs)
  BY <1>5, <1>7, SyncedOk
<1>9. order' = [order EXCEPT ![o] = r] /\ line' = line /\ stock' = stock /\ events' = events /\ txs' = txs
  BY <1>3, <1>4 DEF UpdateDiscount
<1>10. Tables([order EXCEPT ![o] = r], line, events, txs)
  BY <1>8, TableShape, SameTxsSelf, LinesKept
<1> QED BY <1>9, <1>10 DEF IInv

\* One line of a receipt, put in or taken out.
LEMMA ExternalKeeps ==
  ASSUME IInv, NEW o \in OrderIds, Open(o), NEW l \in LinesIn(o), l \in ReceiptLines, line[l].shipped = 0,
         NEW n \in Nat, NEW L, L = [line EXCEPT ![l] = FreshLine(n)],
         NEW s \in Nat, order[o].discount <= s,
         NEW r, r = SyncPaymentState(Repriced(order[o], s, order[o].discount), o, L, txs)
  PROVE  Tables([order EXCEPT ![o] = r], L, events, txs) /\ Goods(stock, L)
<1>0. l \in Lines
  BY LinesOfOrder
<1>1. order[o] \in OrderType /\ order[o].status = "OPEN" /\ ~order[o].deleted /\ order[o].discount \in Nat
  BY OrderFacts DEF Open, Usable
<1>2. /\ L = [m \in Lines |-> L[m]] /\ L[l] = FreshLine(n)
      /\ \A m \in Lines : m # l => L[m] = line[m]
  BY <1>0, TableShape
<1>3. LineOk(L[l], events[l], l) /\ L[l].shipped = 0 /\ L[l].returned = 0
  BY <1>0, <1>2, Unreturned, FreshLineOk
<1>4. \A m \in Lines : LineOk(L[m], events[m], m) /\ L[m].returned \in Nat
  <2> SUFFICES ASSUME NEW m \in Lines PROVE LineOk(L[m], events[m], m) /\ L[m].returned \in Nat
    OBVIOUS
  <2>1. CASE m = l
    BY <1>3, <2>1
  <2>2. CASE m # l
    BY <1>2, <2>2, LineFacts
  <2> QED BY <2>1, <2>2
<1>5. PICK q : q = Repriced(order[o], s, order[o].discount)
  OBVIOUS
<1>6. q \in OrderType /\ q.status = "OPEN" /\ ~q.deleted /\ q.total = q.subtotal - q.discount
  <2>1. Priced(q, order[o], s, order[o].discount)
    BY <1>1, <1>5, RepricedIs
  <2> QED BY <2>1, <1>1, <1>5 DEF Priced
<1>7. r = SyncPaymentState(q, o, L, txs)
  BY <1>5
<1>8. \A m \in LinesIn(o) : L[m].returned \in Nat
  BY <1>4, LinesOfOrder
<1>9. Synced(r, q, o, L, txs)
  BY <1>6, <1>7, <1>8, TableShape, SyncedIs
<1>10. OrderOk(r, o, L, events, txs)
  BY <1>6, <1>9, SyncedOk
<1>11. Changes(o, r, L, events, txs)
  BY <1>2, <1>4, <1>10, TableShape, SameTxsSelf DEF Changes
<1>12. Tables([order EXCEPT ![o] = r], L, events, txs)
  BY <1>11, TablesKept
<1>13. \A m \in Lines : SameGoods(line, L, m) \/ (line[m].shipped = 0 /\ L[m].shipped = 0 /\ L[m].returned = 0)
  BY <1>2, <1>3 DEF SameGoods
<1>14. Goods(stock, L)
  BY <1>13, GoodsLeft
<1> QED BY <1>12, <1>14

LEMMA AddExternalItemKeeps ==
  ASSUME IInv, NEW o \in OrderIds, NEW l \in Lines, NEW qty \in Nat, AddExternalItem(o, l, qty)
  PROVE  IInv'
<1>1. Open(o) /\ l \in LinesIn(o) /\ l \in ReceiptLines /\ line[l].qty = 0
  BY DEF AddExternalItem
<1>2. line[l].shipped = 0
  BY <1>1, LineFacts
<1>3. Price[l] \in Nat
  BY OrdersAssumption
<1>4. qty * Price[l] \in Nat
  BY <1>3, Products
<1>5. PICK m \in Nat : m = Money(qty * Price[l])
  BY <1>4, MoneyType
<1>6. PICK s \in Nat : s = order[o].subtotal + m
  BY OrderFacts
<1>7. order[o].discount <= s
  BY <1>6, OrderFacts
<1>8. PICK L : L = [line EXCEPT ![l] = FreshLine(qty)]
  OBVIOUS
<1>9. PICK r : r = SyncPaymentState(Repriced(order[o], s, order[o].discount), o, L, txs)
  OBVIOUS
<1>10. line' = L /\ stock' = stock /\ events' = events /\ txs' = txs /\ order' = [order EXCEPT ![o] = r]
  BY <1>5, <1>6, <1>8, <1>9 DEF AddExternalItem
<1>11. Tables([order EXCEPT ![o] = r], L, events, txs) /\ Goods(stock, L)
  BY <1>1, <1>2, <1>7, <1>8, <1>9, ExternalKeeps
<1> QED BY <1>10, <1>11 DEF IInv

LEMMA RemoveExternalItemKeeps ==
  ASSUME IInv, NEW o \in OrderIds, NEW l \in Lines, RemoveExternalItem(o, l)
  PROVE  IInv'
<1>1. Open(o) /\ l \in LinesIn(o) /\ l \in ReceiptLines /\ line[l].shipped = 0
  BY DEF RemoveExternalItem, Present
<1>2. Price[l] \in Nat /\ line[l].qty \in Nat
  BY OrdersAssumption, LineFacts
<1>3. line[l].qty * Price[l] \in Nat
  BY <1>2, Products
<1>4. PICK m \in Nat : m = Money(line[l].qty * Price[l])
  BY <1>3, MoneyType
<1>5. PICK s \in Int : s = order[o].subtotal - m
  BY OrderFacts
<1>6. s \in Nat /\ order[o].discount <= s
  BY <1>4, <1>5, OrderFacts DEF RemoveExternalItem
<1>n. PICK n \in Nat : n = 0
  OBVIOUS
<1>7. PICK L : L = [line EXCEPT ![l] = FreshLine(n)]
  OBVIOUS
<1>8. PICK r : r = SyncPaymentState(Repriced(order[o], s, order[o].discount), o, L, txs)
  OBVIOUS
<1>9. line' = L /\ stock' = stock /\ events' = events /\ txs' = txs /\ order' = [order EXCEPT ![o] = r]
  BY <1>4, <1>5, <1>n, <1>7, <1>8 DEF RemoveExternalItem
<1>10. Tables([order EXCEPT ![o] = r], L, events, txs) /\ Goods(stock, L)
  BY <1>1, <1>6, <1>7, <1>8, ExternalKeeps
<1> QED BY <1>9, <1>10 DEF IInv

-----------------------------------------------------------------------------
(***************************************************************************)
(* Payments.                                                               *)
(***************************************************************************)
\* The money moved, the order is synced.
LEMMA MoneyMoved ==
  ASSUME IInv, NEW o \in OrderIds, Usable(o), NEW T, TxsOk(T), \A p \in OrderIds : p # o => SameTxs(txs, T, p),
         order[o].status = "CANCELLED" => Costs(T, o) = {},
         NEW r, r = SyncPaymentState(order[o], o, line, T)
  PROVE  Tables([order EXCEPT ![o] = r], line, events, T)
<1>1. /\ order[o] \in OrderType /\ order[o].status # "none" /\ ~order[o].deleted
      /\ order[o].total = order[o].subtotal - order[o].discount
  BY OrderFacts DEF Usable
<1>2. \A l \in LinesIn(o) : line[l].returned \in Nat
  BY LinesOfOrder, LineFacts
<1>3. T \in Seq(TxType)
  BY DEF TxsOk
<1>4. Synced(r, order[o], o, line, T)
  BY <1>1, <1>2, <1>3, SyncedIs
<1>5. OrderOk(order[o], o, line, events, txs)
  BY OrderFacts
<1>6. order[o].status = "DONE" => \A l \in LinesIn(o) : line[l].shipped = line[l].qty
  BY <1>1, <1>5 DEF OrderOk
<1>7. order[o].status = "CANCELLED" => Costs(T, o) = {} /\
      \A l \in LinesIn(o) : line[l].shipped = 0 /\ events[l] = NoEvents
  BY <1>5 DEF OrderOk, Undone
<1>8. OrderOk(r, o, line, events, T)
  BY <1>1, <1>4, <1>6, <1>7, SyncedOk
<1> QED BY <1>8, LinesKept

LEMMA TxIs ==
  ASSUME NEW o \in OrderIds, NEW kind \in Kinds, NEW a \in Int
  PROVE  Tx(o, kind, a) \in TxType /\ Tx(o, kind, a).order = o /\ Tx(o, kind, a).kind = kind
         /\ ~Tx(o, kind, a).bankLine
BY DEF Tx, TxType

LEMMA FreshOne ==
  ASSUME NEW o \in OrderIds, NEW kind \in Kinds, NEW a \in Int
  PROVE  Fresh(<<Tx(o, kind, a)>>, o) /\ \A n \in DOMAIN <<Tx(o, kind, a)>> : <<Tx(o, kind, a)>>[n].kind = kind
<1>1. PICK x : x = Tx(o, kind, a)
  OBVIOUS
<1>2. x \in TxType /\ x.order = o /\ x.kind = kind /\ ~x.bankLine
  BY <1>1, TxIs
<1>3. <<x>> \in Seq(TxType) /\ \A n \in DOMAIN <<x>> : <<x>>[n] = x
  BY <1>2
<1> QED BY <1>1, <1>2, <1>3 DEF Fresh

LEMMA FreshBoth ==
  ASSUME NEW o \in OrderIds, NEW R, NEW S, Fresh(R, o), Fresh(S, o)
  PROVE  Fresh(R \o S, o)
<1> DEFINE a == Len(R)
           b == Len(S)
           U == R \o S
<1>1. R \in Seq(TxType) /\ S \in Seq(TxType)
  BY DEF Fresh
<1>2. a \in Nat /\ b \in Nat /\ DOMAIN R = 1..a /\ DOMAIN S = 1..b
  BY <1>1, TxFacts
<1>3. U \in Seq(TxType) /\ Len(U) = a + b /\ \A n \in 1..(a + b) : U[n] = IF n <= a THEN R[n] ELSE S[n - a]
  BY <1>1, ConcatProperties
<1>4. DOMAIN U = 1..(a + b)
  BY <1>3, TxFacts
<1> HIDE DEF a, b, U
<1>5. ASSUME NEW n \in DOMAIN U PROVE U[n].order = o /\ ~U[n].bankLine
  <2>1. CASE n <= a
    BY <1>2, <1>3, <1>4, <2>1 DEF Fresh
  <2>2. CASE ~(n <= a)
    <3>1. n - a \in DOMAIN S /\ U[n] = S[n - a]
      BY <1>2, <1>3, <1>4, <2>2
    <3> QED BY <3>1 DEF Fresh
  <2> QED BY <2>1, <2>2
<1>6. Fresh(U, o)
  BY <1>3, <1>5 DEF Fresh
<1> QED BY <1>6 DEF U

LEMMA AddPaymentKeeps ==
  ASSUME IInv, NEW o \in OrderIds, NEW a \in Amounts, AddPayment(o, a)
  PROVE  IInv'
<1>1. a \in Int /\ "ORDER_PAYMENT" \in Kinds
  BY OrdersAssumption DEF Kinds
<1>2. PICK x : x = Tx(o, "ORDER_PAYMENT", a)
  OBVIOUS
<1>3. Fresh(<<x>>, o) /\ x \in TxType
  BY <1>1, <1>2, FreshOne, TxIs
<1>4. PICK T : T = txs \o <<x>>
  OBVIOUS
<1>5. Added(txs, T, <<x>>, o)
  BY <1>3, <1>4, TableShape, TxsAdded
<1>6. PICK r : r = SyncPaymentState(order[o], o, line, T)
  OBVIOUS
<1>7. txs' = T
  <2>1. Append(txs, x) = txs \o <<x>>
    BY <1>3, TableShape, AppendIsConcat
  <2> QED BY <1>2, <1>4, <2>1 DEF AddPayment
<1>8. order' = [order EXCEPT ![o] = r] /\ line' = line /\ events' = events /\ stock' = stock
  BY <1>6, <1>7 DEF AddPayment
<1>9. Usable(o) /\ order[o].status # "CANCELLED"
  BY DEF AddPayment
<1>10. TxsOk(T) /\ \A p \in OrderIds : p # o => SameTxs(txs, T, p)
  BY <1>5 DEF Added
<1>11. Tables([order EXCEPT ![o] = r], line, events, T)
  BY <1>6, <1>9, <1>10, MoneyMoved
<1> QED BY <1>7, <1>8, <1>11 DEF IInv

LEMMA AddInstallmentPaymentKeeps ==
  ASSUME IInv, NEW o \in OrderIds, NEW a \in Amounts, NEW f \in Amounts, AddInstallmentPayment(o, a, f)
  PROVE  IInv'
<1>1. a \in Int /\ f \in Int /\ "ORDER_PAYMENT" \in Kinds /\ "VARIABLE_COST" \in Kinds
  BY OrdersAssumption DEF Kinds
<1>2. PICK x, y : x = Tx(o, "ORDER_PAYMENT", a) /\ y = Tx(o, "VARIABLE_COST", f)
  OBVIOUS
<1>3. x \in TxType /\ y \in TxType /\ x.order = o /\ y.order = o /\ ~x.bankLine /\ ~y.bankLine
  BY <1>1, <1>2, TxIs
<1>4. Fresh(<<x, y>>, o)
  BY <1>3 DEF Fresh
<1>5. PICK T : T = txs \o <<x, y>>
  OBVIOUS
<1>6. Added(txs, T, <<x, y>>, o)
  BY <1>4, <1>5, TableShape, TxsAdded
<1>7. PICK r : r = SyncPaymentState(order[o], o, line, T)
  OBVIOUS
<1>8. txs' = T
  BY <1>2, <1>5 DEF AddInstallmentPayment
<1>9. order' = [order EXCEPT ![o] = r] /\ line' = line /\ events' = events /\ stock' = stock
  BY <1>7, <1>8 DEF AddInstallmentPayment
<1>10. Usable(o) /\ order[o].status # "CANCELLED"
  BY DEF AddInstallmentPayment
<1>11. TxsOk(T) /\ \A p \in OrderIds : p # o => SameTxs(txs, T, p)
  BY <1>6 DEF Added
<1>12. Tables([order EXCEPT ![o] = r], line, events, T)
  BY <1>7, <1>10, <1>11, MoneyMoved
<1> QED BY <1>8, <1>9, <1>12 DEF IInv

LEMMA DeletePaymentKeeps ==
  ASSUME IInv, NEW o \in OrderIds, NEW n \in DOMAIN txs, DeletePayment(o, n)
  PROVE  IInv'
<1>1. PICK T : T = DeleteTxs(txs, {n})
  OBVIOUS
<1>2. Deleted(txs, T, {n})
  BY <1>1, TableShape, TxsDeleted
<1>3. txs[n].order = o /\ Usable(o)
  BY DEF DeletePayment, Live
<1>4. PICK r : r = SyncPaymentState(order[o], o, line, T)
  OBVIOUS
<1>5. txs' = T
  BY <1>1 DEF DeletePayment
<1>6. order' = [order EXCEPT ![o] = r] /\ line' = line /\ events' = events /\ stock' = stock
  BY <1>4, <1>5 DEF DeletePayment
<1>7. TxsOk(T) /\ \A p \in OrderIds : p # o => SameTxs(txs, T, p)
  BY <1>2, <1>3 DEF Deleted
<1>8. order[o].status = "CANCELLED" => Costs(T, o) = {}
  <2>1. order[o].status = "CANCELLED" => Costs(txs, o) = {}
    BY OrderFacts DEF OrderOk, Undone
  <2>2. Costs(T, o) = Costs(txs, o) \ {n}
    BY <1>2 DEF Costs, Deleted
  <2> QED BY <2>1, <2>2
<1>9. Tables([order EXCEPT ![o] = r], line, events, T)
  BY <1>3, <1>4, <1>7, <1>8, MoneyMoved
<1> QED BY <1>5, <1>6, <1>9 DEF IInv

\* The orders and their lines as they were, whatever the deletions since the
\* handler found the transaction.
LEMMA LinkBankLineKeeps ==
  ASSUME IInv, NEW h \in Handlers, LinkBankLine(h)
  PROVE  IInv'
<1>1. PICK n : n = found[h]
  OBVIOUS
<1>2. line' = line /\ events' = events /\ stock' = stock /\ order' = order
  BY DEF LinkBankLine
<1>3. txs \in Seq(TxType) /\ TxsOk(txs)
  BY TableShape
<1>4. PICK T : T = [txs EXCEPT ![n].bankLine = TRUE, ![n].late = txs[n].deleted]
  OBVIOUS
<1>5. CASE txs' = txs
  BY <1>2, <1>5 DEF IInv
<1>6. CASE txs' = T /\ n \in DOMAIN txs
  <2>1. DOMAIN txs = 1..Len(txs) /\ Len(txs) \in Nat /\ txs[n] \in TxType
    BY <1>3, <1>6, TxFacts
  <2>2. PICK x : x = [txs[n] EXCEPT !.bankLine = TRUE, !.late = txs[n].deleted]
    OBVIOUS
  <2>3. /\ x \in TxType /\ x.order = txs[n].order /\ x.kind = txs[n].kind /\ x.amount = txs[n].amount
        /\ x.deleted <=> txs[n].deleted
        /\ x.deleted => x.late
    BY <2>1, <2>2 DEF TxType
  <2>4. T = [txs EXCEPT ![n] = x]
    BY <1>4, <2>2
  <2>5. T \in Seq(TxType)
    BY <1>3, <1>6, <2>3, <2>4, ExceptSeq
  <2>6. DOMAIN T = DOMAIN txs /\ T[n] = x /\ \A k \in DOMAIN txs : k # n => T[k] = txs[k]
    BY <1>6, <2>4
  <2>7. TxsOk(T)
    BY <1>3, <2>3, <2>5, <2>6 DEF TxsOk
  <2>8. ASSUME NEW p \in OrderIds PROVE OrderOk(order[p], p, line, events, T)
    <3>1. Mine(T, p) = Mine(txs, p)
      BY <2>3, <2>6 DEF Mine
    <3>2. SameTxs(txs, T, p)
      BY <2>3, <2>6, <3>1 DEF SameTxs, Mine
    <3> QED BY <3>2, OrderFacts, OrderFrame
  <2>9. Tables(order, line, events, T)
    BY <2>7, <2>8 DEF IInv, Tables
  <2> QED BY <1>2, <1>6, <2>9 DEF IInv
<1>7. txs' = T /\ n \notin DOMAIN txs => txs' = txs
  BY <1>3, <1>4
<1>8. txs' = txs \/ txs' = T
  BY <1>1, <1>4 DEF LinkBankLine
<1> QED BY <1>5, <1>6, <1>7, <1>8

LEMMA FindTxKeeps == ASSUME IInv, NEW h \in Handlers, NEW n \in DOMAIN txs, FindTx(h, n) PROVE IInv'
BY DEF FindTx, IInv

-----------------------------------------------------------------------------
(***************************************************************************)
(* Shipping and closing.                                                   *)
(***************************************************************************)
LEMMA ShipKeeps ==
  ASSUME IInv, NEW o \in OrderIds, NEW l \in Lines, NEW qty \in Nat, Ship(o, l, qty)
  PROVE  IInv'
<1>1. PICK L : L = line'
  OBVIOUS
<1>2. line' = L /\ events' = events /\ txs' = txs /\ order' = order
  BY <1>1 DEF Ship
<1>3. order[o].status = "OPEN" /\ ~order[o].deleted /\ l \in LinesIn(o) /\ qty <= line[l].qty - line[l].shipped
  BY DEF Ship, Open, Usable, Present
<1>4. Sound(stock') /\ Goods(stock', line')
  BY ShipGoods DEF Goods
<1>5. UnitCostAtSaleFor(stock', l) \in Nat \cup {-1}
  BY <1>4, SnapType
<1>6. PICK c \in Nat \cup {-1} : c = IF Manual(l) THEN line[l].snap ELSE UnitCostAtSaleFor(stock', l)
  BY <1>5, LineFacts DEF LineType
<1>7. PICK n \in Nat : n = line[l].shipped + qty
  BY LineFacts
<1>8. L = [line EXCEPT ![l] = [line[l] EXCEPT !.shipped = n, !.snap = c]]
  <2>1. line[l] \in LineType
    BY LineFacts
  <2>2. CASE Manual(l)
    <3>1. L = [line EXCEPT ![l] = [line[l] EXCEPT !.shipped = n]]
      BY <1>1, <1>7, <2>2 DEF Ship
    <3>2. [line[l] EXCEPT !.shipped = n] = [line[l] EXCEPT !.shipped = n, !.snap = c]
      BY <1>6, <2>1, <2>2 DEF LineType
    <3> QED BY <3>1, <3>2
  <2>3. CASE ~Manual(l)
    <3>1. L = [line EXCEPT ![l].shipped = line[l].shipped + qty, ![l].snap = c]
      BY <1>1, <1>6, <2>3 DEF Ship
    <3> QED BY <3>1, <1>7
  <2> QED BY <2>2, <2>3
<1>9. line \in [Lines -> LineType] /\ line[l] \in LineType
  BY TableShape
<1>10. /\ L = [m \in Lines |-> L[m]] /\ \A m \in Lines : m # l => L[m] = line[m]
       /\ L[l] \in LineType /\ L[l].qty = line[l].qty /\ L[l].shipped = n /\ L[l].returned = line[l].returned
  BY <1>8, <1>9 DEF LineType
<1>11. LineOk(L[l], events[l], l)
  <2>1. LineOk(line[l], events[l], l) /\ line[l].shipped \in Nat /\ line[l].qty \in Nat
        /\ line[l].returned \in Nat
    BY LineFacts
  <2> QED BY <1>3, <1>7, <1>10, <2>1 DEF LineOk
<1>12. \A m \in Lines : LineOk(L[m], events[m], m)
  BY <1>10, <1>11, LineFacts
<1>13. OrderOk(order[o], o, L, events, txs)
  <2>1. OrderOk(order[o], o, line, events, txs)
    BY OrderFacts
  <2>2. \A m \in LinesIn(o) : L[m].returned = line[m].returned
    BY <1>10, LinesOfOrder
  <2>3. NetRevenue(L, order[o], o) = NetRevenue(line, order[o], o)
    BY <2>2, RevenueSame
  <2> QED BY <1>3, <2>1, <2>3 DEF OrderOk, Undone
<1>14. Changes(o, order[o], L, events, txs)
  BY <1>3, <1>10, <1>12, <1>13, TableShape, SameTxsSelf DEF Changes
<1>15. order = [order EXCEPT ![o] = order[o]]
  BY DEF IInv, Tables
<1>16. Tables(order, L, events, txs)
  BY <1>14, <1>15, TablesKept
<1> QED BY <1>2, <1>4, <1>16 DEF IInv

LEMMA ManualCogsType == ASSUME IInv, NEW o \in OrderIds PROVE ManualCogs(o) \in Nat
<1> DEFINE P == {l \in Present(o) : Manual(l) /\ UnitCost[l] > 0}
           f == [l \in P |-> line[l].qty * UnitCost[l]]
<1>1. P \in SUBSET LinesIn(o)
  BY DEF Present
<1>2. IsFiniteSet(P) /\ P \in SUBSET Lines
  BY <1>1, LinesOfOrder, FS_Subset
<1>3. \A l \in P : line[l].qty \in Nat /\ UnitCost[l] \in Nat
  BY <1>2, LineFacts, OrdersAssumption
<1>4. \A l \in P : f[l] \in Nat
  BY <1>3, Products
<1>5. ManualCogs(o) = Sum(f, P)
  BY DEF ManualCogs, SumFunction, Sum
<1> HIDE DEF P, f
<1> QED BY <1>2, <1>4, <1>5, SumType

\* What is booked when an order is closed leaves its payments alone.
LEMMA CogsBooked ==
  ASSUME IInv, NEW o \in OrderIds, NEW T,
         T = IF ManualCogs(o) > 0 THEN Append(txs, Tx(o, "COGS", Money(ManualCogs(o)))) ELSE txs
  PROVE  TxsOk(T) /\ (\A p \in OrderIds : p # o => SameTxs(txs, T, p)) /\ Paid(T, o) = Paid(txs, o)
<1>1. CASE ManualCogs(o) > 0
  <2>1. PICK a \in Int : a = Money(ManualCogs(o))
    BY ManualCogsType, MoneyType
  <2>2. PICK x : x = Tx(o, "COGS", a)
    OBVIOUS
  <2>3. "COGS" \in Kinds
    BY DEF Kinds
  <2>4. x \in TxType /\ Fresh(<<x>>, o) /\ \A n \in DOMAIN <<x>> : <<x>>[n].kind = "COGS"
    BY <2>2, <2>3, TxIs, FreshOne
  <2>5. T = txs \o <<x>>
    <3>1. Append(txs, x) = txs \o <<x>>
      BY <2>4, TableShape, AppendIsConcat
    <3> QED BY <1>1, <2>1, <2>2, <3>1
  <2>6. Added(txs, T, <<x>>, o)
    BY <2>4, <2>5, TableShape, TxsAdded
  <2>7. SameLive(txs, T, o, "ORDER_PAYMENT") /\ SameLive(txs, T, o, "ORDER_REFUND")
    BY <2>4, <2>6 DEF Added
  <2>8. Paid(T, o) = Paid(txs, o)
    BY <2>7, PaidSame
  <2> QED BY <2>6, <2>8 DEF Added
<1>2. CASE ~(ManualCogs(o) > 0)
  BY <1>2, TableShape, SameTxsSelf
<1> QED BY <1>1, <1>2

LEMMA FinalizeKeeps ==
  ASSUME IInv, NEW o \in OrderIds, Finalize(o)
  PROVE  IInv'
<1>1. PICK s : s = SellRemaining(o)
  OBVIOUS
<1>2. PICK L : L = [l \in Lines |-> IF l \in Present(o)
                     THEN [line[l] EXCEPT !.shipped = line[l].qty,
                                          !.snap = IF Manual(l) THEN UnitCost[l] ELSE UnitCostAtSaleFor(s, l)]
                     ELSE line[l]]
  OBVIOUS
<1>3. PICK T : T = IF ManualCogs(o) > 0 THEN Append(txs, Tx(o, "COGS", Money(ManualCogs(o)))) ELSE txs
  OBVIOUS
<1>4. PICK r : r = [order[o] EXCEPT !.status = "DONE"]
  OBVIOUS
<1>5. stock' = s /\ line' = L /\ txs' = T /\ events' = events
  BY <1>1, <1>2, <1>3 DEF Finalize
<1>6. order' = [order EXCEPT ![o] = r]
  BY <1>4 DEF Finalize
<1>7. Goods(stock', line')
  BY FinalizeGoods
<1>8. Goods(s, L) /\ Sound(s)
  BY <1>5, <1>7 DEF Goods
<1>9. order[o].status = "OPEN" /\ ~order[o].deleted
  BY DEF Finalize, Open, Usable
<1>10. /\ r \in OrderType /\ r.status = "DONE" /\ r.total = order[o].total /\ r.subtotal = order[o].subtotal
       /\ r.discount = order[o].discount /\ r.paid = order[o].paid /\ r.payState = order[o].payState
       /\ r.deleted <=> order[o].deleted
  <2>1. order[o] \in OrderType
    BY OrderFacts
  <2> QED BY <1>4, <2>1 DEF OrderType, Statuses
<1>11. ASSUME NEW l \in Lines
       PROVE  LineOk(L[l], events[l], l) /\ L[l].returned = line[l].returned /\ L[l].qty = line[l].qty
  <2>0. LineOk(line[l], events[l], l)
    BY LineFacts
  <2>1. CASE l \in Present(o)
    <3>1. UnitCost[l] \in Nat \cup {-1} /\ UnitCostAtSaleFor(s, l) \in Nat \cup {-1}
      BY <1>8, SnapType, OrdersAssumption
    <3>2. PICK c \in Nat \cup {-1} : c = IF Manual(l) THEN UnitCost[l] ELSE UnitCostAtSaleFor(s, l)
      BY <3>1
    <3>3. L[l] = [line[l] EXCEPT !.shipped = line[l].qty, !.snap = c]
      BY <1>2, <2>1, <3>2
    <3>4. line[l] \in LineType /\ line[l].qty \in Nat /\ line[l].shipped \in Nat /\ line[l].returned \in Nat
      BY LineFacts
    <3>5. L[l] \in LineType /\ L[l].shipped = line[l].qty /\ L[l].returned = line[l].returned
          /\ L[l].qty = line[l].qty
      BY <3>3, <3>4 DEF LineType
    <3>6. line[l].returned <= line[l].qty /\ line[l].qty <= line[l].qty
      BY <3>4, LineFacts
    <3> QED BY <2>0, <3>5, <3>6 DEF LineOk
  <2>2. CASE l \notin Present(o)
    BY <1>2, <2>0, <2>2
  <2> QED BY <2>1, <2>2
<1>12. ASSUME NEW l \in LinesIn(o) PROVE L[l].shipped = L[l].qty
  <2>1. l \in Lines
    BY LinesOfOrder
  <2>2. line[l] \in LineType /\ line[l].qty \in Nat /\ line[l].shipped \in Nat /\ line[l].shipped <= line[l].qty
    BY <2>1, LineFacts
  <2>3. CASE l \in Present(o)
    BY <1>2, <2>1, <2>2, <2>3 DEF LineType
  <2>4. CASE l \notin Present(o)
    <3>1. ~(line[l].qty > 0) /\ L[l] = line[l]
      BY <1>2, <2>1, <2>4 DEF Present
    <3> QED BY <2>2, <3>1
  <2> QED BY <2>3, <2>4
<1>13. TxsOk(T) /\ (\A p \in OrderIds : p # o => SameTxs(txs, T, p)) /\ Paid(T, o) = Paid(txs, o)
  BY <1>3, CogsBooked
<1>14. OrderOk(r, o, L, events, T)
  <2>1. OrderOk(order[o], o, line, events, txs)
    BY OrderFacts
  <2>2. \A l \in LinesIn(o) : L[l].returned = line[l].returned
    BY <1>11, LinesOfOrder
  <2>3. NetRevenue(L, r, o) = NetRevenue(line, order[o], o)
    <3>1. [l \in LinesIn(o) |-> L[l].returned * Price[l]] = [l \in LinesIn(o) |-> line[l].returned * Price[l]]
      BY <2>2
    <3>2. r.total = order[o].total
      BY <1>10
    <3> QED BY <3>1, <3>2 DEF NetRevenue
  <2> QED BY <1>9, <1>10, <1>12, <1>13, <2>1, <2>3 DEF OrderOk, Undone
<1>15. L = [l \in Lines |-> L[l]] /\ \A l \in Lines : l \notin LinesIn(o) => L[l] = line[l]
  BY <1>2 DEF Present
<1>16. Changes(o, r, L, events, T)
  BY <1>11, <1>13, <1>14, <1>15, TableShape DEF Changes
<1>17. Tables([order EXCEPT ![o] = r], L, events, T)
  BY <1>16, TablesKept
<1> QED BY <1>5, <1>6, <1>8, <1>17 DEF IInv

-----------------------------------------------------------------------------
(***************************************************************************)
(* Returns.                                                                *)
(***************************************************************************)
LEMMA ReturnTxsFresh ==
  ASSUME NEW o \in OrderIds, NEW l \in Lines, NEW qty \in Nat, NEW refund \in Nat
  PROVE  Fresh(ReturnTxs(o, l, qty, refund), o)
<1>1. PICK u \in Nat : u = OrElse(UnitCost[l], 0)
  BY OrdersAssumption DEF OrElse
<1>2. qty * u \in Nat
  BY <1>1, Products
<1>3. PICK m \in Nat : m = Money(qty * u)
  BY <1>2, MoneyType
<1>4. -m \in Int /\ "COGS_REVERSAL" \in Kinds /\ "ORDER_REFUND" \in Kinds
  BY <1>3 DEF Kinds
<1>5. Fresh(<<>>, o)
  BY EmptySeq DEF Fresh
<1>6. PICK c : c = IF Manual(l) /\ m > 0 /\ Live(txs, o, "COGS") # {} THEN <<Tx(o, "COGS_REVERSAL", -m)>> ELSE <<>>
  OBVIOUS
<1>7. PICK d : d = IF refund > 0 THEN <<Tx(o, "ORDER_REFUND", refund)>> ELSE <<>>
  OBVIOUS
<1>8. Fresh(<<Tx(o, "COGS_REVERSAL", -m)>>, o) /\ Fresh(<<Tx(o, "ORDER_REFUND", refund)>>, o)
  BY <1>4, FreshOne
<1>9. Fresh(c, o) /\ Fresh(d, o)
  BY <1>5, <1>6, <1>7, <1>8
<1>10. ReturnTxs(o, l, qty, refund) = c \o d
  BY <1>1, <1>3, <1>6, <1>7 DEF ReturnTxs
<1>11. Fresh(c \o d, o)
  BY <1>9, FreshBoth
<1> QED BY <1>10, <1>11

\* The event of a return, with any change of the cost.
Returning(e, f, l, qty) ==
  /\ f \in EventType /\ f.qty = e.qty + qty
  /\ f.revenue = e.revenue + Money(qty * Price[l])

LEMMA EventAdds ==
  ASSUME NEW l \in Lines, NEW rec, NEW ev, LineOk(rec, ev, l), NEW qty \in Nat, NEW f, Returning(ev, f, l, qty),
         NEW q, q \in LineType, q.qty = rec.qty, q.shipped = rec.shipped, q.returned = rec.returned + qty,
         rec.returned + qty <= rec.shipped
  PROVE  LineOk(q, f, l)
<1>1. PICK a \in Nat, b \in Nat : a = rec.returned /\ b = Price[l]
  BY OrdersAssumption DEF LineOk, LineType
<1>2. f.qty = q.returned
  BY DEF LineOk, Returning
<1>3. MoneyUnit = 1 => f.revenue = q.returned * Price[l]
  <2> SUFFICES ASSUME MoneyUnit = 1 PROVE f.revenue = q.returned * Price[l]
    OBVIOUS
  <2>1. qty * b \in Nat
    BY <1>1, Products
  <2>2. Money(qty * b) = qty * b
    BY <2>1, MoneyType
  <2>3. f.revenue = a * b + qty * b
    BY <1>1, <2>2 DEF LineOk, Returning
  <2>4. (a + qty) * b = a * b + qty * b
    BY <1>1
  <2> QED BY <1>1, <2>3, <2>4
<1> QED BY <1>2, <1>3 DEF LineOk, Returning

LEMMA ReturnItemKeeps ==
  ASSUME IInv, NEW o \in OrderIds, NEW l \in Lines, NEW qty \in Nat, qty > 0, NEW refund \in Nat,
         ReturnItem(o, l, qty, refund)
  PROVE  IInv'
<1>1. Goods(stock', line')
  BY ReturnGoods
<1>2. Sound(stock')
  BY <1>1 DEF Goods
<1>3. PICK t : t = IF Manual(l) THEN stock ELSE GoBack(stock, l, qty)
  OBVIOUS
<1>4. stock' = t
  BY <1>3 DEF ReturnItem
<1>5. UnitCostAtSaleFor(t, l) \in Nat \cup {-1}
  BY <1>2, <1>4, SnapType
<1>6. /\ line[l] \in LineType /\ line[l].snap \in Nat \cup {-1} /\ line[l].qty \in Nat /\ line[l].returned \in Nat
      /\ line[l].shipped \in Nat /\ LineOk(line[l], events[l], l)
  BY LineFacts DEF LineType
<1>7. PICK c \in Nat \cup {-1} : c = IF Manual(l) THEN line[l].snap ELSE UnitCostAtSaleFor(t, l)
  BY <1>5, <1>6
<1>8. PICK unit \in Int : unit = OrElse(IF Manual(l) THEN OrElse(c, UnitCost[l]) ELSE c, 0)
  <2>1. PICK d \in Int : d = IF Manual(l) THEN OrElse(c, UnitCost[l]) ELSE c
    BY <1>7, OrdersAssumption DEF OrElse
  <2>2. OrElse(d, 0) \in Int
    BY DEF OrElse
  <2> QED BY <2>1, <2>2
<1>9. PICK before \in Int : before = UnitBefore(l)
  BY <1>6, OrdersAssumption DEF OrElse, UnitBefore
<1>10. PICK after \in Int : after = line[l].qty - line[l].returned - qty
  BY <1>6
<1>11. PICK L : L = [line EXCEPT ![l].returned = @ + qty, ![l].snap = c]
  OBVIOUS
<1>12. line' = L
  BY <1>3, <1>7, <1>11 DEF ReturnItem
<1>13. /\ Usable(o) /\ order[o].status = "DONE" /\ l \in LinesIn(o) /\ after >= 0
  BY <1>10 DEF ReturnItem, Present
<1>14. /\ L = [m \in Lines |-> L[m]] /\ \A m \in Lines : m # l => L[m] = line[m]
       /\ L[l] \in LineType /\ L[l].qty = line[l].qty /\ L[l].shipped = line[l].shipped
       /\ L[l].returned = line[l].returned + qty
  <2>1. PICK n \in Nat : n = line[l].returned + qty
    BY <1>6
  <2>2. PICK q : q = [line[l] EXCEPT !.returned = n, !.snap = c]
    OBVIOUS
  <2>3. q \in LineType /\ q.qty = line[l].qty /\ q.shipped = line[l].shipped /\ q.returned = n
    BY <1>6, <2>2 DEF LineType
  <2>4. L = [line EXCEPT ![l] = q]
    BY <1>11, <2>1, <2>2
  <2>5. L[l] = q /\ L = [m \in Lines |-> L[m]] /\ \A m \in Lines : m # l => L[m] = line[m]
    BY <2>4, TableShape
  <2> QED BY <2>1, <2>3, <2>5
<1>15. PICK dr \in Nat : dr = Money(qty * Price[l])
  <2>1. qty * Price[l] \in Nat
    BY Products, OrdersAssumption
  <2> QED BY <2>1, MoneyType
<1>16. PICK dc \in Int : dc = Money((after + qty) * before - after * unit)
  <2>1. (after + qty) * before \in Int /\ after * unit \in Int
    BY <1>8, <1>9, <1>10, IntProducts
  <2>2. (after + qty) * before - after * unit \in Int
    BY <2>1
  <2> QED BY <2>2, MoneyType
<1>17. PICK E : E = [events EXCEPT ![l].qty = @ + qty, ![l].revenue = @ + dr, ![l].cost = @ + dc]
  OBVIOUS
<1>18. events' = E
  BY <1>3, <1>7, <1>8, <1>9, <1>10, <1>15, <1>16, <1>17 DEF ReturnItem
<1>19. /\ E = [m \in Lines |-> E[m]] /\ (\A m \in Lines : m # l => E[m] = events[m])
       /\ E[l] \in EventType /\ E[l].qty = events[l].qty + qty /\ E[l].revenue = events[l].revenue + dr
  <2>0. events[l] \in EventType
    BY TableShape
  <2>a. events[l].qty \in Nat /\ events[l].revenue \in Nat /\ events[l].cost \in Int
    BY <2>0 DEF EventType
  <2>b. PICK nq \in Nat : nq = events[l].qty + qty
    BY <2>a
  <2>c. PICK nr \in Nat : nr = events[l].revenue + dr
    BY <2>a
  <2>d. PICK nc \in Int : nc = events[l].cost + dc
    BY <2>a
  <2>1. nq = events[l].qty + qty /\ nr = events[l].revenue + dr /\ nc = events[l].cost + dc
    BY <2>b, <2>c, <2>d
  <2>2. PICK f : f = [events[l] EXCEPT !.qty = nq, !.revenue = nr, !.cost = nc]
    OBVIOUS
  <2>3. f \in EventType /\ f.qty = nq /\ f.revenue = nr
    BY <2>0, <2>2 DEF EventType
  <2>4. E = [events EXCEPT ![l] = f]
    BY <1>17, <2>1, <2>2
  <2>5. E[l] = f /\ E = [m \in Lines |-> E[m]] /\ \A m \in Lines : m # l => E[m] = events[m]
    BY <2>4, TableShape
  <2> QED BY <2>1, <2>3, <2>5
<1>20. order[o].status = "DONE" => \A m \in LinesIn(o) : line[m].shipped = line[m].qty
  BY <1>13, OrderFacts DEF OrderOk, Usable
<1>21. LineOk(L[l], E[l], l)
  <2>1. Returning(events[l], E[l], l, qty)
    BY <1>15, <1>19 DEF Returning
  <2>2. line[l].returned + qty <= line[l].shipped
    BY <1>6, <1>10, <1>13, <1>20
  <2> QED BY <1>6, <1>14, <2>1, <2>2, EventAdds
<1>22. \A m \in Lines : LineOk(L[m], E[m], m)
  BY <1>14, <1>19, <1>21, LineFacts
<1>23. PICK S : S = ReturnTxs(o, l, qty, refund)
  OBVIOUS
<1>24. PICK T : T = txs \o S
  OBVIOUS
<1>25. txs' = T
  BY <1>23, <1>24 DEF ReturnItem
<1>26. Added(txs, T, S, o)
  BY <1>23, <1>24, ReturnTxsFresh, TableShape, TxsAdded
<1>27. PICK r : r = SyncPaymentState(order[o], o, L, T)
  OBVIOUS
<1>28. order' = [order EXCEPT ![o] = r]
  BY <1>12, <1>25, <1>27 DEF ReturnItem
<1>29. \A m \in LinesIn(o) : L[m].returned \in Nat
  <2>1. \A m \in Lines : L[m].returned \in Nat
    BY <1>22 DEF LineOk, LineType
  <2> QED BY <2>1, LinesOfOrder
<1>30. Synced(r, order[o], o, L, T)
  <2>1. T \in Seq(TxType)
    BY <1>26 DEF Added, TxsOk
  <2> QED BY <1>27, <1>29, <2>1, OrderFacts, SyncedIs
<1>31. OrderOk(r, o, L, E, T)
  <2>1. \A m \in LinesIn(o) : L[m].shipped = L[m].qty
    BY <1>13, <1>14, <1>20, LinesOfOrder
  <2>2. order[o].status # "none" /\ ~order[o].deleted /\ order[o].total = order[o].subtotal - order[o].discount
    BY <1>13, OrderFacts DEF Usable
  <2> QED BY <1>13, <1>30, <2>1, <2>2, SyncedOk
<1>32. Changes(o, r, L, E, T)
  BY <1>13, <1>14, <1>19, <1>22, <1>26, <1>31 DEF Changes, Added
<1>33. Tables([order EXCEPT ![o] = r], L, E, T)
  BY <1>32, TablesKept
<1> QED BY <1>1, <1>12, <1>18, <1>25, <1>28, <1>33 DEF IInv

-----------------------------------------------------------------------------
(***************************************************************************)
(* Undoing.                                                                *)
(***************************************************************************)
\* The lines of o after reverseFinalization, and their events.
ResetOk(L, E, o) ==
  /\ L = [l \in Lines |-> L[l]] /\ E = [l \in Lines |-> E[l]]
  /\ \A l \in Lines : l \in LinesIn(o) => /\ LineOk(L[l], E[l], l) /\ E[l] = NoEvents
                                          /\ L[l].shipped = 0 /\ L[l].returned = 0
  /\ \A l \in Lines : l \notin LinesIn(o) => L[l] = line[l] /\ E[l] = events[l]

LEMMA ResetIs ==
  ASSUME IInv, NEW o \in OrderIds, ReverseFinalization(o)
  PROVE  ResetOk(line', events', o)
<1>1. line' = [l \in Lines |-> IF l \in LinesIn(o) THEN FreshLine(line[l].qty) ELSE line[l]]
  BY DEF ReverseFinalization, ResetLines
<1>2. events' = [l \in Lines |-> IF l \in LinesIn(o) THEN NoEvents ELSE events[l]]
  BY DEF ReverseFinalization
<1>3. NoEvents \in EventType /\ NoEvents.qty = 0 /\ NoEvents.revenue = 0
  BY DEF NoEvents, EventType
<1>4. ASSUME NEW l \in Lines, l \in LinesIn(o)
      PROVE  LineOk(line'[l], events'[l], l) /\ events'[l] = NoEvents /\ line'[l].shipped = 0
             /\ line'[l].returned = 0
  <2>1. line[l].qty \in Nat
    BY LineFacts
  <2>2. PICK q \in Nat : q = line[l].qty
    BY <2>1
  <2>3. line'[l] = FreshLine(q) /\ events'[l] = NoEvents
    BY <1>1, <1>2, <1>4, <2>2
  <2>4. LineOk(FreshLine(q), NoEvents, l) /\ FreshLine(q).shipped = 0 /\ FreshLine(q).returned = 0
    BY <1>3, FreshLineOk
  <2> QED BY <2>3, <2>4
<1>5. \A l \in Lines : l \notin LinesIn(o) => line'[l] = line[l] /\ events'[l] = events[l]
  BY <1>1, <1>2
<1>6. line' = [l \in Lines |-> line'[l]] /\ events' = [l \in Lines |-> events'[l]]
  BY <1>1, <1>2
<1> QED BY <1>4, <1>5, <1>6 DEF ResetOk

\* Deleting the cost bookings of an order leaves its payments alone.
LEMMA CogsUnbooked ==
  ASSUME IInv, NEW o \in OrderIds, NEW T, T = WithoutCogs(o)
  PROVE  TxsOk(T) /\ (\A p \in OrderIds : p # o => SameTxs(txs, T, p)) /\ Paid(T, o) = Paid(txs, o)
         /\ Costs(T, o) = {}
<1>1. PICK ns : ns = Costs(txs, o)
  OBVIOUS
<1>2. T = DeleteTxs(txs, ns)
  BY <1>1 DEF WithoutCogs, Costs
<1>3. Deleted(txs, T, ns)
  BY <1>2, TableShape, TxsDeleted
<1>4. \A n \in ns : n \in DOMAIN txs /\ txs[n].order = o /\ txs[n].kind \in {"COGS", "COGS_REVERSAL"}
  BY <1>1 DEF Costs, Live
<1>5. ASSUME NEW kind \in {"ORDER_PAYMENT", "ORDER_REFUND"} PROVE SameLive(txs, T, o, kind)
  <2>1. Live(txs, o, kind) \cap ns = {}
    BY <1>4 DEF Live
  <2>2. Live(T, o, kind) = Live(txs, o, kind)
    BY <1>3, <2>1 DEF Deleted
  <2>3. \A n \in Live(txs, o, kind) : T[n].amount = txs[n].amount
    BY <1>3 DEF Deleted, Live
  <2> QED BY <2>2, <2>3 DEF SameLive
<1>6. Paid(T, o) = Paid(txs, o)
  BY <1>5, PaidSame
<1>7. Costs(T, o) = {}
  BY <1>1, <1>3 DEF Costs, Deleted
<1>8. TxsOk(T) /\ \A p \in OrderIds : p # o => SameTxs(txs, T, p)
  BY <1>3, <1>4 DEF Deleted
<1> QED BY <1>6, <1>7, <1>8

\* The order taken back, with its record r and the transactions T.
LEMMA TakenBack ==
  ASSUME IInv, NEW o \in OrderIds, NEW L, NEW E, ResetOk(L, E, o), NEW T, TxsOk(T),
         \A p \in OrderIds : p # o => SameTxs(txs, T, p), NEW r, OrderOk(r, o, L, E, T)
  PROVE  Tables([order EXCEPT ![o] = r], L, E, T)
<1>1. Changes(o, r, L, E, T)
  BY DEF Changes, ResetOk
<1> QED BY <1>1, TablesKept

LEMMA CancelKeeps ==
  ASSUME IInv, NEW o \in OrderIds, Cancel(o)
  PROVE  IInv'
<1>1. Usable(o) /\ ReverseFinalization(o)
  BY DEF Cancel
<1>2. Goods(stock', line')
  BY <1>1, UndoneGoods
<1>3. PICK L, E : L = line' /\ E = events'
  OBVIOUS
<1>4. ResetOk(L, E, o)
  BY <1>1, <1>3, ResetIs
<1>5. PICK T : T = WithoutCogs(o)
  OBVIOUS
<1>6. TxsOk(T) /\ (\A p \in OrderIds : p # o => SameTxs(txs, T, p)) /\ Paid(T, o) = Paid(txs, o)
      /\ Costs(T, o) = {}
  BY <1>5, CogsUnbooked
<1>7. PICK r : r = [order[o] EXCEPT !.status = "CANCELLED"]
  OBVIOUS
<1>8. order' = [order EXCEPT ![o] = r] /\ txs' = T
  BY <1>5, <1>7 DEF Cancel
<1>9. /\ r \in OrderType /\ r.status = "CANCELLED" /\ r.total = order[o].total /\ r.subtotal = order[o].subtotal
      /\ r.discount = order[o].discount /\ r.paid = order[o].paid
      /\ r.deleted <=> order[o].deleted
  <2>1. order[o] \in OrderType
    BY OrderFacts
  <2> QED BY <1>7, <2>1 DEF OrderType, Statuses
<1>10. OrderOk(r, o, L, E, T)
  <2>1. OrderOk(order[o], o, line, events, txs) /\ order[o].status # "none" /\ ~order[o].deleted
    BY <1>1, OrderFacts DEF Usable
  <2>2. \A l \in LinesIn(o) : L[l].shipped = 0 /\ E[l] = NoEvents
    BY <1>4, LinesOfOrder DEF ResetOk
  <2> QED BY <1>6, <1>9, <2>1, <2>2 DEF OrderOk, Undone
<1>11. Tables([order EXCEPT ![o] = r], L, E, T)
  BY <1>4, <1>6, <1>10, TakenBack
<1> QED BY <1>2, <1>3, <1>8, <1>11 DEF IInv

LEMMA ReopenKeeps ==
  ASSUME IInv, NEW o \in OrderIds, Reopen(o)
  PROVE  IInv'
<1>1. Usable(o) /\ ReverseFinalization(o)
  BY DEF Reopen
<1>2. Goods(stock', line')
  BY <1>1, UndoneGoods
<1>3. PICK L, E : L = line' /\ E = events'
  OBVIOUS
<1>4. ResetOk(L, E, o)
  BY <1>1, <1>3, ResetIs
<1>5. PICK T : T = WithoutCogs(o)
  OBVIOUS
<1>6. TxsOk(T) /\ (\A p \in OrderIds : p # o => SameTxs(txs, T, p)) /\ Paid(T, o) = Paid(txs, o)
      /\ Costs(T, o) = {}
  BY <1>5, CogsUnbooked
<1>7. PICK q : q = [order[o] EXCEPT !.status = "OPEN"]
  OBVIOUS
<1>8. PICK r : r = SyncPaymentState(q, o, L, T)
  OBVIOUS
<1>9. txs' = T
  BY <1>5 DEF Reopen
<1>10. order' = [order EXCEPT ![o] = r]
  BY <1>3, <1>7, <1>8, <1>9 DEF Reopen
<1>11. /\ q \in OrderType /\ q.status = "OPEN" /\ q.total = order[o].total /\ q.subtotal = order[o].subtotal
       /\ q.discount = order[o].discount
       /\ q.deleted <=> order[o].deleted
  <2>1. order[o] \in OrderType
    BY OrderFacts
  <2> QED BY <1>7, <2>1 DEF OrderType, Statuses
<1>12. ~order[o].deleted /\ order[o].total = order[o].subtotal - order[o].discount
  BY <1>1, OrderFacts DEF Usable
<1>13. \A l \in LinesIn(o) : L[l].returned \in Nat
  BY <1>4, LinesOfOrder DEF ResetOk
<1>14. Synced(r, q, o, L, T)
  BY <1>6, <1>8, <1>11, <1>13, SyncedIs DEF TxsOk
<1>15. OrderOk(r, o, L, E, T)
  BY <1>11, <1>12, <1>14, SyncedOk
<1>16. Tables([order EXCEPT ![o] = r], L, E, T)
  BY <1>4, <1>6, <1>15, TakenBack
<1> QED BY <1>2, <1>3, <1>9, <1>10, <1>16 DEF IInv

LEMMA RemoveOrderKeeps ==
  ASSUME IInv, NEW o \in OrderIds, RemoveOrder(o)
  PROVE  IInv'
<1>1. Usable(o) /\ ReverseFinalization(o)
  BY DEF RemoveOrder
<1>2. Goods(stock', line')
  BY <1>1, UndoneGoods
<1>3. PICK L, E : L = line' /\ E = events'
  OBVIOUS
<1>4. ResetOk(L, E, o)
  BY <1>1, <1>3, ResetIs
<1>5. PICK ns : ns = {n \in DOMAIN txs : txs[n].order = o}
  OBVIOUS
<1>6. PICK T : T = DeleteTxs(txs, ns)
  OBVIOUS
<1>7. Deleted(txs, T, ns)
  BY <1>6, TableShape, TxsDeleted
<1>8. TxsOk(T) /\ \A p \in OrderIds : p # o => SameTxs(txs, T, p)
  BY <1>5, <1>7 DEF Deleted
<1>9. Costs(T, o) = {} /\ \A n \in Mine(T, o) : T[n].deleted
  BY <1>5, <1>7 DEF Deleted, Costs, Live, Mine
<1>10. PICK r : r = [order[o] EXCEPT !.deleted = TRUE]
  OBVIOUS
<1>11. order' = [order EXCEPT ![o] = r] /\ txs' = T
  BY <1>5, <1>6, <1>10 DEF RemoveOrder
<1>12. /\ r \in OrderType /\ r.status = order[o].status /\ r.total = order[o].total
       /\ r.subtotal = order[o].subtotal
       /\ r.discount = order[o].discount
       /\ r.deleted
  <2>1. order[o] \in OrderType
    BY OrderFacts
  <2> QED BY <1>10, <2>1 DEF OrderType
<1>13. OrderOk(r, o, L, E, T)
  <2>1. order[o].total = order[o].subtotal - order[o].discount /\ order[o].status # "none"
    BY <1>1, OrderFacts DEF Usable
  <2>2. \A l \in LinesIn(o) : L[l].shipped = 0 /\ E[l] = NoEvents
    BY <1>4, LinesOfOrder DEF ResetOk
  <2> QED BY <1>9, <1>12, <2>1, <2>2 DEF OrderOk, Undone
<1>14. Tables([order EXCEPT ![o] = r], L, E, T)
  BY <1>4, <1>8, <1>13, TakenBack
<1> QED BY <1>2, <1>3, <1>11, <1>14 DEF IInv

-----------------------------------------------------------------------------
(***************************************************************************)
(* The invariant.                                                          *)
(***************************************************************************)
LEMMA ReceiveKeeps ==
  ASSUME IInv, NEW i \in Items, NEW qty \in Nat, qty # 0, NEW cost \in Nat, Receive(i, qty, cost)
  PROVE  IInv'
<1>1. Goods(stock', line')
  BY ReceiveGoods
<1>2. order' = order /\ line' = line /\ events' = events /\ txs' = txs
  BY DEF Receive
<1> QED BY <1>1, <1>2 DEF IInv

LEMMA RemoveItemKeeps ==
  ASSUME IInv, NEW i \in Items, RemoveItem(i)
  PROVE  IInv'
<1>1. Goods(stock', line')
  BY RemoveGoods
<1>2. order' = order /\ line' = line /\ events' = events /\ txs' = txs
  BY DEF RemoveItem
<1> QED BY <1>1, <1>2 DEF IInv

LEMMA StockEmpty ==
  ASSUME Init PROVE Sound(stock) /\ (\A i \in Items : stock.item[i].created) /\ stock.rows = {}
<1> DEFINE Made(t) == [qty |-> 0, avgCost |-> 0, moved |-> 0, qtyAfter |-> 0,
                        created |-> t, deleted |-> FALSE, archived |-> FALSE]
<1> DEFINE Unmade == Made(FALSE)
<1> DEFINE Blank == Made(TRUE)
<1>1. stock = [item |-> [i \in Items |-> Blank], lots |-> <<>>, rows |-> {}, batch |-> 0]
  <2>1. PICK e : e = EmptyStock
    OBVIOUS
  <2>2. PICK f : f = [i \in Items |-> [e.item[i] EXCEPT !.created = TRUE]]
    OBVIOUS
  <2>3. stock = [e EXCEPT !.item = f]
    BY <2>1, <2>2 DEF Init
  <2>4. e = [item |-> [i \in Items |-> Unmade], lots |-> <<>>, rows |-> {}, batch |-> 0]
    BY <2>1 DEF EmptyStock
  <2>5. [Unmade EXCEPT !.created = TRUE] = Blank
    <3>1. \A t, u : [Made(u) EXCEPT !.created = t] = Made(t)
      OBVIOUS
    <3> HIDE DEF Made
    <3> QED BY <3>1
  <2>6. \A i \in Items : e.item[i] = Unmade
    BY <2>4
  <2>7. f = [i \in Items |-> Blank]
    BY <2>2, <2>5, <2>6
  <2> HIDE DEF Blank, Unmade
  <2> QED BY <2>3, <2>4, <2>7
<1>2. /\ stock.lots = <<>> /\ stock.rows = {} /\ stock.batch = 0
      /\ \A i \in Items : /\ stock.item[i].qty = 0 /\ stock.item[i].avgCost = 0 /\ stock.item[i].moved = 0
                          /\ stock.item[i].qtyAfter = 0
                          /\ stock.item[i].created
  BY <1>1
<1>3. Typed(stock)
  <2>1. <<>> \in Seq(LotType) /\ IsFiniteSet({})
    BY EmptySeq, FS_EmptySet
  <2>2. Blank \in ItemType
    BY DEF ItemType
  <2> QED BY <1>1, <2>1, <2>2 DEF Typed, Ledger
<1>4. RowsOk(stock) /\ LotsOk(stock)
  BY <1>2 DEF RowsOk, LotsOk
<1>5. ASSUME NEW i \in Items PROVE Cached(stock, i) /\ Journalled(stock, i)
  <2>1. OpenLots(stock, i) = {}
    BY <1>2 DEF OpenLots
  <2>2. LotQty(stock, i) = Sum([k \in {} |-> stock.lots[k].left], {})
    BY <2>1 DEF LotQty, SumFunction, Sum
  <2>3. LotQty(stock, i) = 0
    BY <2>2, SumEmpty
  <2> QED BY <1>2, <2>3 DEF Cached, Journalled
<1> QED BY <1>2, <1>3, <1>4, <1>5 DEF Sound, BooksOk

LEMMA InitInv == Init => IInv
<1> SUFFICES ASSUME Init PROVE IInv
  OBVIOUS
<1>1. Sound(stock) /\ (\A i \in Items : stock.item[i].created) /\ stock.rows = {}
  BY StockEmpty
<1>2. \A l \in Lines : line[l] = FreshLine(0) /\ events[l] = NoEvents
  BY DEF Init
<1>3. NoEvents \in EventType /\ NoEvents.qty = 0 /\ NoEvents.revenue = 0
  BY DEF NoEvents, EventType
<1>4. \A l \in Lines : LineOk(line[l], events[l], l) /\ line[l].shipped = 0 /\ line[l].returned = 0
  <2>1. 0 \in Nat
    OBVIOUS
  <2>2. \A l \in Lines :
          LineOk(FreshLine(0), NoEvents, l) /\ FreshLine(0).shipped = 0 /\ FreshLine(0).returned = 0
    BY <1>3, <2>1, FreshLineOk
  <2> QED BY <1>2, <2>2
<1>5. Goods(stock, line)
  <2>1. ASSUME NEW l PROVE ReversibleQty(stock, l) = 0
    <3>1. Reversible(stock, l) = {}
      BY <1>1 DEF Reversible
    <3> QED BY <1>1, <3>1, ReversibleIs DEF Sound
  <2>2. \A o \in OrderIds : \A l \in LinesIn(o) : line[l].shipped = 0 /\ line[l].returned = 0
    BY <1>4, LinesOfOrder
  <2> QED BY <1>1, <2>1, <2>2 DEF Goods, Served
<1>6. TxsOk(txs) /\ DOMAIN txs = {}
  <2>1. txs = <<>>
    BY DEF Init
  <2>2. <<>> \in Seq(TxType)
    BY EmptySeq
  <2> QED BY <2>1, <2>2 DEF TxsOk
<1>7. ASSUME NEW o \in OrderIds PROVE OrderOk(order[o], o, line, events, txs) /\ order[o] \in OrderType
  <2>1. order[o] = NoOrder
    BY DEF Init
  <2>2. NoOrder \in OrderType /\ NoOrder.status = "none" /\ ~NoOrder.deleted
        /\ NoOrder.total = NoOrder.subtotal - NoOrder.discount
    BY DEF NoOrder, OrderType, Statuses, PaymentStates
  <2>3. Mine(txs, o) = {} /\ \A l \in LinesIn(o) : line[l].shipped = 0
    BY <1>4, <1>6, LinesOfOrder DEF Mine
  <2> QED BY <2>1, <2>2, <2>3 DEF OrderOk, Undone
<1>8. \A l \in Lines : line[l] \in LineType /\ events[l] \in EventType
  BY <1>4 DEF LineOk
<1>9. order \in [OrderIds -> OrderType] /\ line \in [Lines -> LineType] /\ events \in [Lines -> EventType]
  <2>1. order = [o \in OrderIds |-> order[o]] /\ line = [l \in Lines |-> line[l]]
        /\ events = [l \in Lines |-> events[l]]
    BY DEF Init
  <2> QED BY <1>7, <1>8, <2>1
<1> QED BY <1>4, <1>5, <1>6, <1>7, <1>9 DEF IInv, Tables

LEMMA StepKeeps ==
  ASSUME IInv, NEW o \in OrderIds, OrderStep(o)
  PROVE  IInv'
<1>0. \A n \in 1..MaxQty : n \in Nat /\ n > 0
  BY OrdersAssumption
<1>1. CASE \E qty \in Compositions(o), d \in Discounts : Create(o, qty, d)
  BY <1>1, CreateKeeps
<1>2. CASE \E qty \in Compositions(o), d \in Discounts : UpdateItems(o, qty, d)
  BY <1>2, UpdateItemsKeeps
<1>3. CASE \E d \in Discounts : UpdateDiscount(o, d)
  BY <1>3, UpdateDiscountKeeps
<1>4. CASE \E l \in Lines, qty \in 1..MaxQty : AddExternalItem(o, l, qty)
  BY <1>0, <1>4, AddExternalItemKeeps
<1>5. CASE \E l \in Lines : RemoveExternalItem(o, l)
  BY <1>5, RemoveExternalItemKeeps
<1>6. CASE \E a \in Amounts : AddPayment(o, a)
  BY <1>6, AddPaymentKeeps
<1>7. CASE \E a, f \in Amounts : AddInstallmentPayment(o, a, f)
  BY <1>7, AddInstallmentPaymentKeeps
<1>8. CASE \E n \in DOMAIN txs : DeletePayment(o, n)
  BY <1>8, DeletePaymentKeeps
<1>9. CASE \E l \in Lines, qty \in 1..MaxQty : Ship(o, l, qty)
  BY <1>0, <1>9, ShipKeeps
<1>10. CASE Finalize(o)
  BY <1>10, FinalizeKeeps
<1>11. CASE \E l \in Lines, qty \in 1..MaxQty, r \in Amounts \cup {0} : ReturnItem(o, l, qty, r)
  <2>1. PICK l \in Lines, qty \in 1..MaxQty, r \in Amounts \cup {0} : ReturnItem(o, l, qty, r)
    BY <1>11
  <2>2. qty \in Nat /\ qty > 0 /\ r \in Nat
    BY <1>0, OrdersAssumption
  <2> QED BY <2>1, <2>2, ReturnItemKeeps
<1>12. CASE Cancel(o)
  BY <1>12, CancelKeeps
<1>13. CASE Reopen(o)
  BY <1>13, ReopenKeeps
<1>14. CASE RemoveOrder(o)
  BY <1>14, RemoveOrderKeeps
<1> QED BY <1>1, <1>2, <1>3, <1>4, <1>5, <1>6, <1>7, <1>8, <1>9, <1>10, <1>11, <1>12, <1>13, <1>14 DEF OrderStep

LEMMA NextKeeps == ASSUME IInv, [Next]_vars PROVE IInv'
<1>1. CASE \E o \in OrderIds : OrderStep(o)
  BY <1>1, StepKeeps
<1>2. CASE \E h \in Handlers, n \in DOMAIN txs : FindTx(h, n)
  BY <1>2, FindTxKeeps
<1>2a. CASE \E h \in Handlers : LinkBankLine(h)
  BY <1>2a, LinkBankLineKeeps
<1>3. CASE \E i \in Items, qty \in 1..MaxQty, cost \in StockCosts : Receive(i, qty, cost)
  <2>1. PICK i \in Items, qty \in 1..MaxQty, cost \in StockCosts : Receive(i, qty, cost)
    BY <1>3
  <2>2. qty \in Nat /\ qty # 0 /\ cost \in Nat
    BY OrdersAssumption
  <2> QED BY <2>1, <2>2, ReceiveKeeps
<1>4. CASE \E i \in Items : RemoveItem(i)
  BY <1>4, RemoveItemKeeps
<1>5. CASE UNCHANGED vars
  <2>1. stock' = stock /\ order' = order /\ line' = line /\ events' = events /\ txs' = txs
    BY <1>5 DEF vars
  <2> QED BY <2>1 DEF IInv
<1> QED BY <1>1, <1>2, <1>2a, <1>3, <1>4, <1>5 DEF Next

\* The handlers of statement lines remember a transaction, or none.
FoundOk == found \in [Handlers -> Nat]

LEMMA NextKeepsFound == ASSUME IInv, FoundOk, [Next]_vars PROVE FoundOk'
<1>1. ASSUME NEW o \in OrderIds, OrderStep(o) PROVE found' = found
  <2>1. \A qty, d : Create(o, qty, d) => found' = found
    BY DEF Create
  <2>2. \A qty, d : UpdateItems(o, qty, d) => found' = found
    BY DEF UpdateItems
  <2>3. \A d : UpdateDiscount(o, d) => found' = found
    BY DEF UpdateDiscount
  <2>4. \A l, qty : AddExternalItem(o, l, qty) => found' = found
    BY DEF AddExternalItem
  <2>5. \A l : RemoveExternalItem(o, l) => found' = found
    BY DEF RemoveExternalItem
  <2>6. \A a : AddPayment(o, a) => found' = found
    BY DEF AddPayment
  <2>7. \A a, f : AddInstallmentPayment(o, a, f) => found' = found
    BY DEF AddInstallmentPayment
  <2>8. \A n : DeletePayment(o, n) => found' = found
    BY DEF DeletePayment
  <2>9. \A l, qty : Ship(o, l, qty) => found' = found
    BY DEF Ship
  <2>10. Finalize(o) => found' = found
    BY DEF Finalize
  <2>11. \A l, qty, r : ReturnItem(o, l, qty, r) => found' = found
    BY DEF ReturnItem
  <2>12. Cancel(o) => found' = found
    BY DEF Cancel
  <2>13. Reopen(o) => found' = found
    BY DEF Reopen
  <2>14. RemoveOrder(o) => found' = found
    BY DEF RemoveOrder
  <2> QED BY <1>1, <2>1, <2>2, <2>3, <2>4, <2>5, <2>6, <2>7, <2>8, <2>9, <2>10, <2>11, <2>12, <2>13, <2>14 DEF OrderStep
<1>2. ASSUME NEW h \in Handlers, NEW n \in DOMAIN txs, FindTx(h, n) PROVE FoundOk'
  <2>1. n \in Nat
    BY TableShape, TxFacts
  <2> QED BY <1>2, <2>1 DEF FindTx, FoundOk
<1>3. ASSUME NEW h \in Handlers, LinkBankLine(h) PROVE FoundOk'
  BY <1>3 DEF LinkBankLine, FoundOk
<1>4. ASSUME NEW i, NEW qty, NEW cost, Receive(i, qty, cost) PROVE found' = found
  BY <1>4 DEF Receive
<1>5. ASSUME NEW i, RemoveItem(i) PROVE found' = found
  BY <1>5 DEF RemoveItem
<1>6. UNCHANGED vars => found' = found
  BY DEF vars
<1> QED BY <1>1, <1>2, <1>3, <1>4, <1>5, <1>6 DEF Next, FoundOk

-----------------------------------------------------------------------------
(***************************************************************************)
(* IInv holds in every reachable state: every operation on an order, and   *)
(* every purchase or deletion of an item in between, leaves the tables in  *)
(* agreement and the ledger able to serve every line.                      *)
(***************************************************************************)
THEOREM Inductive == Spec => []IInv
<1>1. IInv /\ [Next]_vars => IInv'
  BY NextKeeps
<1> QED BY <1>1, InitInv, PTL DEF Spec

(***************************************************************************)
(* What an order counts as delivered and not returned, the consumption     *)
(* rows of its lines can give back to the lots: return, cancel, reopen and *)
(* remove never find too few rows in WarehouseService.reverse.             *)
(***************************************************************************)
THEOREM DeliveredCanComeBack == Spec => []DeliveredIsReversible
<1>1. IInv => DeliveredIsReversible
  BY DEF IInv, Goods, Served, DeliveredIsReversible
<1> QED BY <1>1, Inductive, PTL

(***************************************************************************)
(* After every sale and every return, unitCostAtSale of a line is the cost *)
(* per unit of the rows the line still holds.                              *)
(***************************************************************************)
THEOREM MarginFollowsFifo == Spec => []SnapshotIsFifoCost
<1>1. IInv => SnapshotIsFifoCost
  BY DEF IInv, Goods, Served, SnapshotIsFifoCost
<1> QED BY <1>1, Inductive, PTL

(***************************************************************************)
(* The paid sum and the payment state that OrderService caches in the      *)
(* order, and the return events of its lines, agree with the transactions  *)
(* and the lines they sum up, after every operation.                       *)
(***************************************************************************)
THEOREM OrdersAddUp == Spec => []OrderAddsUp
<1>1. ASSUME IInv, FoundOk PROVE OrderAddsUp
  <2>1. TypeOK
    <3>1. order \in [OrderIds -> OrderType] /\ line \in [Lines -> LineType] /\ events \in [Lines -> EventType]
          /\ txs \in Seq(TxType)
      BY <1>1 DEF IInv, Tables, TxsOk
    <3>2. \A l \in Lines : line[l].returned <= line[l].shipped /\ line[l].shipped <= line[l].qty
      BY <1>1, LineFacts
    <3> QED BY <1>1, <3>1, <3>2 DEF TypeOK, FoundOk, OrderType, LineType, EventType, TxType
  <2>2. \A o \in OrderIds : OrderOk(order[o], o, line, events, txs)
    BY <1>1, OrderFacts
  <2>3. PaidIsSum
    BY <2>2 DEF PaidIsSum, OrderOk, Usable
  <2>4. StatusFollowsRule
    BY <2>2 DEF StatusFollowsRule, OrderOk, Usable
  <2>5. EventsMatchReturns
    BY <1>1 DEF EventsMatchReturns, IInv, Tables, LineOk
  <2> QED BY <2>1, <2>3, <2>4, <2>5 DEF OrderAddsUp, PaymentStateIsCurrent
<1>2. Init => FoundOk
  BY DEF Init, FoundOk
<1>3. IInv /\ FoundOk /\ [Next]_vars => FoundOk'
  BY NextKeepsFound
<1> QED BY <1>1, <1>2, <1>3, Inductive, PTL DEF Spec

(***************************************************************************)
(* No operation that deletes a transaction of an order (deleting a         *)
(* payment, cancelling, reopening, removing) leaves it a bank statement    *)
(* line linked by then, late links to what was deleted before included:    *)
(* only a handler that found it alive and writes its link afterwards does. *)
(***************************************************************************)
THEOREM BankLinesAreFreed == Spec => []HeldOnlyByLateLink
<1>1. IInv => HeldOnlyByLateLink
  BY DEF IInv, Tables, TxsOk, HeldOnlyByLateLink
<1> QED BY <1>1, Inductive, PTL

(***************************************************************************)
(* An order that was cancelled or removed holds no goods, no return events *)
(* and no live transaction for the cost of goods; one that was removed     *)
(* holds no live transaction at all.                                       *)
(***************************************************************************)
THEOREM UndoIsComplete == Spec => []UndoneLeavesNothing
<1>1. ASSUME IInv PROVE UndoneLeavesNothing
  <2> SUFFICES ASSUME NEW o \in OrderIds, order[o].deleted \/ order[o].status = "CANCELLED"
               PROVE  /\ \A l \in LinesIn(o) : /\ events[l] = NoEvents
                                               /\ ~Manual(l) /\ InStock(stock, ItemOf[l]) =>
                                                    Reversible(stock, l) = {}
                      /\ Live(txs, o, "COGS") \cup Live(txs, o, "COGS_REVERSAL") = {}
                      /\ order[o].deleted => \A n \in DOMAIN txs : txs[n].order = o => txs[n].deleted
    BY DEF UndoneLeavesNothing
  <2>1. /\ Costs(txs, o) = {} /\ \A l \in LinesIn(o) : line[l].shipped = 0 /\ events[l] = NoEvents
        /\ order[o].deleted => \A n \in Mine(txs, o) : txs[n].deleted
    BY <1>1, OrderFacts DEF OrderOk, Undone
  <2>2. ASSUME NEW l \in LinesIn(o), ~Manual(l), InStock(stock, ItemOf[l]) PROVE Reversible(stock, l) = {}
    <3>1. l \in Lines /\ line[l].shipped = 0
      BY <2>1, LinesOfOrder
    <3>2. line[l].returned = 0
      BY <1>1, <3>1, LineFacts
    <3>3. Served(stock, line[l], l)
      BY <1>1 DEF IInv, Goods
    <3>4. ReversibleQty(stock, l) = 0
      BY <2>2, <3>1, <3>2, <3>3 DEF Served
    <3> QED BY <1>1, <3>4, NothingLeft DEF IInv, Goods
  <2> QED BY <2>1, <2>2 DEF Costs, Mine
<1> QED BY <1>1, Inductive, PTL
=============================================================================
