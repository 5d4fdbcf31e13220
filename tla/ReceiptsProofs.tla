--------------------------- MODULE ReceiptsProofs ---------------------------
(***************************************************************************)
(* Proofs about Receipts, for every number of documents, orders, items,    *)
(* lines and requests, and for every bound:                                *)
(*                                                                         *)
(*   NeverBlocked         the sorted locks cannot deadlock                 *)
(*   BookedOnceAndWhole   a document is booked, and taken back, as a whole *)
(*   TakenBackAlone       a revert takes nothing that is not its own       *)
(*                                                                         *)
(* All three follow from one inductive invariant, IInv: the types, what a  *)
(* request holds and wants (LocksInv), what the tables say of each other   *)
(* (Kept, LotsSold) and what a request still may rely on of all it read    *)
(* before it had its locks (Jobs).  A step keeps the job of another        *)
(* request because of what no step undoes (Drift).                         *)
(***************************************************************************)
EXTENDS Receipts, WellFoundedInduction, TLAPS

(***************************************************************************)
(* The locks of a request: well formed, at most one row of documents and   *)
(* of operations among them, and all that is wanted beyond what is held.   *)
(***************************************************************************)
Kinds == {"doc", "tx", "order", "item"}
Targets0 == Orders \cup Items \cup {Skipped}

Locks == {lock \in [kind : Kinds, id : Nat, mode : {"update", "share"}, turn : 1..5, at : Nat] :
  /\ lock.kind \in {"order", "item"} => lock.id \in Targets0
  /\ \/ lock.mode = "update" /\ lock.turn = Turn(lock.kind) /\ lock.at = lock.id
     \/ lock.mode = "share" /\ lock.kind = "item" /\ lock.turn = 4}

One(locks) == \A a, b \in locks : a.kind \in {"doc", "tx"} /\ a.kind = b.kind => a = b
Ordered(job) == \A held \in job.has, lock \in job.todo : held.mode = "update" => Before(held, lock)

LocksOf(q) == req[q].has \cup req[q].todo
LocksInv == \A q \in Requests : LocksOf(q) \subseteq Locks /\ One(LocksOf(q)) /\ Ordered(req[q])

-----------------------------------------------------------------------------
Less == {ss \in Nat \X Nat : ss[1] < ss[2]}
\* A set of numbers below a bound has a greatest one.
LEMMA LessIsWellFounded == IsWellFoundedOn(Less, Nat)
  BY NatLessThanWellFounded DEF OpToRel, Less
LEMMA Greatest ==
  ASSUME NEW N \in Nat, NEW S \in SUBSET (0..N), S # {}
  PROVE \E x \in S : \A y \in S : y <= x
<1> DEFINE T == {N - x : x \in S}
<1>1. T \subseteq Nat /\ T # {}
  OBVIOUS
<1>2. PICK t \in T : \A u \in T : ~ (<<u, t>> \in Less)
  <2> HIDE DEF T
  <2> QED BY <1>1, LessIsWellFounded, WFMin
<1>3. PICK x \in S : t = N - x
  OBVIOUS
<1>4. \A y \in S : y <= x
  <2> TAKE y \in S
  <2>1. N - y \in T
    OBVIOUS
  <2>2. ~ (<<N - y, t>> \in Less)
    BY <1>2, <2>1
  <2>3. ~ (N - y < t)
    <3>1. N - y \in Nat /\ t \in Nat
      BY <1>1, <2>1
    <3> QED BY <2>2, <3>1 DEF Less
  <2> QED BY <2>3, <1>3
<1> QED BY <1>4

\* What a request waits for lies beyond what others hold.
LEMMA Higher ==
  ASSUME LocksInv, NEW p \in Requests, NEW lock \in Locks, NEW held \in req[p].has, held.mode = "update",
         Conflict(lock, held), NEW want \in req[p].todo
  PROVE  /\ held.kind = "item" => want.kind = "item" /\ want.mode = "update" /\ want.id > held.id
         /\ held.kind = "order" => want.kind = "item" \/ (want.kind = "order" /\ want.id > held.id)
         /\ held.kind = "tx" => want.kind \in {"order", "item"}
         /\ held.kind = "doc" => want.kind \in {"tx", "order", "item"}
<1>1. held \in Locks /\ want \in Locks
  BY DEF LocksInv, LocksOf
<1>2. Before(held, want)
  BY DEF LocksInv, Ordered
<1>3. held.kind \in {"tx", "doc"} => want.kind # held.kind
  <2>1. held \in LocksOf(p) /\ want \in LocksOf(p) /\ One(LocksOf(p))
    BY DEF LocksInv, LocksOf
  <2>2. held # want
    BY <1>1, <1>2 DEF Before, Locks
  <2> QED BY <2>1, <2>2 DEF One
<1>4. held.turn = Turn(held.kind) /\ held.at = held.id
  BY <1>1 DEF Locks
<1>5. want.mode = "update" => want.turn = Turn(want.kind) /\ want.at = want.id
  BY <1>1 DEF Locks
<1>6. want.mode # "update" => want.turn = 4 /\ want.kind = "item"
  BY <1>1 DEF Locks
<1>7. held.kind \in Kinds /\ want.kind \in Kinds /\ held.id \in Nat /\ want.id \in Nat
  BY <1>1 DEF Locks
<1>8. /\ Turn("doc") = 1 /\ Turn("tx") = 2 /\ Turn("order") = 3 /\ Turn("item") = 5
  BY DEF Turn
<1> QED BY <1>2, <1>3, <1>4, <1>5, <1>6, <1>7, <1>8 DEF Before, Kinds

(***************************************************************************)
(* Of all that is waited for, the greatest item, then the greatest order,  *)
(* then the operations and documents would have to wait for something      *)
(* greater still: nothing is left to wait for.                             *)
(***************************************************************************)
LEMMA NoKnot ==
  ASSUME LocksInv, NEW N \in Nat, Targets0 \subseteq 0..N, NEW waiting \in SUBSET Requests, Knot(waiting, {"update"})
  PROVE  FALSE
<1> DEFINE Blocked(lock) == \E p \in waiting : \E held \in req[p].has : held.mode = "update" /\ Conflict(lock, held)
           Wanted == {lock \in Locks : Blocked(lock) /\ \E q \in waiting : lock \in req[q].todo}
           Of(kind) == {lock \in Wanted : lock.kind = kind}
<1>1. \A q \in waiting : \E lock \in Wanted : lock \in req[q].todo
  BY DEF Knot, WaitsFor, LocksInv, LocksOf
<1>2. \A lock \in Wanted : \E held \in Locks, want \in Wanted :
        /\ lock.kind = held.kind /\ lock.id = held.id
        /\ held.kind = "item" => want.kind = "item" /\ want.id > held.id
        /\ held.kind = "order" => want.kind = "item" \/ (want.kind = "order" /\ want.id > held.id)
        /\ held.kind = "tx" => want.kind \in {"order", "item"}
        /\ held.kind = "doc" => want.kind \in {"tx", "order", "item"}
  <2> TAKE lock \in Wanted
  <2>1. PICK p \in waiting : \E held \in req[p].has : held.mode = "update" /\ Conflict(lock, held)
    OBVIOUS
  <2>2. PICK held \in req[p].has : held.mode = "update" /\ Conflict(lock, held)
    BY <2>1
  <2>3. PICK want \in Wanted : want \in req[p].todo
    BY <1>1
  <2>4. held \in Locks
    BY DEF LocksInv, LocksOf
  <2> HIDE DEF Wanted
  <2>5. lock \in Locks
    BY DEF Wanted
  <2> QED BY <2>2, <2>3, <2>4, <2>5, Higher DEF Conflict
<1> HIDE DEF Wanted
<1>3. \A lock \in Wanted : lock.kind \in Kinds /\ lock.id \in Nat /\ (lock.kind \in {"order", "item"} => lock.id \in 0..N)
  BY DEF Wanted, Locks
<1>4. \A lock \in Wanted : lock.kind # "item"
  <2> SUFFICES ASSUME NEW some \in Wanted, some.kind = "item" PROVE FALSE
    OBVIOUS
  <2> DEFINE ids == {lock.id : lock \in Of("item")}
  <2>1. ids \in SUBSET (0..N) /\ ids # {}
    BY <1>3
  <2>2. PICK x \in ids : \A y \in ids : y <= x
    <3> HIDE DEF ids
    <3> QED BY <2>1, Greatest
  <2>3. PICK lock \in Of("item") : lock.id = x
    OBVIOUS
  <2>4. PICK want \in Wanted : want.kind = "item" /\ want.id > x
    BY <1>2, <2>3
  <2>5. want.id \in ids
    BY <2>4
  <2> QED BY <2>1, <2>2, <2>4, <2>5
<1>5. \A lock \in Wanted : lock.kind # "order"
  <2> SUFFICES ASSUME NEW some \in Wanted, some.kind = "order" PROVE FALSE
    OBVIOUS
  <2> DEFINE ids == {lock.id : lock \in Of("order")}
  <2>1. ids \in SUBSET (0..N) /\ ids # {}
    BY <1>3
  <2>2. PICK x \in ids : \A y \in ids : y <= x
    <3> HIDE DEF ids
    <3> QED BY <2>1, Greatest
  <2>3. PICK lock \in Of("order") : lock.id = x
    OBVIOUS
  <2>4. PICK want \in Wanted : want.kind = "order" /\ want.id > x
    BY <1>2, <1>4, <2>3
  <2>5. want.id \in ids
    BY <2>4
  <2> QED BY <2>1, <2>2, <2>4, <2>5
<1>6. \A lock \in Wanted : lock.kind # "tx"
  BY <1>2, <1>4, <1>5
<1>7. \A lock \in Wanted : lock.kind # "doc"
  BY <1>2, <1>4, <1>5, <1>6
<1>8. Wanted = {}
  BY <1>3, <1>4, <1>5, <1>6, <1>7 DEF Kinds
<1> QED BY <1>1, <1>8 DEF Knot

-----------------------------------------------------------------------------
\* The types of the tables and of the requests.
TxRow == [amount : Nat, live : BOOLEAN, by : {"receipt", "hand", "line"}]
PartRows == UNION {[DOMAIN content -> PartStates] : content \in Contents}
DocRow == [doc : Nat, content : Contents, live : BOOLEAN, created : BOOLEAN, tx : Nat, part : PartRows]
LineRow == [status : {"absent", "NEW", "RESOLVED"}, tx : Nat, adopted : BOOLEAN]
OrderRow == [closed : BOOLEAN, lots : SUBSET (Nat \X Nat)]

IdleRow == [op : {"idle"}, has : SUBSET Locks, todo : SUBSET Locks]
CommitRow == [op : {"commit"}, doc : Nat, content : Contents, money : Nat, has : SUBSET Locks, todo : SUBSET Locks]
RevertRow == [op : {"revert"}, receipt : Nat, rows : SUBSET Nat, tx : Nat, has : SUBSET Locks, todo : SUBSET Locks]
OrderOpRow == [op : {"close", "reopen", "replace", "send"}, order : Orders, has : SUBSET Locks, todo : SUBSET Locks]
ReqRow == IdleRow \cup CommitRow \cup RevertRow \cup OrderOpRow

DocsTyped(docs) ==
  /\ docs \in Seq(DocRow)
  /\ \A r \in DOMAIN docs : docs[r].part \in [DOMAIN docs[r].content -> PartStates]

LineTyped(lines, ops) ==
  /\ lines \in [Lines -> LineRow]
  /\ \A l \in Lines : lines[l].tx \in DOMAIN ops \cup {0} /\ (lines[l].status = "RESOLVED" => lines[l].tx # 0)

Typed ==
  /\ DocsTyped(receipts)
  /\ txs \in Seq(TxRow)
  /\ LineTyped(line, txs)
  /\ order \in [Orders -> OrderRow]
  /\ touched \subseteq DOMAIN txs
  /\ req \in [Requests -> ReqRow]

LEMMA ContentIs ==
  ASSUME NEW content \in Contents
  PROVE  /\ content \in Seq(Targets0)
         /\ Len(content) \in Nat /\ DOMAIN content = 1..Len(content)
         /\ \A k \in DOMAIN content : content[k] \in Targets0
  BY ReceiptsAssumption DEF Targets0

LEMMA Targets0Nat == Targets0 \subseteq Nat
  BY ReceiptsAssumption DEF Targets0, Skipped

\* The locks a request begins with are well formed.
LEMMA UpdateLocks ==
  ASSUME NEW kind \in Kinds, NEW ids \in SUBSET Nat, kind \in {"order", "item"} => ids \subseteq Targets0
  PROVE  /\ ForUpdate(kind, ids) \subseteq Locks
         /\ \A lock \in ForUpdate(kind, ids) : lock.kind = kind /\ lock.id \in ids /\ lock.mode = "update"
<1> SUFFICES ASSUME NEW id \in ids PROVE [kind |-> kind, id |-> id, mode |-> "update", turn |-> Turn(kind), at |-> id] \in Locks
  BY DEF ForUpdate
<1>1. Turn(kind) \in 1..5
  BY DEF Turn, Kinds
<1> QED BY <1>1 DEF Locks

LEMMA ShareLocks ==
  ASSUME NEW items \in Seq(Targets0)
  PROVE  /\ KeyShare(items) \subseteq Locks
         /\ \A lock \in KeyShare(items) : lock.kind = "item"
<1>1. \A k \in DOMAIN items : items[k] \in Targets0 /\ items[k] \in Nat /\ k \in Nat
  <2>1. Len(items) \in Nat /\ DOMAIN items = 1..Len(items) /\ \A k \in 1..Len(items) : items[k] \in Targets0
    OBVIOUS
  <2> TAKE k \in DOMAIN items
  <2>2. items[k] \in Targets0
    BY <2>1, Zenon
  <2>3. items[k] \in Nat
    BY <2>2, Targets0Nat, Zenon
  <2>4. k \in Nat
    BY <2>1
  <2> QED BY <2>2, <2>3, <2>4
<1> QED BY <1>1 DEF KeyShare, Locks, Kinds

LEMMA CommitLocksAre ==
  ASSUME NEW doc \in Docs \cup {NoDoc}, NEW content \in Contents, NEW money \in Nat
  PROVE  CommitLocks(doc, content, money) \subseteq Locks /\ One(CommitLocks(doc, content, money))
<1> DEFINE D == ForUpdate("doc", {doc} \ {NoDoc})
           T == ForUpdate("tx", {money} \ {0})
           O == ForUpdate("order", Targets(content, Orders))
           S == KeyShare(content)
           I == ForUpdate("item", Targets(content, Items))
<1>1. Targets(content, Orders) \subseteq Targets0 /\ Targets(content, Items) \subseteq Targets0
  BY DEF Targets, Targets0
<1>2. {doc} \ {NoDoc} \in SUBSET Nat /\ {money} \ {0} \in SUBSET Nat
  BY ReceiptsAssumption DEF NoDoc
<1>3. D \subseteq Locks /\ T \subseteq Locks /\ O \subseteq Locks /\ I \subseteq Locks
  BY <1>1, <1>2, Targets0Nat, UpdateLocks DEF Kinds
<1>4. S \subseteq Locks /\ \A lock \in S : lock.kind = "item"
  BY ContentIs, ShareLocks
<1>5. /\ \A lock \in O : lock.kind = "order"
      /\ \A lock \in I : lock.kind = "item"
      /\ \A lock \in T : lock = [kind |-> "tx", id |-> money, mode |-> "update", turn |-> Turn("tx"), at |-> money]
      /\ \A lock \in D : lock = [kind |-> "doc", id |-> doc, mode |-> "update", turn |-> Turn("doc"), at |-> doc]
  BY DEF ForUpdate
<1>6. CommitLocks(doc, content, money) = D \cup T \cup O \cup S \cup I
  BY DEF CommitLocks
<1> HIDE DEF D, T, O, S, I
<1> QED BY <1>3, <1>4, <1>5, <1>6 DEF One

-----------------------------------------------------------------------------
\* Types and locks: at first, and when a request begins.
LEMMA InitTyped == Init => Typed /\ LocksInv
<1> SUFFICES ASSUME Init PROVE Typed /\ LocksInv
  OBVIOUS
<1>1. DocsTyped(receipts) /\ txs \in Seq(TxRow)
  BY DEF Init, DocsTyped
<1>2. LineTyped(line, txs)
  BY DEF Init, LineTyped, LineRow, NoLine
<1>3. order \in [Orders -> OrderRow] /\ touched \subseteq DOMAIN txs
  BY DEF Init, OrderRow
<1>4. req \in [Requests -> ReqRow] /\ LocksInv
  BY DEF Init, Idle, ReqRow, IdleRow, LocksInv, LocksOf, One, Ordered
<1> QED BY <1>1, <1>2, <1>3, <1>4 DEF Typed

LEMMA BeginKeeps ==
  ASSUME Typed, LocksInv, NEW q \in Requests, NEW job \in ReqRow,
         job.has = {}, One(job.todo), Begin(q, job), UNCHANGED <<receipts, order, txs, line, touched>>
  PROVE  Typed' /\ LocksInv'
<1>1. job.todo \subseteq Locks
  BY DEF ReqRow, IdleRow, CommitRow, RevertRow, OrderOpRow
<1>2. req' \in [Requests -> ReqRow] /\ req'[q] = job /\ \A p \in Requests \ {q} : req'[p] = req[p]
  BY DEF Begin, Typed
<1>3. Typed'
  BY <1>2 DEF Typed
<1>4. \A p \in Requests : LocksOf(p)' \subseteq Locks /\ One(LocksOf(p)') /\ Ordered(req'[p])
  <2> TAKE p \in Requests
  <2>1. CASE p = q
    <3>1. LocksOf(p)' = job.todo
      BY <1>2, <2>1 DEF LocksOf
    <3>2. Ordered(req'[p])
      BY <1>2, <2>1 DEF Ordered
    <3> QED BY <1>1, <3>1, <3>2
  <2>2. CASE p # q
    BY <1>2, <2>2 DEF LocksInv, LocksOf
  <2> QED BY <2>1, <2>2
<1> QED BY <1>3, <1>4 DEF LocksInv

LEMMA IdleIs == Idle \in ReqRow /\ Idle.has = {} /\ Idle.todo = {} /\ One(Idle.todo)
  BY DEF Idle, ReqRow, IdleRow, One

LEMMA StartCommitTyped ==
  ASSUME Typed, LocksInv, NEW q \in Requests, NEW doc \in Docs \cup {NoDoc}, NEW content \in Contents,
         NEW money \in DOMAIN txs \cup {0}, StartCommit(q, doc, content, money)
  PROVE  Typed' /\ LocksInv'
<1>1. money \in Nat /\ doc \in Nat
  BY ReceiptsAssumption DEF Typed, NoDoc
<1> DEFINE job == [op |-> "commit", doc |-> doc, content |-> content, money |-> money,
                   has |-> {}, todo |-> CommitLocks(doc, content, money)]
<1>2. CommitLocks(doc, content, money) \subseteq Locks /\ One(CommitLocks(doc, content, money))
  BY <1>1, CommitLocksAre
<1>3. job \in ReqRow
  BY <1>1, <1>2 DEF ReqRow, CommitRow
<1>4. Begin(q, job) /\ UNCHANGED <<receipts, order, txs, line, touched>>
  BY DEF StartCommit, bank
<1> QED BY <1>2, <1>3, <1>4, BeginKeeps

LEMMA StartRevertTyped ==
  ASSUME Typed, LocksInv, NEW q \in Requests, NEW r \in DOMAIN receipts, StartRevert(q, r)
  PROVE  Typed' /\ LocksInv'
<1> DEFINE content == receipts[r].content
           rows == {k \in DOMAIN receipts[r].part : receipts[r].part[k] \in {"tied", "sent"}}
           lots == {k \in DOMAIN receipts[r].part : content[k] \in Items}
           todo == ForUpdate("order", {content[k] : k \in rows}) \cup ForUpdate("item", {content[k] : k \in lots})
           job == [op |-> "revert", receipt |-> r, rows |-> rows,
                   tx |-> IF receipts[r].created THEN receipts[r].tx ELSE 0, has |-> {}, todo |-> todo]
<1>1. receipts[r] \in DocRow /\ r \in Nat /\ DOMAIN receipts[r].part = DOMAIN content
  BY DEF Typed, DocsTyped
<1>2. content \in Contents /\ receipts[r].tx \in Nat
  BY <1>1 DEF DocRow
<1>3. DOMAIN content \subseteq Nat /\ \A k \in DOMAIN content : content[k] \in Targets0
  BY <1>2, ContentIs
<1>4. rows \subseteq DOMAIN content /\ lots \subseteq DOMAIN content
  BY <1>1
<1>5. todo \subseteq Locks /\ \A lock \in todo : lock.kind \in {"order", "item"}
  <2>1. {content[k] : k \in rows} \in SUBSET Targets0 /\ {content[k] : k \in lots} \in SUBSET Targets0
    BY <1>3, <1>4
  <2> HIDE DEF rows, lots, content
  <2> QED BY <2>1, Targets0Nat, UpdateLocks DEF Kinds
<1>6. job \in ReqRow /\ job.has = {} /\ One(job.todo)
  <2> HIDE DEF todo, content
  <2>1. rows \in SUBSET Nat
    BY <1>3, <1>4
  <2> HIDE DEF rows
  <2> QED BY <1>1, <1>2, <1>5, <2>1 DEF ReqRow, RevertRow, One
<1>7. Begin(q, job) /\ UNCHANGED <<receipts, order, txs, line, touched>>
  BY DEF StartRevert, bank
<1> HIDE DEF job
<1> QED BY <1>6, <1>7, BeginKeeps

LEMMA StartOrderTyped ==
  ASSUME Typed, LocksInv, NEW q \in Requests, NEW o \in Orders,
         NEW op \in {"close", "reopen", "replace", "send"}, NEW items \in SUBSET Locks,
         \A lock \in items : lock.kind = "item", StartOrder(q, op, o, items)
  PROVE  Typed' /\ LocksInv'
<1> DEFINE todo == ForUpdate("order", {o}) \cup items
           job == [op |-> op, order |-> o, has |-> {}, todo |-> todo]
<1>1. todo \subseteq Locks /\ \A lock \in todo : lock.kind \in {"order", "item"}
  <2>1. {o} \in SUBSET Targets0
    BY DEF Targets0
  <2> QED BY <2>1, Targets0Nat, UpdateLocks DEF Kinds
<1>2. job \in ReqRow /\ job.has = {} /\ One(job.todo)
  <2> HIDE DEF todo
  <2> QED BY <1>1 DEF ReqRow, OrderOpRow, One
<1>3. Begin(q, job) /\ UNCHANGED <<receipts, order, txs, line, touched>>
  BY DEF StartOrder
<1> HIDE DEF job
<1> QED BY <1>2, <1>3, BeginKeeps

LEMMA StartTyped ==
  ASSUME Typed, LocksInv, NEW q \in Requests, Start(q)
  PROVE  Typed' /\ LocksInv'
<1>1. CASE \E doc \in Docs \cup {NoDoc}, content \in Contents, money \in DOMAIN txs \cup {0} :
             StartCommit(q, doc, content, money)
  BY <1>1, StartCommitTyped
<1>2. CASE \E r \in DOMAIN receipts : StartRevert(q, r)
  BY <1>2, StartRevertTyped
<1>3. CASE \E o \in Orders : StartClose(q, o) \/ StartReopen(q, o) \/ StartReplace(q, o) \/ StartSend(q, o)
  <2>1. PICK o \in Orders : StartClose(q, o) \/ StartReopen(q, o) \/ StartReplace(q, o) \/ StartSend(q, o)
    BY <1>3
  <2>2. ItemsOf[o] \in Seq(Targets0) /\ OwnItems(o) \in SUBSET Targets0
    BY ReceiptsAssumption DEF OwnItems, Targets0
  <2>3. /\ ForUpdate("item", OwnItems(o)) \in SUBSET Locks
        /\ \A lock \in ForUpdate("item", OwnItems(o)) : lock.kind = "item"
    BY <2>2, Targets0Nat, UpdateLocks DEF Kinds
  <2>4. KeyShare(ItemsOf[o]) \in SUBSET Locks /\ \A lock \in KeyShare(ItemsOf[o]) : lock.kind = "item"
    BY <2>2, ShareLocks
  <2>5. CASE StartClose(q, o)
    BY <2>3, <2>5, StartOrderTyped DEF StartClose
  <2>6. CASE StartReopen(q, o)
    BY <2>3, <2>6, StartOrderTyped DEF StartReopen
  <2>7. CASE StartReplace(q, o)
    BY <2>4, <2>7, StartOrderTyped DEF StartReplace
  <2>8. CASE StartSend(q, o)
    BY <2>8, StartOrderTyped DEF StartSend
  <2> QED BY <2>1, <2>5, <2>6, <2>7, <2>8
<1> QED BY <1>1, <1>2, <1>3 DEF Start

-----------------------------------------------------------------------------
\* The next lock comes before all the others a request still wants.
LEMMA NextIsFirst ==
  ASSUME NEW lock \in Locks, NEW other \in Locks, lock.mode = "update", other # lock, ~Before(other, lock)
  PROVE  Before(lock, other)
<1>1. SUFFICES ASSUME ~Before(lock, other) PROVE FALSE
  OBVIOUS
<1>2. lock.turn = other.turn /\ lock.at = other.at
  BY <1>1 DEF Before, Locks
<1>3. /\ Turn("doc") = 1 /\ Turn("tx") = 2 /\ Turn("order") = 3 /\ Turn("item") = 5
      /\ lock.kind \in Kinds /\ other.kind \in Kinds
  BY DEF Turn, Locks
<1>4. lock.turn = Turn(lock.kind) /\ lock.at = lock.id
  BY DEF Locks
<1>5. lock.turn # 4
  BY <1>3, <1>4 DEF Kinds
<1>6. other.mode = "update" /\ other.turn = Turn(other.kind) /\ other.at = other.id
  BY <1>2, <1>5 DEF Locks
<1>7. lock.kind = other.kind
  <2>1. Turn(lock.kind) = Turn(other.kind)
    BY <1>2, <1>4, <1>6
  <2>2. CASE lock.kind = "doc"
    BY <1>3, <2>1, <2>2 DEF Kinds
  <2>3. CASE lock.kind = "tx"
    BY <1>3, <2>1, <2>3 DEF Kinds
  <2>4. CASE lock.kind = "order"
    BY <1>3, <2>1, <2>4 DEF Kinds
  <2>5. CASE lock.kind = "item"
    BY <1>3, <2>1, <2>5 DEF Kinds
  <2> QED BY <1>3, <2>2, <2>3, <2>4, <2>5 DEF Kinds
<1>8. lock.id = other.id /\ lock.mode = other.mode
  BY <1>2, <1>4, <1>6
<1>9. lock = other
  BY <1>2, <1>7, <1>8 DEF Locks
<1> QED BY <1>9

\* What is taken next is not beyond what is still wanted.
LEMMA AcquireTyped ==
  ASSUME Typed, LocksInv, NEW q \in Requests, Acquire(q)
  PROVE  Typed' /\ LocksInv'
<1>1. PICK lock \in req[q].todo :
        /\ IsNext(q, lock)
        /\ req' = [req EXCEPT ![q].has = @ \cup {lock}, ![q].todo = @ \ {lock}]
  BY DEF Acquire
<1>2. req[q] \in ReqRow /\ req[q].has \subseteq Locks /\ req[q].todo \subseteq Locks
  BY DEF Typed, LocksInv, LocksOf
<1> DEFINE job == [req[q] EXCEPT !.has = @ \cup {lock}, !.todo = @ \ {lock}]
<1>3. job \in ReqRow /\ job.has = req[q].has \cup {lock} /\ job.todo = req[q].todo \ {lock}
  <2>1. req[q].has \cup {lock} \in SUBSET Locks /\ req[q].todo \ {lock} \in SUBSET Locks
    BY <1>2
  <2>2. CASE req[q] \in IdleRow
    BY <2>1, <2>2 DEF ReqRow, IdleRow
  <2>3. CASE req[q] \in CommitRow
    BY <2>1, <2>3 DEF ReqRow, CommitRow
  <2>4. CASE req[q] \in RevertRow
    BY <2>1, <2>4 DEF ReqRow, RevertRow
  <2>5. CASE req[q] \in OrderOpRow
    BY <2>1, <2>5 DEF ReqRow, OrderOpRow
  <2> QED BY <1>2, <2>2, <2>3, <2>4, <2>5 DEF ReqRow
<1>4. req' = [req EXCEPT ![q] = job]
  BY <1>1 DEF Typed
<1> HIDE DEF job
<1>5. req' \in [Requests -> ReqRow] /\ req'[q] = job /\ \A p \in Requests \ {q} : req'[p] = req[p]
  BY <1>3, <1>4 DEF Typed
<1>6. Typed'
  BY <1>5 DEF Typed, Acquire, bank
<1>7. Ordered(job)
  <2> SUFFICES ASSUME NEW held \in job.has, NEW other \in job.todo, held.mode = "update" PROVE Before(held, other)
    BY DEF Ordered
  <2>1. CASE held \in req[q].has
    BY <1>3, <2>1 DEF LocksInv, Ordered
  <2>2. CASE held = lock
    BY <1>1, <1>2, <1>3, <2>2, NextIsFirst DEF IsNext
  <2> QED BY <1>3, <2>1, <2>2
<1>8. \A p \in Requests : LocksOf(p)' \subseteq Locks /\ One(LocksOf(p)') /\ Ordered(req'[p])
  <2> TAKE p \in Requests
  <2>1. CASE p = q
    <3>1. LocksOf(p)' = LocksOf(p)
      BY <1>1, <1>3, <1>5, <2>1 DEF LocksOf
    <3> QED BY <1>5, <1>7, <2>1, <3>1 DEF LocksInv
  <2>2. CASE p # q
    BY <1>5, <2>2 DEF LocksInv, LocksOf
  <2> QED BY <2>1, <2>2
<1> QED BY <1>6, <1>8 DEF LocksInv

\* A request that ends leaves its locks.
LEMMA EndKeeps ==
  ASSUME req \in [Requests -> ReqRow], LocksInv, NEW q \in Requests, End(q)
  PROVE  req' \in [Requests -> ReqRow] /\ LocksInv'
<1>1. req' \in [Requests -> ReqRow] /\ req'[q] = Idle /\ \A p \in Requests \ {q} : req'[p] = req[p]
  BY IdleIs DEF End
<1>2. \A p \in Requests : LocksOf(p)' \subseteq Locks /\ One(LocksOf(p)') /\ Ordered(req'[p])
  <2> TAKE p \in Requests
  <2>1. CASE p = q
    BY <1>1, <2>1 DEF Idle, LocksOf, One, Ordered
  <2>2. CASE p # q
    BY <1>1, <2>2 DEF LocksInv, LocksOf
  <2> QED BY <2>1, <2>2
<1> QED BY <1>1, <1>2 DEF LocksInv

-----------------------------------------------------------------------------
\* A step that turns lines of documents, and nothing else of them.
LEMMA PartsTurn ==
  ASSUME DocsTyped(receipts), NEW docs, docs = [r \in DOMAIN receipts |-> docs[r]],
         \A r \in DOMAIN receipts : \E part \in [DOMAIN receipts[r].content -> PartStates] :
            docs[r] = [receipts[r] EXCEPT !.part = part]
  PROVE  DocsTyped(docs) /\ DOMAIN docs = DOMAIN receipts
<1>1. /\ receipts \in Seq(DocRow)
      /\ \A r \in DOMAIN receipts : receipts[r].part \in [DOMAIN receipts[r].content -> PartStates]
  BY DEF DocsTyped
<1>2. ASSUME NEW r \in DOMAIN receipts
      PROVE  /\ docs[r] \in DocRow
             /\ docs[r].part \in [DOMAIN docs[r].content -> PartStates]
  <2>1. PICK part \in [DOMAIN receipts[r].content -> PartStates] : docs[r] = [receipts[r] EXCEPT !.part = part]
    BY <1>2
  <2>2. receipts[r] \in DocRow
    BY <1>1
  <2>3. receipts[r].content \in Contents
    BY <2>2 DEF DocRow
  <2>4. part \in PartRows
    BY <2>3 DEF PartRows
  <2> QED BY <2>1, <2>2, <2>4 DEF DocRow
<1>3. DOMAIN docs = 1..Len(receipts) /\ Len(receipts) \in Nat
  BY <1>1
<1>4. docs \in Seq(DocRow)
  <2>1. docs \in [1..Len(receipts) -> DocRow]
    BY <1>1, <1>2, <1>3
  <2> QED BY <1>3, <2>1
<1> QED BY <1>1, <1>2, <1>3, <1>4 DEF DocsTyped

LEMMA TurnedTyped ==
  ASSUME DocsTyped(receipts), NEW ps, NEW into \in PartStates
  PROVE  DocsTyped(Turned(ps, into)) /\ DOMAIN Turned(ps, into) = DOMAIN receipts
<1>1. \A r \in DOMAIN receipts : \E part \in [DOMAIN receipts[r].content -> PartStates] :
        Turned(ps, into)[r] = [receipts[r] EXCEPT !.part = part]
  <2> TAKE r \in DOMAIN receipts
  <2> DEFINE part == [k \in DOMAIN receipts[r].part |-> IF <<r, k>> \in ps THEN into ELSE receipts[r].part[k]]
  <2>1. receipts[r] \in DocRow /\ receipts[r].part \in [DOMAIN receipts[r].content -> PartStates]
    BY DEF DocsTyped
  <2>2. part \in [DOMAIN receipts[r].content -> PartStates]
    BY <2>1
  <2>3. Turned(ps, into)[r] = [receipts[r] EXCEPT !.part = part]
    BY <2>1 DEF Turned, DocRow
  <2> QED BY <2>2, <2>3
<1>2. Turned(ps, into) = [r \in DOMAIN receipts |-> Turned(ps, into)[r]]
  BY DEF Turned
<1> HIDE DEF Turned
<1> QED BY <1>1, <1>2, PartsTurn

\* Lines turned two ways at once, as an order does that is closed, reopened or rewritten.
TurnedBoth(ps, into, qs, other) ==
  [r \in DOMAIN receipts |-> [receipts[r] EXCEPT !.part =
     [k \in DOMAIN @ |-> IF <<r, k>> \in ps THEN into ELSE IF <<r, k>> \in qs THEN other ELSE @[k]]]]

LEMMA TwiceTurnedTyped ==
  ASSUME DocsTyped(receipts), NEW ps, NEW into \in PartStates, NEW qs, NEW other \in PartStates
  PROVE  DocsTyped(TurnedBoth(ps, into, qs, other))
<1> DEFINE docs == TurnedBoth(ps, into, qs, other)
<1>1. \A r \in DOMAIN receipts : \E part \in [DOMAIN receipts[r].content -> PartStates] :
        docs[r] = [receipts[r] EXCEPT !.part = part]
  <2> TAKE r \in DOMAIN receipts
  <2> DEFINE part == [k \in DOMAIN receipts[r].part |->
                        IF <<r, k>> \in ps THEN into ELSE IF <<r, k>> \in qs THEN other ELSE receipts[r].part[k]]
  <2>1. receipts[r] \in DocRow /\ receipts[r].part \in [DOMAIN receipts[r].content -> PartStates]
    BY DEF DocsTyped
  <2>2. part \in [DOMAIN receipts[r].content -> PartStates]
    BY <2>1
  <2>3. docs[r] = [receipts[r] EXCEPT !.part = part]
    BY <2>1 DEF TurnedBoth, DocRow
  <2> QED BY <2>2, <2>3
<1>2. docs = [r \in DOMAIN receipts |-> docs[r]]
  BY DEF TurnedBoth
<1> HIDE DEF docs
<1>3. DocsTyped(docs)
  BY <1>1, <1>2, PartsTurn
<1> QED BY <1>3 DEF docs

\* Writes that keep the types: a row appended, a document closed, an operation deleted.
LEMMA DocsAppend ==
  ASSUME NEW docs, DocsTyped(docs), NEW row \in DocRow, row.part \in [DOMAIN row.content -> PartStates]
  PROVE  DocsTyped(Append(docs, row))
<1>1. docs \in Seq(DocRow) /\ \A r \in DOMAIN docs : docs[r].part \in [DOMAIN docs[r].content -> PartStates]
  BY DEF DocsTyped
<1>2. Append(docs, row) \in Seq(DocRow)
  BY <1>1
<1>3. ASSUME NEW r \in DOMAIN Append(docs, row)
      PROVE  Append(docs, row)[r].part \in [DOMAIN Append(docs, row)[r].content -> PartStates]
  <2>1. CASE r \in DOMAIN docs
    BY <1>1, <2>1
  <2>2. CASE r = Len(docs) + 1
    BY <1>1, <2>2
  <2> QED BY <1>1, <1>3, <2>1, <2>2
<1> QED BY <1>2, <1>3 DEF DocsTyped

LEMMA DocsClosed ==
  ASSUME NEW docs, DocsTyped(docs), NEW r
  PROVE  DocsTyped([docs EXCEPT ![r].live = FALSE, ![r].tx = 0])
<1> DEFINE after == [docs EXCEPT ![r].live = FALSE, ![r].tx = 0]
<1>1. docs \in Seq(DocRow) /\ \A s \in DOMAIN docs : docs[s].part \in [DOMAIN docs[s].content -> PartStates]
  BY DEF DocsTyped
<1>2. DOMAIN after = DOMAIN docs /\ after = [s \in DOMAIN docs |-> after[s]]
  OBVIOUS
<1>3. ASSUME NEW s \in DOMAIN docs
      PROVE  after[s] \in DocRow /\ after[s].part \in [DOMAIN after[s].content -> PartStates]
  <2>1. docs[s] \in DocRow
    BY <1>1
  <2>2. CASE s = r
    <3>1. after[s] = [docs[s] EXCEPT !.live = FALSE, !.tx = 0]
      BY <2>2, <1>1
    <3> HIDE DEF after
    <3>2. after[s] \in DocRow
      <4>1. \A row \in DocRow : [row EXCEPT !.live = FALSE, !.tx = 0] \in DocRow
        BY DEF DocRow
      <4> QED BY <2>1, <3>1, <4>1
    <3>3. after[s].part = docs[s].part /\ after[s].content = docs[s].content
      BY <2>1, <3>1 DEF DocRow
    <3> QED BY <1>1, <3>2, <3>3
  <2>3. CASE s # r
    <3>1. after[s] = docs[s]
      BY <2>3, <1>1
    <3> HIDE DEF after
    <3> QED BY <1>1, <2>1, <3>1
  <2> QED BY <2>2, <2>3
<1> HIDE DEF after
<1>4. after \in Seq(DocRow)
  <2>1. DOMAIN docs = 1..Len(docs) /\ Len(docs) \in Nat
    BY <1>1
  <2>2. after \in [1..Len(docs) -> DocRow]
    BY <1>2, <1>3, <2>1
  <2> QED BY <2>1, <2>2
<1> QED BY <1>2, <1>3, <1>4 DEF DocsTyped, after

LEMMA OpsErased ==
  ASSUME NEW ops \in Seq(TxRow), NEW n
  PROVE  [ops EXCEPT ![n].live = FALSE] \in Seq(TxRow) /\ DOMAIN [ops EXCEPT ![n].live = FALSE] = DOMAIN ops
<1> DEFINE after == [ops EXCEPT ![n].live = FALSE]
<1>1. DOMAIN ops = 1..Len(ops) /\ Len(ops) \in Nat
  OBVIOUS
<1>2. ASSUME NEW m \in DOMAIN ops PROVE after[m] \in TxRow
  <2>1. ops[m] \in TxRow
    OBVIOUS
  <2> QED BY <2>1 DEF TxRow
<1>3. DOMAIN after = DOMAIN ops /\ after = [m \in DOMAIN ops |-> after[m]]
  OBVIOUS
<1> HIDE DEF after
<1>4. after \in Seq(TxRow)
  <2>1. after \in [1..Len(ops) -> TxRow]
    BY <1>1, <1>2, <1>3
  <2> QED BY <1>1, <2>1
<1> QED BY <1>3, <1>4 DEF after

LEMMA FreshIs == ASSUME NEW target \in Targets0 PROVE FreshPart(target) \in PartStates
  BY ReceiptsAssumption DEF FreshPart, PartStates, Targets0, Skipped

LEMMA LineKeeps ==
  ASSUME NEW lines, NEW ops, NEW more, LineTyped(lines, ops), DOMAIN ops \subseteq DOMAIN more
  PROVE  LineTyped(lines, more)
  BY DEF LineTyped

LEMMA OpsAppend ==
  ASSUME NEW ops \in Seq(TxRow), NEW row \in TxRow
  PROVE  Append(ops, row) \in Seq(TxRow) /\ DOMAIN Append(ops, row) = DOMAIN ops \cup {Len(ops) + 1}
  OBVIOUS

\* Types are kept by all that a request may end with.
LEMMA CommitTyped ==
  ASSUME Typed, NEW q \in Requests, req[q].op = "commit", Commit(q)
  PROVE  DocsTyped(receipts') /\ txs' \in Seq(TxRow) /\ DOMAIN txs \subseteq DOMAIN txs'
<1> DEFINE content == req[q].content
           created == req[q].money = 0
           part == [k \in DOMAIN content |-> FreshPart(content[k])]
           row == [doc |-> req[q].doc, content |-> content, live |-> TRUE, created |-> created,
                   tx |-> IF created THEN Len(txs) + 1 ELSE req[q].money, part |-> part]
           op == [amount |-> Len(content), live |-> TRUE, by |-> "receipt"]
<1>1. req[q] \in CommitRow
  BY DEF Typed, ReqRow, IdleRow, RevertRow, OrderOpRow
<1>2. content \in Contents /\ req[q].doc \in Nat /\ req[q].money \in Nat /\ txs \in Seq(TxRow) /\ Len(txs) \in Nat
  BY <1>1 DEF CommitRow, Typed
<1>3. part \in [DOMAIN content -> PartStates] /\ part \in PartRows
  <2>1. \A k \in DOMAIN content : FreshPart(content[k]) \in PartStates
    BY <1>2, ContentIs, FreshIs
  <2>2. part \in [DOMAIN content -> PartStates]
    BY <2>1
  <2> HIDE DEF part
  <2> QED BY <1>2, <2>2 DEF PartRows
<1>4. row \in DocRow /\ row.part = part /\ row.content = content
  <2>1. created \in BOOLEAN
    OBVIOUS
  <2>2. (IF created THEN Len(txs) + 1 ELSE req[q].money) \in Nat
    BY <1>2
  <2> HIDE DEF part, content, created
  <2> QED BY <1>2, <1>3, <2>1, <2>2 DEF DocRow
<1>5. receipts' = Append(receipts, row)
  BY DEF Commit
<1>6. DocsTyped(receipts')
  <2> HIDE DEF row, part, content
  <2> QED BY <1>3, <1>4, <1>5, DocsAppend DEF Typed
<1>7. op \in TxRow
  BY <1>2, ContentIs DEF TxRow
<1>8. txs' = Append(txs, op) \/ txs' = txs
  BY DEF Commit
<1> HIDE DEF op
<1> QED BY <1>2, <1>6, <1>7, <1>8, OpsAppend

LEMMA RevertTyped ==
  ASSUME Typed, NEW q \in Requests, Revert(q)
  PROVE  DocsTyped(receipts') /\ txs' \in Seq(TxRow) /\ DOMAIN txs \subseteq DOMAIN txs'
<1>1. PICK ps : receipts' = [Turned(ps, "void") EXCEPT ![req[q].receipt].live = FALSE, ![req[q].receipt].tx = 0]
  BY DEF Revert
<1>2. DocsTyped(Turned(ps, "void"))
  BY TurnedTyped DEF Typed, PartStates
<1>3. DocsTyped(receipts')
  BY <1>1, <1>2, DocsClosed
<1>4. txs' = txs \/ txs' = [txs EXCEPT ![req[q].tx].live = FALSE]
  BY DEF Revert
<1>5. txs \in Seq(TxRow)
  BY DEF Typed
<1> QED BY <1>3, <1>4, <1>5, OpsErased

\* The lines an order may be closed over.
LEMMA LotsTyped ==
  ASSUME Typed, NEW o \in Orders, NEW lots \in LotChoices(o)
  PROVE  lots \in SUBSET (Nat \X Nat)
<1>1. Parts \subseteq Nat \X Nat
  <2>1. \A r \in DOMAIN receipts : DOMAIN receipts[r].part \subseteq Nat /\ r \in Nat
    <3> TAKE r \in DOMAIN receipts
    <3>1. receipts[r] \in DocRow /\ DOMAIN receipts[r].part = DOMAIN receipts[r].content /\ r \in Nat
      BY DEF Typed, DocsTyped
    <3>2. receipts[r].content \in Contents
      BY <3>1 DEF DocRow
    <3> QED BY <3>1, <3>2, ContentIs
  <2> QED BY <2>1 DEF Parts
<1>2. \A i : PartsIn(i) \subseteq Parts
  BY DEF PartsIn
<1>3. lots \subseteq UNION {PartsIn(i) : i \in OwnItems(o)}
  BY DEF LotChoices
<1> QED BY <1>1, <1>2, <1>3

LEMMA FinishTyped ==
  ASSUME Typed, LocksInv, NEW q \in Requests, Finish(q)
  PROVE  Typed' /\ LocksInv'
<1>1. req' \in [Requests -> ReqRow] /\ LocksInv'
  BY EndKeeps DEF Finish, Typed
<1>2. line' = line /\ touched' = touched
  BY DEF Finish, Commit, Revert, SendLine, CloseOrder, ReopenOrder, ReplaceLines, bank
<1>3. SUFFICES DocsTyped(receipts') /\ txs' \in Seq(TxRow) /\ DOMAIN txs \subseteq DOMAIN txs' /\ order' \in [Orders -> OrderRow]
  BY <1>1, <1>2, <1>3, LineKeeps DEF Typed
<1>4. DocsTyped(receipts) /\ txs \in Seq(TxRow) /\ order \in [Orders -> OrderRow]
  BY DEF Typed
<1>5. CASE req[q].op = "commit" /\ Commit(q)
  BY <1>4, <1>5, CommitTyped DEF Commit
<1>6. CASE req[q].op = "revert" /\ Revert(q)
  BY <1>4, <1>6, RevertTyped DEF Revert
<1>7. CASE req[q].op = "send" /\ SendLine(q)
  <2>1. PICK p : receipts' = Turned({p}, "sent")
    BY <1>7 DEF SendLine
  <2>2. DocsTyped(receipts')
    BY <1>4, <2>1, TurnedTyped DEF PartStates
  <2> QED BY <1>4, <1>7, <2>2 DEF SendLine
<1>8. req[q].op \in {"close", "reopen", "replace"} => req[q].order \in Orders
  BY DEF Typed, ReqRow, IdleRow, CommitRow, RevertRow, OrderOpRow
<1>9. CASE req[q].op = "close" /\ CloseOrder(q)
  <2> DEFINE o == req[q].order
             rows == {p \in PartsIn(o) : State(p) = "tied"}
  <2>1. PICK lots \in LotChoices(o) :
          /\ receipts' = TurnedBoth(lots, "sold", rows, "sent")
          /\ order' = [order EXCEPT ![o] = [closed |-> TRUE, lots |-> lots]]
    BY <1>9 DEF CloseOrder, TurnedBoth
  <2> HIDE DEF rows
  <2>2. "sold" \in PartStates /\ "sent" \in PartStates
    BY DEF PartStates
  <2>3. DocsTyped(receipts')
    BY <1>4, <2>1, <2>2, TwiceTurnedTyped
  <2>4. [closed |-> TRUE, lots |-> lots] \in OrderRow
    BY <1>8, <1>9, LotsTyped DEF OrderRow
  <2>5. order' \in [Orders -> OrderRow]
    BY <1>4, <2>1, <2>4
  <2> QED BY <1>4, <1>9, <2>3, <2>5 DEF CloseOrder
<1>10. CASE req[q].op = "reopen" /\ ReopenOrder(q)
  <2> DEFINE o == req[q].order
             rows == {p \in PartsIn(o) : State(p) = "sent"}
             lots == order[o].lots
  <2>1. /\ receipts' = TurnedBoth(lots, "back", rows, "tied")
        /\ order' = [order EXCEPT ![o] = [closed |-> FALSE, lots |-> {}]]
    BY <1>10 DEF ReopenOrder, TurnedBoth
  <2> HIDE DEF rows, lots
  <2>2. "back" \in PartStates /\ "tied" \in PartStates
    BY DEF PartStates
  <2>3. DocsTyped(receipts')
    BY <1>4, <2>1, <2>2, TwiceTurnedTyped
  <2>4. [closed |-> FALSE, lots |-> {}] \in OrderRow
    BY DEF OrderRow
  <2>5. order' \in [Orders -> OrderRow]
    BY <1>4, <2>1, <2>4
  <2> QED BY <1>4, <1>10, <2>3, <2>5 DEF ReopenOrder
<1>11. CASE req[q].op = "replace" /\ ReplaceLines(q)
  <2> DEFINE rows == {p \in PartsIn(req[q].order) : State(p) = "tied"}
  <2>1. PICK kept \in SUBSET rows : receipts' = TurnedBoth(kept, "copied", rows, "gone")
    BY <1>11 DEF ReplaceLines, TurnedBoth
  <2> HIDE DEF rows
  <2>2. "copied" \in PartStates /\ "gone" \in PartStates
    BY DEF PartStates
  <2>3. DocsTyped(receipts')
    BY <1>4, <2>1, <2>2, TwiceTurnedTyped
  <2> QED BY <1>4, <1>11, <2>3 DEF ReplaceLines
<1> QED BY <1>5, <1>6, <1>7, <1>9, <1>10, <1>11 DEF Finish

-----------------------------------------------------------------------------
\* A step outside the documents leaves the requests and their locks alone.
LEMMA Aside ==
  ASSUME LocksInv, Typed, UNCHANGED <<receipts, order, req>>, txs' \in Seq(TxRow),
         LineTyped(line', txs'), touched' \subseteq DOMAIN txs'
  PROVE  Typed' /\ LocksInv'
<1>1. Typed'
  BY DEF Typed
<1>2. LocksInv'
  BY DEF LocksInv, LocksOf
<1> QED BY <1>1, <1>2

LEMMA OpsChanged ==
  ASSUME NEW ops \in Seq(TxRow), NEW n, NEW amount \in Nat
  PROVE  [ops EXCEPT ![n].amount = amount] \in Seq(TxRow) /\ DOMAIN [ops EXCEPT ![n].amount = amount] = DOMAIN ops
<1> DEFINE after == [ops EXCEPT ![n].amount = amount]
<1>1. DOMAIN ops = 1..Len(ops) /\ Len(ops) \in Nat
  OBVIOUS
<1>2. ASSUME NEW m \in DOMAIN ops PROVE after[m] \in TxRow
  <2>1. ops[m] \in TxRow
    OBVIOUS
  <2> QED BY <2>1 DEF TxRow
<1>3. DOMAIN after = DOMAIN ops /\ after = [m \in DOMAIN ops |-> after[m]]
  OBVIOUS
<1> HIDE DEF after
<1>4. after \in Seq(TxRow)
  <2>1. after \in [1..Len(ops) -> TxRow]
    BY <1>1, <1>2, <1>3
  <2> QED BY <1>1, <2>1
<1> QED BY <1>3, <1>4 DEF after

\* A line of the statement turned to an operation there is.
LEMMA LineSet ==
  ASSUME NEW lines, NEW ops, LineTyped(lines, ops), NEW l \in Lines, NEW row \in LineRow, NEW more,
         DOMAIN ops \subseteq DOMAIN more, row.tx \in DOMAIN more \cup {0}, row.status = "RESOLVED" => row.tx # 0
  PROVE  LineTyped([lines EXCEPT ![l] = row], more)
  BY DEF LineTyped

LEMMA TotalsNat == Totals \subseteq Nat
  BY ContentIs DEF Totals

LEMMA EnterTyped ==
  ASSUME Typed, LocksInv, NEW amount \in Totals, Enter(amount)
  PROVE  Typed' /\ LocksInv'
<1>1. [amount |-> amount, live |-> TRUE, by |-> "hand"] \in TxRow
  BY TotalsNat DEF TxRow
<1>2. txs' \in Seq(TxRow) /\ DOMAIN txs \subseteq DOMAIN txs'
  BY <1>1, OpsAppend DEF Typed, Enter, Entry
<1> QED BY <1>2, Aside, LineKeeps DEF Typed, Enter

LEMMA EraseTyped ==
  ASSUME Typed, LocksInv, NEW n \in DOMAIN txs, Erase(n)
  PROVE  Typed' /\ LocksInv'
<1>1. txs' \in Seq(TxRow) /\ DOMAIN txs' = DOMAIN txs
  BY OpsErased DEF Typed, Erase
<1> QED BY <1>1, Aside, LineKeeps DEF Typed, Erase

LEMMA ChangeTyped ==
  ASSUME Typed, LocksInv, NEW n \in DOMAIN txs, NEW amount \in Totals, Change(n, amount)
  PROVE  Typed' /\ LocksInv'
<1>1. txs' \in Seq(TxRow) /\ DOMAIN txs' = DOMAIN txs
  BY TotalsNat, OpsChanged DEF Typed, Change
<1> QED BY <1>1, Aside, LineKeeps DEF Typed, Change

LEMMA ArriveTyped ==
  ASSUME Typed, LocksInv, NEW l \in Lines, Arrive(l)
  PROVE  Typed' /\ LocksInv'
<1>1. UNCHANGED <<receipts, order, txs, touched, req>> /\ line[l].status = "absent"
  BY DEF Arrive
<1>2. txs \in Seq(TxRow) /\ LineTyped(line, txs) /\ line[l] \in LineRow
  BY DEF Typed, LineTyped
<1>3. LineTyped(line', txs)
  <2>1. CASE \E n \in DOMAIN txs : line' = [line EXCEPT ![l] = [status |-> "RESOLVED", tx |-> n, adopted |-> TRUE]]
    <3>1. PICK n \in DOMAIN txs : line' = [line EXCEPT ![l] = [status |-> "RESOLVED", tx |-> n, adopted |-> TRUE]]
      BY <2>1
    <3>2. n \in Nat /\ n # 0
      BY <1>2
    <3>3. [status |-> "RESOLVED", tx |-> n, adopted |-> TRUE] \in LineRow
      BY <3>2 DEF LineRow
    <3> QED BY <1>2, <3>1, <3>2, <3>3, LineSet
  <2>2. CASE line' = [line EXCEPT ![l].status = "NEW"]
    <3> DEFINE row == [line[l] EXCEPT !.status = "NEW"]
    <3>1. row \in LineRow /\ row.tx = line[l].tx /\ row.status = "NEW"
      BY <1>2 DEF LineRow
    <3>2. line' = [line EXCEPT ![l] = row]
      BY <1>2, <2>2 DEF LineTyped
    <3>3. line[l].tx \in DOMAIN txs \cup {0}
      BY <1>2 DEF LineTyped
    <3> HIDE DEF row
    <3> QED BY <1>2, <3>1, <3>2, <3>3, LineSet
  <2> QED BY <2>1, <2>2 DEF Arrive
<1> QED BY <1>1, <1>2, <1>3, Aside DEF Typed

LEMMA BookTyped ==
  ASSUME Typed, LocksInv, NEW l \in Lines, Book(l)
  PROVE  Typed' /\ LocksInv'
<1> DEFINE n == Len(txs) + 1
           row == [status |-> "RESOLVED", tx |-> n, adopted |-> FALSE]
<1>1. txs \in Seq(TxRow) /\ LineTyped(line, txs) /\ n \in Nat /\ n # 0 /\ touched \subseteq DOMAIN txs
  BY DEF Typed
<1>2. [amount |-> LineAmount[l], live |-> TRUE, by |-> "line"] \in TxRow
  BY ReceiptsAssumption DEF TxRow
<1>3. txs' \in Seq(TxRow) /\ DOMAIN txs' = DOMAIN txs \cup {n}
  BY <1>1, <1>2, OpsAppend DEF Book, Entry
<1>4. row \in LineRow /\ row.tx = n /\ line' = [line EXCEPT ![l] = row]
  BY <1>1 DEF LineRow, Book
<1>5. LineTyped(line', txs')
  <2> HIDE DEF row
  <2> QED BY <1>1, <1>3, <1>4, LineSet
<1> QED BY <1>1, <1>3, <1>5, Aside DEF Book

LEMMA UndoTyped ==
  ASSUME Typed, LocksInv, NEW l \in Lines, Undo(l)
  PROVE  Typed' /\ LocksInv'
<1> DEFINE row == [NoLine EXCEPT !.status = "NEW"]
<1>1. txs \in Seq(TxRow) /\ LineTyped(line, txs) /\ touched \subseteq DOMAIN txs
  BY DEF Typed
<1>2. txs' = txs \/ txs' = [txs EXCEPT ![line[l].tx].live = FALSE]
  BY DEF Undo
<1>3. txs' \in Seq(TxRow) /\ DOMAIN txs' = DOMAIN txs
  BY <1>1, <1>2, OpsErased
<1>4. row \in LineRow /\ row.tx = 0 /\ row.status = "NEW" /\ line' = [line EXCEPT ![l] = row]
  BY DEF LineRow, NoLine, Undo
<1>5. LineTyped(line', txs')
  <2> HIDE DEF row
  <2> QED BY <1>1, <1>3, <1>4, LineSet
<1>6. line[l].status = "RESOLVED" /\ line[l].tx \in DOMAIN txs
  BY <1>1 DEF Undo, LineTyped
<1>7. touched' \subseteq DOMAIN txs'
  BY <1>1, <1>3, <1>6 DEF Undo
<1>8. UNCHANGED <<receipts, order, req>>
  BY DEF Undo
<1> QED BY <1>3, <1>5, <1>7, <1>8, Aside

\* Every step keeps types and locks.
LEMMA StepTyped ==
  ASSUME Typed, LocksInv, [Next]_vars
  PROVE  Typed' /\ LocksInv'
<1>1. ASSUME NEW q \in Requests, Start(q) \/ Acquire(q) \/ Finish(q) \/ Rollback(q)
      PROVE  Typed' /\ LocksInv'
  <2>1. CASE Rollback(q)
    <3>1. req' \in [Requests -> ReqRow] /\ LocksInv'
      BY <2>1, EndKeeps DEF Rollback, Typed
    <3> QED BY <2>1, <3>1 DEF Rollback, Typed, bank
  <2> QED BY <1>1, <2>1, StartTyped, AcquireTyped, FinishTyped
<1>2. CASE People
  BY <1>2, EnterTyped, EraseTyped, ChangeTyped, ArriveTyped, BookTyped, UndoTyped DEF People
<1>3. CASE UNCHANGED vars
  BY <1>3, Aside DEF vars, bank, Typed
<1> QED BY <1>1, <1>2, <1>3 DEF Next

LEMMA TypedAlways == Spec => [](Typed /\ LocksInv)
<1>1. Init => Typed /\ LocksInv
  BY InitTyped
<1>2. Typed /\ LocksInv /\ [Next]_vars => (Typed /\ LocksInv)'
  BY StepTyped
<1> QED BY <1>1, <1>2, PTL DEF Spec

(***************************************************************************)
(* SortedLocksNeverBlock holds for any number of requests: commit, revert, *)
(* finalize, reopen and update lock documents, operations, orders and      *)
(* items in that order and each by id, so that nobody waits in a circle    *)
(* over rows locked for update.  Ids have a greatest one (a table is       *)
(* finite).                                                                *)
(***************************************************************************)
THEOREM NeverBlocked ==
  ASSUME NEW N \in Nat, Orders \cup Items \subseteq 0..N
  PROVE  Spec => []SortedLocksNeverBlock
<1>1. Targets0 \subseteq 0..N
  BY DEF Targets0, Skipped
<1>2. LocksInv => SortedLocksNeverBlock
  BY <1>1, NoKnot DEF SortedLocksNeverBlock
<1> QED BY <1>2, TypedAlways, PTL

-----------------------------------------------------------------------------
(***************************************************************************)
(* What is true between the steps of a document: what its lines may be,    *)
(* what orders took of it, and what a request may rely on of all it read   *)
(* before it had its locks.                                                *)
(***************************************************************************)
Final == {"copied", "gone", "void"}

Fits(target, state) ==
  \/ target = Skipped /\ state = "skipped"
  \/ target \in Items /\ state \in {"whole", "sold", "back", "void"}
  \/ target \in Orders /\ state \in {"tied", "sent"} \cup Final

DocsAre ==
  \A r \in DOMAIN receipts :
    /\ receipts[r].tx \in DOMAIN txs \cup {0}
    /\ Live(r) <=> receipts[r].tx # 0
    /\ \A k \in DOMAIN receipts[r].content : Fits(receipts[r].content[k], receipts[r].part[k])

\* The lots an order took are sold, and to this order alone.
LotsSold ==
  \A o \in Orders : \A p \in order[o].lots :
    /\ p[1] \in DOMAIN receipts /\ p[2] \in DOMAIN receipts[p[1]].content /\ State(p) = "sold"
    /\ \A other \in Orders \ {o} : p \notin order[other].lots

Marked(q, kind, id) == ForUpdate(kind, {id}) \subseteq LocksOf(q)

\* An operation to link was not made by a document; it has the sum unless people touch it.
CommitJob(q) ==
  LET money == req[q].money
  IN /\ money \in DOMAIN txs \cup {0}
     /\ req[q].doc # NoDoc => Marked(q, "doc", req[q].doc)
     /\ money # 0 =>
          /\ Marked(q, "tx", money) /\ txs[money].by # "receipt"
          /\ money \notin touched => txs[money].live /\ txs[money].amount = Len(req[q].content)

\* A line of an order that is not taken back is lost to the document; its expense is its own.
RevertJob(q) ==
  LET r == req[q].receipt
      content == receipts[r].content
      money == req[q].tx
  IN /\ r \in DOMAIN receipts
     /\ req[q].rows \subseteq DOMAIN content
     /\ \A k \in DOMAIN content : content[k] \in Orders => k \in req[q].rows \/ receipts[r].part[k] \in Final
     /\ \A k \in req[q].rows : content[k] \in Orders /\ Marked(q, "order", content[k])
     /\ money = 0 => ~receipts[r].created
     /\ money # 0 => /\ money \in DOMAIN txs /\ txs[money].by = "receipt"
                     /\ receipts[r].tx \in {money, 0}
                     /\ \A s \in DOMAIN receipts \ {r} : receipts[s].tx # money

Job(q) == (req[q].op = "commit" => CommitJob(q)) /\ (req[q].op = "revert" => RevertJob(q))
Jobs == \A q \in Requests : Job(q)

\* A document says itself whether it made its expense.
MadeBySelf ==
  \A r \in DOMAIN receipts : Live(r) => (receipts[r].created <=> txs[receipts[r].tx].by = "receipt")

\* The parts of BookedWholeAndOnce beside StandApart.
Whole ==
  \A r \in DOMAIN receipts :
    /\ Live(r) => /\ \A k \in DOMAIN receipts[r].content : receipts[r].part[k] # "void"
                  /\ receipts[r].tx \notin touched =>
                       txs[receipts[r].tx].live /\ txs[receipts[r].tx].amount = Len(receipts[r].content)
    /\ ~Live(r) => \A k \in DOMAIN receipts[r].content : receipts[r].part[k] \in {"skipped"} \cup Final

MadeTied == \A n \in DOMAIN txs : txs[n].by = "receipt" /\ txs[n].live => Tied(n)

Kept == DocsAre /\ MadeBySelf /\ StandApart /\ Whole /\ MadeTied

LEMMA KeptIsBooked == ASSUME Typed, Kept PROVE BookedWholeAndOnce
<1>1. ASSUME NEW r \in DOMAIN receipts PROVE DOMAIN receipts[r].part = DOMAIN receipts[r].content
  BY DEF Typed, DocsTyped
<1>2. \A r \in DOMAIN receipts :
       LET doc == receipts[r]
       IN IF doc.live
          THEN /\ "void" \notin Range(doc.part)
               /\ doc.tx \notin touched => txs[doc.tx].live /\ txs[doc.tx].amount = Len(doc.content)
          ELSE \A k \in DOMAIN doc.part : doc.part[k] \in {"skipped", "void", "copied", "gone"}
  <2> TAKE r \in DOMAIN receipts
  <2>1. CASE Live(r)
    BY <1>1, <2>1 DEF Kept, Whole, Live, Range
  <2>2. CASE ~Live(r)
    BY <1>1, <2>2 DEF Kept, Whole, Live, Final
  <2> QED BY <2>1, <2>2 DEF Live
<1> QED BY <1>2 DEF BookedWholeAndOnce, Kept, MadeTied

LEMMA InitKept == ASSUME Init PROVE Kept /\ LotsSold /\ Jobs
<1>1. receipts = <<>> /\ txs = <<>> /\ \A o \in Orders : order[o].lots = {}
  BY DEF Init
<1>2. \A q \in Requests : req[q].op = "idle"
  BY DEF Init, Idle
<1> QED BY <1>1, <1>2 DEF Kept, DocsAre, MadeBySelf, StandApart, Whole, MadeTied, LotsSold, Jobs, Job

(***************************************************************************)
(* What no step undoes, and so keeps what another request read true.       *)
(***************************************************************************)
Drift ==
  /\ DOMAIN receipts \subseteq DOMAIN receipts'
  /\ \A r \in DOMAIN receipts :
       /\ receipts'[r].content = receipts[r].content /\ receipts'[r].created = receipts[r].created
       /\ receipts'[r].tx \in {receipts[r].tx, 0}
       /\ \A k \in DOMAIN receipts[r].content : receipts[r].part[k] \in Final => receipts'[r].part[k] \in Final
  /\ \A r \in DOMAIN receipts' \ DOMAIN receipts : receipts'[r].tx \in DOMAIN txs => txs[receipts'[r].tx].by # "receipt"
  /\ DOMAIN txs \subseteq DOMAIN txs'
  /\ touched \subseteq touched'
  /\ \A n \in DOMAIN txs :
       /\ txs'[n].by = txs[n].by
       /\ txs[n].by # "receipt" /\ n \notin touched' => txs'[n] = txs[n]

\* What a request read stays true for it whatever others do.
LEMMA JobKeeps ==
  ASSUME Drift, NEW q \in Requests, req'[q] = req[q], Job(q)
  PROVE  Job(q)'
<1>1. LocksOf(q)' = LocksOf(q)
  BY DEF LocksOf
<1>2. \A kind, id : Marked(q, kind, id)' <=> Marked(q, kind, id)
  BY <1>1 DEF Marked, ForUpdate
<1>3. CASE req[q].op = "commit"
  BY <1>2, <1>3 DEF Job, CommitJob, Drift
<1>4. CASE req[q].op = "revert"
  <2>1. RevertJob(q)
    BY <1>4 DEF Job
  <2> DEFINE r == req[q].receipt
  <2>2. receipts'[r].content = receipts[r].content /\ receipts'[r].created = receipts[r].created /\ r \in DOMAIN receipts'
    BY <2>1 DEF RevertJob, Drift
  <2>3. \A k \in DOMAIN receipts[r].content :
          receipts[r].content[k] \in Orders => k \in req[q].rows \/ receipts'[r].part[k] \in Final
    BY <2>1 DEF RevertJob, Drift
  <2>4. ASSUME req[q].tx # 0
        PROVE  /\ req[q].tx \in DOMAIN txs' /\ txs'[req[q].tx].by = "receipt"
               /\ receipts'[r].tx \in {req[q].tx, 0}
               /\ \A s \in DOMAIN receipts' \ {r} : receipts'[s].tx # req[q].tx
    <3>1. /\ req[q].tx \in DOMAIN txs /\ txs[req[q].tx].by = "receipt" /\ receipts[r].tx \in {req[q].tx, 0}
          /\ \A s \in DOMAIN receipts \ {r} : receipts[s].tx # req[q].tx
          /\ r \in DOMAIN receipts
      BY <2>1, <2>4 DEF RevertJob
    <3>2. \A s \in DOMAIN receipts' \ {r} : receipts'[s].tx # req[q].tx
      BY <2>4, <3>1 DEF Drift
    <3> QED BY <3>1, <3>2 DEF Drift
  <2>5. RevertJob(q)'
    BY <1>2, <2>1, <2>2, <2>3, <2>4 DEF RevertJob
  <2> QED BY <1>4, <2>5 DEF Job
<1> QED BY <1>3, <1>4 DEF Job

LEMMA DriftKeepsJobs ==
  ASSUME Typed, Drift, Jobs, NEW q \in Requests, End(q)
  PROVE  Jobs'
<1>1. req'[q].op = "idle" /\ \A p \in Requests \ {q} : req'[p] = req[p]
  BY DEF End, Idle, Typed
<1>2. ASSUME NEW p \in Requests PROVE Job(p)'
  <2>1. CASE p = q
    BY <1>1, <2>1 DEF Job
  <2>2. CASE p # q
    BY <1>1, <2>2, JobKeeps DEF Jobs
  <2> QED BY <2>1, <2>2
<1> QED BY <1>2 DEF Jobs

-----------------------------------------------------------------------------
\* A step that is about the requests alone.
LEMMA AsideKept ==
  ASSUME Kept, LotsSold, UNCHANGED <<receipts, order, txs, touched>>
  PROVE  Kept' /\ LotsSold' /\ Drift
<1>1. Kept'
  BY DEF Kept, DocsAre, MadeBySelf, StandApart, Whole, MadeTied, Live, Tied
<1>2. LotsSold'
  BY DEF LotsSold, State
<1>3. Drift
  BY DEF Drift
<1> QED BY <1>1, <1>2, <1>3

LEMMA BeginJobs ==
  ASSUME Typed, Kept, LotsSold, Jobs, UNCHANGED <<receipts, order, txs, touched>>, NEW q \in Requests,
         NEW job, req' = [req EXCEPT ![q] = job], Job(q)'
  PROVE  Jobs'
<1>1. \A p \in Requests \ {q} : req'[p] = req[p]
  BY DEF Typed
<1>2. Drift
  BY AsideKept
<1> QED BY <1>1, <1>2, JobKeeps DEF Jobs

\* What is read when a request begins: the operation to link, the document to take back.
LEMMA StartCommitKept ==
  ASSUME Typed, Kept, LotsSold, Jobs, NEW q \in Requests, NEW doc \in Docs \cup {NoDoc}, NEW content \in Contents,
         NEW money \in DOMAIN txs \cup {0}, StartCommit(q, doc, content, money)
  PROVE  Jobs'
<1> DEFINE todo == CommitLocks(doc, content, money)
           job == [op |-> "commit", doc |-> doc, content |-> content, money |-> money, has |-> {}, todo |-> todo]
<1>1. UNCHANGED <<receipts, order, txs, touched>> /\ req' = [req EXCEPT ![q] = job]
  BY DEF StartCommit, Begin, bank
<1>2. req'[q] = job
  BY <1>1 DEF Typed
<1>3. LocksOf(q)' = todo
  BY <1>2 DEF LocksOf
<1>4. doc # NoDoc => Marked(q, "doc", doc)'
  BY <1>3 DEF Marked, CommitLocks, ForUpdate
<1>5. ASSUME money # 0
      PROVE  Marked(q, "tx", money)' /\ txs[money].by # "receipt" /\ txs[money].live /\ txs[money].amount = Len(content)
  <2>1. Marked(q, "tx", money)'
    BY <1>3, <1>5 DEF Marked, CommitLocks, ForUpdate
  <2>2. txs[money].live /\ ~Tied(money) /\ txs[money].amount = Len(content)
    BY <1>5 DEF StartCommit, Linkable
  <2>3. txs[money].by # "receipt"
    BY <1>5, <2>2 DEF Kept, MadeTied
  <2> QED BY <2>1, <2>2, <2>3
<1>6. Job(q)'
  <2> HIDE DEF todo
  <2> QED BY <1>1, <1>2, <1>4, <1>5 DEF Job, CommitJob
<1> HIDE DEF job
<1> QED BY <1>1, <1>6, BeginJobs

LEMMA StartRevertKept ==
  ASSUME Typed, Kept, LotsSold, Jobs, NEW q \in Requests, NEW r \in DOMAIN receipts, StartRevert(q, r)
  PROVE  Jobs'
<1> DEFINE content == receipts[r].content
           part == receipts[r].part
           rows == {k \in DOMAIN part : part[k] \in {"tied", "sent"}}
           lots == {k \in DOMAIN part : content[k] \in Items}
           todo == ForUpdate("order", {content[k] : k \in rows}) \cup ForUpdate("item", {content[k] : k \in lots})
           money == IF receipts[r].created THEN receipts[r].tx ELSE 0
           job == [op |-> "revert", receipt |-> r, rows |-> rows, tx |-> money, has |-> {}, todo |-> todo]
<1>1. UNCHANGED <<receipts, order, txs, touched>> /\ req' = [req EXCEPT ![q] = job] /\ Live(r)
  BY DEF StartRevert, Begin, bank
<1>2. req'[q] = job
  BY <1>1 DEF Typed
<1>3. LocksOf(q)' = todo
  BY <1>2 DEF LocksOf
<1>4. DOMAIN part = DOMAIN content
  BY DEF Typed, DocsTyped
<1>5. \A k \in DOMAIN content : Fits(content[k], part[k])
  BY DEF Kept, DocsAre
<1>6. \A k \in rows : content[k] \in Orders /\ Marked(q, "order", content[k])'
  <2> TAKE k \in rows
  <2>1. content[k] \in Orders
    BY <1>4, <1>5 DEF Fits, Final
  <2>2. Marked(q, "order", content[k])'
    <3>1. ForUpdate("order", {content[k]}) \subseteq todo
      BY DEF ForUpdate
    <3>2. content' = content
      BY <1>1
    <3> HIDE DEF todo, content, job
    <3> QED BY <1>3, <3>1, <3>2 DEF Marked, ForUpdate
  <2> QED BY <2>1, <2>2
<1>7. \A k \in DOMAIN content : content[k] \in Orders => k \in rows \/ part[k] \in Final
  BY <1>4, <1>5, ReceiptsAssumption DEF Fits
<1>8. money = 0 => ~receipts[r].created
  BY <1>1 DEF Kept, DocsAre
<1>9. ASSUME money # 0
      PROVE  /\ money \in DOMAIN txs /\ txs[money].by = "receipt" /\ receipts[r].tx = money
             /\ \A s \in DOMAIN receipts \ {r} : receipts[s].tx # money
  <2>1. receipts[r].created /\ receipts[r].tx = money
    BY <1>9
  <2>2. money \in DOMAIN txs /\ txs[money].by = "receipt"
    BY <1>1, <1>9, <2>1 DEF Kept, DocsAre, MadeBySelf
  <2>3. ASSUME NEW s \in DOMAIN receipts \ {r} PROVE receipts[s].tx # money
    <3>1. CASE Live(s)
      BY <1>1, <2>1, <3>1 DEF Kept, StandApart
    <3>2. CASE ~Live(s)
      BY <1>9, <3>2 DEF Kept, DocsAre
    <3> QED BY <3>1, <3>2
  <2> QED BY <2>1, <2>2, <2>3
<1>10. Job(q)'
  <2>1. rows \subseteq DOMAIN content
    BY <1>4
  <2> HIDE DEF todo, rows, money
  <2>2. RevertJob(q)'
    BY <1>1, <1>2, <1>6, <1>7, <1>8, <1>9, <2>1 DEF RevertJob
  <2> QED BY <1>2, <2>2 DEF Job
<1> HIDE DEF job
<1> QED BY <1>1, <1>10, BeginJobs

LEMMA StartOrderKept ==
  ASSUME Typed, Kept, LotsSold, Jobs, NEW q \in Requests, NEW op \in {"close", "reopen", "replace", "send"},
         NEW o \in Orders, NEW items, StartOrder(q, op, o, items)
  PROVE  Jobs' /\ UNCHANGED <<receipts, order, txs, touched>>
<1> DEFINE job == [op |-> op, order |-> o, has |-> {}, todo |-> ForUpdate("order", {o}) \cup items]
<1>1. UNCHANGED <<receipts, order, txs, touched>> /\ req' = [req EXCEPT ![q] = job]
  BY DEF StartOrder, Begin
<1>2. Job(q)'
  BY <1>1 DEF Job, Typed
<1> HIDE DEF job
<1> QED BY <1>1, <1>2, BeginJobs

LEMMA StartKept ==
  ASSUME Typed, Kept, LotsSold, Jobs, NEW q \in Requests, Start(q)
  PROVE  Kept' /\ LotsSold' /\ Jobs'
<1>1. CASE \E doc \in Docs \cup {NoDoc}, content \in Contents, money \in DOMAIN txs \cup {0} :
             StartCommit(q, doc, content, money)
  BY <1>1, StartCommitKept, AsideKept DEF StartCommit, bank
<1>2. CASE \E r \in DOMAIN receipts : StartRevert(q, r)
  BY <1>2, StartRevertKept, AsideKept DEF StartRevert, bank
<1>3. CASE \E o \in Orders : StartClose(q, o) \/ StartReopen(q, o) \/ StartReplace(q, o) \/ StartSend(q, o)
  BY <1>3, StartOrderKept, AsideKept DEF StartClose, StartReopen, StartReplace, StartSend
<1> QED BY <1>1, <1>2, <1>3 DEF Start

\* A lock that is taken is still a lock of the request.
LEMMA AcquireKept ==
  ASSUME Typed, LocksInv, Kept, LotsSold, Jobs, NEW q \in Requests, Acquire(q)
  PROVE  Kept' /\ LotsSold' /\ Jobs'
<1>1. UNCHANGED <<receipts, order, txs, touched>>
  BY DEF Acquire, bank
<1>2. PICK lock \in req[q].todo : req' = [req EXCEPT ![q].has = @ \cup {lock}, ![q].todo = @ \ {lock}]
  BY DEF Acquire
<1>3. \A p \in Requests \ {q} : req'[p] = req[p]
  BY <1>2 DEF Typed
<1>4. req'[q] = [req[q] EXCEPT !.has = @ \cup {lock}, !.todo = @ \ {lock}]
  BY <1>2 DEF Typed
<1>5. LocksOf(q)' = LocksOf(q)
  <2>1. req[q] \in ReqRow
    BY DEF Typed
  <2>2. req'[q].has = req[q].has \cup {lock} /\ req'[q].todo = req[q].todo \ {lock}
    <3>1. CASE req[q] \in IdleRow
      BY <1>4, <3>1 DEF IdleRow
    <3>2. CASE req[q] \in CommitRow
      BY <1>4, <3>2 DEF CommitRow
    <3>3. CASE req[q] \in RevertRow
      BY <1>4, <3>3 DEF RevertRow
    <3>4. CASE req[q] \in OrderOpRow
      BY <1>4, <3>4 DEF OrderOpRow
    <3> QED BY <2>1, <3>1, <3>2, <3>3, <3>4 DEF ReqRow
  <2> QED BY <2>2 DEF LocksOf
<1>6. \A kind, id : Marked(q, kind, id)' <=> Marked(q, kind, id)
  BY <1>5 DEF Marked, ForUpdate
<1>7. Job(q)'
  <2>1. req'[q].op = req[q].op
    BY <1>4
  <2>2. CASE req[q].op = "commit"
    <3>1. req'[q].doc = req[q].doc /\ req'[q].money = req[q].money /\ req'[q].content = req[q].content
      BY <1>4
    <3>2. CommitJob(q)
      BY <2>2 DEF Jobs, Job
    <3>3. CommitJob(q)'
      BY <1>1, <1>6, <3>1, <3>2 DEF CommitJob
    <3> QED BY <2>1, <2>2, <3>3 DEF Job
  <2>3. CASE req[q].op = "revert"
    <3>1. req'[q].receipt = req[q].receipt /\ req'[q].rows = req[q].rows /\ req'[q].tx = req[q].tx
      BY <1>4
    <3>2. RevertJob(q)
      BY <2>3 DEF Jobs, Job
    <3>3. RevertJob(q)'
      BY <1>1, <1>6, <3>1, <3>2 DEF RevertJob
    <3> QED BY <2>1, <2>3, <3>3 DEF Job
  <2> QED BY <2>1, <2>2, <2>3 DEF Job
<1>8. Drift
  BY <1>1, AsideKept
<1> QED BY <1>1, <1>3, <1>7, <1>8, AsideKept, JobKeeps DEF Jobs

-----------------------------------------------------------------------------
LEMMA FreshFits ==
  ASSUME NEW target \in Targets0
  PROVE  Fits(target, FreshPart(target)) /\ FreshPart(target) \notin {"sold", "void"}
  BY ReceiptsAssumption DEF FreshPart, Fits, Targets0, Skipped, Final

\* What a request asked for it holds once it waits for nothing.
LEMMA MarkedHolds ==
  ASSUME NEW q \in Requests, ~Waiting(q), NEW kind, NEW id, Marked(q, kind, id)
  PROVE  Holds(q, kind, id)
  BY DEF Waiting, Marked, LocksOf, Holds

(***************************************************************************)
(* A document is written when its number is still free and its operation   *)
(* still nobody's: it is looked at again once the rows are locked.         *)
(***************************************************************************)
LEMMA CommitKept ==
  ASSUME Typed, Kept, LotsSold, Jobs, NEW q \in Requests, req[q].op = "commit", ~Waiting(q), ~CommitRefused(q), Commit(q)
  PROVE  Kept' /\ LotsSold' /\ Drift
<1> DEFINE content == req[q].content
           money == req[q].money
           created == money = 0
           part == [k \in DOMAIN content |-> FreshPart(content[k])]
           n == IF created THEN Len(txs) + 1 ELSE money
           row == [doc |-> req[q].doc, content |-> content, live |-> TRUE, created |-> created, tx |-> n, part |-> part]
           op == [amount |-> Len(content), live |-> TRUE, by |-> "receipt"]
           new == Len(receipts) + 1
<1>1. req[q] \in CommitRow
  BY DEF Typed, ReqRow, IdleRow, RevertRow, OrderOpRow
<1>2. content \in Contents /\ txs \in Seq(TxRow) /\ Len(txs) \in Nat /\ receipts \in Seq(DocRow)
  BY <1>1 DEF CommitRow, Typed, DocsTyped
<1>3. CommitJob(q)
  BY DEF Jobs, Job
<1>4. /\ \A k \in DOMAIN content : Fits(content[k], part[k]) /\ part[k] \notin {"sold", "void"}
      /\ DOMAIN part = DOMAIN content
  BY <1>2, ContentIs, FreshFits
<1>5. req[q].doc # NoDoc => ~DocTaken(req[q].doc)
  BY <1>3, MarkedHolds DEF CommitJob, CommitRefused
<1>6. money # 0 => ~Tied(money)
  BY <1>3, MarkedHolds DEF CommitJob, CommitRefused
<1>7. receipts' = Append(receipts, row) /\ order' = order /\ touched' = touched
  BY DEF Commit, bank
<1>8. /\ created => txs' = Append(txs, op)
      /\ ~created => txs' = txs
  BY DEF Commit
<1> HIDE DEF part
<1>9. /\ DOMAIN receipts' = DOMAIN receipts \cup {new} /\ new \notin DOMAIN receipts
      /\ \A r \in DOMAIN receipts : receipts'[r] = receipts[r]
      /\ receipts'[new] = row
  BY <1>2, <1>7
<1>10. /\ DOMAIN txs \subseteq DOMAIN txs' /\ \A m \in DOMAIN txs : txs'[m] = txs[m]
       /\ n \in DOMAIN txs' /\ n # 0
       /\ created => n \notin DOMAIN txs /\ txs'[n] = op /\ DOMAIN txs' = DOMAIN txs \cup {n}
       /\ ~created => txs' = txs /\ n = money /\ n \in DOMAIN txs /\ txs[n].by # "receipt"
  <2>1. CASE created
    <3>1. txs' = Append(txs, op) /\ n = Len(txs) + 1
      BY <1>8, <2>1
    <3> HIDE DEF op, n, created
    <3> QED BY <1>2, <2>1, <3>1
  <2>2. CASE ~created
    <3>1. money \in DOMAIN txs /\ txs[money].by # "receipt"
      BY <1>3, <2>2 DEF CommitJob
    <3> QED BY <1>2, <1>8, <2>2, <3>1
  <2> QED BY <2>1, <2>2
<1>11. n \notin touched => txs'[n].live /\ txs'[n].amount = Len(content)
  BY <1>3, <1>10 DEF CommitJob
<1>12. \A r \in DOMAIN receipts : receipts[r].tx # n
  <2>1. CASE created
    <3>1. \A r \in DOMAIN receipts : receipts[r].tx \in DOMAIN txs \cup {0}
      BY DEF Kept, DocsAre
    <3> HIDE DEF n, created
    <3> QED BY <1>10, <2>1, <3>1
  <2>2. CASE ~created
    BY <1>6, <2>2 DEF Tied
  <2> QED BY <2>1, <2>2
<1>13. txs'[n].by = "receipt" <=> created
  BY <1>10
<1>14. row.tx = n /\ row.doc = req[q].doc /\ row.content = content /\ row.live = TRUE /\ row.created = created /\ row.part = part
  OBVIOUS
<1> HIDE DEF row, op, n, created, content, new
<1>15. DocsAre'
  <2> SUFFICES ASSUME NEW r \in DOMAIN receipts'
               PROVE  /\ receipts'[r].tx \in DOMAIN txs' \cup {0}
                      /\ receipts'[r].live <=> receipts'[r].tx # 0
                      /\ \A k \in DOMAIN receipts'[r].content : Fits(receipts'[r].content[k], receipts'[r].part[k])
    BY DEF DocsAre, Live
  <2>1. CASE r \in DOMAIN receipts
    BY <1>9, <1>10, <2>1 DEF Kept, DocsAre, Live
  <2>2. CASE r = new
    BY <1>4, <1>9, <1>10, <1>14, <2>2
  <2> QED BY <1>9, <2>1, <2>2
<1>16. MadeBySelf'
  <2> SUFFICES ASSUME NEW r \in DOMAIN receipts', receipts'[r].live
               PROVE  receipts'[r].created <=> txs'[receipts'[r].tx].by = "receipt"
    BY DEF MadeBySelf, Live
  <2>1. CASE r \in DOMAIN receipts
    <3>1. Live(r) /\ receipts[r].tx \in DOMAIN txs
      BY <1>9, <2>1 DEF Kept, DocsAre, Live
    <3> QED BY <1>9, <1>10, <2>1, <3>1 DEF Kept, MadeBySelf
  <2>2. CASE r = new
    BY <1>9, <1>13, <1>14, <2>2
  <2> QED BY <1>9, <2>1, <2>2
<1>17. StandApart'
  <2> SUFFICES ASSUME NEW r \in DOMAIN receipts', receipts'[r].live, NEW s \in DOMAIN receipts', receipts'[s].live, r # s
               PROVE  /\ receipts'[r].tx # receipts'[s].tx
                      /\ receipts'[r].doc # NoDoc => receipts'[r].doc # receipts'[s].doc
    BY DEF StandApart, Live
  <2>1. CASE r \in DOMAIN receipts /\ s \in DOMAIN receipts
    BY <1>9, <2>1 DEF Kept, StandApart, Live
  <2>2. CASE r = new /\ s \in DOMAIN receipts
    BY <1>5, <1>9, <1>12, <1>14, <2>2 DEF DocTaken, Live
  <2>3. CASE s = new /\ r \in DOMAIN receipts
    BY <1>5, <1>9, <1>12, <1>14, <2>3 DEF DocTaken, Live
  <2> QED BY <1>9, <2>1, <2>2, <2>3
<1>18. Whole'
  <2> SUFFICES ASSUME NEW r \in DOMAIN receipts'
               PROVE  /\ receipts'[r].live =>
                           /\ \A k \in DOMAIN receipts'[r].content : receipts'[r].part[k] # "void"
                           /\ receipts'[r].tx \notin touched' =>
                                txs'[receipts'[r].tx].live /\ txs'[receipts'[r].tx].amount = Len(receipts'[r].content)
                      /\ ~receipts'[r].live =>
                           \A k \in DOMAIN receipts'[r].content : receipts'[r].part[k] \in {"skipped"} \cup Final
    BY DEF Whole, Live
  <2>1. CASE r \in DOMAIN receipts
    <3>1. Live(r) => receipts[r].tx \in DOMAIN txs
      BY <2>1 DEF Kept, DocsAre
    <3> QED BY <1>7, <1>9, <1>10, <2>1, <3>1 DEF Kept, Whole, Live
  <2>2. CASE r = new
    BY <1>4, <1>7, <1>9, <1>11, <1>14, <2>2
  <2> QED BY <1>9, <2>1, <2>2
<1>19. MadeTied'
  <2> SUFFICES ASSUME NEW m \in DOMAIN txs', txs'[m].by = "receipt", txs'[m].live
               PROVE  \E r \in DOMAIN receipts' : receipts'[r].tx = m
    BY DEF MadeTied, Tied
  <2>1. CASE m \in DOMAIN txs
    BY <1>9, <1>10, <2>1 DEF Kept, MadeTied, Tied
  <2>2. CASE m = n
    BY <1>9, <1>14, <2>2
  <2> QED BY <1>10, <2>1, <2>2
<1>20. LotsSold'
  <2> SUFFICES ASSUME NEW o \in Orders, NEW p \in order[o].lots
               PROVE  /\ p[1] \in DOMAIN receipts' /\ p[2] \in DOMAIN receipts'[p[1]].content
                      /\ receipts'[p[1]].part[p[2]] = "sold"
                      /\ \A other \in Orders \ {o} : p \notin order[other].lots
    BY <1>7 DEF LotsSold, State
  <2>1. /\ p[1] \in DOMAIN receipts /\ p[2] \in DOMAIN receipts[p[1]].content /\ State(p) = "sold"
        /\ \A other \in Orders \ {o} : p \notin order[other].lots
    BY DEF LotsSold
  <2> QED BY <1>9, <2>1 DEF State
<1>21. Drift
  <2>1. \A r \in DOMAIN receipts' \ DOMAIN receipts : receipts'[r].tx \in DOMAIN txs => txs[receipts'[r].tx].by # "receipt"
    BY <1>9, <1>10, <1>14
  <2> QED BY <1>7, <1>9, <1>10, <2>1 DEF Drift
<1> QED BY <1>15, <1>16, <1>17, <1>18, <1>19, <1>20, <1>21 DEF Kept

LEMMA TurnedIs ==
  ASSUME Typed, NEW ps, NEW into, NEW r \in DOMAIN receipts
  PROVE  /\ DOMAIN Turned(ps, into) = DOMAIN receipts
         /\ Turned(ps, into)[r].doc = receipts[r].doc /\ Turned(ps, into)[r].content = receipts[r].content
         /\ Turned(ps, into)[r].live = receipts[r].live /\ Turned(ps, into)[r].created = receipts[r].created
         /\ Turned(ps, into)[r].tx = receipts[r].tx
         /\ \A k \in DOMAIN receipts[r].content :
              Turned(ps, into)[r].part[k] = IF <<r, k>> \in ps THEN into ELSE receipts[r].part[k]
<1>1. receipts[r] \in DocRow /\ DOMAIN receipts[r].part = DOMAIN receipts[r].content
  BY DEF Typed, DocsTyped
<1>2. Turned(ps, into)[r] =
        [receipts[r] EXCEPT !.part = [k \in DOMAIN receipts[r].part |-> IF <<r, k>> \in ps THEN into ELSE receipts[r].part[k]]]
  BY <1>1 DEF Turned, DocRow
<1>3. DOMAIN Turned(ps, into) = DOMAIN receipts
  BY DEF Turned
<1> QED BY <1>1, <1>2, <1>3 DEF DocRow

\* What a document is once it is taken back, and all the others.
LEMMA RevertIs ==
  ASSUME Typed, Kept, Jobs, NEW q \in Requests, req[q].op = "revert", ~Waiting(q), ~RevertRefused(q), Revert(q),
         NEW r, r = req[q].receipt
  PROVE  /\ r \in DOMAIN receipts /\ DOMAIN receipts' = DOMAIN receipts
         /\ \A s \in DOMAIN receipts :
              receipts'[s].doc = receipts[s].doc /\ receipts'[s].content = receipts[s].content
              /\ receipts'[s].created = receipts[s].created
         /\ \A s \in DOMAIN receipts \ {r} :
              /\ (receipts'[s].live <=> receipts[s].live) /\ receipts'[s].tx = receipts[s].tx
              /\ \A k \in DOMAIN receipts[s].content : receipts'[s].part[k] = receipts[s].part[k]
         /\ receipts'[r].live = FALSE /\ receipts'[r].tx = 0
         /\ \A k \in DOMAIN receipts[r].content :
              /\ receipts[r].part[k] \notin {"sold", "back"}
              /\ receipts'[r].part[k] \in {"skipped"} \cup Final
              /\ \/ receipts'[r].part[k] = receipts[r].part[k]
                 \/ receipts'[r].part[k] = "void" /\ receipts[r].part[k] \in {"whole", "tied", "void"}
<1> DEFINE content == receipts[r].content
           part == receipts[r].part
           rows == {<<r, k>> : k \in req[q].rows}
           lots == {<<r, k>> : k \in {k \in DOMAIN part : content[k] \in Items}}
           docs == Turned(rows \cup lots, "void")
<1>1. RevertJob(q)
  BY DEF Jobs, Job
<1>2. r \in DOMAIN receipts /\ DOMAIN part = DOMAIN content
  BY <1>1 DEF RevertJob, Typed, DocsTyped
<1>3. receipts' = [docs EXCEPT ![r].live = FALSE, ![r].tx = 0]
  BY DEF Revert
<1>4. \A k \in DOMAIN content : part[k] \notin {"sold", "back"}
  BY <1>2 DEF RevertRefused
<1>5. \A k \in req[q].rows : k \in DOMAIN content /\ content[k] \in Orders /\ part[k] = "tied"
  <2> TAKE k \in req[q].rows
  <2>1. k \in DOMAIN content /\ content[k] \in Orders /\ Holds(q, "order", content[k])
    BY <1>1, MarkedHolds DEF RevertJob
  <2> QED BY <2>1 DEF RevertRefused
<1>6. \A k \in DOMAIN content : Fits(content[k], part[k])
  BY <1>2 DEF Kept, DocsAre
<1>7. \A k \in DOMAIN content : content[k] \in Orders => k \in req[q].rows \/ part[k] \in Final
  BY <1>1 DEF RevertJob
<1>8. ASSUME NEW s \in DOMAIN receipts
      PROVE  /\ docs[s].doc = receipts[s].doc /\ docs[s].content = receipts[s].content
             /\ docs[s].live = receipts[s].live /\ docs[s].created = receipts[s].created /\ docs[s].tx = receipts[s].tx
             /\ \A k \in DOMAIN receipts[s].content :
                  docs[s].part[k] = IF <<s, k>> \in rows \cup lots THEN "void" ELSE receipts[s].part[k]
  <2> HIDE DEF rows, lots
  <2> QED BY TurnedIs
<1>9. DOMAIN docs = DOMAIN receipts /\ docs = [s \in DOMAIN receipts |-> docs[s]]
  <2> HIDE DEF rows, lots
  <2> QED BY DEF Turned
<1>10. ASSUME NEW s \in DOMAIN receipts, NEW k \in DOMAIN receipts[s].content
       PROVE  <<s, k>> \in rows \cup lots <=> s = r /\ (k \in req[q].rows \/ content[k] \in Items)
  BY <1>2, <1>5
<1>11. docs[r] = [docs[r] EXCEPT !.part = docs[r].part] /\ DOMAIN docs[r] = DOMAIN receipts[r]
  <2>1. receipts[r] \in DocRow
    BY <1>2 DEF Typed, DocsTyped
  <2> HIDE DEF rows, lots
  <2> QED BY <1>2, <2>1 DEF Turned, DocRow
<1>12. receipts[r] \in DocRow
  BY <1>2 DEF Typed, DocsTyped
<1>13. DOMAIN receipts[r] = {"doc", "content", "live", "created", "tx", "part"}
  BY <1>12 DEF DocRow
<1> HIDE DEF docs, rows, lots
<1>14. /\ DOMAIN receipts' = DOMAIN receipts
       /\ \A s \in DOMAIN receipts \ {r} : receipts'[s] = docs[s]
       /\ receipts'[r] = [docs[r] EXCEPT !.live = FALSE, !.tx = 0]
  BY <1>2, <1>3, <1>9
<1>15. /\ receipts'[r].doc = docs[r].doc /\ receipts'[r].content = docs[r].content
       /\ receipts'[r].created = docs[r].created /\ receipts'[r].part = docs[r].part
       /\ receipts'[r].live = FALSE /\ receipts'[r].tx = 0
  BY <1>11, <1>13, <1>14
<1>16. \A k \in DOMAIN content : docs[r].part[k] = IF k \in req[q].rows \/ content[k] \in Items THEN "void" ELSE part[k]
  <2> TAKE k \in DOMAIN content
  <2>1. docs[r].part[k] = IF <<r, k>> \in rows \cup lots THEN "void" ELSE part[k]
    BY <1>2, <1>8
  <2>2. <<r, k>> \in rows \cup lots <=> (k \in req[q].rows \/ content[k] \in Items)
    BY <1>2, <1>10
  <2> QED BY <2>1, <2>2
<1>17. ASSUME NEW k \in DOMAIN content
       PROVE  /\ receipts'[r].part[k] \in {"skipped"} \cup Final
              /\ \/ receipts'[r].part[k] = part[k]
                 \/ receipts'[r].part[k] = "void" /\ part[k] \in {"whole", "tied", "void"}
  <2>1. Fits(content[k], part[k]) /\ part[k] \notin {"sold", "back"}
    BY <1>4, <1>6
  <2>2. CASE k \in req[q].rows
    <3>1. receipts'[r].part[k] = "void"
      BY <1>15, <1>16, <2>2
    <3> QED BY <1>5, <2>2, <3>1 DEF Final
  <2>3. CASE content[k] \in Items
    <3>1. receipts'[r].part[k] = "void"
      BY <1>15, <1>16, <2>3
    <3> QED BY <2>1, <2>3, <3>1, ReceiptsAssumption DEF Fits, Final
  <2>4. CASE k \notin req[q].rows /\ content[k] \notin Items
    <3>1. receipts'[r].part[k] = part[k]
      BY <1>15, <1>16, <2>4
    <3> QED BY <1>7, <2>1, <2>4, <3>1 DEF Fits
  <2> QED BY <2>2, <2>3, <2>4
<1>18. ASSUME NEW s \in DOMAIN receipts \ {r}, NEW k \in DOMAIN receipts[s].content
       PROVE  receipts'[s].part[k] = receipts[s].part[k]
  <2>1. docs[s].part[k] = IF <<s, k>> \in rows \cup lots THEN "void" ELSE receipts[s].part[k]
    BY <1>8
  <2>2. <<s, k>> \notin rows \cup lots
    BY <1>10
  <2> QED BY <1>14, <2>1, <2>2
<1>19. ASSUME NEW s \in DOMAIN receipts
       PROVE  /\ receipts'[s].doc = receipts[s].doc /\ receipts'[s].content = receipts[s].content
              /\ receipts'[s].created = receipts[s].created
  <2>1. docs[s].doc = receipts[s].doc /\ docs[s].content = receipts[s].content /\ docs[s].created = receipts[s].created
    BY <1>8
  <2>2. CASE s = r
    BY <1>15, <2>1, <2>2
  <2>3. CASE s # r
    BY <1>14, <2>1, <2>3
  <2> QED BY <2>2, <2>3
<1>20. \A s \in DOMAIN receipts \ {r} : (receipts'[s].live <=> receipts[s].live) /\ receipts'[s].tx = receipts[s].tx
  BY <1>8, <1>14
<1> QED BY <1>2, <1>4, <1>14, <1>15, <1>17, <1>18, <1>19, <1>20

\* The one operation a document takes with it, when it made one.
LEMMA RevertErases ==
  ASSUME Typed, Jobs, NEW q \in Requests, req[q].op = "revert", Revert(q)
  PROVE  /\ DOMAIN txs' = DOMAIN txs
         /\ \A n \in DOMAIN txs : /\ txs'[n].by = txs[n].by /\ txs'[n].amount = txs[n].amount
                                  /\ n # req[q].tx => txs'[n] = txs[n]
                                  /\ n = req[q].tx => ~txs'[n].live /\ txs[n].by = "receipt"
<1>1. RevertJob(q) /\ txs \in Seq(TxRow)
  BY DEF Jobs, Job, Typed
<1>2. txs' = IF req[q].tx = 0 THEN txs ELSE [txs EXCEPT ![req[q].tx].live = FALSE]
  BY DEF Revert
<1>3. CASE req[q].tx = 0
  <2>1. 0 \notin DOMAIN txs
    BY <1>1
  <2> QED BY <1>2, <1>3, <2>1
<1>4. CASE req[q].tx # 0
  <2>1. req[q].tx \in DOMAIN txs /\ txs[req[q].tx].by = "receipt"
    BY <1>1, <1>4 DEF RevertJob
  <2>2. txs[req[q].tx] \in TxRow
    BY <1>1, <2>1
  <2>3. txs' = [txs EXCEPT ![req[q].tx].live = FALSE]
    BY <1>2, <1>4
  <2>4. txs'[req[q].tx] = [txs[req[q].tx] EXCEPT !.live = FALSE] /\ DOMAIN txs' = DOMAIN txs
        /\ \A n \in DOMAIN txs \ {req[q].tx} : txs'[n] = txs[n]
    BY <2>1, <2>3
  <2> QED BY <2>1, <2>2, <2>4 DEF TxRow
<1> QED BY <1>3, <1>4

\* With the document goes all that it made, and nothing of another.
LEMMA RevertKept ==
  ASSUME Typed, Kept, LotsSold, Jobs, NEW q \in Requests, req[q].op = "revert", ~Waiting(q), ~RevertRefused(q), Revert(q)
  PROVE  Kept' /\ LotsSold' /\ Drift
<1> DEFINE r == req[q].receipt
           money == req[q].tx
<1>1. /\ r \in DOMAIN receipts /\ DOMAIN receipts' = DOMAIN receipts
      /\ receipts'[r].live = FALSE /\ receipts'[r].tx = 0
  BY RevertIs
<1>2. ASSUME NEW s \in DOMAIN receipts
      PROVE  /\ receipts'[s].doc = receipts[s].doc /\ receipts'[s].content = receipts[s].content
             /\ receipts'[s].created = receipts[s].created
  BY RevertIs
<1>3. \A s \in DOMAIN receipts \ {r} :
        /\ (receipts'[s].live <=> receipts[s].live) /\ receipts'[s].tx = receipts[s].tx
        /\ \A k \in DOMAIN receipts[s].content : receipts'[s].part[k] = receipts[s].part[k]
  <2> HIDE DEF r
  <2>1. r = req[q].receipt
    BY DEF r
  <2> QED BY <2>1, RevertIs
<1>4. ASSUME NEW k \in DOMAIN receipts[r].content
      PROVE  /\ receipts[r].part[k] \notin {"sold", "back"}
             /\ receipts'[r].part[k] \in {"skipped"} \cup Final
             /\ \/ receipts'[r].part[k] = receipts[r].part[k]
                \/ receipts'[r].part[k] = "void" /\ receipts[r].part[k] \in {"whole", "tied", "void"}
  BY RevertIs
<1>5. /\ DOMAIN txs' = DOMAIN txs
      /\ \A n \in DOMAIN txs : /\ txs'[n].by = txs[n].by /\ txs'[n].amount = txs[n].amount
                               /\ n # money => txs'[n] = txs[n]
                               /\ n = money => ~txs'[n].live /\ txs[n].by = "receipt"
  BY RevertErases
<1>6. RevertJob(q) /\ order' = order /\ touched' = touched
  BY DEF Jobs, Job, Revert, bank
<1> HIDE DEF r, money
<1>7. ASSUME NEW s \in DOMAIN receipts, receipts'[s].live
      PROVE  /\ s # r /\ Live(s) /\ receipts'[s].tx = receipts[s].tx /\ receipts[s].tx \in DOMAIN txs
             /\ txs'[receipts[s].tx] = txs[receipts[s].tx]
  <2>1. s # r /\ Live(s) /\ receipts'[s].tx = receipts[s].tx
    BY <1>1, <1>3, <1>7 DEF Live
  <2>2. receipts[s].tx \in DOMAIN txs /\ receipts[s].tx # 0
    BY <2>1 DEF Kept, DocsAre
  <2>3. receipts[s].tx # money
    BY <1>6, <2>1, <2>2 DEF RevertJob, r, money
  <2> QED BY <1>5, <2>1, <2>2, <2>3
<1>8. DocsAre'
  <2> SUFFICES ASSUME NEW s \in DOMAIN receipts
               PROVE  /\ receipts'[s].tx \in DOMAIN txs \cup {0}
                      /\ receipts'[s].live <=> receipts'[s].tx # 0
                      /\ \A k \in DOMAIN receipts[s].content : Fits(receipts[s].content[k], receipts'[s].part[k])
    BY <1>1, <1>2, <1>5 DEF DocsAre, Live
  <2>1. /\ receipts[s].tx \in DOMAIN txs \cup {0}
        /\ receipts[s].live <=> receipts[s].tx # 0
        /\ \A k \in DOMAIN receipts[s].content : Fits(receipts[s].content[k], receipts[s].part[k])
    BY DEF Kept, DocsAre, Live
  <2>2. CASE s # r
    BY <1>3, <2>1, <2>2
  <2>3. CASE s = r
    <3>1. ASSUME NEW k \in DOMAIN receipts[s].content PROVE Fits(receipts[s].content[k], receipts'[s].part[k])
      <4>1. Fits(receipts[s].content[k], receipts[s].part[k])
        BY <2>1
      <4>2. \/ receipts'[s].part[k] = receipts[s].part[k]
            \/ receipts'[s].part[k] = "void" /\ receipts[s].part[k] \in {"whole", "tied", "void"}
        BY <1>4, <2>3
      <4> QED BY <4>1, <4>2 DEF Fits, Final
    <3> QED BY <1>1, <2>3, <3>1
  <2> QED BY <2>2, <2>3
<1>9. MadeBySelf'
  <2> SUFFICES ASSUME NEW s \in DOMAIN receipts, receipts'[s].live
               PROVE  receipts'[s].created <=> txs'[receipts'[s].tx].by = "receipt"
    BY <1>1 DEF MadeBySelf, Live
  <2> QED BY <1>2, <1>7 DEF Kept, MadeBySelf
<1>10. StandApart'
  <2> SUFFICES ASSUME NEW s \in DOMAIN receipts, receipts'[s].live, NEW t \in DOMAIN receipts, receipts'[t].live, s # t
               PROVE  /\ receipts'[s].tx # receipts'[t].tx
                      /\ receipts'[s].doc # NoDoc => receipts'[s].doc # receipts'[t].doc
    BY <1>1 DEF StandApart, Live
  <2> QED BY <1>2, <1>7 DEF Kept, StandApart
<1>11. Whole'
  <2> SUFFICES ASSUME NEW s \in DOMAIN receipts
               PROVE  /\ receipts'[s].live =>
                           /\ \A k \in DOMAIN receipts'[s].content : receipts'[s].part[k] # "void"
                           /\ receipts'[s].tx \notin touched' =>
                                txs'[receipts'[s].tx].live /\ txs'[receipts'[s].tx].amount = Len(receipts'[s].content)
                      /\ ~receipts'[s].live =>
                           \A k \in DOMAIN receipts'[s].content : receipts'[s].part[k] \in {"skipped"} \cup Final
    BY <1>1 DEF Whole, Live
  <2>1. ASSUME receipts'[s].live
        PROVE  /\ \A k \in DOMAIN receipts'[s].content : receipts'[s].part[k] # "void"
               /\ receipts'[s].tx \notin touched' =>
                    txs'[receipts'[s].tx].live /\ txs'[receipts'[s].tx].amount = Len(receipts'[s].content)
    BY <1>2, <1>3, <1>6, <1>7, <2>1 DEF Kept, Whole
  <2>2. ASSUME ~receipts'[s].live, s # r
        PROVE  \A k \in DOMAIN receipts'[s].content : receipts'[s].part[k] \in {"skipped"} \cup Final
    BY <1>2, <1>3, <2>2 DEF Kept, Whole, Live
  <2>3. ASSUME s = r
        PROVE  \A k \in DOMAIN receipts'[s].content : receipts'[s].part[k] \in {"skipped"} \cup Final
    BY <1>2, <1>4, <2>3
  <2> QED BY <2>1, <2>2, <2>3
<1>12. MadeTied'
  <2> SUFFICES ASSUME NEW n \in DOMAIN txs, txs'[n].by = "receipt", txs'[n].live
               PROVE  \E s \in DOMAIN receipts : receipts'[s].tx = n
    BY <1>1, <1>5 DEF MadeTied, Tied
  <2>1. n # money /\ txs'[n] = txs[n]
    BY <1>5
  <2>2. PICK s \in DOMAIN receipts : receipts[s].tx = n
    BY <2>1 DEF Kept, MadeTied, Tied
  <2>3. s # r
    <3> SUFFICES ASSUME s = r PROVE FALSE
      OBVIOUS
    <3>1. receipts[r].tx # 0
      <4>1. txs \in Seq(TxRow)
        BY DEF Typed
      <4> QED BY <2>2, <4>1
    <3>2. CASE money = 0
      <4>1. Live(r) /\ ~receipts[r].created
        BY <1>1, <1>6, <3>1, <3>2 DEF RevertJob, Kept, DocsAre, r, money
      <4>2. txs[n].by # "receipt"
        BY <1>1, <2>2, <4>1 DEF Kept, MadeBySelf
      <4> QED BY <2>1, <4>2
    <3>3. CASE money # 0
      BY <1>6, <2>1, <2>2, <3>1, <3>3 DEF RevertJob, r, money
    <3> QED BY <3>2, <3>3
  <2> QED BY <1>3, <2>2, <2>3
<1>13. LotsSold'
  <2> SUFFICES ASSUME NEW o \in Orders, NEW p \in order[o].lots
               PROVE  /\ p[1] \in DOMAIN receipts /\ p[2] \in DOMAIN receipts'[p[1]].content
                      /\ receipts'[p[1]].part[p[2]] = "sold"
                      /\ \A other \in Orders \ {o} : p \notin order[other].lots
    BY <1>1, <1>6 DEF LotsSold, State
  <2>1. /\ p[1] \in DOMAIN receipts /\ p[2] \in DOMAIN receipts[p[1]].content /\ receipts[p[1]].part[p[2]] = "sold"
        /\ \A other \in Orders \ {o} : p \notin order[other].lots
    BY DEF LotsSold, State
  <2>2. p[1] # r
    BY <1>4, <2>1
  <2> QED BY <1>2, <1>3, <2>1, <2>2
<1>14. Drift
  <2>1. ASSUME NEW s \in DOMAIN receipts
        PROVE  /\ receipts'[s].content = receipts[s].content /\ receipts'[s].created = receipts[s].created
               /\ receipts'[s].tx \in {receipts[s].tx, 0}
               /\ \A k \in DOMAIN receipts[s].content : receipts[s].part[k] \in Final => receipts'[s].part[k] \in Final
    <3>1. CASE s = r
      BY <1>1, <1>2, <1>4, <3>1 DEF Final
    <3>2. CASE s # r
      BY <1>2, <1>3, <3>2
    <3> QED BY <3>1, <3>2
  <2>2. ASSUME NEW n \in DOMAIN txs
        PROVE  txs'[n].by = txs[n].by /\ (txs[n].by # "receipt" /\ n \notin touched' => txs'[n] = txs[n])
    BY <1>5
  <2> QED BY <1>1, <1>5, <1>6, <2>1, <2>2 DEF Drift
<1> QED BY <1>8, <1>9, <1>10, <1>11, <1>12, <1>13, <1>14 DEF Kept

-----------------------------------------------------------------------------
(***************************************************************************)
(* Orders move lines of documents that stand: rows they list, lots they    *)
(* take and give back.                                                     *)
(***************************************************************************)
Moves ==
  /\ DOMAIN receipts' = DOMAIN receipts
  /\ UNCHANGED <<txs, touched>>
  /\ \A r \in DOMAIN receipts :
       /\ receipts'[r].doc = receipts[r].doc /\ receipts'[r].content = receipts[r].content
       /\ receipts'[r].live <=> receipts[r].live
       /\ receipts'[r].created = receipts[r].created /\ receipts'[r].tx = receipts[r].tx
       /\ \A k \in DOMAIN receipts[r].content :
            \/ receipts'[r].part[k] = receipts[r].part[k]
            \/ receipts[r].part[k] \in {"tied", "sent"} /\ receipts'[r].part[k] \in {"tied", "sent", "copied", "gone"}
            \/ receipts[r].part[k] \in {"whole", "back", "sold"} /\ receipts'[r].part[k] \in {"back", "sold"}

\* Such a step leaves what a document is as a whole.
LEMMA MovesKeep ==
  ASSUME Kept, Moves
  PROVE  Kept' /\ Drift
<1>1. DOMAIN receipts' = DOMAIN receipts /\ UNCHANGED <<txs, touched>>
  BY DEF Moves
<1>2. \A r \in DOMAIN receipts :
        /\ receipts'[r].doc = receipts[r].doc /\ receipts'[r].content = receipts[r].content
        /\ receipts'[r].live <=> receipts[r].live
        /\ receipts'[r].created = receipts[r].created /\ receipts'[r].tx = receipts[r].tx
  BY DEF Moves
<1>3. ASSUME NEW r \in DOMAIN receipts, NEW k \in DOMAIN receipts[r].content
      PROVE  /\ Fits(receipts[r].content[k], receipts'[r].part[k])
             /\ receipts[r].part[k] \in {"skipped"} \cup Final => receipts'[r].part[k] = receipts[r].part[k]
             /\ receipts[r].part[k] # "void" => receipts'[r].part[k] # "void"
  <2>1. Fits(receipts[r].content[k], receipts[r].part[k])
    BY DEF Kept, DocsAre
  <2>2. \/ receipts'[r].part[k] = receipts[r].part[k]
        \/ receipts[r].part[k] \in {"tied", "sent"} /\ receipts'[r].part[k] \in {"tied", "sent", "copied", "gone"}
        \/ receipts[r].part[k] \in {"whole", "back", "sold"} /\ receipts'[r].part[k] \in {"back", "sold"}
    BY DEF Moves
  <2> QED BY <2>1, <2>2 DEF Fits, Final
<1>4. DocsAre'
  BY <1>1, <1>2, <1>3 DEF Kept, DocsAre, Live
<1>5. MadeBySelf' /\ MadeTied'
  BY <1>1, <1>2 DEF Kept, MadeBySelf, MadeTied, Tied, Live
<1>6. StandApart'
  BY <1>1, <1>2 DEF Kept, StandApart, Live
<1>7. Whole'
  BY <1>1, <1>2, <1>3 DEF Kept, Whole, Live
<1>8. Drift
  BY <1>1, <1>2, <1>3 DEF Drift
<1> QED BY <1>4, <1>5, <1>6, <1>7, <1>8 DEF Kept

\* One set of lines turned, or two.
LEMMA TurnedBothIs ==
  ASSUME Typed, NEW ps, NEW into, NEW qs, NEW other, NEW r \in DOMAIN receipts
  PROVE  LET docs == TurnedBoth(ps, into, qs, other)
         IN /\ DOMAIN docs = DOMAIN receipts
            /\ docs[r].doc = receipts[r].doc /\ docs[r].content = receipts[r].content
            /\ docs[r].live <=> receipts[r].live
            /\ docs[r].created = receipts[r].created /\ docs[r].tx = receipts[r].tx
            /\ \A k \in DOMAIN receipts[r].content :
                 docs[r].part[k] = IF <<r, k>> \in ps THEN into ELSE IF <<r, k>> \in qs THEN other ELSE receipts[r].part[k]
<1> DEFINE docs == TurnedBoth(ps, into, qs, other)
           part == [k \in DOMAIN receipts[r].part |->
                      IF <<r, k>> \in ps THEN into ELSE IF <<r, k>> \in qs THEN other ELSE receipts[r].part[k]]
<1>1. receipts[r] \in DocRow /\ DOMAIN receipts[r].part = DOMAIN receipts[r].content
  BY DEF Typed, DocsTyped
<1>2. docs[r] = [receipts[r] EXCEPT !.part = part]
  BY <1>1 DEF TurnedBoth, DocRow
<1>3. DOMAIN docs = DOMAIN receipts
  BY DEF TurnedBoth
<1>4. \A k \in DOMAIN receipts[r].content :
        part[k] = IF <<r, k>> \in ps THEN into ELSE IF <<r, k>> \in qs THEN other ELSE receipts[r].part[k]
  BY <1>1
<1> HIDE DEF docs, part
<1>5. /\ docs[r].doc = receipts[r].doc /\ docs[r].content = receipts[r].content
      /\ docs[r].live <=> receipts[r].live
      /\ docs[r].created = receipts[r].created /\ docs[r].tx = receipts[r].tx /\ docs[r].part = part
  BY <1>1, <1>2 DEF DocRow
<1> QED BY <1>3, <1>4, <1>5 DEF docs

LEMMA BothMoves ==
  ASSUME Typed, NEW ps, NEW into, NEW qs, NEW other,
         receipts' = TurnedBoth(ps, into, qs, other), UNCHANGED <<txs, touched>>,
         \A p \in ps : \/ State(p) \in {"tied", "sent"} /\ into \in {"tied", "sent", "copied", "gone"}
                       \/ State(p) \in {"whole", "back", "sold"} /\ into \in {"back", "sold"},
         \A p \in qs : State(p) \in {"tied", "sent"}, other \in {"tied", "sent", "copied", "gone"}
  PROVE  Moves
<1>1. DOMAIN receipts' = DOMAIN receipts
  BY DEF TurnedBoth
<1>2. ASSUME NEW r \in DOMAIN receipts
      PROVE  /\ receipts'[r].doc = receipts[r].doc /\ receipts'[r].content = receipts[r].content
             /\ receipts'[r].live <=> receipts[r].live
             /\ receipts'[r].created = receipts[r].created /\ receipts'[r].tx = receipts[r].tx
  BY TurnedBothIs
<1>3. ASSUME NEW r \in DOMAIN receipts, NEW k \in DOMAIN receipts[r].content
      PROVE  \/ receipts'[r].part[k] = receipts[r].part[k]
             \/ receipts[r].part[k] \in {"tied", "sent"} /\ receipts'[r].part[k] \in {"tied", "sent", "copied", "gone"}
             \/ receipts[r].part[k] \in {"whole", "back", "sold"} /\ receipts'[r].part[k] \in {"back", "sold"}
  <2>1. receipts'[r].part[k] = IF <<r, k>> \in ps THEN into ELSE IF <<r, k>> \in qs THEN other ELSE receipts[r].part[k]
    BY TurnedBothIs
  <2>2. State(<<r, k>>) = receipts[r].part[k]
    BY DEF State
  <2> QED BY <2>1, <2>2
<1> QED BY <1>1, <1>2, <1>3 DEF Moves

\* A line that was sold and is not turned is still sold.
LEMMA SoldStays ==
  ASSUME Typed, LotsSold, NEW ps, NEW into, NEW qs, NEW other, receipts' = TurnedBoth(ps, into, qs, other),
         NEW o \in Orders, NEW p \in order[o].lots, p \notin ps, p \notin qs
  PROVE  p[1] \in DOMAIN receipts' /\ p[2] \in DOMAIN receipts'[p[1]].content /\ State(p)' = "sold"
<1>1. p[1] \in DOMAIN receipts /\ p[2] \in DOMAIN receipts[p[1]].content /\ receipts[p[1]].part[p[2]] = "sold"
  BY DEF LotsSold, State
<1>2. p = <<p[1], p[2]>>
  <2>1. order[o] \in OrderRow
    BY DEF Typed
  <2>2. order[o].lots \in SUBSET (Nat \X Nat)
    BY <2>1 DEF OrderRow
  <2> QED BY <2>2
<1>3. /\ DOMAIN receipts' = DOMAIN receipts /\ receipts'[p[1]].content = receipts[p[1]].content
      /\ receipts'[p[1]].part[p[2]] = receipts[p[1]].part[p[2]]
  BY <1>1, <1>2, TurnedBothIs
<1> QED BY <1>1, <1>3 DEF State

LEMMA PartsAre ==
  ASSUME Typed, NEW p \in Parts
  PROVE  p[1] \in DOMAIN receipts /\ p[2] \in DOMAIN receipts[p[1]].content
  BY DEF Parts, Typed, DocsTyped

\* The four requests of an order are such steps, and the lots they take stay theirs.
LEMMA SendKept ==
  ASSUME Typed, Kept, LotsSold, NEW q \in Requests, SendLine(q)
  PROVE  Kept' /\ LotsSold' /\ Drift /\ Moves
<1>1. PICK p : State(p) = "tied" /\ receipts' = TurnedBoth({p}, "sent", {}, "sent")
  <2>1. PICK p : State(p) = "tied" /\ receipts' = Turned({p}, "sent")
    BY DEF SendLine
  <2>2. Turned({p}, "sent") = TurnedBoth({p}, "sent", {}, "sent")
    BY DEF Turned, TurnedBoth
  <2> QED BY <2>1, <2>2
<1>2. UNCHANGED <<txs, touched, order>>
  BY DEF SendLine, bank
<1>3. Moves
  BY <1>1, <1>2, BothMoves
<1>4. ASSUME NEW o \in Orders, NEW lot \in order[o].lots PROVE lot \notin {p}
  BY <1>1 DEF LotsSold
<1>5. LotsSold'
  <2> SUFFICES ASSUME NEW o \in Orders, NEW lot \in order[o].lots
               PROVE  /\ lot[1] \in DOMAIN receipts' /\ lot[2] \in DOMAIN receipts'[lot[1]].content /\ State(lot)' = "sold"
                      /\ \A j \in Orders \ {o} : lot \notin order[j].lots
    BY <1>2 DEF LotsSold
  <2>1. \A j \in Orders \ {o} : lot \notin order[j].lots
    BY DEF LotsSold
  <2> DEFINE ps == {p}
             qs == {}
  <2>2. lot \notin ps /\ lot \notin qs /\ receipts' = TurnedBoth(ps, "sent", qs, "sent")
    BY <1>1, <1>4
  <2> HIDE DEF ps, qs
  <2> QED BY <2>1, <2>2, SoldStays
<1> QED BY <1>3, <1>5, MovesKeep

LEMMA ReplaceKept ==
  ASSUME Typed, Kept, LotsSold, NEW q \in Requests, ReplaceLines(q)
  PROVE  Kept' /\ LotsSold' /\ Drift /\ Moves
<1> DEFINE rows == {p \in PartsIn(req[q].order) : State(p) = "tied"}
<1>1. PICK kept \in SUBSET rows : receipts' = TurnedBoth(kept, "copied", rows, "gone")
  BY DEF ReplaceLines, TurnedBoth
<1>2. UNCHANGED <<txs, touched, order>>
  BY DEF ReplaceLines, bank
<1>3. (\A p \in kept : State(p) = "tied") /\ \A p \in rows : State(p) = "tied"
  OBVIOUS
<1> HIDE DEF rows
<1>4. Moves
  BY <1>1, <1>2, <1>3, BothMoves
<1>5. ASSUME NEW o \in Orders, NEW lot \in order[o].lots PROVE lot \notin kept /\ lot \notin rows
  BY <1>3 DEF LotsSold
<1>6. LotsSold'
  BY <1>1, <1>2, <1>5, SoldStays DEF LotsSold
<1> QED BY <1>4, <1>6, MovesKeep

LEMMA CloseKept ==
  ASSUME Typed, Kept, LotsSold, NEW q \in Requests, req[q].order \in Orders, CloseOrder(q)
  PROVE  Kept' /\ LotsSold' /\ Drift /\ Moves
<1> DEFINE o == req[q].order
           rows == {p \in PartsIn(o) : State(p) = "tied"}
<1>1. PICK lots \in LotChoices(o) :
        /\ receipts' = TurnedBoth(lots, "sold", rows, "sent")
        /\ order' = [order EXCEPT ![o] = [closed |-> TRUE, lots |-> lots]]
  BY DEF CloseOrder, TurnedBoth
<1>2. UNCHANGED <<txs, touched>>
  BY DEF CloseOrder, bank
<1>3. \A p \in rows : State(p) = "tied"
  OBVIOUS
<1>4. \A p \in lots : p \in Parts /\ State(p) \in {"whole", "back"}
  BY DEF LotChoices, PartsIn
<1> HIDE DEF rows
<1>5. Moves
  BY <1>1, <1>2, <1>3, <1>4, BothMoves
<1>6. order'[o].lots = lots /\ \A other \in Orders \ {o} : order'[other] = order[other]
  BY <1>1 DEF Typed
<1>7. ASSUME NEW other \in Orders \ {o}, NEW p \in order[other].lots PROVE p \notin lots /\ p \notin rows
  BY <1>3, <1>4 DEF LotsSold
<1>8. ASSUME NEW p \in lots
      PROVE  p[1] \in DOMAIN receipts' /\ p[2] \in DOMAIN receipts'[p[1]].content /\ State(p)' = "sold"
  <2>1. p[1] \in DOMAIN receipts /\ p[2] \in DOMAIN receipts[p[1]].content
    BY <1>4, PartsAre
  <2>2. p = <<p[1], p[2]>>
    BY LotsTyped
  <2>3. /\ DOMAIN receipts' = DOMAIN receipts /\ receipts'[p[1]].content = receipts[p[1]].content
        /\ receipts'[p[1]].part[p[2]] = "sold"
    BY <1>1, <2>1, <2>2, TurnedBothIs
  <2> QED BY <2>1, <2>3 DEF State
<1>9. LotsSold'
  <2> SUFFICES ASSUME NEW i \in Orders, NEW p \in order'[i].lots
               PROVE  /\ p[1] \in DOMAIN receipts' /\ p[2] \in DOMAIN receipts'[p[1]].content /\ State(p)' = "sold"
                      /\ \A j \in Orders \ {i} : p \notin order'[j].lots
    BY DEF LotsSold
  <2>1. CASE i = o
    BY <1>6, <1>7, <1>8, <2>1
  <2>2. CASE i # o
    <3>1. p \in order[i].lots /\ p \notin lots /\ p \notin rows
      BY <1>6, <1>7, <2>2
    <3>2. \A j \in Orders \ {i} : p \notin order[j].lots
      BY <3>1 DEF LotsSold
    <3> QED BY <1>1, <1>6, <2>2, <3>1, <3>2, SoldStays
  <2> QED BY <2>1, <2>2
<1> QED BY <1>5, <1>9, MovesKeep

LEMMA ReopenKept ==
  ASSUME Typed, Kept, LotsSold, NEW q \in Requests, req[q].order \in Orders, ReopenOrder(q)
  PROVE  Kept' /\ LotsSold' /\ Drift /\ Moves
<1> DEFINE o == req[q].order
           rows == {p \in PartsIn(o) : State(p) = "sent"}
           lots == order[o].lots
<1>1. /\ receipts' = TurnedBoth(lots, "back", rows, "tied")
      /\ order' = [order EXCEPT ![o] = [closed |-> FALSE, lots |-> {}]]
  BY DEF ReopenOrder, TurnedBoth
<1>2. UNCHANGED <<txs, touched>>
  BY DEF ReopenOrder, bank
<1>3. \A p \in rows : State(p) = "sent"
  OBVIOUS
<1>4. \A p \in lots : State(p) = "sold"
  BY DEF LotsSold
<1> HIDE DEF rows
<1>5. Moves
  <2> HIDE DEF lots
  <2> QED BY <1>1, <1>2, <1>3, <1>4, BothMoves
<1>6. order'[o].lots = {} /\ \A other \in Orders \ {o} : order'[other] = order[other]
  BY <1>1 DEF Typed
<1>7. ASSUME NEW other \in Orders \ {o}, NEW p \in order[other].lots PROVE p \notin lots /\ p \notin rows
  BY <1>3 DEF LotsSold
<1>8. LotsSold'
  <2> SUFFICES ASSUME NEW i \in Orders, NEW p \in order'[i].lots
               PROVE  /\ p[1] \in DOMAIN receipts' /\ p[2] \in DOMAIN receipts'[p[1]].content /\ State(p)' = "sold"
                      /\ \A j \in Orders \ {i} : p \notin order'[j].lots
    BY DEF LotsSold
  <2>1. i # o /\ p \in order[i].lots
    BY <1>6
  <2>2. \A j \in Orders \ {i} : p \notin order[j].lots
    BY <2>1 DEF LotsSold
  <2>3. p \notin lots /\ p \notin rows
    BY <1>7, <2>1
  <2> HIDE DEF lots
  <2> QED BY <1>1, <1>6, <2>1, <2>2, <2>3, SoldStays
<1> QED BY <1>5, <1>8, MovesKeep

\* Whatever a request ends with.
LEMMA FinishKept ==
  ASSUME Typed, Kept, LotsSold, Jobs, NEW q \in Requests, Finish(q)
  PROVE  Kept' /\ LotsSold' /\ Jobs'
<1>1. End(q) /\ ~Waiting(q) /\ ~Refused(q)
  BY DEF Finish
<1>2. req[q].op \in {"close", "reopen"} => req[q].order \in Orders
  BY DEF Typed, ReqRow, IdleRow, CommitRow, RevertRow, OrderOpRow
<1>3. Kept' /\ LotsSold' /\ Drift
  <2>1. CASE req[q].op = "commit" /\ Commit(q)
    BY <1>1, <2>1, CommitKept DEF Refused
  <2>2. CASE req[q].op = "revert" /\ Revert(q)
    BY <1>1, <2>2, RevertKept DEF Refused
  <2>3. CASE req[q].op = "send" /\ SendLine(q)
    BY <2>3, SendKept
  <2>4. CASE req[q].op = "close" /\ CloseOrder(q)
    BY <1>2, <2>4, CloseKept
  <2>5. CASE req[q].op = "reopen" /\ ReopenOrder(q)
    BY <1>2, <2>5, ReopenKept
  <2>6. CASE req[q].op = "replace" /\ ReplaceLines(q)
    BY <2>6, ReplaceKept
  <2> QED BY <2>1, <2>2, <2>3, <2>4, <2>5, <2>6 DEF Finish
<1> QED BY <1>1, <1>3, DriftKeepsJobs

-----------------------------------------------------------------------------
(***************************************************************************)
(* What people do to the operations is seen in `touched`, and they make    *)
(* none in the name of a document.                                         *)
(***************************************************************************)
Outside ==
  /\ UNCHANGED <<receipts, order, req>>
  /\ DOMAIN txs \subseteq DOMAIN txs' /\ touched \subseteq touched'
  /\ \A n \in DOMAIN txs : /\ txs'[n].by = txs[n].by
                           /\ txs'[n].live => txs[n].live
                           /\ n \notin touched' => txs'[n] = txs[n]
  /\ \A n \in DOMAIN txs' \ DOMAIN txs : txs'[n].by # "receipt"

LEMMA OutsideKeeps ==
  ASSUME Typed, Kept, LotsSold, Jobs, Outside
  PROVE  Kept' /\ LotsSold' /\ Jobs'
<1>1. UNCHANGED <<receipts, order, req>>
  BY DEF Outside
<1>2. DocsAre'
  <2> SUFFICES ASSUME NEW r \in DOMAIN receipts
               PROVE  /\ receipts[r].tx \in DOMAIN txs' \cup {0}
                      /\ receipts[r].live <=> receipts[r].tx # 0
                      /\ \A k \in DOMAIN receipts[r].content : Fits(receipts[r].content[k], receipts[r].part[k])
    BY <1>1 DEF DocsAre, Live
  <2> QED BY DEF Kept, DocsAre, Live, Outside
<1>3. MadeBySelf'
  <2> SUFFICES ASSUME NEW r \in DOMAIN receipts, Live(r)
               PROVE  receipts[r].created <=> txs'[receipts[r].tx].by = "receipt"
    BY <1>1 DEF MadeBySelf, Live
  <2>1. receipts[r].tx \in DOMAIN txs
    BY DEF Kept, DocsAre
  <2> QED BY <2>1 DEF Kept, MadeBySelf, Outside
<1>4. StandApart'
  BY <1>1 DEF Kept, StandApart, Live
<1>5. Whole'
  <2> SUFFICES ASSUME NEW r \in DOMAIN receipts
               PROVE  /\ Live(r) => /\ \A k \in DOMAIN receipts[r].content : receipts[r].part[k] # "void"
                                    /\ receipts[r].tx \notin touched' =>
                                         txs'[receipts[r].tx].live /\ txs'[receipts[r].tx].amount = Len(receipts[r].content)
                      /\ ~Live(r) => \A k \in DOMAIN receipts[r].content : receipts[r].part[k] \in {"skipped"} \cup Final
    BY <1>1 DEF Whole, Live
  <2>1. Live(r) => receipts[r].tx \in DOMAIN txs
    BY DEF Kept, DocsAre
  <2>2. Live(r) /\ receipts[r].tx \notin touched' => txs'[receipts[r].tx] = txs[receipts[r].tx] /\ receipts[r].tx \notin touched
    BY <2>1 DEF Outside
  <2> QED BY <2>2 DEF Kept, Whole
<1>6. MadeTied'
  <2> SUFFICES ASSUME NEW n \in DOMAIN txs', txs'[n].by = "receipt", txs'[n].live PROVE Tied(n)
    BY <1>1 DEF MadeTied, Tied
  <2> QED BY DEF Kept, MadeTied, Outside
<1>7. LotsSold'
  BY <1>1 DEF LotsSold, State
<1>8. Drift
  BY DEF Outside, Drift
<1>9. Jobs'
  BY <1>1, <1>8, JobKeeps DEF Jobs
<1> QED BY <1>2, <1>3, <1>4, <1>5, <1>6, <1>7, <1>9 DEF Kept

LEMMA EntryOutside ==
  ASSUME Typed, NEW amount, NEW by, by # "receipt", txs' = Entry(amount, by), UNCHANGED <<receipts, order, req, touched>>
  PROVE  Outside
<1> DEFINE row == [amount |-> amount, live |-> TRUE, by |-> by]
<1>1. txs \in Seq(TxRow) /\ Len(txs) \in Nat
  BY DEF Typed
<1>2. txs' = Append(txs, row) /\ row.by = by
  BY DEF Entry
<1> HIDE DEF row
<1>3. /\ DOMAIN txs' = DOMAIN txs \cup {Len(txs) + 1} /\ \A n \in DOMAIN txs : txs'[n] = txs[n]
      /\ txs'[Len(txs) + 1] = row
  BY <1>1, <1>2
<1> QED BY <1>2, <1>3 DEF Outside

\* All that people do is such a step.
LEMMA PeopleOutside ==
  ASSUME Typed, People
  PROVE  Outside
<1>1. txs \in Seq(TxRow)
  BY DEF Typed
<1>2. ASSUME NEW amount \in Totals, Enter(amount) PROVE Outside
  BY <1>2, EntryOutside DEF Enter
<1>3. ASSUME NEW n \in DOMAIN txs, Erase(n) PROVE Outside
  <2>1. txs[n] \in TxRow
    BY <1>1
  <2>2. /\ DOMAIN txs' = DOMAIN txs /\ txs'[n] = [txs[n] EXCEPT !.live = FALSE]
        /\ \A m \in DOMAIN txs \ {n} : txs'[m] = txs[m]
        /\ touched' = touched \cup {n} /\ UNCHANGED <<receipts, order, req>>
    BY <1>3 DEF Erase
  <2>3. txs'[n].by = txs[n].by /\ ~txs'[n].live
    BY <2>1, <2>2 DEF TxRow
  <2> QED BY <2>2, <2>3 DEF Outside
<1>4. ASSUME NEW n \in DOMAIN txs, NEW amount \in Totals, Change(n, amount) PROVE Outside
  <2>1. txs[n] \in TxRow
    BY <1>1
  <2>2. /\ DOMAIN txs' = DOMAIN txs /\ txs'[n] = [txs[n] EXCEPT !.amount = amount]
        /\ \A m \in DOMAIN txs \ {n} : txs'[m] = txs[m]
        /\ touched' = touched \cup {n} /\ UNCHANGED <<receipts, order, req>>
    BY <1>4 DEF Change
  <2>3. txs'[n].by = txs[n].by /\ (txs'[n].live <=> txs[n].live)
    BY <2>1, <2>2 DEF TxRow
  <2> QED BY <2>2, <2>3 DEF Outside
<1>5. ASSUME NEW l \in Lines, Arrive(l) PROVE Outside
  BY <1>5 DEF Arrive, Outside
<1>6. ASSUME NEW l \in Lines, Book(l) PROVE Outside
  BY <1>6, EntryOutside DEF Book
<1>7. ASSUME NEW l \in Lines, Undo(l) PROVE Outside
  <2> DEFINE n == line[l].tx
  <2>1. n \in DOMAIN txs
    BY <1>7 DEF Undo, Typed, LineTyped
  <2>2. txs[n] \in TxRow
    BY <1>1, <2>1
  <2>3. UNCHANGED <<receipts, order, req>>
    BY <1>7 DEF Undo
  <2>4. CASE txs' = txs /\ touched' = touched
    BY <2>3, <2>4 DEF Outside
  <2>5. CASE txs' = [txs EXCEPT ![n].live = FALSE] /\ touched' = touched \cup {n}
    <3>1. /\ DOMAIN txs' = DOMAIN txs /\ txs'[n] = [txs[n] EXCEPT !.live = FALSE]
          /\ \A m \in DOMAIN txs \ {n} : txs'[m] = txs[m]
      BY <2>1, <2>5
    <3>2. txs'[n].by = txs[n].by /\ ~txs'[n].live
      BY <2>2, <3>1 DEF TxRow
    <3> QED BY <2>1, <2>3, <2>5, <3>1, <3>2 DEF Outside
  <2> QED BY <1>7, <2>4, <2>5 DEF Undo
<1> QED BY <1>2, <1>3, <1>4, <1>5, <1>6, <1>7 DEF People

-----------------------------------------------------------------------------
IInv == Typed /\ LocksInv /\ Kept /\ LotsSold /\ Jobs

\* IInv is inductive.
LEMMA StepKept == ASSUME IInv, [Next]_vars PROVE Kept' /\ LotsSold' /\ Jobs'
<1>1. ASSUME NEW q \in Requests, Start(q) \/ Acquire(q) \/ Finish(q) \/ Rollback(q)
      PROVE  Kept' /\ LotsSold' /\ Jobs'
  <2>1. CASE Rollback(q)
    BY <2>1, AsideKept, DriftKeepsJobs DEF IInv, Rollback, bank
  <2> QED BY <1>1, <2>1, StartKept, AcquireKept, FinishKept DEF IInv
<1>2. CASE People
  BY <1>2, PeopleOutside, OutsideKeeps DEF IInv
<1>3. CASE UNCHANGED vars
  <2>1. Drift /\ Kept' /\ LotsSold'
    BY <1>3, AsideKept DEF IInv, vars, bank
  <2> QED BY <1>3, <2>1, JobKeeps DEF IInv, Jobs, vars
<1> QED BY <1>1, <1>2, <1>3 DEF Next

LEMMA IInvAlways == Spec => []IInv
<1>1. Init => IInv
  BY InitTyped, InitKept DEF IInv
<1>2. IInv /\ [Next]_vars => IInv'
  BY StepTyped, StepKept DEF IInv
<1> QED BY <1>1, <1>2, PTL DEF Spec

(***************************************************************************)
(* BookedWholeAndOnce holds for any number of requests that overlap: no    *)
(* two documents share a number or an expense, what stands has its expense *)
(* and its goods, and what was taken back has left neither.                *)
(***************************************************************************)
THEOREM BookedOnceAndWhole == Spec => []BookedWholeAndOnce
<1>1. IInv => BookedWholeAndOnce
  BY KeptIsBooked DEF IInv
<1> QED BY <1>1, IInvAlways, PTL

-----------------------------------------------------------------------------
\* The step of RevertTakesItsOwn.
TakesItsOwn ==
  /\ \A n \in DOMAIN txs : txs[n].live /\ ~txs'[n].live => txs[n].by = "receipt" \/ n \in touched'
  /\ \A r \in DOMAIN receipts : \A k \in DOMAIN receipts[r].part :
       receipts'[r].part[k] = "void" => receipts[r].part[k] \in {"whole", "tied", "void"}

\* What drifts is no operation of somebody else.
LEMMA DriftSpares ==
  ASSUME Drift, NEW n \in DOMAIN txs, txs[n].live, ~txs'[n].live
  PROVE  txs[n].by = "receipt" \/ n \in touched'
  BY DEF Drift

\* Only lots that are whole and lines that are not shipped are voided.
LEMMA RevertVoids ==
  ASSUME Typed, Kept, Jobs, NEW q \in Requests, req[q].op = "revert", ~Waiting(q), ~RevertRefused(q), Revert(q),
         NEW s \in DOMAIN receipts, NEW k \in DOMAIN receipts[s].content, receipts'[s].part[k] = "void"
  PROVE  receipts[s].part[k] \in {"whole", "tied", "void"}
<1> DEFINE r == req[q].receipt
<1>1. \A t \in DOMAIN receipts \ {r} :
        /\ (receipts'[t].live <=> receipts[t].live) /\ receipts'[t].tx = receipts[t].tx
        /\ \A i \in DOMAIN receipts[t].content : receipts'[t].part[i] = receipts[t].part[i]
  <2> HIDE DEF r
  <2>1. r = req[q].receipt
    BY DEF r
  <2> QED BY <2>1, RevertIs
<1>2. ASSUME NEW i \in DOMAIN receipts[r].content
      PROVE  /\ receipts[r].part[i] \notin {"sold", "back"}
             /\ receipts'[r].part[i] \in {"skipped"} \cup Final
             /\ \/ receipts'[r].part[i] = receipts[r].part[i]
                \/ receipts'[r].part[i] = "void" /\ receipts[r].part[i] \in {"whole", "tied", "void"}
  BY RevertIs
<1>3. CASE s = r
  BY <1>2, <1>3
<1>4. CASE s # r
  BY <1>1, <1>4
<1> QED BY <1>3, <1>4

\* Every request that ends spares what others made.
LEMMA FinishTakesItsOwn ==
  ASSUME IInv, NEW q \in Requests, Finish(q)
  PROVE  TakesItsOwn
<1>1. ~Waiting(q) /\ ~Refused(q)
  BY DEF Finish
<1>2. \A r \in DOMAIN receipts : DOMAIN receipts[r].part = DOMAIN receipts[r].content
  BY DEF IInv, Typed, DocsTyped
<1>3. req[q].op \in {"close", "reopen"} => req[q].order \in Orders
  BY DEF IInv, Typed, ReqRow, IdleRow, CommitRow, RevertRow, OrderOpRow
<1>4. Moves => \A r \in DOMAIN receipts : \A k \in DOMAIN receipts[r].part :
        receipts'[r].part[k] = "void" => receipts[r].part[k] = "void"
  BY <1>2 DEF Moves
<1>5. CASE req[q].op = "commit" /\ Commit(q)
  <2>1. Drift
    BY <1>1, <1>5, CommitKept DEF IInv, Refused
  <2>2. \A r \in DOMAIN receipts : receipts'[r] = receipts[r]
    <3>1. PICK row : receipts' = Append(receipts, row)
      BY <1>5 DEF Commit
    <3>2. receipts \in Seq(DocRow)
      BY DEF IInv, Typed, DocsTyped
    <3> QED BY <3>1, <3>2
  <2> QED BY <2>1, <2>2, DriftSpares DEF TakesItsOwn
<1>6. CASE req[q].op = "revert" /\ Revert(q)
  <2>1. Drift
    BY <1>1, <1>6, RevertKept DEF IInv, Refused
  <2>2. ASSUME NEW r \in DOMAIN receipts, NEW k \in DOMAIN receipts[r].content, receipts'[r].part[k] = "void"
        PROVE  receipts[r].part[k] \in {"whole", "tied", "void"}
    <3>1. Typed /\ Kept /\ Jobs /\ ~RevertRefused(q) /\ req[q].op = "revert" /\ Revert(q)
      BY <1>1, <1>6 DEF IInv, Refused
    <3> QED BY <1>1, <2>2, <3>1, RevertVoids
  <2> QED BY <1>2, <2>1, <2>2, DriftSpares DEF TakesItsOwn
<1>7. CASE req[q].op = "send" /\ SendLine(q)
  BY <1>4, <1>7, SendKept, DriftSpares DEF IInv, TakesItsOwn
<1>8. CASE req[q].op = "close" /\ CloseOrder(q)
  BY <1>3, <1>4, <1>8, CloseKept, DriftSpares DEF IInv, TakesItsOwn
<1>9. CASE req[q].op = "reopen" /\ ReopenOrder(q)
  BY <1>3, <1>4, <1>9, ReopenKept, DriftSpares DEF IInv, TakesItsOwn
<1>10. CASE req[q].op = "replace" /\ ReplaceLines(q)
  BY <1>4, <1>10, ReplaceKept, DriftSpares DEF IInv, TakesItsOwn
<1> QED BY <1>5, <1>6, <1>7, <1>8, <1>9, <1>10 DEF Finish

LEMMA StepTakesItsOwn == ASSUME IInv, [Next]_vars PROVE TakesItsOwn \/ UNCHANGED vars
<1>1. ASSUME UNCHANGED <<receipts, txs>> PROVE TakesItsOwn
  BY <1>1 DEF TakesItsOwn
<1>2. ASSUME NEW q \in Requests, Start(q) \/ Acquire(q) \/ Finish(q) \/ Rollback(q)
      PROVE  TakesItsOwn
  <2>1. CASE Start(q)
    BY <1>1, <2>1 DEF Start, StartCommit, StartRevert, StartClose, StartReopen, StartReplace, StartSend, StartOrder
  <2>2. CASE Acquire(q) \/ Rollback(q)
    BY <1>1, <2>2 DEF Acquire, Rollback
  <2> QED BY <1>2, <2>1, <2>2, FinishTakesItsOwn
<1>3. CASE People
  <2>1. Outside
    BY <1>3, PeopleOutside DEF IInv
  <2>2. \A n \in DOMAIN txs : txs[n].live /\ ~txs'[n].live => n \in touched'
    BY <2>1 DEF Outside
  <2>3. receipts' = receipts
    BY <2>1 DEF Outside
  <2> QED BY <2>2, <2>3 DEF TakesItsOwn
<1> QED BY <1>2, <1>3 DEF Next

(***************************************************************************)
(* RevertTakesItsOwn holds of every step: an operation is deleted only by  *)
(* the document that made it or by people, and goods that were sold or     *)
(* shipped are never voided.                                               *)
(***************************************************************************)
THEOREM TakenBackAlone == Spec => RevertTakesItsOwn
<1>1. IInv /\ [Next]_vars => [TakesItsOwn]_vars
  BY StepTakesItsOwn
<1>2. Spec => [][TakesItsOwn]_vars
  BY <1>1, IInvAlways, PTL DEF Spec
<1>3. [][TakesItsOwn]_vars => RevertTakesItsOwn
  BY DEF TakesItsOwn, RevertTakesItsOwn
<1> QED BY <1>2, <1>3
=============================================================================
