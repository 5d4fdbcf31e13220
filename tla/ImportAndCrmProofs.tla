----------------------- MODULE ImportAndCrmProofs -----------------------
(***************************************************************************)
(* Theorems about statements from files, for every set of files, rows and  *)
(* handlers and every bound: money booked of a line never outlives it      *)
(* (NothingStranded), the order's paidAmount is the number of its payments *)
(* (PaidIsCurrent), and an import is in the inbox whole or not at all      *)
(* (ImportsWhole).                                                         *)
(*                                                                         *)
(* None is inductive: a revert deletes the operations it read earlier and  *)
(* computes orders again only if it read a payment then, a commit goes by  *)
(* what the preview and its own reads found, and a line is written long    *)
(* after it was claimed.  IInv says, beside the types (Typed):             *)
(*   - Rows: the fields of a line agree with each other, and the operation *)
(*     of a line, its own or an adopted one, is of the line's row;         *)
(*   - Entries: a fingerprint is that of the row, payments have none, and  *)
(*     what a batch made itself is no payment;                             *)
(*   - Hands: what a handler read exists, the operations of a revert that  *)
(*     computes no order again are no payments, and what a handler is      *)
(*     going to link is of the row it claimed and has no fingerprint;      *)
(*   - Grips: a claimed line is out of the inbox and has no operation yet, *)
(*     one handler holds it, and if it is gone its row is in lost;         *)
(*   - Spare: there is an index for every connection that handlers are     *)
(*     still to make.                                                      *)
(***************************************************************************)
EXTENDS StatementImport, Crm, FiniteSetTheorems, TLAPS

RowType == [status : {"absent", "NEW", "RESOLVED"}, tx : Nat, adopted : BOOLEAN, transfer : BOOLEAN, batch : Nat]
BatchType == [file : Files \cup {LegacyFile, "none"}, rows : SUBSET Contents]
JobType ==
  {Idle} \cup [at : {"previewed"}, file : Files, dup : SUBSET Contents]
         \cup [at : {"commit"}, file : Files, rows : SUBSET Contents, conn : Nat]
         \cup [at : {"revert"}, b : Nat, own : SUBSET Nat, pays : BOOLEAN]
         \cup [at : {"pay", "find", "transfer"}, key : Keys, b : Nat]
         \cup [at : {"link", "tie"}, key : Keys, b : Nat, tx : Nat]
Linking == {"link", "tie"}
Claiming == {"pay", "find", "transfer"} \cup Linking

Typed ==
  /\ conns \in Nat
  /\ batch \in Seq(BatchType)
  /\ line \in [Keys -> RowType]
  /\ \E S : txs \in Seq(S)
  /\ job \in [Handlers -> JobType]
  /\ lost \subseteq Contents

RowOk(k) ==
  /\ line[k].status = "absent" => line[k] = NoLine
  /\ line[k].status = "NEW" => line[k].tx = 0
  /\ line[k].tx = 0 => ~line[k].adopted
  /\ line[k].tx \in DOMAIN txs \cup {0} /\ line[k].batch \in DOMAIN batch \cup {0}
  /\ line[k].tx \in Live =>
       /\ txs[line[k].tx].of = k[2]
       /\ line[k].adopted => txs[line[k].tx].batch # 0 \/ txs[line[k].tx].of \in lost
Rows == \A k \in Keys : RowOk(k)

Entries ==
  \A n \in DOMAIN txs :
    /\ txs[n].key # NoKey => txs[n].key[1] = txs[n].of
    /\ txs[n].kind = "ORDER_PAYMENT" => txs[n].key = NoKey /\ txs[n].batch = 0

InHand(j) ==
  /\ j.at = "commit" => j.conn <= conns
  /\ j.at = "revert" => /\ j.b \in DOMAIN batch /\ j.own \subseteq DOMAIN txs
                        /\ ~j.pays => \A n \in j.own : txs[n].kind # "ORDER_PAYMENT"
  /\ j.at \in Claiming => j.b \in DOMAIN batch \cup {0}
  /\ j.at \in Linking => /\ j.tx \in DOMAIN txs \cup {0}
                         /\ j.tx \in Live => txs[j.tx].of = j.key[2] /\ txs[j.tx].key = NoKey
Hands == \A h \in Handlers : InHand(job[h])

\* The line that g claimed is still there.
Held(g) == Handles(g, job[g].key)
Grip(g) ==
  job[g].at \in Claiming =>
    /\ job[g].b = 0 => Held(g)
    /\ Held(g) => line[job[g].key].status = "RESOLVED" /\ line[job[g].key].tx = 0
    /\ ~Held(g) => job[g].key[2] \in lost
Grips ==
  /\ \A g \in Handlers : Grip(g)
  /\ \A g, h \in Handlers : g # h /\ Held(g) /\ Held(h) => job[g].key # job[h].key

\* The commits that are going to make a connection.
Makers == {h \in Handlers : At(h, "commit") /\ job[h].conn = 0}
Spare == conns + Cardinality(Makers) <= Cardinality(Handlers)

IInv == Typed /\ Rows /\ Entries /\ Hands /\ Grips /\ Spare /\ NothingStranded /\ PaidIsCurrent /\ ImportsWhole

-----------------------------------------------------------------------------
LEMMA KeyTypes == /\ Cardinality(Handlers) \in Nat
                  /\ \A c \in Contents : <<Bank, c>> \in Keys
                  /\ \A k \in Keys : k[2] \in Contents
  BY FS_CardinalityType, ImportAssumption DEF Keys, Bank

LEMMA TxsAppended ==
  ASSUME Typed, NEW t, txs' = Append(txs, t)
  PROVE  /\ \E S : txs' \in Seq(S)
         /\ Len(txs') \in Nat /\ Len(txs') # 0 /\ Len(txs') \notin DOMAIN txs /\ DOMAIN txs' = DOMAIN txs \cup {Len(txs')}
         /\ txs'[Len(txs')] = t /\ \A n \in DOMAIN txs : txs'[n] = txs[n]
<1>1. PICK S : txs \in Seq(S)
  BY DEF Typed
<1>2. txs \in Seq(S \cup {t})
  BY <1>1
<1> DEFINE T == S \cup {t}
<1>3. t \in T /\ txs \in Seq(T)
  BY <1>2
<1> HIDE DEF T
<1>4. txs' \in Seq(T)
  BY <1>3
<1> QED
  BY <1>3, <1>4

LEMMA TxsKilled ==
  ASSUME Typed, NEW ns, txs' = Killed(ns)
  PROVE  /\ \E S : txs' \in Seq(S)
         /\ DOMAIN txs' = DOMAIN txs /\ \A n \in DOMAIN txs : txs'[n] = IF n \in ns THEN Deleted ELSE txs[n]
<1>1. PICK S : txs \in Seq(S)
  BY DEF Typed
<1> DEFINE T == S \cup {Deleted}
<1>2. \A n \in DOMAIN txs : txs[n] \in T
  BY <1>1
<1>3. Deleted \in T
  OBVIOUS
<1> HIDE DEF T
<1>4. DOMAIN txs = 1..Len(txs) /\ Len(txs) \in Nat
  BY <1>1
<1>5. txs' = [n \in 1..Len(txs) |-> IF n \in ns THEN Deleted ELSE txs[n]]
  BY <1>4 DEF Killed
<1>6. txs' \in Seq(T)
  BY <1>2, <1>3, <1>4, <1>5
<1> QED
  BY <1>4, <1>5, <1>6

\* The fields of a transaction.
LEMMA Fields ==
  /\ \A kind, of, key, b : LET t == Tx(kind, of, key, b) IN t.kind = kind /\ t.of = of /\ t.key = key /\ t.batch = b
  /\ Deleted.kind = "deleted" /\ Deleted.key = NoKey /\ Deleted.batch = 0
  /\ \A c : Fingerprint(c)[1] = c
  BY DEF Tx, Deleted, Fingerprint

LEMMA RowTypes ==
  /\ NoLine \in RowType /\ NoLine.tx = 0 /\ NoLine.batch = 0 /\ ~NoLine.adopted /\ NoLine.status = "absent"
  /\ \A b \in Nat : LET row == NewLine(b)
                     IN row \in RowType /\ row.tx = 0 /\ ~row.adopted /\ row.batch = b /\ row.status = "NEW"
  BY DEF NoLine, NewLine, RowType

\* What no step takes away from what a handler or a line knows.
Ages ==
  /\ \E S : txs' \in Seq(S)
  /\ DOMAIN txs \subseteq DOMAIN txs' /\ \A n \in DOMAIN txs : txs'[n] \in {txs[n], Deleted}
  /\ batch' \in Seq(BatchType) /\ DOMAIN batch \subseteq DOMAIN batch'
  /\ conns' \in Nat /\ conns <= conns'
  /\ lost \subseteq lost' /\ lost' \subseteq Contents

LEMMA StillInHand == ASSUME Typed, Ages, NEW j \in JobType, InHand(j) PROVE InHand(j)'
<1>1. CASE j.at = "commit"
  <2>1. j.conn \in Nat
    BY <1>1 DEF JobType, Idle
  <2> QED
    BY <1>1, <2>1 DEF InHand, Ages, Typed, Claiming, Linking
<1>2. CASE j.at = "revert"
  BY <1>2, Fields DEF InHand, Ages, Claiming, Linking
<1>3. CASE j.at \in Claiming
  <2>1. j.at \in Linking /\ j.tx \in Live' => j.tx \in Live /\ txs'[j.tx] = txs[j.tx]
    BY <1>3 DEF Ages, Live, InHand, Typed
  <2>2. j.at \notin {"commit", "revert"}
    BY <1>3 DEF Claiming, Linking
  <2> QED
    BY <1>3, <2>1, <2>2 DEF InHand, Ages
<1>4. CASE j.at \notin {"commit", "revert"} \cup Claiming
  BY <1>4 DEF InHand, Claiming
<1> QED
  BY <1>1, <1>2, <1>3, <1>4

LEMMA Turned ==
  ASSUME Typed, Ages, Hands, NEW h \in Handlers, NEW j \in JobType, InHand(j)', job' = [job EXCEPT ![h] = j]
  PROVE  job' \in [Handlers -> JobType] /\ Hands'
<1>1. \A i \in Handlers : job'[i] = IF i = h THEN j ELSE job[i]
  BY DEF Typed
<1>2. job' \in [Handlers -> JobType]
  BY DEF Typed
<1>3. ASSUME NEW i \in Handlers PROVE InHand(job[i])'
  <2> PICK k : k = job'[i]
    OBVIOUS
  <2>1. InHand(k)'
    <3>1. CASE i = h
      BY <1>1, <3>1
    <3>2. CASE i # h
      <4>1. k = job[i] /\ k \in JobType /\ InHand(k)
        BY <1>1, <3>2 DEF Hands, Typed
      <4> QED
        BY <4>1, StillInHand
    <3> QED
      BY <3>1, <3>2
  <2> QED
    BY <2>1 DEF InHand
<1> QED
  BY <1>2, <1>3 DEF Hands

LEMMA AllStillInHand == ASSUME Typed, Ages, Hands, UNCHANGED <<job, conns>> PROVE Hands' /\ (Spare => Spare')
<1>1. Hands'
  <2> SUFFICES ASSUME NEW h \in Handlers PROVE InHand(job[h])'
    BY DEF Hands
  <2> PICK j : j = job[h]
    OBVIOUS
  <2>1. j \in JobType /\ InHand(j)
    BY DEF Hands, Typed
  <2>2. InHand(j)'
    BY <2>1, StillInHand
  <2> QED
    BY <2>2 DEF InHand
<1>2. Spare => Spare'
  BY DEF Spare, Makers, At
<1> QED
  BY <1>1, <1>2

LEMMA Jobs ==
  /\ Idle \in JobType /\ Idle.at = "idle"
  /\ \A f \in Files, d \in SUBSET Contents : [at |-> "previewed", file |-> f, dup |-> d] \in JobType
  /\ \A f \in Files, r \in SUBSET Contents, i \in Nat : [at |-> "commit", file |-> f, rows |-> r, conn |-> i] \in JobType
  /\ \A b \in Nat, own \in SUBSET Nat, pays \in BOOLEAN : [at |-> "revert", b |-> b, own |-> own, pays |-> pays] \in JobType
  /\ \A at \in {"pay", "find", "transfer"}, k \in Keys, b \in Nat : [at |-> at, key |-> k, b |-> b] \in JobType
  /\ \A at \in Linking, k \in Keys, b, n \in Nat : [at |-> at, key |-> k, b |-> b, tx |-> n] \in JobType
  BY DEF JobType, Idle, Linking

LEMMA JobFields ==
  ASSUME NEW j \in JobType
  PROVE  /\ j.at = "previewed" => j.file \in Files /\ j.dup \subseteq Contents
         /\ j.at = "commit" => j.file \in Files /\ j.rows \subseteq Contents /\ j.conn \in Nat
         /\ j.at = "revert" => j.b \in Nat /\ j.own \subseteq Nat /\ j.pays \in BOOLEAN
         /\ j.at \in Claiming => j.key \in Keys /\ j.b \in Nat
         /\ j.at \in Linking => j.tx \in Nat
  BY DEF JobType, Idle, Claiming, Linking

\* Fewer connections to come than before.
LEMMA SpareStays ==
  ASSUME Spare, Typed, UNCHANGED conns, Makers' \subseteq Makers
  PROVE  Spare'
<1>1. IsFiniteSet(Handlers) /\ Makers \subseteq Handlers
  BY ImportAssumption DEF Makers
<1>2. IsFiniteSet(Makers)
  BY <1>1, FS_Subset
<1>3. Cardinality(Makers') <= Cardinality(Makers) /\ Cardinality(Makers) \in Nat /\ Cardinality(Makers') \in Nat
  <2>1. IsFiniteSet(Makers')
    BY <1>2, FS_Subset
  <2> QED
    BY <1>2, <2>1, FS_Subset, FS_CardinalityType
<1> QED
  BY <1>3, KeyTypes DEF Spare, Typed

\* A handler turns to something that makes no connection.
LEMMA MakersStay ==
  ASSUME Typed, NEW h \in Handlers, NEW j, j.at # "commit" \/ j.conn # 0, job' = [job EXCEPT ![h] = j]
  PROVE  Makers' = Makers \ {h}
<1>1. \A i \in Handlers : job'[i] = IF i = h THEN j ELSE job[i]
  BY DEF Typed
<1> QED
  BY <1>1 DEF Makers, At

-----------------------------------------------------------------------------
LEMMA RowStays ==
  ASSUME Typed, Ages, NEW k \in Keys, RowOk(k), line'[k] = line[k] PROVE RowOk(k)'
<1>1. line[k].tx \in Live' => line[k].tx \in Live /\ txs'[line[k].tx] = txs[line[k].tx]
  BY DEF Ages, Live, RowOk, Typed
<1> QED
  BY <1>1 DEF Ages, RowOk

LEMMA RowFreed ==
  ASSUME Typed, Ages, NEW k \in Keys, RowOk(k),
         \/ line'[k] = NoLine
         \/ line'[k].status = "NEW" /\ line'[k].tx = 0 /\ ~line'[k].adopted /\ line'[k].batch = line[k].batch
  PROVE  RowOk(k)'
<1>1. line[k].batch \in Nat
  BY DEF Typed, RowType
<1>2. 0 \notin Live'
  BY DEF Ages, Live
<1> QED
  BY <1>1, <1>2, RowTypes DEF Ages, RowOk

LEMMA EntriesAge ==
  ASSUME Entries, Ages, DOMAIN txs' = DOMAIN txs PROVE Entries'
  BY Fields DEF Entries, Ages

-----------------------------------------------------------------------------
\* What a step may do to the line that g claimed: leave it alone; change a line that is
\* another one by now; delete it, and then its row is in lost.
Spares(g) ==
  LET k == job[g].key
  IN job'[g].at \in Claiming =>
       /\ job[g].at \in Claiming /\ job'[g].key = k /\ job'[g].b = job[g].b
       /\ \/ line'[k].batch = line[k].batch /\ (Held(g) => line'[k].status = line[k].status /\ line'[k].tx = line[k].tx)
          \/ line'[k].batch # job[g].b /\ job[g].b # 0 /\ k[2] \in lost'

LEMMA HeldIs == ASSUME NEW g \in Handlers
                PROVE  Held(g) <=> job[g].at \in Claiming /\ line[job[g].key].batch = job[g].b
  BY DEF Held, Handles, Claiming, Linking

LEMMA HeldWill == ASSUME NEW g \in Handlers
                  PROVE  Held(g)' <=> job'[g].at \in Claiming /\ line'[job'[g].key].batch = job'[g].b
  BY DEF Held, Handles, Claiming, Linking

LEMMA GripStays ==
  ASSUME lost \subseteq lost', NEW g \in Handlers, Grip(g), Spares(g) PROVE Grip(g)' /\ (Held(g)' => Held(g) /\ job'[g].key = job[g].key)
<1>1. CASE job'[g].at \notin Claiming
  BY <1>1, HeldWill DEF Grip
<1>2. CASE job'[g].at \in Claiming
  <2> PICK k : k = job[g].key
    OBVIOUS
  <2>1. job[g].at \in Claiming /\ job'[g].key = k /\ job'[g].b = job[g].b
    BY <1>2 DEF Spares
  <2>2. (Held(g) <=> line[k].batch = job[g].b) /\ (Held(g)' <=> line'[k].batch = job[g].b)
    BY <1>2, <2>1, HeldIs, HeldWill
  <2>3. CASE line'[k].batch = line[k].batch /\ (Held(g) => line'[k].status = line[k].status /\ line'[k].tx = line[k].tx)
    BY <1>2, <2>1, <2>2, <2>3 DEF Grip
  <2>4. CASE line'[k].batch # job[g].b /\ job[g].b # 0 /\ k[2] \in lost'
    BY <1>2, <2>1, <2>2, <2>4 DEF Grip
  <2> QED
    BY <1>2, <2>1, <2>3, <2>4 DEF Spares
<1> QED
  BY <1>1, <1>2

LEMMA GripsStay == ASSUME lost \subseteq lost', Grips, \A g \in Handlers : Spares(g) PROVE Grips'
<1>1. \A g \in Handlers : Grip(g)' /\ (Held(g)' => Held(g) /\ job'[g].key = job[g].key)
  BY GripStays DEF Grips
<1> QED
  BY <1>1 DEF Grips

\* Nothing of a handler or a line that the claims rest on changes.
LEMMA GripsUntouched ==
  ASSUME lost \subseteq lost', Grips, UNCHANGED job,
         \A g \in Handlers : Held(g) => LET k == job[g].key IN line'[k].status = line[k].status /\ line'[k].tx = line[k].tx,
         \A k \in Keys : line'[k].batch = line[k].batch, Typed
  PROVE  Grips'
<1>1. \A g \in Handlers : job[g].at \in Claiming => job[g].key \in Keys
  BY JobFields DEF Typed
<1>2. \A g \in Handlers : Spares(g)
  BY <1>1 DEF Spares
<1> QED
  BY <1>2, GripsStay

\* A claimed line is neither in the inbox nor booked.
LEMMA HeldLine ==
  ASSUME IInv, NEW g \in Handlers, Held(g)
  PROVE  LET k == job[g].key IN k \in Keys /\ line[k].status = "RESOLVED" /\ line[k].tx = 0 /\ line[k].batch = job[g].b
<1>1. job[g].at \in Claiming
  BY HeldIs
<1>2. job[g].key \in Keys
  BY <1>1, JobFields DEF IInv, Typed
<1> QED
  BY <1>1, <1>2, HeldIs DEF IInv, Grips, Grip

-----------------------------------------------------------------------------
\* An operation that a handler is about to link, when the handler does nothing.
LEMMA StillAbout ==
  ASSUME NEW g \in Handlers, NEW n, AboutToLink(g, n), job'[g] = job[g], txs'[n] = txs[n]
  PROVE  AboutToLink(g, n)'
  BY DEF AboutToLink, At

\* Where n had a line or was going to have one, it has one or will, or its row is in lost.
Kept(n) ==
  \/ txs'[n].of \in lost'
  \/ /\ Linked(n) => Linked(n)'
     /\ \A g \in Handlers : AboutToLink(g, n) => Linked(n)' \/ \E i \in Handlers : AboutToLink(i, n)'

LEMMA KeptIsSafe ==
  ASSUME IInv, lost \subseteq lost', NEW n \in Live, txs'[n] = txs[n], Kept(n) PROVE Stranded(n)' => txs'[n].of \in lost'
<1> SUFFICES ASSUME Stranded(n)', txs'[n].of \notin lost' PROVE FALSE
  OBVIOUS
<1>1. txs'[n].of \in Contents /\ txs'[n].batch = 0 /\ ~Linked(n)' /\ \A h \in Handlers : ~AboutToLink(h, n)'
  BY DEF Stranded
<1>2. ~Linked(n) /\ \A g \in Handlers : ~AboutToLink(g, n)
  BY <1>1 DEF Kept
<1>3. Stranded(n)
  BY <1>1, <1>2 DEF Stranded
<1> QED
  BY <1>3 DEF IInv, NothingStranded

\* A step that changes no operation and no batch, and takes no line from an operation.
LEMMA InPlace ==
  ASSUME IInv, UNCHANGED <<conns, batch, txs, paid>>, lost \subseteq lost', lost' \subseteq Contents,
         line' \in [Keys -> RowType], \A k \in Keys : line'[k].batch = line[k].batch /\ RowOk(k)',
         job' \in [Handlers -> JobType], Hands', Spare', Grips', \A n \in Live : Kept(n)
  PROVE  IInv'
<1>1. Typed'
  BY DEF IInv, Typed
<1>2. Rows' /\ Entries'
  BY DEF IInv, Rows, Entries
<1>3. Live' = Live
  BY DEF Live
<1>4. NothingStranded'
  BY <1>3, KeptIsSafe DEF NothingStranded
<1>5. PaidIsCurrent' /\ ImportsWhole'
  BY DEF IInv, PaidIsCurrent, ImportsWhole, LinesOf
<1> QED
  BY <1>1, <1>2, <1>4, <1>5 DEF IInv

LEMMA QuietAges == ASSUME IInv, UNCHANGED <<conns, batch, txs>>, lost \subseteq lost', lost' \subseteq Contents PROVE Ages
  BY DEF IInv, Typed, Ages

\* A step that changes at most what handlers are in the middle of.
LEMMA Quiet ==
  ASSUME IInv, UNCHANGED <<conns, batch, line, txs, paid, lost>>, job' \in [Handlers -> JobType], Hands', Spare', Grips',
         \A n \in Live : Kept(n)
  PROVE  IInv'
<1>1. Ages
  BY QuietAges DEF IInv, Typed
<1>2. \A k \in Keys : RowOk(k)'
  BY <1>1, RowStays DEF IInv, Rows
<1> QED
  BY <1>2, InPlace DEF IInv, Typed

\* A handler turns to something else that makes no connection.
LEMMA Turns ==
  ASSUME IInv, Ages, NEW h \in Handlers, NEW j \in JobType, InHand(j)', job' = [job EXCEPT ![h] = j],
         j.at # "commit" \/ j.conn # 0, UNCHANGED conns
  PROVE  job' \in [Handlers -> JobType] /\ Hands' /\ Spare' /\ \A i \in Handlers : job'[i] = IF i = h THEN j ELSE job[i]
<1>1. job' \in [Handlers -> JobType] /\ Hands'
  BY Turned DEF IInv
<1>2. Spare'
  BY MakersStay, SpareStays DEF IInv
<1> QED
  BY <1>1, <1>2 DEF IInv, Typed

\* What a handler that claimed nothing, and claims nothing, turns to.
LEMMA Bystanders ==
  ASSUME IInv, NEW h \in Handlers, NEW j, job[h].at \notin Claiming, j.at \notin Claiming,
         \A i \in Handlers : job'[i] = IF i = h THEN j ELSE job[i], UNCHANGED <<line, txs, lost>>
  PROVE  Grips' /\ \A n \in Live : Kept(n)
<1>1. \A g \in Handlers : Spares(g)
  BY DEF Spares
<1>2. Grips'
  BY <1>1, GripsStay DEF IInv
<1>3. ASSUME NEW n \in Live, NEW g \in Handlers, AboutToLink(g, n) PROVE AboutToLink(g, n)'
  <2>1. g # h
    BY <1>3 DEF AboutToLink, At, Claiming, Linking
  <2> QED
    BY <1>3, <2>1, StillAbout
<1>4. \A n \in Live : Kept(n)
  BY <1>3 DEF Kept, Linked
<1> QED
  BY <1>2, <1>4

LEMMA ReadsKeep ==
  ASSUME IInv, NEW h \in Handlers, NEW j \in JobType, InHand(j), job' = [job EXCEPT ![h] = j],
         job[h].at \notin Claiming, j.at \notin Claiming,
         j.at # "commit" \/ j.conn # 0, UNCHANGED <<conns, batch, line, txs, paid, lost>>
  PROVE  IInv'
<1>1. Ages
  BY QuietAges DEF IInv, Typed
<1>2. InHand(j)'
  BY <1>1, StillInHand DEF IInv
<1>3. job' \in [Handlers -> JobType] /\ Hands' /\ Spare' /\ \A i \in Handlers : job'[i] = IF i = h THEN j ELSE job[i]
  BY <1>1, <1>2, Turns
<1>4. Grips' /\ \A n \in Live : Kept(n)
  BY <1>3, Bystanders
<1> QED
  BY <1>3, <1>4, Quiet

-----------------------------------------------------------------------------
\* preview and commit.
LEMMA PreviewKeeps == ASSUME IInv, NEW h \in Handlers, NEW f \in Files, Preview(h, f) PROVE IInv'
<1> DEFINE d == Duplicates(f)
           j == [at |-> "previewed", file |-> f, dup |-> d]
<1>1. d \in SUBSET Contents
  BY ImportAssumption DEF Duplicates
<1>2. job' = [job EXCEPT ![h] = j] /\ UNCHANGED <<conns, batch, line, txs, paid, lost>>
  BY DEF Preview, Goto
<1> HIDE DEF d
<1>3. j \in JobType /\ j.at = "previewed" /\ job[h].at = "idle"
  BY <1>1, Jobs DEF Preview, At
<1> HIDE DEF j
<1>4. InHand(j)
  BY <1>3 DEF InHand, Claiming, Linking
<1> QED
  BY <1>2, <1>3, <1>4, ReadsKeep DEF Claiming, Linking

LEMMA IdleIsQuiet == Idle \in JobType /\ Idle.at \notin {"commit"} \cup Claiming /\ InHand(Idle) /\ InHand(Idle)'
  BY Jobs DEF InHand, Claiming, Linking

LEMMA IdleKeeps ==
  ASSUME IInv, NEW h \in Handlers, job[h].at \notin Claiming, Goto(h, Idle), UNCHANGED <<conns, batch, line, txs, paid, lost>>
  PROVE  IInv'
<1>1. Idle \in JobType /\ InHand(Idle) /\ Idle.at \notin {"commit"} \cup Claiming
  BY IdleIsQuiet
<1> QED
  BY <1>1, ReadsKeep DEF Goto

LEMMA BeginCommitKeeps ==
  ASSUME IInv, NEW h \in Handlers, NEW skip \in BOOLEAN, BeginCommit(h, skip) PROVE IInv'
<1>1. job[h] \in JobType /\ job[h].at = "previewed" /\ UNCHANGED <<conns, batch, line, txs, paid, lost>>
  BY DEF BeginCommit, At, IInv, Typed
<1>2. job[h].file \in Files
  BY <1>1, JobFields
<1>3. PICK rows \in SUBSET Contents : rows = IF skip THEN RowsOf[job[h].file] \ job[h].dup ELSE RowsOf[job[h].file]
  BY <1>2, ImportAssumption
<1>4. CASE Goto(h, Idle)
  BY <1>1, <1>4, IdleKeeps DEF Claiming, Linking
<1>5. ASSUME NEW i \in IF conns = 0 THEN {0} ELSE 1..conns,
             Goto(h, [at |-> "commit", file |-> job[h].file, rows |-> rows, conn |-> i])
      PROVE  IInv'
  <2> PICK j : j = [at |-> "commit", file |-> job[h].file, rows |-> rows, conn |-> i]
    OBVIOUS
  <2>1. i \in Nat /\ i <= conns /\ (i = 0 => conns = 0)
    BY DEF IInv, Typed
  <2>2. j \in JobType /\ j.conn = i /\ j.at = "commit"
    BY <1>2, <2>1, Jobs
  <2>3. InHand(j) /\ job' = [job EXCEPT ![h] = j]
    BY <1>5, <2>1, <2>2 DEF InHand, Goto, Claiming, Linking
  <2>4. CASE i # 0
    BY <1>1, <2>2, <2>3, <2>4, ReadsKeep DEF Claiming, Linking
  <2>5. CASE i = 0
    <3>1. Ages
      BY <1>1, QuietAges DEF IInv, Typed
    <3>2. InHand(j)'
      BY <2>2, <2>3, <3>1, StillInHand DEF IInv
    <3>3. job' \in [Handlers -> JobType] /\ Hands'
      BY <2>2, <2>3, <3>1, <3>2, Turned DEF IInv
    <3>4. Makers' \in SUBSET Handlers
      BY DEF Makers
    <3>5. Cardinality(Makers') <= Cardinality(Handlers) /\ Cardinality(Makers') \in Nat
      BY <3>4, FS_Subset, FS_CardinalityType, ImportAssumption
    <3>6. Spare'
      BY <1>1, <2>1, <2>5, <3>5, KeyTypes DEF Spare
    <3>7. Grips' /\ \A n \in Live : Kept(n)
      <4>1. job[h].at \notin Claiming /\ j.at \notin Claiming
        BY <1>1, <2>2 DEF Claiming, Linking
      <4>2. \A g \in Handlers : job'[g] = IF g = h THEN j ELSE job[g]
        BY <2>3 DEF IInv, Typed
      <4> QED
        BY <1>1, <4>1, <4>2, Bystanders
    <3> QED
      BY <1>1, <3>3, <3>6, <3>7, Quiet
  <2> QED
    BY <2>4, <2>5
<1> QED
  BY <1>3, <1>4, <1>5 DEF BeginCommit

LEMMA CommitKeeps == ASSUME IInv, NEW h \in Handlers, Commit(h) PROVE IInv'
<1>1. /\ job[h] \in JobType /\ job[h].at = "commit" /\ InHand(job[h])
      /\ UNCHANGED <<txs, paid, lost>> /\ Goto(h, Idle)
  BY DEF Commit, At, IInv, Typed, Hands
<1>2. job[h].rows \subseteq Contents /\ job[h].conn \in Nat /\ job[h].conn <= conns /\ job[h].file \in Files
  BY <1>1, JobFields DEF InHand
<1>3. PICK i, rows, b : i = ConnOf(h) /\ rows = job[h].rows /\ b = Len(batch) + 1
  OBVIOUS
<1>4. CASE UNCHANGED <<conns, batch, line>>
  BY <1>1, <1>4, IdleKeeps DEF Claiming, Linking
<1>5. CASE /\ ~Collides(h)
           /\ conns' = IF job[h].conn = 0 THEN i ELSE conns
           /\ batch' = Append(batch, [file |-> job[h].file, rows |-> rows])
           /\ line' = [k \in Keys |-> IF k \in {i} \X rows THEN NewLine(b) ELSE line[k]]
  <2>1. Makers' = Makers \ {h} /\ (job[h].conn = 0 <=> h \in Makers)
    <3>1. Makers' = Makers \ {h}
      BY <1>1, Jobs, MakersStay DEF Goto, IInv
    <3> QED
      BY <1>1, <3>1 DEF Makers, At
  <2>2. IsFiniteSet(Makers)
    BY ImportAssumption, FS_Subset DEF Makers
  <2>3. /\ Cardinality(Makers) \in Nat /\ Cardinality(Makers') \in Nat
        /\ Cardinality(Makers') = IF h \in Makers THEN Cardinality(Makers) - 1 ELSE Cardinality(Makers)
    BY <2>1, <2>2, FS_RemoveElement, FS_CardinalityType
  <2>4. i \in Nat /\ i = IF job[h].conn = 0 THEN conns + 1 ELSE job[h].conn
    BY <1>2, <1>3 DEF ConnOf, IInv, Typed
  <2>5. conns' \in Nat /\ conns <= conns'
    BY <1>5, <2>4 DEF IInv, Typed
  <2>6. Spare' /\ i \in 0..Cardinality(Handlers)
    BY <1>2, <1>5, <2>1, <2>3, <2>4, KeyTypes DEF IInv, Spare, Typed
  <2>7. {i} \X rows \subseteq Keys
    BY <1>2, <1>3, <2>6 DEF Keys, Bank
  <2>8. \A k \in {i} \X rows : line[k] = NoLine
    <3> SUFFICES ASSUME NEW c \in rows PROVE line[<<i, c>>] = NoLine
      OBVIOUS
    <3>1. ~Stored(<<i, c>>)
      BY <1>3, <1>5 DEF Collides
    <3> QED
      BY <2>7, <3>1 DEF IInv, Rows, RowOk, Stored
  <2> DEFINE new == [file |-> job[h].file, rows |-> rows]
  <2>9. new \in BatchType /\ new.rows = rows /\ batch' = Append(batch, new)
    BY <1>2, <1>3, <1>5 DEF BatchType
  <2> HIDE DEF new
  <2>10. /\ batch' \in Seq(BatchType) /\ DOMAIN batch' = DOMAIN batch \cup {b} /\ b \notin DOMAIN batch /\ b \in Nat /\ b # 0
         /\ batch'[b].rows = rows /\ \A c \in DOMAIN batch : batch'[c] = batch[c]
    BY <1>3, <2>9 DEF IInv, Typed
  <2>11. Ages
    BY <1>1, <2>5, <2>10 DEF Ages, IInv, Typed
  <2>12. \A k \in Keys : line'[k] = IF k \in {i} \X rows THEN NewLine(b) ELSE line[k]
    BY <1>5
  <2>13. line' \in [Keys -> RowType]
    BY <1>5, <2>10, RowTypes DEF IInv, Typed
  <2>14. Rows'
    <3> SUFFICES ASSUME NEW k \in Keys PROVE RowOk(k)'
      BY DEF Rows
    <3>1. CASE k \in {i} \X rows
      <4>1. line'[k] = NewLine(b) /\ 0 \notin Live'
        BY <2>11, <2>12, <3>1 DEF Ages, Live
      <4> QED
        BY <2>10, <4>1, RowTypes DEF RowOk
    <3>2. CASE k \notin {i} \X rows
      BY <2>11, <2>12, <3>2, RowStays DEF IInv, Rows
    <3> QED
      BY <3>1, <3>2
  <2>15. Entries'
    BY <1>1 DEF IInv, Entries
  <2>16. \A g \in Handlers : job'[g] = IF g = h THEN Idle ELSE job[g]
    BY <1>1 DEF Goto, IInv, Typed
  <2>16a. NothingStranded'
    <3> SUFFICES ASSUME NEW n \in Live PROVE Stranded(n)' => txs'[n].of \in lost'
      BY <1>1 DEF NothingStranded, Live
    <3>1. Linked(n) => Linked(n)'
      BY <2>8, <2>12, RowTypes DEF Linked, IInv, Typed, Live
    <3>2. ASSUME NEW g \in Handlers, AboutToLink(g, n) PROVE AboutToLink(g, n)'
      <4>1. g # h
        BY <1>1, <3>2 DEF AboutToLink, At
      <4> QED
        BY <1>1, <2>16, <3>2, <4>1, StillAbout
    <3>3. Kept(n)
      BY <3>1, <3>2 DEF Kept
    <3> QED
      BY <1>1, <3>3, KeptIsSafe
  <2>17. PaidIsCurrent'
    BY <1>1 DEF IInv, PaidIsCurrent
  <2>18. ImportsWhole'
    <3>1. LinesOf(b)' = {i} \X rows
      <4>1. \A k \in Keys : line[k].batch # b
        BY <2>10 DEF IInv, Rows, RowOk
      <4>2. NewLine(b).batch = b
        BY <2>10, RowTypes
      <4>3. LinesOf(b)' = {k \in Keys : line'[k].batch = b}
        BY <1>3, <2>11 DEF LinesOf
      <4> QED
        BY <2>7, <2>12, <4>1, <4>2, <4>3
    <3>2. {k[2] : k \in {i} \X rows} = rows
      <4>1. \A c \in rows : <<i, c>> \in {i} \X rows /\ <<i, c>>[2] = c
        OBVIOUS
      <4>2. \A k \in {i} \X rows : k[2] \in rows
        OBVIOUS
      <4> QED
        BY <4>1, <4>2
    <3>3. ASSUME NEW c \in DOMAIN batch PROVE LinesOf(c)' = LinesOf(c)
      <4>1. c # 0 /\ c # b /\ NewLine(b).batch = b
        BY <2>10, RowTypes DEF IInv, Typed
      <4> QED
        BY <2>8, <2>12, <4>1, RowTypes DEF LinesOf
    <3> QED
      BY <2>10, <3>1, <3>2, <3>3 DEF IInv, ImportsWhole
  <2>19. job' \in [Handlers -> JobType] /\ Hands'
    BY <1>1, <2>11, IdleIsQuiet, Turned DEF Goto, IInv
  <2>20. Typed'
    BY <1>1, <2>5, <2>10, <2>11, <2>13, <2>19 DEF IInv, Typed, Ages
  <2>21. Grips'
    <3> SUFFICES ASSUME NEW g \in Handlers, job'[g].at \in Claiming PROVE Spares(g)
      BY <1>1, GripsStay DEF IInv, Spares
    <3>1. job'[g] = job[g]
      BY <2>16, IdleIsQuiet
    <3> PICK k : k = job[g].key
      OBVIOUS
    <3>2. k \in Keys /\ job[g].b \in DOMAIN batch \cup {0}
      BY <3>1, JobFields DEF IInv, Typed, Hands, InHand
    <3>3. CASE k \notin {i} \X rows
      BY <2>12, <3>1, <3>2, <3>3 DEF Spares
    <3>4. CASE k \in {i} \X rows
      <4>1. ~Held(g)
        BY <2>8, <3>4, HeldLine, RowTypes
      <4>2. job[g].b # 0 /\ k[2] \in lost
        BY <3>1, <4>1 DEF IInv, Grips, Grip
      <4>3. line'[k].batch = b /\ b # job[g].b
        BY <2>10, <2>12, <3>2, <3>4, RowTypes
      <4> QED
        BY <1>1, <3>1, <4>2, <4>3 DEF Spares
    <3> QED
      BY <3>3, <3>4
  <2> QED
    BY <2>6, <2>14, <2>15, <2>16a, <2>17, <2>18, <2>19, <2>20, <2>21 DEF IInv
<1> QED
  BY <1>3, <1>4, <1>5 DEF Commit

-----------------------------------------------------------------------------
\* A handler goes on with the line it claimed.
LEMMA HoldOn ==
  ASSUME IInv, NEW h \in Handlers, NEW j, job[h].at \in Claiming, j.key = job[h].key, j.b = job[h].b,
         \A i \in Handlers : job'[i] = IF i = h THEN j ELSE job[i], lost \subseteq lost', UNCHANGED line
  PROVE  Grips'
<1>1. \A g \in Handlers : Spares(g)
  BY DEF Spares
<1> QED
  BY <1>1, GripsStay DEF IInv

\* A handler is done with the line it claimed, and writes at most that one.
LEMMA LetGo ==
  ASSUME IInv, NEW h \in Handlers, NEW j, j.at \notin Claiming, \A i \in Handlers : job'[i] = IF i = h THEN j ELSE job[i],
         lost \subseteq lost', \A k \in Keys : line'[k].batch = line[k].batch,
         \A k \in Keys : line'[k] = line[k] \/ (Held(h) /\ k = job[h].key)
  PROVE  Grips'
<1> SUFFICES ASSUME NEW g \in Handlers, job'[g].at \in Claiming PROVE Spares(g)
  BY GripsStay DEF IInv, Spares
<1>1. g # h /\ job'[g] = job[g]
  OBVIOUS
<1> PICK k : k = job[g].key
  OBVIOUS
<1>2. k \in Keys
  BY <1>1, JobFields DEF IInv, Typed
<1>3. Held(g) => line'[k] = line[k]
  BY <1>1, <1>2 DEF IInv, Grips
<1> QED
  BY <1>1, <1>2, <1>3 DEF Spares

LEMMA IsHeld == ASSUME NEW h \in Handlers, job[h].at \in Claiming PROVE Claimed(h) <=> Held(h)
  BY HeldIs DEF Claimed

LEMMA TakeLineKeeps ==
  ASSUME IInv, NEW h \in Handlers, NEW k \in Keys, NEW at \in {"pay", "transfer"}, TakeLine(h, k, at) PROVE IInv'
<1> PICK j : j = [at |-> at, key |-> k, b |-> line[k].batch]
  OBVIOUS
<1> DEFINE row == [line[k] EXCEPT !.status = "RESOLVED"]
<1>1. /\ job' = [job EXCEPT ![h] = j] /\ job[h].at = "idle" /\ line[k].status = "NEW"
      /\ UNCHANGED <<conns, batch, txs, paid, lost>>
  BY DEF TakeLine, Goto, At
<1>2. line[k] \in RowType /\ RowOk(k)
  BY DEF IInv, Typed, Rows
<1>3. /\ row \in RowType /\ row.status = "RESOLVED" /\ row.tx = line[k].tx /\ row.adopted = line[k].adopted
      /\ row.batch = line[k].batch
  BY <1>2 DEF RowType
<1>4. line[k].tx = 0 /\ ~line[k].adopted /\ line[k].batch \in DOMAIN batch \cup {0} /\ line[k].batch \in Nat
  BY <1>1, <1>2 DEF RowOk, RowType
<1>5. line' = [line EXCEPT ![k] = row]
  BY DEF TakeLine, IInv, Typed
<1> HIDE DEF row
<1>6. line' \in [Keys -> RowType] /\ line'[k] = row /\ \A l \in Keys \ {k} : line'[l] = line[l]
  BY <1>3, <1>5 DEF IInv, Typed
<1>7. j \in JobType /\ j.at = at /\ j.key = k /\ j.b = line[k].batch
  BY <1>4, Jobs
<1>8. Ages
  BY <1>1, QuietAges DEF IInv, Typed
<1>9. InHand(j)' /\ j.at # "commit" /\ j.at \in Claiming \ Linking
  BY <1>1, <1>4, <1>7 DEF InHand, Claiming, Linking
<1>10. job' \in [Handlers -> JobType] /\ Hands' /\ Spare' /\ \A i \in Handlers : job'[i] = IF i = h THEN j ELSE job[i]
  BY <1>1, <1>7, <1>8, <1>9, Turns
<1>11. \A l \in Keys : line'[l].batch = line[l].batch /\ RowOk(l)'
  <2> SUFFICES ASSUME NEW l \in Keys PROVE line'[l].batch = line[l].batch /\ RowOk(l)'
    OBVIOUS
  <2>1. CASE l = k
    <3>1. 0 \notin Live'
      BY <1>8 DEF Ages, Live
    <3> QED
      BY <1>1, <1>3, <1>4, <1>6, <2>1, <3>1 DEF RowOk
  <2>2. CASE l # k
    BY <1>6, <1>8, <2>2, RowStays DEF IInv, Rows
  <2> QED
    BY <2>1, <2>2
<1>12. Grips'
  <2>1. ASSUME NEW g \in Handlers, g # h
        PROVE  Grip(g)' /\ (Held(g)' => Held(g) /\ job'[g].key = job[g].key /\ job'[g].key # k)
    <3>1. job'[g] = job[g]
      BY <1>10, <2>1
    <3>2. job[g].at \in Claiming => job[g].key \in Keys
      BY JobFields DEF IInv, Typed
    <3>3. Held(g) => job[g].key # k
      BY <1>1, HeldLine
    <3>4. Spares(g)
      BY <1>6, <1>11, <3>1, <3>2, <3>3 DEF Spares
    <3> QED
      BY <1>1, <3>3, <3>4, GripStays DEF IInv, Grips
  <2>2. Grip(h)' /\ job'[h].key = k
    <3>1. job'[h] = j
      BY <1>10
    <3>2. Held(h)'
      BY <1>3, <1>6, <1>7, <1>9, <3>1, HeldWill
    <3> QED
      BY <1>3, <1>4, <1>6, <1>7, <3>1, <3>2 DEF Grip
  <2>3. \A g, i \in Handlers : g # i /\ Held(g)' /\ Held(i)' => job'[g].key # job'[i].key
    BY <2>1, <2>2 DEF IInv, Grips
  <2> QED
    BY <2>1, <2>2, <2>3 DEF Grips
<1>13. \A n \in Live : Kept(n)
  <2> SUFFICES ASSUME NEW n \in Live PROVE Kept(n)
    OBVIOUS
  <2>1. Linked(n) => Linked(n)'
    BY <1>3, <1>6 DEF Linked
  <2>2. ASSUME NEW g \in Handlers, AboutToLink(g, n) PROVE AboutToLink(g, n)'
    <3>1. g # h
      BY <1>1, <2>2 DEF AboutToLink, At
    <3> QED
      BY <1>1, <1>10, <2>2, <3>1, StillAbout
  <2> QED
    BY <2>1, <2>2 DEF Kept
<1> QED
  BY <1>1, <1>6, <1>10, <1>11, <1>12, <1>13, InPlace DEF IInv, Typed

\* A handler is done: it leaves its line as it is, or writes row into it; what it was
\* about to link is linked, or its row is in lost.
LEMMA Done ==
  ASSUME IInv, NEW h \in Handlers, job[h].at \in Claiming, Goto(h, Idle), UNCHANGED <<conns, batch, txs, paid, lost>>,
         NEW k, k = job[h].key, NEW row \in RowType,
         row.status \in {"NEW", "RESOLVED"}, row.batch = line[k].batch,
         Held(h) => (row.status = "NEW" => row.tx = 0) /\ ~row.adopted /\ (row.tx # 0 => job[h].at \in Linking /\ row.tx = job[h].tx),
         line' = line \/ (Held(h) /\ line' = [line EXCEPT ![k] = row]),
         \A n \in Live : AboutToLink(h, n) => Linked(n)' \/ txs[n].of \in lost
  PROVE  IInv'
<1>1. k \in Keys /\ Idle.at \notin Claiming /\ job' = [job EXCEPT ![h] = Idle]
  BY JobFields, IdleIsQuiet DEF IInv, Typed, Goto
<1>2. Ages
  BY QuietAges DEF IInv, Typed
<1>3. job' \in [Handlers -> JobType] /\ Hands' /\ Spare' /\ \A i \in Handlers : job'[i] = IF i = h THEN Idle ELSE job[i]
  BY <1>1, <1>2, IdleIsQuiet, Turns
<1>4. /\ line' \in [Keys -> RowType]
      /\ \A l \in Keys : line'[l] = line[l] \/ (Held(h) /\ l = k /\ line'[l] = row)
  BY <1>1 DEF IInv, Typed
<1>5. \A l \in Keys : line'[l].batch = line[l].batch /\ RowOk(l)'
  <2> SUFFICES ASSUME NEW l \in Keys PROVE line'[l].batch = line[l].batch /\ RowOk(l)'
    OBVIOUS
  <2>1. CASE line'[l] = line[l]
    BY <1>2, <2>1, RowStays DEF IInv, Rows
  <2>2. CASE Held(h) /\ l = k /\ line'[l] = row
    <3>1. line[l].batch \in DOMAIN batch \cup {0}
      BY DEF IInv, Rows, RowOk
    <3>2. Live' = Live /\ 0 \notin Live
      BY DEF IInv, Typed, Live
    <3>3. row.tx \in DOMAIN txs \cup {0} /\ (row.tx \in Live => txs[row.tx].of = k[2])
      <4>1. CASE row.tx = 0
        BY <3>2, <4>1
      <4>2. CASE row.tx # 0
        <5>1. job[h].at \in Linking /\ row.tx = job[h].tx /\ InHand(job[h])
          BY <2>2, <4>2 DEF IInv, Hands
        <5> QED
          BY <5>1 DEF InHand
      <4> QED
        BY <4>1, <4>2
    <3> QED
      BY <2>2, <3>1, <3>2, <3>3 DEF RowOk
  <2> QED
    BY <1>4, <2>1, <2>2
<1>6. Grips'
  BY <1>1, <1>3, <1>4, <1>5, LetGo
<1>7. \A n \in Live : Kept(n)
  <2> SUFFICES ASSUME NEW n \in Live, txs[n].of \notin lost PROVE Kept(n)
    BY DEF Kept
  <2>1. Linked(n) => Linked(n)'
    <3> SUFFICES ASSUME NEW l \in Keys, line[l].tx = n PROVE line'[l].tx = n
      BY DEF Linked
    <3>1. n # 0
      BY DEF IInv, Typed, Live
    <3>2. Held(h) => l # k
      BY <3>1, HeldLine
    <3> QED
      BY <1>4, <3>2
  <2>2. ASSUME NEW g \in Handlers, AboutToLink(g, n) PROVE Linked(n)' \/ AboutToLink(g, n)'
    <3>1. CASE g = h
      BY <2>2, <3>1
    <3>2. CASE g # h
      BY <1>3, <2>2, <3>2, StillAbout
    <3> QED
      BY <3>1, <3>2
  <2> QED
    BY <2>1, <2>2 DEF Kept
<1> QED
  BY <1>3, <1>4, <1>5, <1>6, <1>7, InPlace DEF IInv, Typed

LEMMA UnclaimKeeps == ASSUME IInv, NEW h \in Handlers, Unclaim(h) PROVE IInv'
<1>1. job[h].at \in {"pay", "transfer"} /\ job[h].at \in Claiming \ Linking /\ Goto(h, Idle) /\ UNCHANGED <<conns, batch, txs, paid, lost>>
  BY DEF Unclaim, Claiming, Linking
<1> PICK k : k = job[h].key
  OBVIOUS
<1>2. k \in Keys /\ line[k] \in RowType
  BY <1>1, JobFields DEF IInv, Typed
<1> DEFINE back == [line[k] EXCEPT !.status = "NEW"]
<1>3. back \in RowType /\ back.status = "NEW" /\ back.tx = line[k].tx /\ back.adopted = line[k].adopted /\ back.batch = line[k].batch
  BY <1>2 DEF RowType
<1>4. line' = line \/ (Held(h) /\ line' = [line EXCEPT ![k] = back])
  <2>1. CASE ~Claimed(h)
    BY <2>1 DEF Unclaim
  <2>2. CASE Claimed(h)
    BY <1>1, <2>2, IsHeld DEF Unclaim, IInv, Typed
  <2> QED
    BY <2>1, <2>2
<1> HIDE DEF back
<1>9. Held(h) => back.tx = 0 /\ ~back.adopted
  BY <1>2, <1>3, HeldLine DEF IInv, Rows, RowOk
<1>5. \A n \in Live : ~AboutToLink(h, n)
  BY <1>1 DEF AboutToLink, At
<1> QED
  BY <1>1, <1>3, <1>4, <1>9, <1>5, Done

LEMMA FindPaymentKeeps == ASSUME IInv, NEW h \in Handlers, FindPayment(h) PROVE IInv'
<1> PICK k, b, like : k = job[h].key /\ b = job[h].b
                      /\ like = {n \in Live : txs[n].kind = "ORDER_PAYMENT" /\ txs[n].of = k[2] /\ ~Linked(n)}
  OBVIOUS
<1>1. PICK n \in like \cup {0} : /\ \A m \in like : m <= n
                                 /\ job' = [job EXCEPT ![h] = [at |-> "link", key |-> k, b |-> b, tx |-> n]]
  BY DEF FindPayment, Goto
<1>2. /\ job[h].at = "find" /\ UNCHANGED <<conns, batch, line, txs, paid>>
      /\ lost' = IF \E m, o \in like : m # o THEN lost \cup {k[2]} ELSE lost
  BY DEF FindPayment, At
<1>3. job[h].at \in Claiming /\ k \in Keys /\ b \in Nat /\ k[2] \in Contents /\ b \in DOMAIN batch \cup {0}
  BY <1>2, JobFields, KeyTypes DEF IInv, Typed, Hands, InHand, Claiming
<1>4. lost \subseteq lost' /\ lost' \subseteq Contents
  BY <1>2, <1>3 DEF IInv, Typed
<1>5. Ages
  BY <1>2, <1>4, QuietAges
<1>6. n \in Nat /\ n \in DOMAIN txs \cup {0} /\ 0 \notin Live
  BY DEF IInv, Typed, Live
<1> DEFINE j == [at |-> "link", key |-> k, b |-> b, tx |-> n]
<1>7. j \in JobType /\ j.at = "link" /\ j.key = k /\ j.b = b /\ j.tx = n /\ job' = [job EXCEPT ![h] = j]
  BY <1>1, <1>3, <1>6, Jobs DEF Linking
<1> HIDE DEF j
<1>8. InHand(j)
  <2>1. n \in Live => txs[n].of = k[2] /\ txs[n].key = NoKey
    BY <1>6 DEF IInv, Entries, Live
  <2> QED
    BY <1>3, <1>6, <1>7, <2>1 DEF InHand, Claiming, Linking
<1>9. InHand(j)'
  BY <1>5, <1>7, <1>8, StillInHand DEF IInv
<1>10. job' \in [Handlers -> JobType] /\ Hands' /\ Spare' /\ \A i \in Handlers : job'[i] = IF i = h THEN j ELSE job[i]
  BY <1>2, <1>5, <1>7, <1>9, Turns
<1>11. Grips'
  BY <1>2, <1>3, <1>4, <1>7, <1>10, HoldOn
<1>12. \A l \in Keys : line'[l].batch = line[l].batch /\ RowOk(l)'
  BY <1>2, <1>5, RowStays DEF IInv, Rows
<1>13. \A m \in Live : Kept(m)
  <2> SUFFICES ASSUME NEW m \in Live, txs[m].of \notin lost' PROVE Kept(m)
    BY <1>2 DEF Kept
  <2>1. Linked(m) => Linked(m)'
    BY <1>2 DEF Linked
  <2>2. ASSUME NEW g \in Handlers, AboutToLink(g, m), ~Linked(m) PROVE AboutToLink(g, m)'
    <3>1. CASE g # h
      BY <1>2, <1>10, <2>2, <3>1, StillAbout
    <3>2. CASE g = h
      <4>1. m \in like
        BY <1>2, <2>2, <3>2 DEF AboutToLink
      <4>2. \A o \in like : o = m
        BY <1>2, <4>1
      <4>3. m \in Nat /\ m # 0 /\ m <= n
        BY <1>1, <1>6, <4>1 DEF Live, IInv, Typed
      <4>4. m = n
        BY <1>6, <4>2, <4>3
      <4>5. job'[h] = j
        BY <1>10
      <4> QED
        BY <1>7, <3>2, <4>4, <4>5 DEF AboutToLink
    <3> QED
      BY <3>1, <3>2
  <2> QED
    BY <2>1, <2>2 DEF Kept
<1> QED
  BY <1>2, <1>4, <1>10, <1>11, <1>12, <1>13, InPlace DEF IInv, Typed

\* What a handler links, or its row if the line is gone.
LEMMA LinkedOrLost ==
  ASSUME IInv, NEW h \in Handlers, job[h].at \in Linking, NEW n \in Live, AboutToLink(h, n)
  PROVE  n = job[h].tx /\ (~Held(h) => txs[n].of \in lost)
<1>1. n = job[h].tx /\ job[h].at \in Claiming
  BY DEF AboutToLink, At, Linking, Claiming
<1>2. txs[n].of = job[h].key[2]
  BY <1>1 DEF IInv, Hands, InHand
<1> QED
  BY <1>1, <1>2 DEF IInv, Grips, Grip

\* The row of a line that is booked.
RowBooked(k, n) == [line[k] EXCEPT !.status = "RESOLVED", !.tx = n]

LEMMA BookedRow ==
  ASSUME Typed, NEW k \in Keys, NEW n \in Nat
  PROVE  /\ RowBooked(k, n) \in RowType /\ RowBooked(k, n).status = "RESOLVED" /\ RowBooked(k, n).tx = n
         /\ (RowBooked(k, n).adopted <=> line[k].adopted) /\ RowBooked(k, n).batch = line[k].batch
         /\ Booked(k, n) = [line EXCEPT ![k] = RowBooked(k, n)]
<1>1. line[k] \in RowType
  BY DEF Typed
<1>2. /\ RowBooked(k, n) \in RowType /\ RowBooked(k, n).status = "RESOLVED" /\ RowBooked(k, n).tx = n
      /\ (RowBooked(k, n).adopted <=> line[k].adopted) /\ RowBooked(k, n).batch = line[k].batch
  BY <1>1 DEF RowType, RowBooked
<1>3. Booked(k, n) = [line EXCEPT ![k] = RowBooked(k, n)]
  BY DEF Typed, Booked, RowBooked
<1> QED
  BY <1>2, <1>3

LEMMA NewRow == ASSUME Typed, NEW k \in Keys, RowOk(k), line[k].status \in {"NEW", "absent"}
                PROVE  line[k].tx = 0 /\ ~line[k].adopted
  BY DEF RowOk, NoLine

LEMMA NextTx == ASSUME Typed, NEW t, txs' = Append(txs, t) PROVE Len(txs') \in Nat
  BY TxsAppended

LEMMA LinkPaymentKeeps == ASSUME IInv, NEW h \in Handlers, LinkPayment(h) PROVE IInv'
<1>1. job[h].at = "link" /\ job[h].at \in Claiming /\ job[h].at \in Linking /\ Goto(h, Idle) /\ UNCHANGED <<conns, batch, txs, paid, lost>>
  BY DEF LinkPayment, At, Claiming, Linking
<1> PICK k, n : k = job[h].key /\ n = job[h].tx
  OBVIOUS
<1>2. k \in Keys /\ n \in Nat
  BY <1>1, JobFields DEF IInv, Typed
<1>3. line' = IF n = 0 \/ ~Claimed(h) \/ Linked(n) THEN line ELSE Booked(k, n)
  BY DEF LinkPayment
<1> DEFINE row == RowBooked(k, n)
<1>4. /\ row \in RowType /\ row.status = "RESOLVED" /\ row.tx = n /\ (row.adopted <=> line[k].adopted)
      /\ row.batch = line[k].batch /\ Booked(k, n) = [line EXCEPT ![k] = row]
  BY <1>2, BookedRow DEF IInv
<1> HIDE DEF row
<1>5. line' = line \/ (Held(h) /\ line' = [line EXCEPT ![k] = row])
  BY <1>1, <1>3, <1>4, IsHeld
<1>6. Held(h) => ~row.adopted
  BY <1>2, <1>4, HeldLine DEF IInv, Rows, RowOk
<1>7. ASSUME NEW m \in Live, AboutToLink(h, m) PROVE Linked(m)' \/ txs[m].of \in lost
  <2>1. m = n /\ (~Held(h) => txs[m].of \in lost) /\ m # 0
    BY <1>1, <1>7, LinkedOrLost DEF Live, IInv, Typed
  <2>2. CASE Linked(n)
    BY <1>3, <2>1, <2>2 DEF Linked
  <2>3. CASE Held(h) /\ ~Linked(n)
    <3>1. line'[k].tx = n
      BY <1>1, <1>2, <1>3, <1>4, <2>1, <2>3, IsHeld DEF IInv, Typed
    <3> QED
      BY <1>2, <2>1, <3>1 DEF Linked
  <2> QED
    BY <2>1, <2>2, <2>3
<1> QED
  BY <1>1, <1>4, <1>5, <1>6, <1>7, Done

LEMMA TieKeeps == ASSUME IInv, NEW h \in Handlers, Tie(h) PROVE IInv'
<1>1. job[h].at = "tie" /\ job[h].at \in Claiming /\ job[h].at \in Linking /\ Goto(h, Idle) /\ UNCHANGED <<conns, batch, txs, paid, lost>>
  BY DEF Tie, At, Claiming, Linking
<1> PICK k, n : k = job[h].key /\ n = job[h].tx
  OBVIOUS
<1>2. k \in Keys /\ n \in Nat
  BY <1>1, JobFields DEF IInv, Typed
<1>3. PICK leg \in IF n \in Live THEN {n} ELSE {n, 0} :
        line' = IF Claimed(h) THEN [Booked(k, leg) EXCEPT ![k].transfer = TRUE] ELSE line
  BY DEF Tie
<1> DEFINE booked == RowBooked(k, leg)
           row == [booked EXCEPT !.transfer = TRUE]
<1>4. /\ booked \in RowType /\ booked.status = "RESOLVED" /\ booked.tx = leg /\ (booked.adopted <=> line[k].adopted)
      /\ booked.batch = line[k].batch /\ Booked(k, leg) = [line EXCEPT ![k] = booked]
  BY <1>2, BookedRow DEF IInv
<1> HIDE DEF booked
<1>5. row \in RowType /\ row.status = "RESOLVED" /\ row.tx = leg /\ (row.adopted <=> line[k].adopted) /\ row.batch = line[k].batch
  BY <1>4 DEF RowType
<1>6. line' = line \/ (Held(h) /\ line' = [line EXCEPT ![k] = row])
  BY <1>1, <1>2, <1>3, <1>4, IsHeld DEF IInv, Typed
<1>7. Claimed(h) => line' = [line EXCEPT ![k] = row]
  BY <1>2, <1>3, <1>4 DEF IInv, Typed
<1> HIDE DEF row
<1>8. Held(h) => ~row.adopted
  BY <1>2, <1>5, HeldLine DEF IInv, Rows, RowOk
<1>9. ASSUME NEW m \in Live, AboutToLink(h, m) PROVE Linked(m)' \/ txs[m].of \in lost
  <2>1. m = n /\ (~Held(h) => txs[m].of \in lost) /\ leg = m
    BY <1>1, <1>9, LinkedOrLost
  <2>2. CASE Held(h)
    <3>1. line'[k].tx = m
      BY <1>1, <1>2, <1>5, <1>7, <2>1, <2>2, IsHeld DEF IInv, Typed
    <3> QED
      BY <1>2, <3>1 DEF Linked
  <2> QED
    BY <2>1, <2>2
<1> QED
  BY <1>1, <1>5, <1>6, <1>8, <1>9, Done

-----------------------------------------------------------------------------
LEMMA AppendAges == ASSUME IInv, NEW t, txs' = Append(txs, t), UNCHANGED <<conns, batch, lost>> PROVE Ages
<1>1. /\ \E S : txs' \in Seq(S)
      /\ Len(txs') \notin DOMAIN txs /\ DOMAIN txs' = DOMAIN txs \cup {Len(txs')} /\ \A n \in DOMAIN txs : txs'[n] = txs[n]
  BY TxsAppended DEF IInv
<1> QED
  BY <1>1 DEF Ages, IInv, Typed

\* The steps that add an operation: it gets a line, or is about to, or is of no row.
LEMMA Adding ==
  ASSUME IInv, NEW t, txs' = Append(txs, t), t.batch = 0, t.key # NoKey => t.key[1] = t.of, t.kind = "ORDER_PAYMENT" => t.key = NoKey,
         UNCHANGED <<conns, batch, lost>>,
         line' \in [Keys -> RowType], Rows', \A k \in Keys : line'[k].batch = line[k].batch,
         job' \in [Handlers -> JobType], Hands', Spare', Grips', PaidIsCurrent',
         \A m \in Live : Kept(m), NEW n, n = Len(txs'), t.of \in Contents => Linked(n)' \/ \E h \in Handlers : AboutToLink(h, n)'
  PROVE  IInv'
<1>1. /\ \E S : txs' \in Seq(S)
      /\ n \in Nat /\ n # 0 /\ n \notin DOMAIN txs /\ DOMAIN txs' = DOMAIN txs \cup {n}
      /\ txs'[n] = t /\ \A m \in DOMAIN txs : txs'[m] = txs[m]
  BY TxsAppended DEF IInv
<1>2. Typed'
  BY <1>1 DEF IInv, Typed
<1>3. Entries'
  BY <1>1 DEF IInv, Entries
<1>4. NothingStranded'
  <2> SUFFICES ASSUME NEW m \in DOMAIN txs', txs'[m] # Deleted, Stranded(m)' PROVE txs'[m].of \in lost'
    BY DEF NothingStranded, Live
  <2>1. CASE m = n
    BY <1>1, <2>1 DEF Stranded
  <2>2. CASE m \in DOMAIN txs
    <3>1. m \in Live /\ txs'[m] = txs[m]
      BY <1>1, <2>2 DEF Live
    <3> QED
      BY <3>1, KeptIsSafe
  <2> QED
    BY <1>1, <2>1, <2>2
<1>5. ImportsWhole'
  BY DEF IInv, ImportsWhole, LinesOf
<1> QED
  BY <1>2, <1>3, <1>4, <1>5 DEF IInv

\* What a new operation does to the sum of payments.
LEMMA PaymentsStay ==
  ASSUME Typed, PaidIsCurrent, UNCHANGED paid,
         {n \in DOMAIN txs' : txs'[n].kind = "ORDER_PAYMENT"} = {n \in DOMAIN txs : txs[n].kind = "ORDER_PAYMENT"}
  PROVE  PaidIsCurrent'
  BY DEF PaidIsCurrent, Payments

LEMMA NoPaymentAdded ==
  ASSUME Typed, PaidIsCurrent, UNCHANGED paid, NEW t, txs' = Append(txs, t), t.kind # "ORDER_PAYMENT"
  PROVE  PaidIsCurrent'
<1>1. {n \in DOMAIN txs' : txs'[n].kind = "ORDER_PAYMENT"} = {n \in DOMAIN txs : txs[n].kind = "ORDER_PAYMENT"}
  BY TxsAppended
<1> QED
  BY <1>1, PaymentsStay

LEMMA NoPaymentKilled ==
  ASSUME Typed, PaidIsCurrent, UNCHANGED paid, NEW ns, txs' = Killed(ns), \A n \in ns \cap DOMAIN txs : txs[n].kind # "ORDER_PAYMENT"
  PROVE  PaidIsCurrent'
<1>1. {n \in DOMAIN txs' : txs'[n].kind = "ORDER_PAYMENT"} = {n \in DOMAIN txs : txs[n].kind = "ORDER_PAYMENT"}
  BY TxsKilled, Fields
<1> QED
  BY <1>1, PaymentsStay

\* The steps that book line k at once: a new operation of its row, and the link.
Books(k, t, row) ==
  /\ txs' = Append(txs, t) /\ t.kind = "OTHER" /\ t.of = k[2] /\ t.batch = 0 /\ t.key[1] = t.of
  /\ line[k].status \in {"NEW", "absent"}
  /\ row.status = "RESOLVED" /\ row.tx = Len(txs') /\ (row.adopted <=> line[k].adopted) /\ row.batch = line[k].batch
  /\ line' = [line EXCEPT ![k] = row]
  /\ UNCHANGED <<conns, batch, paid, job, lost>>

LEMMA Booking == ASSUME IInv, NEW k \in Keys, NEW t, NEW row \in RowType, Books(k, t, row) PROVE IInv'
<1>1. PICK n : n = Len(txs')
  OBVIOUS
<1>2. /\ \E S : txs' \in Seq(S)
      /\ n \in Nat /\ n # 0 /\ n \notin DOMAIN txs /\ DOMAIN txs' = DOMAIN txs \cup {n}
      /\ txs'[n] = t /\ \A m \in DOMAIN txs : txs'[m] = txs[m]
  BY <1>1, TxsAppended DEF IInv, Books
<1>3. line'[k] = row /\ line' \in [Keys -> RowType] /\ \A l \in Keys \ {k} : line'[l] = line[l]
  BY DEF IInv, Typed, Books
<1>4. Ages
  BY AppendAges DEF Books
<1>5. line[k].tx = 0 /\ ~line[k].adopted
  BY NewRow DEF IInv, Rows, Books
<1>6. Rows'
  <2> SUFFICES ASSUME NEW l \in Keys PROVE RowOk(l)'
    BY DEF Rows
  <2>1. CASE l = k
    <3>1. RowOk(k)
      BY DEF IInv, Rows
    <3> QED
      BY <1>1, <1>2, <1>3, <1>5, <2>1, <3>1 DEF Books, RowOk
  <2>2. CASE l # k
    BY <1>3, <1>4, <2>2, RowStays DEF IInv, Rows
  <2> QED
    BY <2>1, <2>2
<1>7. Hands' /\ Spare'
  BY <1>4, AllStillInHand DEF IInv, Books
<1>8. \A l \in Keys : line'[l].batch = line[l].batch
  BY <1>3 DEF Books
<1>9. Grips'
  <2>1. ASSUME NEW g \in Handlers, Held(g) PROVE line'[job[g].key] = line[job[g].key]
    BY <1>3, <2>1, HeldLine DEF Books
  <2> QED
    BY <1>8, <2>1, GripsUntouched DEF IInv, Books
<1>10. \A m \in Live : Kept(m)
  <2> SUFFICES ASSUME NEW m \in Live PROVE Kept(m)
    OBVIOUS
  <2>1. m # 0 /\ txs'[m] = txs[m]
    BY <1>2 DEF Live, IInv, Typed
  <2>2. Linked(m) => Linked(m)'
    BY <1>3, <1>5, <2>1 DEF Linked
  <2>3. ASSUME NEW g \in Handlers, AboutToLink(g, m) PROVE AboutToLink(g, m)'
    BY <2>1, <2>3, StillAbout DEF Books
  <2> QED
    BY <2>2, <2>3 DEF Kept
<1>11. Linked(n)'
  BY <1>1, <1>3 DEF Linked, Books
<1>12. PaidIsCurrent'
  BY NoPaymentAdded DEF IInv, Books
<1>13. job' \in [Handlers -> JobType]
  BY DEF IInv, Typed, Books
<1> QED
  BY <1>1, <1>3, <1>6, <1>7, <1>8, <1>9, <1>10, <1>11, <1>12, <1>13, Adding DEF Books

LEMMA CategorizeKeeps == ASSUME IInv, NEW k \in Keys, Categorize(k) PROVE IInv'
<1> DEFINE t == Tx("OTHER", k[2], Fingerprint(k[2]), 0)
<1>1. t.kind = "OTHER" /\ t.of = k[2] /\ t.batch = 0 /\ t.key[1] = t.of
  BY Fields
<1>2. txs' = Append(txs, t) /\ line' = Booked(k, Len(txs')) /\ UNCHANGED <<conns, batch, paid, job, lost>> /\ line[k].status = "NEW"
  BY DEF Categorize
<1> HIDE DEF t
<1>3. PICK n \in Nat : n = Len(txs')
  BY <1>2, NextTx DEF IInv
<1> DEFINE row == RowBooked(k, n)
<1>4. /\ row \in RowType /\ row.status = "RESOLVED" /\ row.tx = n /\ (row.adopted <=> line[k].adopted)
      /\ row.batch = line[k].batch /\ Booked(k, n) = [line EXCEPT ![k] = row]
  BY BookedRow DEF IInv
<1> HIDE DEF row
<1>5. Books(k, t, row)
  BY <1>1, <1>2, <1>3, <1>4 DEF Books
<1> QED
  BY <1>4, <1>5, Booking

LEMMA AddPaymentKeeps == ASSUME IInv, AddPayment PROVE IInv'
<1> DEFINE t == Tx("ORDER_PAYMENT", "hand", NoKey, 0)
<1>1. t.of = "hand" /\ t.batch = 0 /\ t.key = NoKey /\ t.of \notin Contents
  BY Fields, ImportAssumption
<1>2. txs' = Append(txs, t) /\ UNCHANGED <<conns, batch, line, job, lost>>
  BY DEF AddPayment
<1> HIDE DEF t
<1>3. PICK n : n = Len(txs')
  OBVIOUS
<1>4. Ages /\ \A m \in DOMAIN txs : txs'[m] = txs[m]
  BY <1>2, AppendAges, TxsAppended DEF IInv
<1>5. Rows'
  BY <1>2, <1>4, RowStays DEF IInv, Rows
<1>6. Hands' /\ Spare'
  BY <1>2, <1>4, AllStillInHand DEF IInv
<1>7. Grips'
  BY <1>2, GripsUntouched DEF IInv
<1>8. \A m \in Live : Kept(m)
  <2> SUFFICES ASSUME NEW m \in Live PROVE Kept(m)
    OBVIOUS
  <2>1. txs'[m] = txs[m]
    BY <1>4 DEF Live
  <2> QED
    BY <1>2, <2>1, StillAbout DEF Kept, Linked
<1>9. PaidIsCurrent'
  BY DEF AddPayment, PaidIsCurrent
<1> QED
  BY <1>1, <1>2, <1>3, <1>5, <1>6, <1>7, <1>8, <1>9, Adding DEF IInv, Typed

\* A handler makes the money of the line it claimed, and is about to link it.
NextJob(h, j, t, n) ==
  \/ /\ job[h].at = "pay" /\ t.kind = "ORDER_PAYMENT"
     /\ j = [at |-> "find", key |-> job[h].key, b |-> job[h].b]
  \/ /\ job[h].at = "transfer"
     /\ j = [at |-> "tie", key |-> job[h].key, b |-> job[h].b, tx |-> n]

LEMMA MoneyFirst ==
  ASSUME IInv, NEW h \in Handlers, NEW t, txs' = Append(txs, t),
         t.of = job[h].key[2], t.batch = 0, t.key = NoKey, UNCHANGED <<conns, batch, line, lost>>,
         NEW j, job' = [job EXCEPT ![h] = j], PaidIsCurrent', NextJob(h, j, t, Len(txs'))
  PROVE  IInv'
<1> PICK k, b, n : k = job[h].key /\ b = job[h].b /\ n = Len(txs')
  OBVIOUS
<1>1. /\ Ages /\ n \in Nat /\ DOMAIN txs' = DOMAIN txs \cup {n} /\ txs'[n] = t /\ \A m \in DOMAIN txs : txs'[m] = txs[m]
  BY AppendAges, TxsAppended DEF IInv
<1>2. job[h].at \in {"pay", "transfer"} /\ job[h].at \in Claiming /\ k \in Keys /\ b \in Nat /\ b \in DOMAIN batch \cup {0}
  BY JobFields DEF IInv, Typed, Hands, InHand, Claiming, NextJob
<1>3. j \in JobType /\ j.key = k /\ j.b = b /\ j.at \in {"find", "tie"} /\ (j.at = "tie" => j.tx = n)
  BY <1>1, <1>2, Jobs DEF Linking, NextJob
<1>4. InHand(j)'
  BY <1>1, <1>2, <1>3 DEF InHand, Linking, Claiming
<1>5. job' \in [Handlers -> JobType] /\ Hands' /\ Spare' /\ \A i \in Handlers : job'[i] = IF i = h THEN j ELSE job[i]
  BY <1>1, <1>3, <1>4, Turns
<1>6. Grips'
  BY <1>2, <1>3, <1>5, HoldOn
<1>7. Rows'
  BY <1>1, RowStays DEF IInv, Rows
<1>8. \A m \in Live : Kept(m)
  <2> SUFFICES ASSUME NEW m \in Live PROVE Kept(m)
    OBVIOUS
  <2>1. txs'[m] = txs[m]
    BY <1>1 DEF Live
  <2>2. ASSUME NEW g \in Handlers, AboutToLink(g, m) PROVE AboutToLink(g, m)'
    <3>1. g # h
      BY <1>2, <2>2 DEF AboutToLink, At
    <3> QED
      BY <1>5, <2>1, <2>2, <3>1, StillAbout
  <2> QED
    BY <2>2 DEF Kept, Linked
<1>9. AboutToLink(h, n)'
  <2>1. job'[h] = j
    BY <1>5
  <2> QED
    BY <1>1, <1>3, <2>1 DEF AboutToLink, At, NextJob
<1> QED
  BY <1>5, <1>6, <1>7, <1>8, <1>9, Adding DEF IInv, Typed

LEMMA PayKeeps == ASSUME IInv, NEW h \in Handlers, Pay(h) PROVE IInv'
<1> PICK k, b, t : k = job[h].key /\ b = job[h].b /\ t = Tx("ORDER_PAYMENT", k[2], NoKey, 0)
  OBVIOUS
<1>1. t.kind = "ORDER_PAYMENT" /\ t.of = k[2] /\ t.batch = 0 /\ t.key = NoKey
  BY Fields
<1>2. PICK j : j = [at |-> "find", key |-> k, b |-> b]
  OBVIOUS
<1>3. /\ txs' = Append(txs, t) /\ job' = [job EXCEPT ![h] = j] /\ job[h].at = "pay"
      /\ UNCHANGED <<conns, batch, line, lost>>
  BY <1>2 DEF Pay, Goto, At
<1>4. PaidIsCurrent'
  BY DEF Pay, PaidIsCurrent
<1>5. NextJob(h, j, t, Len(txs')) /\ t.of = job[h].key[2]
  BY <1>1, <1>2, <1>3 DEF NextJob
<1> QED
  BY <1>1, <1>3, <1>4, <1>5, MoneyFirst

LEMMA CreateTransferKeeps == ASSUME IInv, NEW h \in Handlers, CreateTransfer(h) PROVE IInv'
<1> PICK k, b, t : k = job[h].key /\ b = job[h].b /\ t = Tx("TRANSFER", k[2], NoKey, 0)
  OBVIOUS
<1>1. t.kind = "TRANSFER" /\ t.of = k[2] /\ t.batch = 0 /\ t.key = NoKey
  BY Fields
<1>2. PICK j : j = [at |-> "tie", key |-> k, b |-> b, tx |-> Len(txs')]
  OBVIOUS
<1>3. /\ txs' = Append(txs, t) /\ job' = [job EXCEPT ![h] = j] /\ job[h].at = "transfer"
      /\ UNCHANGED <<conns, batch, line, lost, paid>>
  BY <1>2 DEF CreateTransfer, Goto, At
<1>4. PaidIsCurrent'
  BY <1>1, <1>3, NoPaymentAdded DEF IInv
<1>5. NextJob(h, j, t, Len(txs')) /\ t.of = job[h].key[2]
  BY <1>1, <1>2, <1>3 DEF NextJob
<1> QED
  BY <1>1, <1>3, <1>4, <1>5, MoneyFirst

-----------------------------------------------------------------------------
\* Returning the lines of operation n to the inbox.
LEMMA FreedRows ==
  ASSUME Typed, NEW n \in DOMAIN txs,
         \/ line' = Freed(n)
         \/ line' = [k \in Keys |-> IF line[k].tx = n THEN [Freed(n)[k] EXCEPT !.transfer = FALSE] ELSE line[k]]
  PROVE  /\ line' \in [Keys -> RowType]
         /\ \A k \in Keys : IF line[k].tx = n
                              THEN line'[k].status = "NEW" /\ line'[k].tx = 0 /\ ~line'[k].adopted /\ line'[k].batch = line[k].batch
                              ELSE line'[k] = line[k]
<1> DEFINE freed(k) == [line[k] EXCEPT !.status = "NEW", !.tx = 0, !.adopted = FALSE]
           untied(k) == [freed(k) EXCEPT !.transfer = FALSE]
<1>1. ASSUME NEW k \in Keys
      PROVE  /\ freed(k) \in RowType /\ freed(k).status = "NEW" /\ freed(k).tx = 0 /\ ~freed(k).adopted /\ freed(k).batch = line[k].batch
             /\ untied(k) \in RowType /\ untied(k).status = "NEW" /\ untied(k).tx = 0 /\ ~untied(k).adopted /\ untied(k).batch = line[k].batch
  <2>1. line[k] \in RowType
    BY DEF Typed
  <2> QED
    BY <2>1 DEF RowType
<1>2. Freed(n) = [k \in Keys |-> IF line[k].tx = n THEN freed(k) ELSE line[k]]
  BY DEF Freed
<1> HIDE DEF freed
<1>3. \A k \in Keys : line[k].tx = n => [Freed(n)[k] EXCEPT !.transfer = FALSE] = untied(k)
  BY <1>2
<1> HIDE DEF untied
<1>4. CASE line' = Freed(n)
  BY <1>1, <1>2, <1>4 DEF Typed
<1>5. CASE line' = [k \in Keys |-> IF line[k].tx = n THEN [Freed(n)[k] EXCEPT !.transfer = FALSE] ELSE line[k]]
  <2>1. line' = [k \in Keys |-> IF line[k].tx = n THEN untied(k) ELSE line[k]]
    BY <1>3, <1>5
  <2> QED
    BY <1>1, <2>1 DEF Typed
<1> QED
  BY <1>4, <1>5

\* The operation is deleted, unless it is one that needs no line.
LEMMA Freeing ==
  ASSUME IInv, NEW n \in DOMAIN txs, UNCHANGED <<conns, batch, job, lost>>,
         \/ line' = Freed(n)
         \/ line' = [k \in Keys |-> IF line[k].tx = n THEN [Freed(n)[k] EXCEPT !.transfer = FALSE] ELSE line[k]],
         \/ txs' = Killed({n})
         \/ txs' = txs /\ (n \in Live => txs[n].batch # 0 \/ txs[n].of \in lost),
         PaidIsCurrent'
  PROVE  IInv'
<1>1. /\ \E S : txs' \in Seq(S)
      /\ DOMAIN txs' = DOMAIN txs /\ txs'[n] \in {txs[n], Deleted} /\ \A m \in DOMAIN txs \ {n} : txs'[m] = txs[m]
  <2>1. CASE txs' = Killed({n})
    BY <2>1, TxsKilled DEF IInv
  <2>2. CASE txs' = txs
    BY <2>2 DEF IInv, Typed
  <2> QED
    BY <2>1, <2>2
<1>2. Ages
  BY <1>1 DEF Ages, IInv, Typed
<1>3. n # 0
  BY DEF IInv, Typed
<1>4. /\ line' \in [Keys -> RowType]
      /\ \A k \in Keys : IF line[k].tx = n
                           THEN line'[k].status = "NEW" /\ line'[k].tx = 0 /\ ~line'[k].adopted /\ line'[k].batch = line[k].batch
                           ELSE line'[k] = line[k]
  BY FreedRows DEF IInv
<1>5. \A k \in Keys : line'[k].batch = line[k].batch
  BY <1>4
<1>6. Typed'
  BY <1>1, <1>4 DEF IInv, Typed
<1>7. Rows'
  BY <1>2, <1>4, RowStays, RowFreed DEF IInv, Rows
<1>8. Entries'
  BY <1>1, <1>2, EntriesAge DEF IInv
<1>9. Hands' /\ Spare'
  BY <1>2, AllStillInHand DEF IInv
<1>10. Grips'
  <2>1. ASSUME NEW g \in Handlers, Held(g) PROVE line'[job[g].key] = line[job[g].key]
    BY <1>3, <1>4, <2>1, HeldLine
  <2> QED
    BY <1>5, <2>1, GripsUntouched DEF IInv
<1>11. NothingStranded'
  <2> SUFFICES ASSUME NEW m \in DOMAIN txs', txs'[m] # Deleted, Stranded(m)' PROVE txs'[m].of \in lost'
    BY DEF NothingStranded, Live
  <2>1. m \in Live /\ txs'[m] = txs[m]
    BY <1>1 DEF Live
  <2>2. CASE m = n
    <3>1. txs' = txs /\ (txs[n].batch # 0 \/ txs[n].of \in lost)
      <4>1. txs' # Killed({n})
        BY <2>2, TxsKilled DEF IInv
      <4> QED
        BY <2>1, <2>2, <4>1
    <3> QED
      BY <2>2, <3>1 DEF Stranded
  <2>3. CASE m # n
    <3>1. Linked(m) => Linked(m)'
      BY <1>4, <2>3 DEF Linked
    <3>2. Kept(m)
      BY <2>1, <3>1, StillAbout DEF Kept
    <3> QED
      BY <2>1, <3>2, KeptIsSafe
  <2> QED
    BY <2>2, <2>3
<1>12. ImportsWhole'
  BY <1>5 DEF IInv, ImportsWhole, LinesOf
<1> QED
  BY <1>6, <1>7, <1>8, <1>9, <1>10, <1>11, <1>12 DEF IInv

LEMMA UndoKeeps == ASSUME IInv, NEW n \in DOMAIN txs, Undo(n) PROVE IInv'
<1>1. line' = Freed(n) /\ UNCHANGED <<conns, batch, paid, job, lost>>
  BY DEF Undo
<1>2. CASE /\ n \notin Live \/ \E k \in Keys : line[k].tx = n /\ line[k].adopted
           /\ txs' = txs
  <2>1. n \in Live => txs[n].batch # 0 \/ txs[n].of \in lost
    BY <1>2 DEF IInv, Rows, RowOk
  <2>2. PaidIsCurrent'
    BY <1>1, <1>2 DEF IInv, PaidIsCurrent
  <2> QED
    BY <1>1, <1>2, <2>1, <2>2, Freeing
<1>3. CASE txs[n].kind = "OTHER" /\ txs' = Killed({n})
  <2>1. PaidIsCurrent'
    BY <1>1, <1>3, NoPaymentKilled DEF IInv
  <2> QED
    BY <1>1, <1>3, <2>1, Freeing
<1> QED
  BY <1>2, <1>3 DEF Undo

LEMMA DeletePaymentKeeps == ASSUME IInv, NEW n \in DOMAIN txs, DeletePayment(n) PROVE IInv'
<1>1. line' = Freed(n) /\ txs' = Killed({n}) /\ UNCHANGED <<conns, batch, job, lost>>
  BY DEF DeletePayment
<1>2. PaidIsCurrent'
  BY DEF DeletePayment, PaidIsCurrent
<1> QED
  BY <1>1, <1>2, Freeing

LEMMA DeleteTransferKeeps == ASSUME IInv, NEW n \in DOMAIN txs, DeleteTransfer(n) PROVE IInv'
<1>1. /\ line' = [k \in Keys |-> IF line[k].tx = n THEN [Freed(n)[k] EXCEPT !.transfer = FALSE] ELSE line[k]]
      /\ txs' = Killed({n}) /\ txs[n].kind = "TRANSFER" /\ UNCHANGED <<conns, batch, paid, job, lost>>
  BY DEF DeleteTransfer
<1>2. PaidIsCurrent'
  BY <1>1, NoPaymentKilled DEF IInv
<1> QED
  BY <1>1, <1>2, Freeing

LEMMA SyncKeeps == ASSUME IInv, NEW c \in Contents, Sync(c) PROVE IInv'
<1>1. PICK k \in Keys : k = <<Bank, c>> /\ k[2] = c
  BY KeyTypes
<1>2. /\ line[k].status = "absent" /\ line[k].tx = 0 /\ ~line[k].adopted
      /\ UNCHANGED <<conns, batch, paid, job, lost>>
  BY <1>1, NewRow DEF Sync, Stored, IInv, Rows
<1>3. ASSUME NEW n \in Holder(<<c, 1>>), ~Linked(n), line' = [Booked(k, n) EXCEPT ![k].adopted = TRUE], UNCHANGED txs
      PROVE  IInv'
  <2>1. n \in DOMAIN txs /\ n \in Live /\ txs[n].key = <<c, 1>> /\ n \in Nat
    BY DEF Holder, Live, IInv, Typed
  <2>2. txs[n].key # NoKey /\ txs[n].of = c
    <3>1. Len(<<c, 1>>) = 2 /\ Len(<<>>) = 0 /\ <<c, 1>>[1] = c
      OBVIOUS
    <3>2. <<c, 1>> # NoKey
      BY <3>1 DEF NoKey
    <3>3. txs[n].key # NoKey => txs[n].key[1] = txs[n].of
      BY <2>1 DEF IInv, Entries
    <3> QED
      BY <2>1, <3>1, <3>2, <3>3
  <2>3. \A g \in Handlers : ~AboutToLink(g, n)
    <3> SUFFICES ASSUME NEW g \in Handlers, AboutToLink(g, n) PROVE FALSE
      OBVIOUS
    <3>1. CASE txs[n].kind = "ORDER_PAYMENT"
      BY <2>1, <2>2, <3>1 DEF IInv, Entries
    <3>2. CASE job[g].at \in Linking /\ job[g].tx = n
      <4>1. InHand(job[g])
        BY DEF IInv, Hands
      <4> QED
        BY <2>1, <2>2, <3>2, <4>1 DEF InHand
    <3> QED
      BY <3>1, <3>2 DEF AboutToLink, Linking
  <2>4. txs[n].batch # 0 \/ txs[n].of \in lost
    <3>1. Stranded(n) => txs[n].of \in lost
      BY <2>1 DEF IInv, NothingStranded
    <3> QED
      BY <1>3, <2>2, <2>3, <3>1 DEF Stranded
  <2> DEFINE row == RowBooked(k, n)
             adopted == [row EXCEPT !.adopted = TRUE]
  <2>5. row \in RowType /\ row.status = "RESOLVED" /\ row.tx = n /\ row.batch = line[k].batch /\ Booked(k, n) = [line EXCEPT ![k] = row]
    BY <2>1, BookedRow DEF IInv
  <2> HIDE DEF row
  <2>6. adopted \in RowType /\ adopted.status = "RESOLVED" /\ adopted.tx = n /\ adopted.batch = line[k].batch
    BY <2>5 DEF RowType
  <2>7. line' = [line EXCEPT ![k] = adopted]
    BY <1>3, <2>5 DEF IInv, Typed
  <2> HIDE DEF adopted
  <2>8. line' \in [Keys -> RowType] /\ line'[k] = adopted /\ \A l \in Keys \ {k} : line'[l] = line[l]
    BY <2>6, <2>7 DEF IInv, Typed
  <2>9. Ages
    BY <1>2, <1>3, QuietAges DEF IInv, Typed
  <2>10. \A l \in Keys : line'[l].batch = line[l].batch /\ RowOk(l)'
    <3> SUFFICES ASSUME NEW l \in Keys PROVE line'[l].batch = line[l].batch /\ RowOk(l)'
      OBVIOUS
    <3>1. CASE l = k
      <4>1. line[k].batch \in DOMAIN batch \cup {0}
        BY DEF IInv, Rows, RowOk
      <4>2. Live' = Live /\ txs' = txs /\ batch' = batch /\ lost' = lost
        BY <1>2, <1>3 DEF Live
      <4>3. /\ line'[l].status = "RESOLVED" /\ line'[l].tx = n /\ line'[l].batch = line[k].batch
            /\ l[2] = c /\ n # 0
        BY <1>1, <2>1, <2>6, <2>8, <3>1 DEF IInv, Typed
      <4>4. txs'[line'[l].tx].of = l[2] /\ (txs'[line'[l].tx].batch # 0 \/ txs'[line'[l].tx].of \in lost')
        BY <2>2, <2>4, <4>2, <4>3
      <4>5. line'[l].tx \in DOMAIN txs' \cup {0} /\ line'[l].batch \in DOMAIN batch' \cup {0}
        BY <2>1, <4>1, <4>2, <4>3
      <4> QED
        BY <3>1, <4>3, <4>4, <4>5 DEF RowOk
    <3>2. CASE l # k
      BY <2>8, <2>9, <3>2, RowStays DEF IInv, Rows
    <3> QED
      BY <3>1, <3>2
  <2>11. Hands' /\ Spare'
    BY <1>2, <2>9, AllStillInHand DEF IInv
  <2>12. Grips'
    <3>1. ASSUME NEW g \in Handlers, Held(g) PROVE line'[job[g].key] = line[job[g].key]
      BY <1>2, <2>8, <3>1, HeldLine
    <3> QED
      BY <1>2, <2>10, <3>1, GripsUntouched DEF IInv
  <2>13. \A m \in Live : Kept(m)
    <3> SUFFICES ASSUME NEW m \in Live PROVE Kept(m)
      OBVIOUS
    <3>1. Linked(m) => Linked(m)'
      <4>1. m # 0
        BY DEF Live, IInv, Typed
      <4> QED
        BY <1>2, <2>8, <4>1 DEF Linked
    <3>2. \A g \in Handlers : AboutToLink(g, m) => AboutToLink(g, m)'
      BY <1>2, <1>3, StillAbout
    <3> QED
      BY <3>1, <3>2 DEF Kept
  <2> QED
    BY <1>2, <1>3, <2>8, <2>10, <2>11, <2>12, <2>13, InPlace DEF IInv, Typed
<1>4. CASE txs' = Append(txs, Tx("OTHER", c, Fingerprint(c), 0)) /\ line' = Booked(k, Len(txs'))
  <2> DEFINE t == Tx("OTHER", c, Fingerprint(c), 0)
  <2>1. t.kind = "OTHER" /\ t.of = c /\ t.batch = 0 /\ t.key[1] = t.of
    BY Fields
  <2>2. txs' = Append(txs, t)
    BY <1>4
  <2> HIDE DEF t
  <2>3. PICK n \in Nat : n = Len(txs')
    BY <2>2, NextTx DEF IInv
  <2> DEFINE row == RowBooked(k, n)
  <2>4. /\ row \in RowType /\ row.status = "RESOLVED" /\ row.tx = n /\ (row.adopted <=> line[k].adopted)
        /\ row.batch = line[k].batch /\ Booked(k, n) = [line EXCEPT ![k] = row]
    BY BookedRow DEF IInv
  <2> HIDE DEF row
  <2>5. Books(k, t, row)
    BY <1>1, <1>2, <1>4, <2>1, <2>2, <2>3, <2>4 DEF Books
  <2> QED
    BY <2>4, <2>5, Booking
<1> QED
  BY <1>1, <1>3, <1>4 DEF Sync

-----------------------------------------------------------------------------
\* revertBatch.
LEMMA BeginRevertKeeps == ASSUME IInv, NEW h \in Handlers, NEW b \in DOMAIN batch, BeginRevert(h, b) PROVE IInv'
<1>1. PICK own : own = {line[k].tx : k \in LinesOf(b)} \ {0}
  OBVIOUS
<1>2. own \subseteq DOMAIN txs /\ own \subseteq Nat
  BY <1>1 DEF LinesOf, IInv, Rows, RowOk, Typed
<1>3. PICK pays \in BOOLEAN : pays <=> \E n \in own : txs[n].kind = "ORDER_PAYMENT"
  OBVIOUS
<1> DEFINE j == [at |-> "revert", b |-> b, own |-> own, pays |-> pays]
<1>4. job' = [job EXCEPT ![h] = [at |-> "revert", b |-> b, own |-> own, pays |-> \E n \in own : txs[n].kind = "ORDER_PAYMENT"]]
  BY <1>1 DEF BeginRevert, Goto
<1>5. pays = (\E n \in own : txs[n].kind = "ORDER_PAYMENT")
  BY <1>3
<1>6. job' = [job EXCEPT ![h] = j]
  BY <1>4, <1>5
<1>7. b \in Nat
  BY DEF IInv, Typed
<1>8. j \in JobType
  BY <1>2, <1>7, Jobs
<1>9. InHand(j)
  BY <1>2, <1>3 DEF InHand, Claiming, Linking
<1>10. /\ j.at \notin {"commit"} \cup Claiming /\ job[h].at \notin Claiming
       /\ UNCHANGED <<conns, batch, line, txs, paid, lost>>
  BY DEF BeginRevert, At, Claiming, Linking
<1> HIDE DEF j
<1> QED
  BY <1>6, <1>8, <1>9, <1>10, ReadsKeep

LEMMA RevertKeeps == ASSUME IInv, NEW h \in Handlers, Revert(h) PROVE IInv'
<1>1. job[h] \in JobType /\ job[h].at = "revert" /\ InHand(job[h])
  BY DEF Revert, At, IInv, Typed, Hands
<1>2. PICK b, own, pays, gone :
        /\ b = job[h].b /\ own = job[h].own /\ (pays <=> job[h].pays) /\ gone = own \cup LegacyTxs(b)
        /\ b \in DOMAIN batch /\ own \subseteq DOMAIN txs
        /\ ~pays => \A n \in own : txs[n].kind # "ORDER_PAYMENT"
  BY <1>1 DEF InHand
<1>3. /\ txs' = Killed(gone)
      /\ line' = [k \in Keys |-> IF k \in LinesOf(b) THEN NoLine ELSE line[k]]
      /\ batch' = [batch EXCEPT ![b] = Reverted]
      /\ paid' = IF pays THEN Payments(txs') ELSE paid
      /\ lost' = lost \cup {k[2] : k \in {k \in LinesOf(b) : line[k].tx \in Live \ own \/ \E g \in Handlers : Handles(g, k)}}
      /\ Goto(h, Idle) /\ UNCHANGED conns
  BY <1>2 DEF Revert
<1>4. b # 0
  BY <1>2 DEF IInv, Typed
<1>5. /\ \E S : txs' \in Seq(S)
      /\ DOMAIN txs' = DOMAIN txs /\ \A n \in DOMAIN txs : txs'[n] = IF n \in gone THEN Deleted ELSE txs[n]
  BY <1>3, TxsKilled DEF IInv
<1>6. Reverted \in BatchType /\ Reverted.rows = {}
  BY DEF Reverted, BatchType
<1>7. batch' \in Seq(BatchType) /\ DOMAIN batch' = DOMAIN batch /\ batch'[b] = Reverted /\ \A c \in DOMAIN batch \ {b} : batch'[c] = batch[c]
  BY <1>2, <1>3, <1>6 DEF IInv, Typed
<1>8. lost \subseteq lost' /\ lost' \subseteq Contents
  BY <1>3, KeyTypes DEF IInv, Typed, LinesOf
<1>9. Ages
  BY <1>3, <1>5, <1>7, <1>8 DEF Ages, IInv, Typed
<1>10. \A k \in Keys : line'[k] = IF k \in LinesOf(b) THEN NoLine ELSE line[k]
  BY <1>3
<1>11. line' \in [Keys -> RowType]
  BY <1>3, RowTypes DEF IInv, Typed
<1>12. Rows'
  BY <1>9, <1>10, RowStays, RowFreed DEF IInv, Rows
<1>13. Entries'
  BY <1>5, <1>9, EntriesAge DEF IInv
<1>14. job' \in [Handlers -> JobType] /\ Hands'
  BY <1>3, <1>9, IdleIsQuiet, Turned DEF Goto, IInv
<1>15. Spare'
  BY <1>3, Jobs, MakersStay, SpareStays DEF Goto, IInv
<1>15a. \A g \in Handlers : job'[g] = IF g = h THEN Idle ELSE job[g]
  BY <1>3 DEF Goto, IInv, Typed
<1>15b. Grips'
  <2> SUFFICES ASSUME NEW g \in Handlers, job'[g].at \in Claiming PROVE Spares(g)
    BY <1>8, GripsStay DEF IInv, Spares
  <2>1. job'[g] = job[g]
    BY <1>15a, IdleIsQuiet
  <2> PICK k : k = job[g].key
    OBVIOUS
  <2>2. k \in Keys
    BY <2>1, JobFields DEF IInv, Typed
  <2>3. CASE k \notin LinesOf(b)
    BY <1>10, <2>1, <2>2, <2>3 DEF Spares
  <2>4. CASE k \in LinesOf(b)
    <3>1. line[k].batch = b /\ line'[k].batch = 0
      BY <1>10, <2>2, <2>4, RowTypes DEF LinesOf
    <3>2. CASE Held(g)
      <4>1. job[g].b = b
        BY <3>1, <3>2, HeldLine
      <4>2. k[2] \in lost'
        BY <1>3, <2>4, <3>2, Zenon DEF Held
      <4> QED
        BY <1>4, <2>1, <3>1, <4>1, <4>2 DEF Spares
    <3>3. CASE ~Held(g)
      BY <1>8, <2>1, <3>1, <3>3 DEF Spares, IInv, Grips, Grip
    <3> QED
      BY <3>2, <3>3
  <2> QED
    BY <2>3, <2>4
<1>16. NothingStranded'
  <2> SUFFICES ASSUME NEW n \in DOMAIN txs', txs'[n] # Deleted, txs'[n].of \notin lost', Stranded(n)' PROVE FALSE
    BY DEF NothingStranded, Live
  <2>1. n \in Live /\ n \notin gone /\ txs'[n] = txs[n]
    BY <1>5 DEF Live
  <2>2. ASSUME NEW k \in Keys, line[k].tx = n PROVE line'[k].tx = n
    <3>1. txs[n].of = k[2]
      BY <2>1, <2>2 DEF IInv, Rows, RowOk
    <3>2. k \notin LinesOf(b)
      <4> SUFFICES ASSUME k \in LinesOf(b) PROVE FALSE
        OBVIOUS
      <4>1. n \in Live \ own
        BY <1>2, <2>1
      <4>2. k[2] \in lost'
        BY <1>3, <2>2, <4>1, Zenon
      <4> QED
        BY <2>1, <3>1, <4>2
    <3> QED
      BY <1>10, <2>2, <3>2
  <2>3. Linked(n) => Linked(n)'
    BY <2>2 DEF Linked
  <2>4. ASSUME NEW g \in Handlers, AboutToLink(g, n) PROVE AboutToLink(g, n)'
    <3>1. g # h
      BY <1>1, <2>4 DEF AboutToLink, At
    <3> QED
      BY <1>15a, <2>1, <2>4, <3>1, StillAbout
  <2>5. Kept(n)
    BY <2>3, <2>4 DEF Kept
  <2> QED
    BY <1>8, <2>1, <2>5, KeptIsSafe
<1>17. PaidIsCurrent'
  <2>1. CASE pays
    BY <1>3, <2>1 DEF PaidIsCurrent
  <2>2. CASE ~pays
    <3>1. \A n \in gone : txs[n].kind # "ORDER_PAYMENT"
      BY <1>2, <1>4, <2>2 DEF LegacyTxs, Live, IInv, Entries
    <3> QED
      BY <1>3, <2>2, <3>1, NoPaymentKilled DEF IInv
  <2> QED
    BY <2>1, <2>2
<1>18. ImportsWhole'
  <2>1. LinesOf(b)' = {}
    <3>1. LinesOf(b)' = {k \in Keys : line'[k].batch = b}
      BY DEF LinesOf, Keys
    <3>2. \A k \in Keys : line'[k].batch # b
      BY <1>4, <1>10, RowTypes DEF LinesOf
    <3> QED
      BY <3>1, <3>2
  <2>2. ASSUME NEW c \in DOMAIN batch, c # b PROVE LinesOf(c)' = LinesOf(c)
    <3>1. c # 0
      BY DEF IInv, Typed
    <3> QED
      BY <1>10, <2>2, <3>1, RowTypes DEF LinesOf
  <2> QED
    BY <1>6, <1>7, <2>1, <2>2 DEF IInv, ImportsWhole
<1>19. Typed'
  BY <1>3, <1>5, <1>7, <1>8, <1>11, <1>14 DEF IInv, Typed
<1> QED
  BY <1>12, <1>13, <1>14, <1>15, <1>15b, <1>16, <1>17, <1>18, <1>19 DEF IInv

-----------------------------------------------------------------------------
LEMMA InitIInv == Init => IInv
<1> SUFFICES ASSUME Init PROVE IInv
  OBVIOUS
<1> DEFINE t == Tx("OTHER", LegacyRow, <<LegacyRow, 1>>, 1)
           first == [file |-> LegacyFile, rows |-> {}]
<1>1. t.kind = "OTHER" /\ t.of = LegacyRow /\ t.key = <<LegacyRow, 1>> /\ t.batch = 1
  BY Fields
<1>2. first \in BatchType /\ first.rows = {}
  BY DEF BatchType
<1>3. conns = 0 /\ batch = <<first>> /\ line = [k \in Keys |-> NoLine] /\ txs = <<t>> /\ paid = 0
  BY DEF Init
<1>4. job = [h \in Handlers |-> Idle] /\ lost = {}
  BY DEF Init
<1> HIDE DEF t, first
<1>5. txs \in Seq({t}) /\ DOMAIN txs = {1} /\ txs[1] = t
  BY <1>3
<1>6. batch \in Seq(BatchType) /\ DOMAIN batch = {1} /\ batch[1] = first
  BY <1>2, <1>3
<1>7. Typed
  BY <1>3, <1>4, <1>5, <1>6, RowTypes, Jobs DEF Typed
<1>8. Rows
  BY <1>3, <1>5, RowTypes DEF Rows, RowOk, Live, NoLine
<1>9. Entries
  BY <1>1, <1>5 DEF Entries
<1>10. Hands
  BY <1>4, IdleIsQuiet DEF Hands
<1>15. Grips
  BY <1>4, IdleIsQuiet, HeldIs DEF Grips, Grip
<1>11. Spare
  <2>1. Makers = {}
    BY <1>4, Jobs DEF Makers, At
  <2> QED
    BY <1>3, <2>1, FS_EmptySet, KeyTypes DEF Spare
<1>12. NothingStranded
  BY <1>1, <1>5 DEF NothingStranded, Stranded, Live
<1>13. PaidIsCurrent
  <2>1. {n \in DOMAIN txs : txs[n].kind = "ORDER_PAYMENT"} = {}
    BY <1>1, <1>5
  <2> QED
    BY <1>3, <2>1, FS_EmptySet DEF PaidIsCurrent, Payments
<1>14. ImportsWhole
  <2>1. LinesOf(1) = {}
    BY <1>3, RowTypes DEF LinesOf
  <2> QED
    BY <1>2, <1>6, <2>1 DEF ImportsWhole
<1> QED
  BY <1>7, <1>8, <1>9, <1>10, <1>15, <1>11, <1>12, <1>13, <1>14 DEF IInv

LEMMA StepIInv == IInv /\ [Next]_vars => IInv'
<1> SUFFICES ASSUME IInv, [Next]_vars PROVE IInv'
  OBVIOUS
<1>1. ASSUME NEW h \in Handlers, NEW f \in Files, Preview(h, f) PROVE IInv'
  BY <1>1, PreviewKeeps
<1>2. ASSUME NEW h \in Handlers, NEW skip \in BOOLEAN, BeginCommit(h, skip) PROVE IInv'
  BY <1>2, BeginCommitKeeps
<1>3. ASSUME NEW h \in Handlers, Commit(h) \/ Revert(h) PROVE IInv'
  BY <1>3, CommitKeeps, RevertKeeps
<1>4. ASSUME NEW h \in Handlers, NEW b \in DOMAIN batch, BeginRevert(h, b) PROVE IInv'
  BY <1>4, BeginRevertKeeps
<1>5. ASSUME NEW k \in Keys, Categorize(k) PROVE IInv'
  BY <1>5, CategorizeKeeps
<1>6. ASSUME NEW h \in Handlers, NEW k \in Keys, NEW at \in {"pay", "transfer"}, TakeLine(h, k, at) PROVE IInv'
  BY <1>6, TakeLineKeeps
<1>7. ASSUME NEW h \in Handlers, Unclaim(h) \/ Pay(h) \/ FindPayment(h) \/ LinkPayment(h) \/ CreateTransfer(h) \/ Tie(h) PROVE IInv'
  BY <1>7, UnclaimKeeps, PayKeeps, FindPaymentKeeps, LinkPaymentKeeps, CreateTransferKeeps, TieKeeps
<1>8. ASSUME NEW n \in DOMAIN txs, Undo(n) \/ DeletePayment(n) \/ DeleteTransfer(n) PROVE IInv'
  BY <1>8, UndoKeeps, DeletePaymentKeeps, DeleteTransferKeeps
<1>9. ASSUME NEW c \in BankRows, Sync(c) PROVE IInv'
  BY <1>9, SyncKeeps, ImportAssumption
<1>10. CASE UNCHANGED vars
  <2>1. UNCHANGED <<conns, batch, line, txs, paid, job, lost>>
    BY <1>10 DEF vars
  <2>2. Hands' /\ Spare' /\ job' \in [Handlers -> JobType]
    BY <2>1, QuietAges, AllStillInHand DEF IInv, Typed
  <2>3. Grips'
    BY <2>1, GripsUntouched DEF IInv
  <2>4. \A n \in Live : Kept(n)
    BY <2>1, StillAbout DEF Kept, Linked
  <2> QED
    BY <2>1, <2>2, <2>3, <2>4, Quiet
<1> QED
  BY <1>1, <1>2, <1>3, <1>4, <1>5, <1>6, <1>7, <1>8, <1>9, <1>10, AddPaymentKeeps DEF Next

LEMMA IInvAlways == Spec => []IInv
  BY InitIInv, StepIInv, PTL DEF Spec

\* Money booked of a line never outlives the line, whatever people and the
\* bank do with it between the reads of a revert and its writes, and between the
\* claim of a line and its link; rows that a revert met just then, and those with
\* two payments to choose from (lost) aside.
THEOREM RevertsWhole == Spec => []NothingStranded
<1>1. IInv => NothingStranded
  BY DEF IInv
<1> QED
  BY <1>1, IInvAlways, PTL

\* The order's paidAmount is the sum of its live payments after every revert,
\* attachment, payment by hand and deletion, in any order.
THEOREM PaidStaysCurrent == Spec => []PaidIsCurrent
<1>1. IInv => PaidIsCurrent
  BY DEF IInv
<1> QED
  BY <1>1, IInvAlways, PTL

\* An import is in the inbox whole until it is reverted, and gone whole after
\* that: no other import takes a line of it, and no revert misses one.
THEOREM ImportedWhole == Spec => []ImportsWhole
<1>1. IInv => ImportsWhole
  BY DEF IInv
<1> QED
  BY <1>1, IInvAlways, PTL

-----------------------------------------------------------------------------
(***************************************************************************)
(* The copy of amoCRM (module Crm), for every set of leads, orders,        *)
(* synchronisations and people and every page, overlap and bound: no lead  *)
(* falls behind the cursor uncopied and no sale is lost (NoSaleLost), and  *)
(* linkBulk displaces no order (BulkDisplacesNothing).  NoSaleLost speaks  *)
(* of the cursor alone, so CrmInv says what makes the next cursor safe:    *)
(*   - Clocked: nothing that was read is later than the last change;       *)
(*   - TiesExist: the order of a deal, or of a handler, was once entered;  *)
(*   - Followed: every synchronisation under way is Safe for every lead    *)
(*     that did not slip: the lead is copied, or among the entries still   *)
(*     to be stored, or late enough to be read by this one or the next.    *)
(***************************************************************************)
Stages == {"open", "won"}
EntryType == [id : Leads, at : Nat \ {0}, stage : Stages]
SyncJobs ==
  {AtRest} \cup [at : {"read"}, since : Int, page : Nat, newest : Nat]
           \cup [at : {"store"}, since : Int, page : Nat, newest : Nat, leads : SUBSET EntryType, full : BOOLEAN]
           \cup [at : {"write"}, newest : Nat]
UserJobs ==
  {AtRest} \cup [at : {"link", "bulk"}, deal : Leads, order : OrderIds]
           \cup [at : {"create", "unlink"}, deal : Leads]
           \cup [at : {"dismiss"}, deal : Leads, dismissed : BOOLEAN]

CrmTyped ==
  /\ clock \in Nat
  /\ lead \in [Leads -> [at : Nat, stage : Stages]]
  /\ conn \in [status : {"ACTIVE", "ERROR", "DISABLED"}, cursor : Nat]
  /\ deal \in [Leads -> [at : Nat, stage : Stages, order : OrderIds \cup {NoOrder}, dismissed : BOOLEAN]]
  /\ order \in [OrderIds -> {"none", "open", "paid", "deleted", "deletedPaid"}]
  /\ sync \in [Syncs -> SyncJobs]
  /\ user \in [Users -> UserJobs]

\* Nothing that was read is later than the clock.
PastTimes(j) ==
  /\ j.at # "idle" => j.newest <= clock
  /\ j.at \in {"read", "store"} => j.since <= clock
  /\ j.at = "store" => \A e \in j.leads : e.at <= clock
Clocked ==
  /\ \A l \in Leads : lead[l].at <= clock
  /\ conn.cursor <= clock
  /\ \A s \in Syncs : PastTimes(sync[s])

\* What a deal is tied to, or is about to be, is in the books or was.
TiesExist ==
  /\ \A l \in Leads : deal[l].order # NoOrder => order[deal[l].order] # "none"
  /\ \A u \in Users : user[u].at \in {"link", "bulk"} => order[user[u].order] # "none"

\* A lead at this moment, for a synchronisation: it has still to store it, or what it has
\* read leaves the lead to be asked for, on a later page or by the next synchronisation.
StillToStore(j, l) == j.at = "store" /\ \E e \in j.leads : e.id = l /\ e.at = lead[l].at /\ e.stage = lead[l].stage
Ahead(j, l) ==
  /\ lead[l].at >= j.since /\ lead[l].at >= Since(j.newest)
  /\ j.at = "store" => \A e \in j.leads : lead[l].at >= e.at - Overlap
Safe(j, l) ==
  /\ j.at \in {"read", "store"} /\ lead[l].at # 0 => Current(l) \/ StillToStore(j, l) \/ Ahead(j, l)
  /\ j.at = "write" /\ lead[l].at # 0 /\ lead[l].at < Since(j.newest) => Current(l)
Followed == CopyKeepsUp /\ \A s \in Syncs, l \in Leads \ slipped : Safe(sync[s], l)

CrmInv == CrmTyped /\ Clocked /\ TiesExist /\ Followed

-----------------------------------------------------------------------------
LEMMA JobTypes ==
  ASSUME NEW j \in SyncJobs
  PROVE  /\ j.at \in {"idle", "read", "store", "write"}
         /\ j.at # "idle" => j.newest \in Nat
         /\ j.at \in {"read", "store"} => j.since \in Int /\ j.page \in Nat
         /\ j.at = "store" => j.leads \in SUBSET EntryType
  BY DEF SyncJobs, AtRest

LEMMA LeadTypes ==
  ASSUME CrmTyped, NEW l \in Leads
  PROVE  /\ lead[l].at \in Nat /\ lead[l].stage \in Stages
         /\ deal[l].at \in Nat /\ deal[l].stage \in Stages /\ deal[l].order \in OrderIds \cup {NoOrder}
  BY DEF CrmTyped

LEMMA SinceType ==
  ASSUME NEW c \in Nat
  PROVE  Since(c) \in Int /\ Since(c) <= c /\ (c # 0 => Since(c) = c - Overlap) /\ Since(0) = 0
  BY CrmAssumption DEF Since

LEMMA NewestOf ==
  ASSUME NEW a \in Nat, NEW b \in Nat
  PROVE  Max({a, b}) \in {a, b} /\ Max({a, b}) >= a /\ Max({a, b}) >= b
<1>1. \E x \in {a, b} : \A y \in {a, b} : x >= y
  <2>1. CASE a >= b
    BY <2>1
  <2>2. CASE b >= a
    BY <2>2
  <2> QED BY <2>1, <2>2
<1> QED BY <1>1 DEF Max

\* A synchronisation that does not move stays safe for a lead that does not move.
LEMMA SafeStays ==
  ASSUME NEW s \in Syncs, NEW l \in Leads, Safe(sync[s], l),
         sync'[s] = sync[s], lead'[l] = lead[l], Current(l) => Current(l)'
  PROVE  Safe(sync[s], l)'
  BY DEF Safe, StillToStore, Ahead

LEMMA CopyStays ==
  ASSUME NEW l \in Leads, Behind(l) => Current(l),
         conn'.cursor = conn.cursor, lead'[l] = lead[l], Current(l) => Current(l)'
  PROVE  (Behind(l) => Current(l))'
  BY DEF Behind

\* A lead copied as it is, is safe.
LEMMA CurrentIsSafe == ASSUME NEW j, NEW l, Current(l) PROVE Safe(j, l)
  BY DEF Safe

LEMMA CrmInitInv == CrmInit => CrmInv
<1> SUFFICES ASSUME CrmInit PROVE CrmInv
  OBVIOUS
<1>1. CrmTyped
  BY CrmAssumption DEF CrmInit, CrmTyped, NoDeal, SyncJobs, UserJobs, Stages
<1>2. Clocked
  BY <1>1 DEF CrmInit, CrmTyped, Clocked, PastTimes, AtRest
<1>3. TiesExist
  BY DEF CrmInit, TiesExist, NoDeal, AtRest
<1>4. CopyKeepsUp
  BY <1>1 DEF CrmInit, CopyKeepsUp, Behind, Since, CrmTyped
<1>5. \A s \in Syncs, l \in Leads \ slipped : Safe(sync[s], l)
  BY DEF CrmInit, Safe, AtRest
<1> QED BY <1>1, <1>2, <1>3, <1>4, <1>5 DEF CrmInv, Followed

-----------------------------------------------------------------------------
LEMMA ChangeInv == ASSUME CrmInv, NEW l0 \in Leads, NEW stage \in Stages, Change(l0, stage) PROVE CrmInv'
<1>1. PICK now \in clock..LastSecond : clock' = now /\ lead' = [lead EXCEPT ![l0] = [at |-> now, stage |-> stage]]
  BY DEF Change
<1>2. clock \in Nat /\ now \in Nat /\ clock <= now
  BY <1>1, CrmAssumption DEF CrmInv, CrmTyped
<1>3. UNCHANGED <<conn, deal, order, sync, user>> /\ slipped' = slipped \ {l0}
  BY DEF Change
<1>4. CrmTyped'
  BY <1>1, <1>2, <1>3 DEF CrmInv, CrmTyped
<1>5. lead'[l0].at = now /\ \A l \in Leads \ {l0} : lead'[l] = lead[l]
  BY <1>1 DEF CrmInv, CrmTyped
<1>6. Clocked'
  <2>1. \A l \in Leads : lead'[l].at <= clock'
    BY <1>1, <1>2, <1>5, LeadTypes DEF CrmInv, Clocked
  <2>2. conn.cursor <= clock'
    BY <1>1, <1>2 DEF CrmInv, CrmTyped, Clocked
  <2>3. \A s \in Syncs : PastTimes(sync[s])'
    <3> TAKE s \in Syncs
    <3>1. sync[s] \in SyncJobs /\ PastTimes(sync[s])
      BY DEF CrmInv, CrmTyped, Clocked
    <3>2. \A e \in EntryType : e.at \in Nat
      BY DEF EntryType
    <3> QED BY <1>1, <1>2, <1>3, <3>1, <3>2, JobTypes DEF PastTimes
  <2> QED BY <1>3, <2>1, <2>2, <2>3 DEF Clocked
<1>7. TiesExist'
  BY <1>3 DEF CrmInv, TiesExist
<1>8. CopyKeepsUp'
  <2> SUFFICES ASSUME NEW l \in Leads \ slipped' PROVE (Behind(l) => Current(l))'
    BY DEF CopyKeepsUp
  <2>1. CASE l = l0
    <3>1. Since(conn.cursor) \in Int /\ Since(conn.cursor) <= now
      BY <1>2, SinceType DEF CrmInv, CrmTyped, Clocked
    <3> QED BY <1>2, <1>3, <1>5, <2>1, <3>1 DEF Behind
  <2>2. CASE l # l0
    BY <1>3, <1>5, <2>2 DEF CrmInv, Followed, CopyKeepsUp, Behind, Current
  <2> QED BY <2>1, <2>2
<1>9. ASSUME NEW s \in Syncs, NEW l \in Leads \ slipped' PROVE Safe(sync[s], l)'
  <2>1. CASE l = l0
    <3>1. sync[s] \in SyncJobs /\ PastTimes(sync[s])
      BY DEF CrmInv, CrmTyped, Clocked
    <3>2. sync[s].at # "idle" => Since(sync[s].newest) \in Int /\ Since(sync[s].newest) <= now
      BY <1>2, <3>1, JobTypes, SinceType DEF PastTimes
    <3>3. sync[s].at \in {"read", "store"} => now >= sync[s].since
      BY <1>2, <3>1, JobTypes DEF PastTimes
    <3>4. sync[s].at = "store" => \A e \in sync[s].leads : now >= e.at - Overlap
      <4> SUFFICES ASSUME sync[s].at = "store", NEW e \in sync[s].leads PROVE now >= e.at - Overlap
        OBVIOUS
      <4>1. e.at \in Nat /\ e.at <= clock
        BY <3>1, JobTypes DEF PastTimes, EntryType
      <4> QED BY <1>2, <4>1, CrmAssumption
    <3> QED BY <1>2, <1>3, <1>5, <2>1, <3>2, <3>3, <3>4 DEF Safe, Ahead
  <2>2. CASE l # l0
    BY <1>3, <1>5, <2>2, SafeStays DEF CrmInv, Followed, Current
  <2> QED BY <2>1, <2>2
<1> QED BY <1>4, <1>6, <1>7, <1>8, <1>9 DEF CrmInv, Followed


\* While one synchronisation takes a step, the others stay safe for the leads that were.
LEMMA OthersStay ==
  ASSUME CrmInv, NEW s0 \in Syncs, sync'[s0] \in SyncJobs, sync' = [sync EXCEPT ![s0] = sync'[s0]], lead' = lead,
         \A l \in Leads \ slipped' : (l \in slipped \/ Current(l)) => Current(l)'
  PROVE  /\ sync' \in [Syncs -> SyncJobs] /\ \A s \in Syncs \ {s0} : sync'[s] = sync[s]
         /\ \A s \in Syncs \ {s0}, l \in Leads \ slipped' : Safe(sync[s], l)'
         /\ conn' = conn => CopyKeepsUp'
<1>1. sync' \in [Syncs -> SyncJobs] /\ \A s \in Syncs \ {s0} : sync'[s] = sync[s]
  BY DEF CrmInv, CrmTyped
<1>2. ASSUME NEW s \in Syncs \ {s0}, NEW l \in Leads \ slipped' PROVE Safe(sync[s], l)'
  <2>1. CASE Current(l)'
    BY <2>1 DEF Safe
  <2>2. CASE l \notin slipped /\ ~Current(l)
    BY <1>1, <2>2, SafeStays DEF CrmInv, Followed
  <2> QED BY <2>1, <2>2
<1>3. ASSUME conn' = conn, NEW l \in Leads \ slipped' PROVE (Behind(l) => Current(l))'
  BY <1>3 DEF CrmInv, Followed, CopyKeepsUp, Behind
<1> QED BY <1>1, <1>2, <1>3 DEF CopyKeepsUp

\* The clock rests: nothing that was read before is later than it.
LEMMA OthersPast ==
  ASSUME CrmInv, NEW s0 \in Syncs, UNCHANGED <<clock, lead>>, conn'.cursor <= clock,
         \A s \in Syncs \ {s0} : sync'[s] = sync[s], PastTimes(sync[s0])'
  PROVE  Clocked'
<1>1. ASSUME NEW s \in Syncs PROVE PastTimes(sync[s])'
  BY DEF CrmInv, Clocked, PastTimes
<1> QED BY <1>1 DEF CrmInv, Clocked

-----------------------------------------------------------------------------
LEMMA PlaceOrder ==
  ASSUME CrmTyped, NEW since \in Int, NEW k \in Leads, NEW l \in Leads, Precedes(k, l)
  PROVE  Place(since, k) \in Nat /\ Place(since, l) \in Nat /\ Place(since, k) <= Place(since, l)
<1> DEFINE Upto(m) == {n \in ChangedSince(since) : n = m \/ Precedes(n, m)}
<1>1. \A m \in Leads : IsFiniteSet(Upto(m)) /\ Cardinality(Upto(m)) \in Nat
  <2> TAKE m \in Leads
  <2>1. Upto(m) \subseteq Leads
    BY DEF ChangedSince
  <2> QED BY <2>1, CrmAssumption, FS_Subset, FS_CardinalityType
<1>2. Upto(k) \subseteq Upto(l)
  <2> SUFFICES ASSUME NEW n \in Upto(k) PROVE n \in Upto(l)
    OBVIOUS
  <2>1. n \in Leads /\ n \in Nat /\ k \in Nat /\ l \in Nat
    BY CrmAssumption DEF ChangedSince
  <2>2. lead[n].at \in Nat /\ lead[k].at \in Nat /\ lead[l].at \in Nat
    BY <2>1, LeadTypes
  <2> QED BY <2>1, <2>2 DEF Precedes
<1>3. Cardinality(Upto(k)) <= Cardinality(Upto(l))
  BY <1>1, <1>2, FS_Subset
<1> QED BY <1>1, <1>3 DEF Place

LEMMA PageFacts ==
  ASSUME CrmTyped, NEW since \in Int, NEW page \in Nat
  PROVE  /\ LeadsPage(since, page) \in SUBSET EntryType
         /\ \A e \in LeadsPage(since, page) :
              /\ e.id \in ChangedSince(since) /\ e.at = lead[e.id].at
              /\ Place(since, e.id) <= page * PageLimit
         /\ \A l \in ChangedSince(since) : Place(since, l) \in ((page - 1) * PageLimit + 1)..(page * PageLimit) =>
              \E e \in LeadsPage(since, page) : e.id = l /\ e.at = lead[l].at /\ e.stage = lead[l].stage
<1> DEFINE entry(l) == [id |-> l, at |-> lead[l].at, stage |-> lead[l].stage]
<1>1. \A l \in ChangedSince(since) : l \in Leads /\ entry(l) \in EntryType
  BY LeadTypes DEF ChangedSince, EntryType
<1>2. ASSUME NEW e \in LeadsPage(since, page)
      PROVE  \E l \in ChangedSince(since) : e = entry(l) /\ Place(since, l) \in ((page - 1) * PageLimit + 1)..(page * PageLimit)
  BY DEF LeadsPage
<1>3. ASSUME NEW e \in LeadsPage(since, page)
      PROVE  /\ e \in EntryType /\ e.id \in ChangedSince(since) /\ e.at = lead[e.id].at
             /\ Place(since, e.id) <= page * PageLimit
  BY <1>1, <1>2
<1>4. ASSUME NEW l \in ChangedSince(since), Place(since, l) \in ((page - 1) * PageLimit + 1)..(page * PageLimit)
      PROVE  entry(l) \in LeadsPage(since, page)
  BY <1>4 DEF LeadsPage
<1> HIDE DEF entry
<1>5. \A l : entry(l).id = l /\ entry(l).at = lead[l].at /\ entry(l).stage = lead[l].stage
  BY DEF entry
<1> QED BY <1>3, <1>4, <1>5

-----------------------------------------------------------------------------
LEMMA StartInv == ASSUME CrmInv, NEW s0 \in Syncs, Start(s0) PROVE CrmInv'
<1>1. sync'[s0] = [at |-> "read", since |-> Since(conn.cursor), page |-> 1, newest |-> conn.cursor]
      /\ sync' = [sync EXCEPT ![s0] = sync'[s0]]
  BY DEF CrmInv, CrmTyped, Start
<1>2. UNCHANGED <<clock, lead, conn, deal, order, user, slipped>>
  BY DEF Start, remote
<1>3. conn.cursor \in Nat /\ Since(conn.cursor) \in Int /\ Since(conn.cursor) <= conn.cursor /\ conn.cursor <= clock /\ clock \in Nat
  BY SinceType DEF CrmInv, CrmTyped, Clocked
<1>4. sync'[s0] \in SyncJobs /\ PastTimes(sync[s0])'
  BY <1>1, <1>2, <1>3 DEF SyncJobs, PastTimes
<1>5. /\ sync' \in [Syncs -> SyncJobs] /\ \A s \in Syncs \ {s0} : sync'[s] = sync[s]
      /\ \A s \in Syncs \ {s0}, l \in Leads \ slipped' : Safe(sync[s], l)'
      /\ CopyKeepsUp'
  BY <1>1, <1>2, <1>4, OthersStay DEF Current
<1>6. Clocked'
  BY <1>2, <1>3, <1>4, <1>5, OthersPast
<1>7. CrmTyped' /\ TiesExist'
  BY <1>2, <1>5 DEF CrmInv, CrmTyped, TiesExist
<1>8. ASSUME NEW l \in Leads \ slipped' PROVE Safe(sync[s0], l)'
  <2>1. Behind(l) => Current(l)
    BY <1>2 DEF CrmInv, Followed, CopyKeepsUp
  <2>2. lead[l].at \in Nat
    BY LeadTypes DEF CrmInv
  <2> QED BY <1>1, <1>2, <1>3, <2>1, <2>2 DEF Safe, Ahead, Behind, Current
<1> QED BY <1>5, <1>6, <1>7, <1>8 DEF CrmInv, Followed

LEMMA ReadPageInv == ASSUME CrmInv, NEW s0 \in Syncs, ReadPage(s0) PROVE CrmInv'
<1> DEFINE r == sync[s0]
           page == LeadsPage(r.since, r.page)
<1>1. r \in SyncJobs /\ r.at = "read" /\ r.since \in Int /\ r.page \in Nat /\ r.newest \in Nat
  BY JobTypes DEF CrmInv, CrmTyped, ReadPage
<1>2. UNCHANGED <<clock, lead, conn, deal, order, user>> /\ slipped' = slipped \cup PassedOver(r.since, r.page)
  BY DEF ReadPage, remote
<1>3. page \in SUBSET EntryType
  BY <1>1, PageFacts DEF CrmInv
<1>4. /\ sync'[s0] = IF page = {} THEN [at |-> "write", newest |-> r.newest]
                     ELSE [at |-> "store", since |-> r.since, page |-> r.page, newest |-> r.newest,
                           leads |-> page, full |-> Cardinality(page) = PageLimit]
      /\ sync' = [sync EXCEPT ![s0] = sync'[s0]]
  BY DEF CrmInv, CrmTyped, ReadPage
<1> HIDE DEF page
<1>5. sync'[s0] \in SyncJobs
  BY <1>1, <1>3, <1>4 DEF SyncJobs
<1>6. PastTimes(sync[s0])'
  <2>1. PastTimes(r) /\ \A l \in Leads : lead[l].at <= clock
    BY DEF CrmInv, Clocked
  <2>2. \A e \in page : e.at <= clock
    BY <1>1, <2>1, PageFacts DEF page, CrmInv, ChangedSince
  <2> QED BY <1>1, <1>2, <1>4, <2>1, <2>2 DEF PastTimes
<1>7. /\ sync' \in [Syncs -> SyncJobs] /\ \A s \in Syncs \ {s0} : sync'[s] = sync[s]
      /\ \A s \in Syncs \ {s0}, l \in Leads \ slipped' : Safe(sync[s], l)'
      /\ CopyKeepsUp'
  BY <1>2, <1>4, <1>5, OthersStay DEF Current
<1>8. Clocked'
  BY <1>2, <1>6, <1>7, OthersPast DEF CrmInv, Clocked
<1>9. CrmTyped' /\ TiesExist'
  BY <1>2, <1>7 DEF CrmInv, CrmTyped, TiesExist
<1>10. ASSUME NEW l \in Leads \ slipped', lead[l].at # 0, ~Current(l)
       PROVE  /\ lead[l].at >= r.since /\ lead[l].at >= Since(r.newest)
              /\ StillToStore(sync[s0], l)' \/ \A e \in page : lead[l].at >= e.at - Overlap
  <2>1. lead[l].at >= r.since /\ lead[l].at >= Since(r.newest)
    BY <1>1, <1>2, <1>10 DEF CrmInv, Followed, Safe, StillToStore, Ahead
  <2>2. l \in ChangedSince(r.since) /\ lead[l].at \in Nat
    BY <1>10, <2>1, LeadTypes DEF ChangedSince, CrmInv
  <2>3. ASSUME NEW e \in page, ~(lead[l].at >= e.at - Overlap) PROVE StillToStore(sync[s0], l)'
    <3>1. e.id \in Leads /\ e.at \in Nat /\ e.at = lead[e.id].at /\ Place(r.since, e.id) <= r.page * PageLimit
      BY <1>1, <1>3, PageFacts DEF page, CrmInv, EntryType
    <3>2. lead[l].at < e.at - Overlap /\ Precedes(l, e.id)
      BY <2>2, <2>3, <3>1, CrmAssumption DEF Precedes
    <3>3. Place(r.since, l) \in Nat /\ Place(r.since, e.id) \in Nat /\ Place(r.since, l) <= Place(r.since, e.id)
      BY <1>1, <3>1, <3>2, PlaceOrder DEF CrmInv
    <3>4. r.page * PageLimit \in Int /\ (r.page - 1) * PageLimit \in Int
      BY <1>1, CrmAssumption
    <3>5. ~(Place(r.since, l) <= (r.page - 1) * PageLimit)
      BY <1>2, <1>10, <2>2, <3>2 DEF PassedOver, page
    <3>6. Place(r.since, l) \in ((r.page - 1) * PageLimit + 1)..(r.page * PageLimit)
      BY <3>1, <3>3, <3>4, <3>5
    <3>7. \E f \in page : f.id = l /\ f.at = lead[l].at /\ f.stage = lead[l].stage
      BY <1>1, <2>2, <3>6, PageFacts DEF page, CrmInv
    <3> QED BY <1>2, <1>4, <3>7 DEF StillToStore
  <2> QED BY <2>1, <2>3
<1>11. ASSUME NEW l \in Leads \ slipped' PROVE Safe(sync[s0], l)'
  <2>1. CASE Current(l)
    BY <1>2, <2>1 DEF Safe, Current
  <2>2. CASE lead[l].at # 0 /\ ~Current(l)
    <3>1. Since(r.newest) \in Int /\ lead[l].at \in Nat
      BY <1>1, SinceType, LeadTypes DEF CrmInv
    <3>2. CASE page = {}
      BY <1>2, <1>4, <1>10, <2>2, <3>1, <3>2 DEF Safe
    <3>3. CASE page # {}
      BY <1>2, <1>4, <1>10, <2>2, <3>3 DEF Safe, Ahead
    <3> QED BY <3>2, <3>3
  <2>3. CASE lead[l].at = 0
    BY <1>2, <2>3 DEF Safe
  <2> QED BY <2>1, <2>2, <2>3
<1> QED BY <1>7, <1>8, <1>9, <1>11 DEF CrmInv, Followed

LEMMA StoreInv == ASSUME CrmInv, NEW s0 \in Syncs, Store(s0) PROVE CrmInv'
<1> DEFINE r == sync[s0]
<1>1. PICK e \in r.leads :
        LET rest == r.leads \ {e}
            newest == Max({r.newest, e.at})
        IN
        /\ deal' = [deal EXCEPT ![e.id].at = e.at, ![e.id].stage = e.stage]
        /\ slipped' = CASE e.at = lead[e.id].at /\ e.stage = lead[e.id].stage -> slipped \ {e.id}
                        [] Current(e.id) -> slipped \cup {e.id}
                        [] OTHER -> slipped
        /\ sync' = [sync EXCEPT ![s0] =
             CASE rest # {} -> [r EXCEPT !.leads = rest, !.newest = newest]
               [] rest = {} /\ r.full /\ r.page < MaxPages ->
                    [at |-> "read", since |-> r.since, page |-> r.page + 1, newest |-> newest]
               [] OTHER -> [at |-> "write", newest |-> newest]]
  BY DEF Store
<1> DEFINE rest == r.leads \ {e}
           newest == Max({r.newest, e.at})
<1>2. /\ r \in [at : {"store"}, since : Int, page : Nat, newest : Nat, leads : SUBSET EntryType, full : BOOLEAN]
      /\ e \in EntryType /\ e.id \in Leads /\ e.at \in Nat \ {0} /\ e.stage \in Stages
  BY <1>1 DEF CrmInv, CrmTyped, Store, SyncJobs, AtRest, EntryType
<1>3. newest \in {r.newest, e.at} /\ newest \in Nat
  BY <1>2, NewestOf
<1>4. UNCHANGED <<clock, lead, conn, order, user>>
  BY DEF Store, remote
<1>5. /\ \/ rest # {} /\ sync'[s0] = [r EXCEPT !.leads = rest, !.newest = newest]
         \/ rest = {} /\ sync'[s0] = [at |-> "read", since |-> r.since, page |-> r.page + 1, newest |-> newest]
         \/ rest = {} /\ sync'[s0] = [at |-> "write", newest |-> newest]
      /\ sync' = [sync EXCEPT ![s0] = sync'[s0]]
  <2>1. sync \in [Syncs -> SyncJobs]
    BY DEF CrmInv, CrmTyped
  <2> QED BY <1>1, <2>1
<1>6. \A l \in Leads : /\ deal'[l] = IF l = e.id THEN [deal[l] EXCEPT !.at = e.at, !.stage = e.stage] ELSE deal[l]
                       /\ deal'[l].order = deal[l].order
                       /\ l = e.id => deal'[l].at = e.at /\ deal'[l].stage = e.stage
  BY <1>1, <1>2 DEF CrmInv, CrmTyped
<1>7. deal' \in [Leads -> [at : Nat, stage : Stages, order : OrderIds \cup {NoOrder}, dismissed : BOOLEAN]]
  BY <1>1, <1>2 DEF CrmInv, CrmTyped
<1> HIDE DEF rest, newest
<1>8. rest \in SUBSET EntryType /\ rest \subseteq r.leads /\ r.leads = rest \cup {e}
  BY <1>2 DEF rest
<1>9. /\ sync'[s0] \in SyncJobs /\ sync'[s0].at \in {"read", "store", "write"} /\ sync'[s0].newest = newest
      /\ sync'[s0].at \in {"read", "store"} => sync'[s0].since = r.since
      /\ sync'[s0].at = "store" => sync'[s0].leads = rest
      /\ rest # {} => sync'[s0].at = "store"
  <2>1. CASE rest # {} /\ sync'[s0] = [r EXCEPT !.leads = rest, !.newest = newest]
    BY <1>2, <1>3, <1>8, <2>1 DEF SyncJobs
  <2>2. CASE rest = {} /\ sync'[s0] = [at |-> "read", since |-> r.since, page |-> r.page + 1, newest |-> newest]
    BY <1>2, <1>3, <2>2 DEF SyncJobs
  <2>3. CASE rest = {} /\ sync'[s0] = [at |-> "write", newest |-> newest]
    BY <1>3, <2>3 DEF SyncJobs
  <2> QED BY <1>5, <2>1, <2>2, <2>3
<1>10. PastTimes(sync[s0])'
  <2>1. PastTimes(r)
    BY DEF CrmInv, Clocked
  <2>2. r.newest <= clock /\ r.since <= clock /\ \A f \in r.leads : f.at <= clock
    BY <1>2, <2>1 DEF PastTimes
  <2>3. newest <= clock
    BY <1>3, <1>8, <2>2
  <2> QED BY <1>4, <1>8, <1>9, <2>2, <2>3 DEF PastTimes
<1>11. \A l \in Leads \ slipped' : (l \in slipped \/ Current(l)) => Current(l)'
  <2> SUFFICES ASSUME NEW l \in Leads \ slipped', l \in slipped \/ Current(l) PROVE Current(l)'
    OBVIOUS
  <2>1. CASE l = e.id
    <3>1. e.at = lead[l].at /\ e.stage = lead[l].stage
      BY <1>1, <2>1
    <3> QED BY <1>4, <1>6, <2>1, <3>1 DEF Current
  <2>2. CASE l # e.id
    <3>1. l \notin slipped
      BY <1>1, <2>2
    <3> QED BY <1>4, <1>6, <2>2, <3>1 DEF Current
  <2> QED BY <2>1, <2>2
<1>12. /\ sync' \in [Syncs -> SyncJobs] /\ \A s \in Syncs \ {s0} : sync'[s] = sync[s]
       /\ \A s \in Syncs \ {s0}, l \in Leads \ slipped' : Safe(sync[s], l)'
       /\ CopyKeepsUp'
  BY <1>4, <1>5, <1>9, <1>11, OthersStay
<1>13. Clocked'
  BY <1>4, <1>10, <1>12, OthersPast DEF CrmInv, Clocked
<1>14. CrmTyped' /\ TiesExist'
  BY <1>4, <1>6, <1>7, <1>12 DEF CrmInv, CrmTyped, TiesExist
<1>15. ASSUME NEW l \in Leads \ slipped' PROVE Safe(sync[s0], l)'
  <2>1. CASE Current(l)'
    BY <2>1 DEF Safe
  <2>2. CASE l \notin slipped /\ ~Current(l) /\ ~Current(l)' /\ lead[l].at # 0
    <3>1. lead[l].at \in Nat /\ (StillToStore(r, l) \/ Ahead(r, l))
      BY <1>2, <2>2, LeadTypes DEF CrmInv, Followed, Safe
    <3>2. CASE StillToStore(r, l)
      <4>1. PICK f \in r.leads : f.id = l /\ f.at = lead[l].at /\ f.stage = lead[l].stage
        BY <3>2 DEF StillToStore
      <4>2. f # e
        BY <1>4, <1>6, <2>2, <4>1 DEF Current
      <4>3. f \in rest
        BY <1>8, <4>2
      <4>4. sync'[s0].at = "store" /\ sync'[s0].leads = rest
        BY <1>9, <4>3
      <4> QED BY <1>4, <4>1, <4>3, <4>4 DEF Safe, StillToStore
    <3>3. CASE Ahead(r, l)
      <4>1. lead[l].at >= r.since /\ lead[l].at >= Since(r.newest) /\ \A f \in r.leads : lead[l].at >= f.at - Overlap
        BY <1>2, <3>3 DEF Ahead
      <4>2. lead[l].at >= Since(newest) /\ Since(newest) \in Int
        BY <1>2, <1>3, <1>8, <4>1, SinceType
      <4> QED BY <1>4, <1>8, <1>9, <3>1, <4>1, <4>2 DEF Safe, Ahead
    <3> QED BY <3>1, <3>2, <3>3
  <2>3. CASE lead[l].at = 0
    BY <1>4, <2>3 DEF Safe
  <2> QED BY <1>11, <2>1, <2>2, <2>3
<1> QED BY <1>12, <1>13, <1>14, <1>15 DEF CrmInv, Followed

LEMMA FinishInv == ASSUME CrmInv, NEW s0 \in Syncs, Finish(s0) PROVE CrmInv'
<1>1. sync[s0].at = "write" /\ sync[s0].newest \in Nat /\ sync[s0].newest <= clock
  BY JobTypes DEF Finish, CrmInv, CrmTyped, Clocked, PastTimes
<1>2. sync' = [sync EXCEPT ![s0] = AtRest] /\ sync'[s0] = AtRest /\ AtRest \in SyncJobs
  BY DEF Finish, CrmInv, CrmTyped, SyncJobs
<1>3. conn' = [status |-> "ACTIVE", cursor |-> sync[s0].newest] /\ UNCHANGED <<clock, lead, deal, order, user, slipped>>
  BY DEF Finish, remote
<1>4. /\ sync' \in [Syncs -> SyncJobs] /\ \A s \in Syncs \ {s0} : sync'[s] = sync[s]
      /\ \A s \in Syncs \ {s0}, l \in Leads \ slipped' : Safe(sync[s], l)'
  BY <1>2, <1>3, OthersStay DEF Current
<1>5. Clocked'
  BY <1>1, <1>2, <1>3, <1>4, OthersPast DEF PastTimes, AtRest
<1>6. CrmTyped' /\ TiesExist'
  BY <1>1, <1>3, <1>4 DEF CrmInv, CrmTyped, TiesExist
<1>7. CopyKeepsUp'
  BY <1>1, <1>3 DEF CrmInv, Followed, CopyKeepsUp, Safe, Behind, Current
<1>8. \A l \in Leads : Safe(sync[s0], l)'
  BY <1>2 DEF Safe, AtRest
<1> QED BY <1>4, <1>5, <1>6, <1>7, <1>8 DEF CrmInv, Followed

\* Fail and Crash: the cursor stays.
LEMMA FaultyInv ==
  ASSUME CrmInv, NEW s0 \in Syncs, Faulty(s0), conn' \in [status : {"ACTIVE", "ERROR", "DISABLED"}, cursor : {conn.cursor}]
  PROVE  CrmInv'
<1>1. sync' = [sync EXCEPT ![s0] = AtRest] /\ sync'[s0] = AtRest /\ AtRest \in SyncJobs
  BY DEF Faulty, CrmInv, CrmTyped, SyncJobs
<1>2. conn'.cursor = conn.cursor /\ UNCHANGED <<clock, lead, deal, order, user, slipped>>
  BY DEF Faulty, remote
<1>3. /\ sync' \in [Syncs -> SyncJobs] /\ \A s \in Syncs \ {s0} : sync'[s] = sync[s]
      /\ \A s \in Syncs \ {s0}, l \in Leads \ slipped' : Safe(sync[s], l)'
  BY <1>1, <1>2, OthersStay DEF Current
<1>4. Clocked'
  BY <1>1, <1>2, <1>3, OthersPast DEF CrmInv, Clocked, PastTimes, AtRest
<1>5. CrmTyped' /\ TiesExist'
  BY <1>2, <1>3 DEF CrmInv, CrmTyped, TiesExist
<1>6. CopyKeepsUp'
  BY <1>2 DEF CrmInv, Followed, CopyKeepsUp, Behind, Current
<1>7. \A l \in Leads : Safe(sync[s0], l)'
  BY <1>1 DEF Safe, AtRest
<1> QED BY <1>3, <1>4, <1>5, <1>6, <1>7 DEF CrmInv, Followed

\* What the owner and the people do leaves the copy and the synchronisations as they are.
LEMMA CopyRests ==
  ASSUME CrmInv, UNCHANGED <<clock, lead, sync, slipped>>, conn'.cursor = conn.cursor,
         \A l \in Leads : deal'[l].at = deal[l].at /\ deal'[l].stage = deal[l].stage
  PROVE  Clocked' /\ Followed'
<1>1. Clocked'
  BY DEF CrmInv, Clocked, PastTimes
<1>2. \A l \in Leads : Current(l) = Current(l)'
  BY DEF Current
<1>3. CopyKeepsUp'
  BY <1>2 DEF CrmInv, Followed, CopyKeepsUp, Behind
<1>4. \A s \in Syncs, l \in Leads \ slipped' : Safe(sync[s], l)'
  BY <1>2, SafeStays DEF CrmInv, Followed
<1> QED BY <1>1, <1>3, <1>4 DEF Followed

LEMMA SetStatusInv == ASSUME CrmInv, NEW status \in {"ACTIVE", "DISABLED"}, SetStatus(status) PROVE CrmInv'
<1>1. conn'.cursor = conn.cursor /\ conn' \in [status : {"ACTIVE", "ERROR", "DISABLED"}, cursor : Nat]
  BY DEF SetStatus, CrmInv, CrmTyped
<1>2. UNCHANGED <<clock, lead, deal, order, sync, user, slipped>>
  BY DEF SetStatus, remote
<1> QED BY <1>1, <1>2, CopyRests DEF CrmInv, CrmTyped, TiesExist

LEMMA BeginInv ==
  ASSUME CrmInv, NEW u0 \in Users, NEW request \in UserJobs, Begin(u0, request),
         request.at \in {"link", "bulk"} => order[request.order] # "none"
  PROVE  CrmInv'
<1>1. user' = [user EXCEPT ![u0] = request] /\ UNCHANGED <<clock, lead, conn, deal, order, sync, slipped>>
  BY DEF Begin, remote
<1>2. user' \in [Users -> UserJobs] /\ \A u \in Users : user'[u] = IF u = u0 THEN request ELSE user[u]
  BY <1>1 DEF CrmInv, CrmTyped
<1> QED BY <1>1, <1>2, CopyRests DEF CrmInv, CrmTyped, TiesExist

DealType == [at : Nat, stage : Stages, order : OrderIds \cup {NoOrder}, dismissed : BOOLEAN]

LEMMA WrittenInv ==
  ASSUME CrmInv, NEW u0 \in Users, NEW l0 \in Leads, NEW row \in DealType,
         row.at = deal[l0].at, row.stage = deal[l0].stage, row.order # NoOrder => order[row.order] # "none",
         Written(u0, l0, row)
  PROVE  CrmInv'
<1>1. deal' = [deal EXCEPT ![l0] = row] /\ user' = [user EXCEPT ![u0] = AtRest]
      /\ UNCHANGED <<clock, lead, conn, order, sync, slipped>>
  BY DEF Written, remote
<1>2. user' \in [Users -> UserJobs] /\ \A u \in Users : user'[u] = IF u = u0 THEN AtRest ELSE user[u]
  BY <1>1 DEF CrmInv, CrmTyped, UserJobs
<1>3. deal' \in [Leads -> DealType] /\ \A l \in Leads : deal'[l] = IF l = l0 THEN row ELSE deal[l]
  BY <1>1 DEF CrmInv, CrmTyped, DealType
<1>4. TiesExist'
  BY <1>1, <1>2, <1>3 DEF CrmInv, TiesExist, AtRest
<1> QED BY <1>1, <1>2, <1>3, <1>4, CopyRests DEF CrmInv, CrmTyped, DealType

\* What the people at work hold, and what they may write.
LEMMA UserFacts ==
  ASSUME CrmInv, NEW u \in Users
  PROVE  /\ user[u].at \in {"link", "bulk"} => /\ user[u].deal \in Leads /\ user[u].order \in OrderIds
                                              /\ order[user[u].order] # "none"
         /\ user[u].at \in {"create", "unlink", "dismiss"} => user[u].deal \in Leads
         /\ user[u].at = "dismiss" => user[u].dismissed \in BOOLEAN
  BY DEF CrmInv, CrmTyped, TiesExist, UserJobs, AtRest

LEMMA RowFacts ==
  ASSUME CrmInv, NEW l \in Leads
  PROVE  /\ deal[l] \in DealType /\ (deal[l].order # NoOrder => order[deal[l].order] # "none")
         /\ \A o \in OrderIds : Tied(l, o) \in DealType /\ Tied(l, o).at = deal[l].at /\ Tied(l, o).stage = deal[l].stage
                                /\ Tied(l, o).order = o
         /\ LET row == [deal[l] EXCEPT !.order = NoOrder]
            IN  row \in DealType /\ row.at = deal[l].at /\ row.stage = deal[l].stage /\ row.order = NoOrder
         /\ \A dismissed \in BOOLEAN :
              LET row == [deal[l] EXCEPT !.dismissed = dismissed]
              IN  row \in DealType /\ row.at = deal[l].at /\ row.stage = deal[l].stage /\ row.order = deal[l].order
  BY DEF CrmInv, CrmTyped, TiesExist, DealType, Tied

LEMMA MakeOrderInv == ASSUME CrmInv, NEW u0 \in Users, MakeOrder(u0) PROVE CrmInv'
<1>1. PICK o \in OrderIds : /\ order' = [order EXCEPT ![o] = "open"]
                            /\ user' = [user EXCEPT ![u0] = [at |-> "link", deal |-> user[u0].deal, order |-> o]]
  BY DEF MakeOrder
<1>2. user[u0].deal \in Leads /\ UNCHANGED <<clock, lead, conn, deal, sync, slipped>>
  BY UserFacts DEF MakeOrder, remote
<1>3. /\ user' \in [Users -> UserJobs]
      /\ \A u \in Users : u # u0 => user'[u] = user[u]
      /\ user'[u0].order = o
  BY <1>1, <1>2 DEF CrmInv, CrmTyped, UserJobs
<1>4. /\ order' \in [OrderIds -> {"none", "open", "paid", "deleted", "deletedPaid"}]
      /\ \A p \in OrderIds : order'[p] = IF p = o THEN "open" ELSE order[p]
  BY <1>1 DEF CrmInv, CrmTyped
<1>5. TiesExist'
  <2>1. \A l \in Leads : deal[l].order # NoOrder => deal[l].order \in OrderIds
    BY RowFacts DEF DealType
  <2>2. \A u \in Users : user[u].at \in {"link", "bulk"} => user[u].order \in OrderIds
    BY UserFacts
  <2> QED BY <1>1, <1>2, <1>3, <1>4, <2>1, <2>2 DEF CrmInv, TiesExist
<1> QED BY <1>2, <1>3, <1>4, <1>5, CopyRests DEF CrmInv, CrmTyped

LEMMA AbandonInv == ASSUME CrmInv, NEW u0 \in Users, Abandon(u0) PROVE CrmInv'
<1>1. user' = [user EXCEPT ![u0] = AtRest] /\ UNCHANGED <<clock, lead, conn, deal, order, sync, slipped>>
  BY DEF Abandon, remote
<1>2. user' \in [Users -> UserJobs] /\ \A u \in Users : user'[u] = IF u = u0 THEN AtRest ELSE user[u]
  BY <1>1 DEF CrmInv, CrmTyped, UserJobs
<1> QED BY <1>1, <1>2, CopyRests DEF CrmInv, CrmTyped, TiesExist, AtRest

LEMMA OrderMovesInv == ASSUME CrmInv, NEW o \in OrderIds, OrderMoves(o) PROVE CrmInv'
<1>1. PICK to \in {"open", "paid", "deleted", "deletedPaid"} : order' = [order EXCEPT ![o] = to]
  BY DEF OrderMoves
<1>2. UNCHANGED <<clock, lead, conn, deal, sync, user, slipped>>
  BY DEF OrderMoves, remote
<1>3. /\ order' \in [OrderIds -> {"none", "open", "paid", "deleted", "deletedPaid"}]
      /\ \A p \in OrderIds : order'[p] = IF p = o THEN to ELSE order[p]
  BY <1>1 DEF CrmInv, CrmTyped
<1>4. TiesExist'
  <2>1. \A l \in Leads : deal[l].order # NoOrder => deal[l].order \in OrderIds
    BY RowFacts DEF DealType
  <2>2. \A u \in Users : user[u].at \in {"link", "bulk"} => user[u].order \in OrderIds
    BY UserFacts
  <2> QED BY <1>2, <1>3, <2>1, <2>2 DEF CrmInv, TiesExist
<1> QED BY <1>2, <1>3, <1>4, CopyRests DEF CrmInv, CrmTyped

\* The people: what they read, and what they write in a later statement.
PeopleStep(u) ==
  \/ \E l \in Leads, o \in OrderIds : BeginLink(u, l, o) \/ BeginBulk(u, l, o)
  \/ \E l \in Leads : BeginCreate(u, l) \/ BeginUnlink(u, l)
  \/ \E l \in Leads, dismissed \in BOOLEAN : BeginDismiss(u, l, dismissed)
  \/ MakeOrder(u) \/ Link(u) \/ Claim(u) \/ Unlink(u) \/ Dismiss(u) \/ Abandon(u)

LEMMA PeopleInv == ASSUME CrmInv, NEW u \in Users, PeopleStep(u) PROVE CrmInv'
<1>1. ASSUME NEW l \in Leads, NEW o \in OrderIds, BeginLink(u, l, o) PROVE CrmInv'
  BY <1>1, BeginInv DEF BeginLink, UserJobs
<1>2. ASSUME NEW l \in Leads, NEW o \in OrderIds, BeginBulk(u, l, o) PROVE CrmInv'
  BY <1>2, BeginInv DEF BeginBulk, UserJobs
<1>3. ASSUME NEW l \in Leads, BeginCreate(u, l) PROVE CrmInv'
  BY <1>3, BeginInv DEF BeginCreate, UserJobs
<1>4. ASSUME NEW l \in Leads, BeginUnlink(u, l) PROVE CrmInv'
  BY <1>4, BeginInv DEF BeginUnlink, UserJobs
<1>5. ASSUME NEW l \in Leads, NEW dismissed \in BOOLEAN, BeginDismiss(u, l, dismissed) PROVE CrmInv'
  BY <1>5, BeginInv DEF BeginDismiss, UserJobs
<1>6. CASE Link(u)
  BY <1>6, UserFacts, RowFacts, WrittenInv DEF Link
<1>7. CASE Claim(u)
  <2> DEFINE l == user[u].deal
  <2>1. l \in Leads /\ user[u].order \in OrderIds /\ order[user[u].order] # "none"
    BY <1>7, UserFacts DEF Claim
  <2>2. CASE deal[l].order = NoOrder
    BY <1>7, <2>1, <2>2, RowFacts, WrittenInv DEF Claim
  <2>3. CASE deal[l].order # NoOrder
    BY <1>7, <2>1, <2>3, RowFacts, WrittenInv DEF Claim
  <2> QED BY <2>2, <2>3
<1>8. CASE Unlink(u)
  BY <1>8, UserFacts, RowFacts, WrittenInv DEF Unlink
<1>9. CASE Dismiss(u)
  <2> DEFINE l == user[u].deal
             row == [deal[l] EXCEPT !.dismissed = user[u].dismissed]
  <2>1. l \in Leads /\ row \in DealType /\ row.at = deal[l].at /\ row.stage = deal[l].stage /\ row.order = deal[l].order
    BY <1>9, UserFacts, RowFacts DEF Dismiss
  <2>2. Written(u, l, row)
    BY <1>9 DEF Dismiss
  <2> QED BY <2>1, <2>2, RowFacts, WrittenInv
<1>10. CASE MakeOrder(u) \/ Abandon(u)
  BY <1>10, MakeOrderInv, AbandonInv
<1> QED BY <1>1, <1>2, <1>3, <1>4, <1>5, <1>6, <1>7, <1>8, <1>9, <1>10 DEF PeopleStep

-----------------------------------------------------------------------------
LEMMA CrmNextInv == ASSUME CrmInv, [CrmNext]_crmVars PROVE CrmInv'
<1>1. ASSUME NEW l \in Leads, NEW stage \in Stages, Change(l, stage) PROVE CrmInv'
  BY <1>1, ChangeInv
<1>2. ASSUME NEW s \in Syncs, Works(s) \/ Button(s) PROVE CrmInv'
  BY <1>2, StartInv, ReadPageInv, StoreInv, FinishInv DEF Works, Cron, Button
<1>3. ASSUME NEW s \in Syncs, Fail(s) \/ Crash(s) PROVE CrmInv'
  <2>1. conn \in [status : {"ACTIVE", "ERROR", "DISABLED"}, cursor : Nat]
    BY DEF CrmInv, CrmTyped
  <2>2. conn' \in [status : {"ACTIVE", "ERROR", "DISABLED"}, cursor : {conn.cursor}]
    BY <1>3, <2>1 DEF Fail, Crash
  <2> QED BY <1>3, <2>2, FaultyInv DEF Fail, Crash
<1>4. ASSUME NEW status \in {"ACTIVE", "DISABLED"}, SetStatus(status) PROVE CrmInv'
  BY <1>4, SetStatusInv
<1>5. ASSUME NEW u \in Users, PeopleStep(u) PROVE CrmInv'
  BY <1>5, PeopleInv
<1>6. ASSUME NEW o \in OrderIds, OrderMoves(o) PROVE CrmInv'
  BY <1>6, OrderMovesInv
<1>7. CASE UNCHANGED crmVars
  <2>1. UNCHANGED <<clock, lead, conn, deal, order, sync, user, slipped>>
    BY <1>7 DEF crmVars, remote
  <2> QED BY <2>1, CopyRests DEF CrmInv, CrmTyped, TiesExist
<1> QED BY <1>1, <1>2, <1>3, <1>4, <1>5, <1>6, <1>7 DEF CrmNext, Stages, PeopleStep

LEMMA SalesSeen == CrmInv => NoSaleLost
<1> SUFFICES ASSUME CrmInv PROVE CopyKeepsUp /\ SaleIsSeen
  BY DEF NoSaleLost
<1>1. CopyKeepsUp
  BY DEF CrmInv, Followed
<1>2. ASSUME NEW l \in Leads \ slipped, Behind(l), lead[l].stage = "won", ~deal[l].dismissed
      PROVE  \/ l \in WonUnpaid
             \/ deal[l].order # NoOrder /\ order[deal[l].order] \in {"paid", "deletedPaid"}
             \/ \A since \in 0..lead[l].at : l \in WonWithoutOrder(since)
  <2>1. l \in Won /\ ClosedAt(l) = lead[l].at
    BY <1>1, <1>2 DEF CopyKeepsUp, Behind, Current, Won, Undismissed, Known, ClosedAt
  <2>2. CASE deal[l].order # NoOrder
    <3>1. deal[l].order \in OrderIds /\ order[deal[l].order] # "none"
      BY <2>2, RowFacts DEF DealType
    <3>2. order[deal[l].order] \in {"open", "paid", "deleted", "deletedPaid"}
      BY <3>1 DEF CrmInv, CrmTyped
    <3> QED BY <2>1, <2>2, <3>2 DEF WonUnpaid
  <2>3. CASE deal[l].order = NoOrder
    BY <2>1, <2>3, RowFacts DEF WonWithoutOrder, CrmInv, CrmTyped
  <2> QED BY <2>2, <2>3
<1> QED BY <1>1, <1>2 DEF SaleIsSeen

\* Through failures, crashes and overlapping synchronisations the cursor of a
\* CrmConnection passes no lead that is not copied as it is (but for `slipped`), and a
\* sale won behind it is set aside, paid, or on the lists of buildDiscrepancies asked for
\* since a time not after its closing.
THEOREM SalesAreNotLost == CrmSpec => []NoSaleLost
<1>1. CrmSpec => []CrmInv
  BY CrmInitInv, CrmNextInv, PTL DEF CrmSpec
<1> QED BY <1>1, SalesSeen, PTL

LEMMA BulkStep ==
  ASSUME CrmInv, [CrmNext]_crmVars, NEW u \in Users, user[u].at = "bulk", user'[u] = AtRest,
         NEW l \in Leads, deal[l].order # NoOrder
  PROVE  deal'[l].order = deal[l].order
<1>1. user'[u] # user[u]
  BY DEF AtRest
<1>2. PICK u0 \in Users : PeopleStep(u0)
  BY <1>1 DEF CrmNext, PeopleStep, crmVars, Change, Works, Cron, Button, Start, ReadPage, Store, Finish, Fail, Crash,
              Faulty, SetStatus, OrderMoves
<1>3. u0 = u
  BY <1>1, <1>2 DEF PeopleStep, CrmInv, CrmTyped, BeginLink, BeginBulk, BeginCreate, BeginUnlink, BeginDismiss, Begin,
                    MakeOrder, Link, Claim, Unlink, Dismiss, Written, Abandon
<1>4. Claim(u) \/ Abandon(u)
  BY <1>2, <1>3 DEF PeopleStep, BeginLink, BeginBulk, BeginCreate, BeginUnlink, BeginDismiss, Begin,
                    MakeOrder, Link, Unlink, Dismiss
<1>5. CASE Claim(u)
  BY <1>5, UserFacts DEF Claim, Written, CrmInv, CrmTyped
<1>6. CASE Abandon(u)
  BY <1>6 DEF Abandon
<1> QED BY <1>4, <1>5, <1>6

\* linkBulk (updateMany where orderId is null) never replaces an order a deal has,
\* whoever tied it between the reading and the writing.
THEOREM BulkReplacesNoOrder == CrmSpec => BulkDisplacesNothing
<1>1. CrmInv /\ [CrmNext]_crmVars =>
        [\A u \in Users : user[u].at = "bulk" /\ user'[u] = AtRest =>
           \A l \in Leads : deal[l].order # NoOrder => deal'[l].order = deal[l].order]_crmVars
  BY BulkStep
<1>2. CrmSpec => []CrmInv
  BY CrmInitInv, CrmNextInv, PTL DEF CrmSpec
<1> QED BY <1>1, <1>2, PTL DEF CrmSpec, BulkDisplacesNothing
=============================================================================
