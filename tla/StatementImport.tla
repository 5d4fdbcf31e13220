--------------------------- MODULE StatementImport ---------------------------
(***************************************************************************)
(* Statements from files: ImportService (preview, commit, revertBatch),    *)
(* beside the bank's synchronisation of the same account and what people   *)
(* do with the lines meanwhile.                                            *)
(*                                                                         *)
(* A file puts its rows into the inbox as lines of a connection without a  *)
(* bank.  The fingerprint of a row is the id of its line, and of the       *)
(* operation booked of it.  Preview, commit and revert are requests of     *)
(* their own; commit and revert read before they write and lock nothing    *)
(* but orders.  Attaching a line to an order and marking it as a transfer  *)
(* claim the line, make the money in a transaction of its own, look it up  *)
(* and write the line by id.  One account, one order, every row worth 1,   *)
(* except that payments of different rows (and by hand) are told apart by  *)
(* their amounts.                                                          *)
(*                                                                         *)
(* `lost` is not in the tables and no guard reads it: rows whose line a    *)
(* revert deleted although it was booked since the revert read it or while *)
(* it was being attached or tied, and rows one of whose attachments found  *)
(* two payments to choose from.                                            *)
(***************************************************************************)
EXTENDS Integers, Sequences, FiniteSets

CONSTANTS Files, Contents,
          RowsOf,       \* of a file: the contents of its rows, none twice
          LegacyFile, LegacyRow,    \* a file that made its operation at once, as they once did
          BankRows,     \* the rows that the bank brings as well
          PickedRows,      \* the rows whose lines people pick
          Handlers,
          MaxBatches, MaxTxs                                \* bounds

ASSUME ImportAssumption ==
  /\ RowsOf \in [Files -> SUBSET Contents]
  /\ LegacyFile \notin Files /\ LegacyRow \in Contents /\ "hand" \notin Contents
  /\ BankRows \subseteq Contents /\ PickedRows \subseteq Contents
  /\ IsFiniteSet(Handlers)
  /\ MaxBatches \in Nat /\ MaxTxs \in Nat

VARIABLES conns,        \* connections of the provider FILE
          batch,        \* ImportBatch, in order of creation
          line,         \* BankStatementLine, by connection and content
          txs,          \* Transaction, in order of creation
          paid,         \* Order.paidAmount
          job,          \* what every handler is in the middle of
          lost

vars == <<conns, batch, line, txs, paid, job, lost>>

Bank == 0
Keys == (Bank..Cardinality(Handlers)) \X Contents
NoLine == [status |-> "absent", tx |-> 0, adopted |-> FALSE, transfer |-> FALSE, batch |-> 0]
NewLine(b) == [NoLine EXCEPT !.status = "NEW", !.batch = b]
Stored(k) == line[k].status # "absent"

Reverted == [file |-> "none", rows |-> {}]      \* nothing reads it again

NoKey == <<>>
Tx(kind, of, key, b) == [kind |-> kind, of |-> of, key |-> key, batch |-> b]
Deleted == Tx("deleted", "none", NoKey, 0)     \* softly, but nothing reads it again
Live == {n \in DOMAIN txs : txs[n] # Deleted}
Linked(n) == \E k \in Keys : line[k].tx = n
Holder(key) == {n \in Live : txs[n].key = key}
Room == Len(txs) < MaxTxs

\* bankLineHash: the first fingerprint that no operation of a line holds.
Fingerprint(c) ==
  LET taken == {i \in 1..MaxTxs : \E n \in Holder(<<c, i>>) : Linked(n)}
  IN <<c, CHOOSE i \in 1..(MaxTxs + 1) : i \notin taken /\ 1..(i - 1) \subseteq taken>>

\* recalcPaymentState
Payments(ts) == Cardinality({n \in DOMAIN ts : ts[n].kind = "ORDER_PAYMENT"})
Killed(ns) == [n \in DOMAIN txs |-> IF n \in ns THEN Deleted ELSE txs[n]]

Idle == [at |-> "idle"]
At(h, at) == job[h].at = at
Goto(h, rec) == job' = [job EXCEPT ![h] = rec]

Init ==
  /\ conns = 0
  /\ batch = <<[file |-> LegacyFile, rows |-> {}]>>
  /\ line = [k \in Keys |-> NoLine]
  /\ txs = <<Tx("OTHER", LegacyRow, <<LegacyRow, 1>>, 1)>>
  /\ paid = 0
  /\ job = [h \in Handlers |-> Idle]
  /\ lost = {}

(***************************************************************************)
(* preview and commit.                                                     *)
(***************************************************************************)
\* Marked as a duplicate: a line from a file, or an operation, has the fingerprint.
Duplicates(f) ==
  {c \in RowsOf[f] : Holder(<<c, 1>>) # {} \/ \E i \in 1..conns : Stored(<<i, c>>)}

Preview(h, f) ==
  /\ At(h, "idle")
  /\ Goto(h, [at |-> "previewed", file |-> f, dup |-> Duplicates(f)])
  /\ UNCHANGED <<conns, batch, line, txs, paid, lost>>

\* The reads of commit, which believes the marks of the preview: the batch of
\* the same file, and a connection, which is made when there is none.
BeginCommit(h, skipDuplicates) ==
  LET rows == IF skipDuplicates THEN RowsOf[job[h].file] \ job[h].dup ELSE RowsOf[job[h].file]
  IN /\ At(h, "previewed")
     /\ IF rows = {} \/ \E b \in DOMAIN batch : batch[b].file = job[h].file
          THEN Goto(h, Idle)
          ELSE \E i \in (IF conns = 0 THEN {0} ELSE 1..conns) :
                 Goto(h, [at |-> "commit", file |-> job[h].file, rows |-> rows, conn |-> i])
     /\ UNCHANGED <<conns, batch, line, txs, paid, lost>>

ConnOf(h) == IF job[h].conn = 0 THEN conns + 1 ELSE job[h].conn

\* A fault for mutation: (connectionId, externalId) is not unique.
CollidesNever(h) == job[h].rows = {}

\* The unique index on (connectionId, externalId) refuses the whole file.
Collides(h) == \E c \in job[h].rows : Stored(<<ConnOf(h), c>>)

Commit(h) ==
  LET i == ConnOf(h) b == Len(batch) + 1
  IN /\ At(h, "commit") /\ b <= MaxBatches
     /\ IF Collides(h)
          THEN UNCHANGED <<conns, batch, line>>
          ELSE /\ conns' = IF job[h].conn = 0 THEN i ELSE conns
               /\ batch' = Append(batch, [file |-> job[h].file, rows |-> job[h].rows])
               /\ line' = [k \in Keys |-> IF k \in {i} \X job[h].rows THEN NewLine(b) ELSE line[k]]
     /\ Goto(h, Idle)
     /\ UNCHANGED <<txs, paid, lost>>

(***************************************************************************)
(* revertBatch.                                                            *)
(***************************************************************************)
LinesOf(b) == {k \in Keys : line[k].batch = b}

\* Reads the lines, locks the orders their operations pay.  A line tied to a
\* transfer refuses.
BeginRevert(h, b) ==
  /\ At(h, "idle") /\ b \in DOMAIN batch /\ batch[b] # Reverted
  /\ \A k \in LinesOf(b) : ~line[k].transfer
  /\ LET own == {line[k].tx : k \in LinesOf(b)} \ {0}
     IN Goto(h, [at |-> "revert", b |-> b, own |-> own,
                 pays |-> \E n \in own : txs[n].kind = "ORDER_PAYMENT"])
  /\ UNCHANGED <<conns, batch, line, txs, paid, lost>>

\* g is attaching or tying line k.
Handles(g, k) ==
  job[g].at \in {"pay", "find", "link", "transfer", "tie"} /\ job[g].key = k /\ job[g].b = line[k].batch

LegacyTxs(b) == {n \in Live : txs[n].batch = b}

\* A fault for mutation: only the lines go.
RevertLinesOnly(h) ==
  LET b == job[h].b
  IN /\ At(h, "revert")
     /\ line' = [k \in Keys |-> IF k \in LinesOf(b) THEN NoLine ELSE line[k]]
     /\ batch' = [batch EXCEPT ![b] = Reverted]
     /\ Goto(h, Idle)
     /\ UNCHANGED <<conns, txs, paid, lost>>

\* A fault for mutation: the orders are not computed again.
RevertUnpaid(h) ==
  LET b == job[h].b
  IN /\ At(h, "revert")
     /\ txs' = Killed(job[h].own \cup LegacyTxs(b))
     /\ line' = [k \in Keys |-> IF k \in LinesOf(b) THEN NoLine ELSE line[k]]
     /\ batch' = [batch EXCEPT ![b] = Reverted]
     /\ lost' = lost
     /\ Goto(h, Idle)
     /\ UNCHANGED <<conns, paid>>

\* Deletes the operations it has read, all lines of the batch, the operations
\* the batch made itself, and computes again the orders it has locked.
Revert(h) ==
  LET b == job[h].b
      raced == {k \in LinesOf(b) : line[k].tx \in Live \ job[h].own \/ \E g \in Handlers : Handles(g, k)}
  IN /\ At(h, "revert")
     /\ txs' = Killed(job[h].own \cup LegacyTxs(b))
     /\ line' = [k \in Keys |-> IF k \in LinesOf(b) THEN NoLine ELSE line[k]]
     /\ batch' = [batch EXCEPT ![b] = Reverted]
     /\ paid' = IF job[h].pays THEN Payments(txs') ELSE paid
     /\ lost' = lost \cup {k[2] : k \in raced}
     /\ Goto(h, Idle)
     /\ UNCHANGED conns

(***************************************************************************)
(* The people and the bank.                                                *)
(***************************************************************************)
Booked(k, n) == [line EXCEPT ![k].status = "RESOLVED", ![k].tx = n]
Freed(n) == [k \in Keys |-> IF line[k].tx = n THEN [line[k] EXCEPT !.status = "NEW", !.tx = 0, !.adopted = FALSE]
                                             ELSE line[k]]

\* categorize
Categorize(k) ==
  LET key == Fingerprint(k[2])
  IN /\ line[k].status = "NEW" /\ k[2] \in PickedRows /\ Room /\ Holder(key) = {}
     /\ txs' = Append(txs, Tx("OTHER", k[2], key, 0))
     /\ line' = Booked(k, Len(txs'))
     /\ UNCHANGED <<conns, batch, paid, job, lost>>

\* The claim of attachOrder ("pay") and of markAsTransfer ("transfer").
TakeLine(h, k, at) ==
  /\ At(h, "idle") /\ line[k].status = "NEW" /\ k[2] \in PickedRows
  /\ line' = [line EXCEPT ![k].status = "RESOLVED"]
  /\ Goto(h, [at |-> at, key |-> k, b |-> line[k].batch])
  /\ UNCHANGED <<conns, batch, txs, paid, lost>>

\* The line that was claimed, by its id: the same row imported again is another line.
Claimed(h) == line[job[h].key].batch = job[h].b

\* The order or the account refuses: the line goes back to the inbox, if it is there.
Unclaim(h) ==
  /\ job[h].at \in {"pay", "transfer"}
  /\ line' = IF Claimed(h) THEN [line EXCEPT ![job[h].key].status = "NEW"] ELSE line
  /\ Goto(h, Idle)
  /\ UNCHANGED <<conns, batch, txs, paid, lost>>

\* addPayment, with the order's sums.
Pay(h) ==
  /\ At(h, "pay") /\ Room
  /\ txs' = Append(txs, Tx("ORDER_PAYMENT", job[h].key[2], NoKey, 0))
  /\ paid' = Payments(txs')
  /\ Goto(h, [at |-> "find", key |-> job[h].key, b |-> job[h].b])
  /\ UNCHANGED <<conns, batch, line, lost>>

\* The latest payment of this amount that no line has; 0 if there is none.
FindPayment(h) ==
  LET like == {n \in Live : txs[n].kind = "ORDER_PAYMENT" /\ txs[n].of = job[h].key[2] /\ ~Linked(n)}
  IN /\ At(h, "find")
     /\ \E n \in like \cup {0} :
          /\ \A m \in like : m <= n
          /\ Goto(h, [at |-> "link", key |-> job[h].key, b |-> job[h].b, tx |-> n])
     /\ lost' = IF \E m, n \in like : m # n THEN lost \cup {job[h].key[2]} ELSE lost
     /\ UNCHANGED <<conns, batch, line, txs, paid>>

\* The update by id: nothing if the line is gone, or if another line has the payment by
\* now (P2002); that the payment may be deleted by now is not asked.
LinkPayment(h) ==
  LET n == job[h].tx
  IN /\ At(h, "link")
     /\ line' = IF n = 0 \/ ~Claimed(h) \/ Linked(n) THEN line ELSE Booked(job[h].key, n)
     /\ Goto(h, Idle)
     /\ UNCHANGED <<conns, batch, txs, paid, lost>>

\* The transfer; its legs have no fingerprint.
CreateTransfer(h) ==
  /\ At(h, "transfer") /\ Room
  /\ txs' = Append(txs, Tx("TRANSFER", job[h].key[2], NoKey, 0))
  /\ Goto(h, [at |-> "tie", key |-> job[h].key, b |-> job[h].b, tx |-> Len(txs')])
  /\ UNCHANGED <<conns, batch, line, paid, lost>>

\* Its leg is looked up, then the line is written by id: a transfer deleted by now may have
\* had its leg then or not.
Tie(h) ==
  LET n == job[h].tx
  IN /\ At(h, "tie")
     /\ \E leg \in IF n \in Live THEN {n} ELSE {n, 0} :
          line' = IF Claimed(h) THEN [Booked(job[h].key, leg) EXCEPT ![job[h].key].transfer = TRUE] ELSE line
     /\ Goto(h, Idle)
     /\ UNCHANGED <<conns, batch, txs, paid, lost>>

\* undo: an operation that is gone already, or that the line has adopted, is not deleted;
\* a payment or a leg is refused.
Undo(n) ==
  LET kept == n \notin Live \/ \E k \in Keys : line[k].tx = n /\ line[k].adopted
  IN /\ Linked(n) /\ (kept \/ txs[n].kind = "OTHER")
     /\ txs' = IF kept THEN txs ELSE Killed({n})
     /\ line' = Freed(n)
     /\ UNCHANGED <<conns, batch, paid, job, lost>>

\* softDelete of a transfer.
DeleteTransfer(n) ==
  /\ n \in Live /\ txs[n].kind = "TRANSFER"
  /\ txs' = Killed({n})
  /\ line' = [k \in Keys |-> IF line[k].tx = n THEN [Freed(n)[k] EXCEPT !.transfer = FALSE] ELSE line[k]]
  /\ UNCHANGED <<conns, batch, paid, job, lost>>

\* addPayment and deletePayment of the order's card.
AddPayment ==
  /\ Room
  /\ txs' = Append(txs, Tx("ORDER_PAYMENT", "hand", NoKey, 0))
  /\ paid' = Payments(txs')
  /\ UNCHANGED <<conns, batch, line, job, lost>>

DeletePayment(n) ==
  /\ n \in Live /\ txs[n].kind = "ORDER_PAYMENT"
  /\ txs' = Killed({n}) /\ line' = Freed(n)
  /\ paid' = Payments(txs')
  /\ UNCHANGED <<conns, batch, job, lost>>

\* The bank brings the row: the operation with its fingerprint is adopted if it
\* has no line, otherwise a rule books it.
Sync(c) ==
  LET k == <<Bank, c>>
      twins == {n \in Holder(<<c, 1>>) : ~Linked(n)}
      key == Fingerprint(c)
  IN /\ ~Stored(k)
     /\ \/ \E n \in twins : line' = [Booked(k, n) EXCEPT ![k].adopted = TRUE] /\ UNCHANGED txs
        \/ /\ twins = {} /\ Room /\ Holder(key) = {}
           /\ txs' = Append(txs, Tx("OTHER", c, key, 0))
           /\ line' = Booked(k, Len(txs'))
     /\ UNCHANGED <<conns, batch, paid, job, lost>>

Next ==
  \/ \E h \in Handlers :
       \/ \E f \in Files : Preview(h, f)
       \/ \E skipDuplicates \in BOOLEAN : BeginCommit(h, skipDuplicates)
       \/ Commit(h)
       \/ \E b \in DOMAIN batch : BeginRevert(h, b)
       \/ Revert(h)
       \/ \E k \in Keys, at \in {"pay", "transfer"} : TakeLine(h, k, at)
       \/ Unclaim(h) \/ Pay(h) \/ FindPayment(h) \/ LinkPayment(h) \/ CreateTransfer(h) \/ Tie(h)
  \/ \E k \in Keys : Categorize(k)
  \/ \E n \in DOMAIN txs : Undo(n) \/ DeletePayment(n) \/ DeleteTransfer(n)
  \/ AddPayment
  \/ \E c \in BankRows : Sync(c)

Spec == Init /\ [][Next]_vars

-----------------------------------------------------------------------------
(***************************************************************************)
(* Reverting an import is whole: money booked of a line never outlives the *)
(* line, whatever people and the bank do with it between the reads of the  *)
(* revert and its writes.  A payment or a leg without a line is one that   *)
(* its handler is about to link.  (lost: the rows for which the revert did *)
(* overlap a booking, and those with two payments to choose from.)         *)
(***************************************************************************)
AboutToLink(h, n) ==
  \/ At(h, "find") /\ txs[n].kind = "ORDER_PAYMENT" /\ txs[n].of = job[h].key[2]
  \/ job[h].at \in {"link", "tie"} /\ job[h].tx = n

Stranded(n) == txs[n].of \in Contents /\ txs[n].batch = 0 /\ ~Linked(n) /\ \A h \in Handlers : ~AboutToLink(h, n)

NothingStranded == \A n \in Live : Stranded(n) => txs[n].of \in lost

\* Without the exception, which the code does not keep: revertBatch locks no line.
NothingEverStranded == \A n \in Live : ~Stranded(n)

(***************************************************************************)
(* The order's paidAmount is the sum of its live payments after every      *)
(* revert, attachment, payment by hand and deletion, in any order.         *)
(***************************************************************************)
PaidIsCurrent == paid = Payments(txs)

(***************************************************************************)
(* An import is in the inbox whole, with the rows it counts, until it is   *)
(* reverted, and gone whole after that: no other import, of the same file  *)
(* or of one that overlaps, takes a line of it, and no revert misses one.  *)
(***************************************************************************)
ImportsWhole ==
  \A b \in DOMAIN batch : {k[2] : k \in LinesOf(b)} = batch[b].rows

(***************************************************************************)
(* "A CSV statement and the synchronisation bring one operation under      *)
(* different keys; the fingerprint makes them kin" (import-hash.ts).       *)
(***************************************************************************)
BookedOnce ==
  \A c \in Contents : Cardinality({n \in Live : txs[n].kind = "OTHER" /\ txs[n].of = c}) <= 1
=============================================================================
