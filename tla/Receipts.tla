------------------------------ MODULE Receipts ------------------------------
(***************************************************************************)
(* Documents of goods bought for a card (WbReceiptService): one document   *)
(* is one expense, lots in the warehouse and lines of orders, booked and   *)
(* taken back as a whole; around it, the orders it adds to, the stock that *)
(* is sold, the list of operations and the statement of the bank.          *)
(*                                                                         *)
(* A request is a transaction at READ COMMITTED: it reads, takes row locks *)
(* one at a time, and its writes are seen when it ends.  What a row says   *)
(* is judged once its lock is held.  The locks are those of SELECT .. FOR  *)
(* UPDATE, of the unique indexes (a second insertion of a key waits), and  *)
(* the FOR KEY SHARE a foreign key takes when a line that names an item is *)
(* inserted.  Every line is one unit at price 1.                           *)
(*                                                                         *)
(* `touched`, which no guard reads, are the operations that people deleted *)
(* or changed outside the receipts.                                        *)
(***************************************************************************)
EXTENDS Naturals, Sequences, FiniteSets, Functions

CONSTANTS Docs,                 \* numbers of documents, NoDoc aside
          Orders, Items,        \* numbers, so that ids can be sorted
          ItemsOf,              \* of every order: the items of its own lines, in their order
          Contents,             \* documents: what each line goes to, an order, an item or Skipped
          Lines, LineAmount,    \* lines of the statement, and their sums
          Requests,             \* requests that may overlap
          MaxReceipts, MaxTxs, MaxActs      \* bounds

Skipped == 0
NoDoc == 0

ASSUME ReceiptsAssumption ==
  /\ Orders \subseteq Nat \ {Skipped} /\ Items \subseteq Nat \ {Skipped} /\ Orders \cap Items = {}
  /\ Docs \subseteq Nat \ {NoDoc}
  /\ ItemsOf \in [Orders -> Seq(Items)]
  /\ Contents \subseteq Seq(Orders \cup Items \cup {Skipped})
  /\ LineAmount \in [Lines -> Nat]
  /\ MaxReceipts \in Nat /\ MaxTxs \in Nat /\ MaxActs \in Nat

VARIABLES receipts,     \* WbReceipt and its lines, in order of creation
          order,        \* Order: closed or not, the lots its own lines took
          txs,          \* Transaction: expenses of kind OTHER
          line,         \* BankStatementLine
          req,          \* what every request is in the middle of
          acts,         \* used up of MaxActs
          touched

bank == <<line, acts, touched>>
vars == <<receipts, order, txs, bank, req>>

Idle == [op |-> "idle", has |-> {}, todo |-> {}]
NoLine == [status |-> "absent", tx |-> 0, adopted |-> FALSE]

Init ==
  /\ receipts = <<>>
  /\ order = [o \in Orders |-> [closed |-> FALSE, lots |-> {}]]
  /\ txs = <<>>
  /\ line = [l \in Lines |-> NoLine]
  /\ req = [q \in Requests |-> Idle]
  /\ acts = 0
  /\ touched = {}

-----------------------------------------------------------------------------
(***************************************************************************)
(* Locks.  A request takes them in turns, and within a turn in the order   *)
(* of `at`: rows locked for update by their id, rows named by new lines as *)
(* the lines are listed.                                                   *)
(***************************************************************************)
Turn(kind) == CASE kind = "doc" -> 1 [] kind = "tx" -> 2 [] kind = "order" -> 3 [] kind = "item" -> 5
ForUpdate(kind, ids) == {[kind |-> kind, id |-> id, mode |-> "update", turn |-> Turn(kind), at |-> id] : id \in ids}
KeyShare(items) ==
  {[kind |-> "item", id |-> items[k], mode |-> "share", turn |-> 4, at |-> k] : k \in {k \in DOMAIN items : items[k] \in Items}}

Before(a, b) == a.turn < b.turn \/ (a.turn = b.turn /\ a.at < b.at)
IsNext(q, lock) == lock \in req[q].todo /\ \A other \in req[q].todo : ~Before(other, lock)
Waiting(q) == req[q].todo # {}

Conflict(a, b) == a.kind = b.kind /\ a.id = b.id /\ (a.mode = "update" \/ b.mode = "update")
Free(q, lock) == \A p \in Requests \ {q} : \A other \in req[p].has : ~Conflict(lock, other)
Holds(q, kind, id) == ForUpdate(kind, {id}) \subseteq req[q].has

\* q asks for what p holds in one of the modes.
WaitsFor(q, p, modes) ==
  /\ p # q
  /\ \E lock \in req[q].todo : IsNext(q, lock) /\ \E other \in req[p].has : other.mode \in modes /\ Conflict(lock, other)

\* Requests that wait for each other.
Knot(waiting, modes) == waiting # {} /\ \A q \in waiting : \E p \in waiting : WaitsFor(q, p, modes)

Begin(q, job) == req' = [req EXCEPT ![q] = job]
End(q) == req' = [req EXCEPT ![q] = Idle]
InFlight(q) == req[q].op # "idle"

-----------------------------------------------------------------------------
(***************************************************************************)
(* The lines of a document: a lot is whole, sold, back (sold and           *)
(* returned) or void; a line of an order is tied to its document, sent,    *)
(* copied (replaced by a line the document does not know) or gone.         *)
(***************************************************************************)
FreshPart(target) ==
  CASE target = Skipped   -> "skipped"
    [] target \in Items   -> "whole"
    [] target \in Orders  -> "tied"

Targets(content, kind) == {content[k] : k \in DOMAIN content} \cap kind
LinesTo(r, target) == {k \in DOMAIN receipts[r].content : receipts[r].content[k] = target}
Parts == UNION {{<<r, k>> : k \in DOMAIN receipts[r].part} : r \in DOMAIN receipts}
PartsIn(o) == {p \in Parts : p[2] \in LinesTo(p[1], o)}
State(p) == receipts[p[1]].part[p[2]]

\* The lines ps turned into what `into` says.
Turned(ps, into) ==
  [r \in DOMAIN receipts |->
     [receipts[r] EXCEPT !.part = [k \in DOMAIN @ |-> IF <<r, k>> \in ps THEN into ELSE @[k]]]]

Live(r) == receipts[r].live
Tied(n) == \E r \in DOMAIN receipts : receipts[r].tx = n
DocTaken(doc) == doc # NoDoc /\ \E r \in DOMAIN receipts : Live(r) /\ receipts[r].doc = doc

-----------------------------------------------------------------------------
(***************************************************************************)
(* commit.                                                                 *)
(***************************************************************************)
Linkable(n, total) == txs[n].live /\ ~Tied(n) /\ txs[n].amount = total
Committing == {q \in Requests : req[q].op = "commit"}
Room == Len(txs) + Cardinality({q \in Committing : req[q].money = 0}) < MaxTxs

\* A fault for mutation: the orders of a document locked as they are listed.
CommitLocksAsListed(doc, content, money) ==
  ForUpdate("doc", {doc} \ {NoDoc}) \cup ForUpdate("tx", {money} \ {0})
  \cup {[lock EXCEPT !.at = CHOOSE k \in DOMAIN content : content[k] = lock.id] :
           lock \in ForUpdate("order", Targets(content, Orders))}
  \cup KeyShare(content) \cup ForUpdate("item", Targets(content, Items))

\* The row of the document (two unique indexes), the orders, the lines, the lots.
CommitLocks(doc, content, money) ==
  ForUpdate("doc", {doc} \ {NoDoc}) \cup ForUpdate("tx", {money} \ {0})
  \cup ForUpdate("order", Targets(content, Orders))
  \cup KeyShare(content) \cup ForUpdate("item", Targets(content, Items))

\* money: the operation to link, or 0 to create one.
StartCommit(q, doc, content, money) ==
  /\ ~InFlight(q)
  /\ Len(receipts) + Cardinality(Committing) < MaxReceipts
  /\ money = 0 => Room
  /\ ~DocTaken(doc)
  /\ money # 0 => Linkable(money, Len(content))
  /\ Begin(q, [op |-> "commit", doc |-> doc, content |-> content, money |-> money,
               has |-> {}, todo |-> CommitLocks(doc, content, money)])
  /\ UNCHANGED <<receipts, order, txs, bank>>

\* A fault for mutation: no unique index behind the look-up of the number.
CommitRefusedByOrderOnly(q) ==
  \/ req[q].money # 0 /\ Holds(q, "tx", req[q].money) /\ Tied(req[q].money)
  \/ \E o \in Targets(req[q].content, Orders) : Holds(q, "order", o) /\ order[o].closed

CommitRefused(q) ==
  \/ Holds(q, "doc", req[q].doc) /\ DocTaken(req[q].doc)
  \/ req[q].money # 0 /\ Holds(q, "tx", req[q].money) /\ Tied(req[q].money)
  \/ \E o \in Targets(req[q].content, Orders) : Holds(q, "order", o) /\ order[o].closed

Commit(q) ==
  LET job == req[q]
      created == job.money = 0
  IN /\ txs' = IF created THEN Append(txs, [amount |-> Len(job.content), live |-> TRUE, by |-> "receipt"]) ELSE txs
     /\ receipts' = Append(receipts,
          [doc |-> job.doc, content |-> job.content, live |-> TRUE, created |-> created,
           tx |-> IF created THEN Len(txs) + 1 ELSE job.money,
           part |-> [k \in DOMAIN job.content |-> FreshPart(job.content[k])]])
     /\ UNCHANGED <<order, bank>>

-----------------------------------------------------------------------------
(***************************************************************************)
(* revert.  The document is read without a lock; a line of an order that   *)
(* was replaced is not found through it (ON DELETE SET NULL).              *)
(***************************************************************************)
StartRevert(q, r) ==
  LET rows == {k \in DOMAIN receipts[r].part : receipts[r].part[k] \in {"tied", "sent"}}
      lots == {k \in DOMAIN receipts[r].part : receipts[r].content[k] \in Items}
  IN /\ ~InFlight(q) /\ Live(r)
     /\ Begin(q, [op |-> "revert", receipt |-> r, rows |-> rows,
                  tx |-> IF receipts[r].created THEN receipts[r].tx ELSE 0, has |-> {},
                  todo |-> ForUpdate("order", {receipts[r].content[k] : k \in rows})
                           \cup ForUpdate("item", {receipts[r].content[k] : k \in lots})])
     /\ UNCHANGED <<receipts, order, txs, bank>>

RevertRefused(q) ==
  LET r == req[q].receipt
      part == receipts[r].part
  IN \/ \E k \in req[q].rows : /\ Holds(q, "order", receipts[r].content[k])
                               /\ order[receipts[r].content[k]].closed \/ part[k] # "tied"
     \/ ~Waiting(q) /\ \E k \in DOMAIN part : part[k] \in {"sold", "back"}

\* A fault for mutation: the expense deleted whoever made it.
RevertDeletingLinked(q) ==
  LET r == req[q].receipt
      rows == {<<r, k>> : k \in req[q].rows}
      lots == {<<r, k>> : k \in {k \in DOMAIN receipts[r].part : receipts[r].content[k] \in Items}}
  IN /\ receipts' = [Turned(rows \cup lots, "void") EXCEPT ![r].live = FALSE, ![r].tx = 0]
     /\ txs' = IF receipts[r].tx = 0 THEN txs ELSE [txs EXCEPT ![receipts[r].tx].live = FALSE]
     /\ UNCHANGED <<order, bank>>

\* An operation the document created is deleted by its id, a linked one let go.
Revert(q) ==
  LET r == req[q].receipt
      rows == {<<r, k>> : k \in req[q].rows}
      lots == {<<r, k>> : k \in {k \in DOMAIN receipts[r].part : receipts[r].content[k] \in Items}}
  IN /\ receipts' = [Turned(rows \cup lots, "void") EXCEPT ![r].live = FALSE, ![r].tx = 0]
     /\ txs' = IF req[q].tx = 0 THEN txs ELSE [txs EXCEPT ![req[q].tx].live = FALSE]
     /\ UNCHANGED <<order, bank>>

-----------------------------------------------------------------------------
(***************************************************************************)
(* The orders and the purchases beside the documents.                      *)
(***************************************************************************)
OwnItems(o) == {ItemsOf[o][k] : k \in DOMAIN ItemsOf[o]}

StartOrder(q, op, o, items) ==
  /\ ~InFlight(q) /\ acts < MaxActs
  /\ Begin(q, [op |-> op, order |-> o, has |-> {}, todo |-> ForUpdate("order", {o}) \cup items])
  /\ acts' = acts + 1
  /\ UNCHANGED <<receipts, order, txs, line, touched>>

\* finalize and reopen lock every item in order; update names them as they are listed.
StartClose(q, o) == StartOrder(q, "close", o, ForUpdate("item", OwnItems(o)))
StartReopen(q, o) == StartOrder(q, "reopen", o, ForUpdate("item", OwnItems(o)))
StartReplace(q, o) == StartOrder(q, "replace", o, KeyShare(ItemsOf[o]))
StartSend(q, o) == StartOrder(q, "send", o, {})

OrderRefused(q) ==
  LET o == req[q].order
  IN /\ Holds(q, "order", o)
     /\ CASE req[q].op \in {"close", "send"} -> order[o].closed
          [] req[q].op = "reopen" -> ~order[o].closed
          [] req[q].op = "replace" -> order[o].closed \/ \E p \in PartsIn(o) : State(p) = "sent"

\* The lots the own lines of o may take: one of a document or older stock for each item.
LotChoices(o) ==
  LET open == {p \in UNION {PartsIn(i) : i \in OwnItems(o)} : State(p) \in {"whole", "back"}}
  IN {ps \in SUBSET open : \A i \in OwnItems(o) : Cardinality(ps \cap PartsIn(i)) <= 1}

SendLine(q) ==
  /\ \E p \in PartsIn(req[q].order) : State(p) = "tied" /\ receipts' = Turned({p}, "sent")
  /\ UNCHANGED <<order, txs, bank>>

\* Everything that is not shipped yet is.
CloseOrder(q) ==
  LET o == req[q].order
      rows == {p \in PartsIn(o) : State(p) = "tied"}
  IN \E lots \in LotChoices(o) :
       /\ receipts' = [r \in DOMAIN receipts |-> [receipts[r] EXCEPT !.part =
            [k \in DOMAIN @ |-> IF <<r, k>> \in lots THEN "sold" ELSE IF <<r, k>> \in rows THEN "sent" ELSE @[k]]]]
       /\ order' = [order EXCEPT ![o] = [closed |-> TRUE, lots |-> lots]]
       /\ UNCHANGED <<txs, bank>>

\* Goods go back to the lots they came from, whose consumption is not forgotten.
ReopenOrder(q) ==
  LET o == req[q].order
      rows == {p \in PartsIn(o) : State(p) = "sent"}
  IN /\ receipts' = [r \in DOMAIN receipts |-> [receipts[r] EXCEPT !.part =
          [k \in DOMAIN @ |-> IF <<r, k>> \in order[o].lots THEN "back" ELSE IF <<r, k>> \in rows THEN "tied" ELSE @[k]]]]
     /\ order' = [order EXCEPT ![o] = [closed |-> FALSE, lots |-> {}]]
     /\ UNCHANGED <<txs, bank>>

\* update with items deletes the lines and writes those of the form.
ReplaceLines(q) ==
  LET rows == {p \in PartsIn(req[q].order) : State(p) = "tied"}
  IN /\ \E kept \in SUBSET rows :
          receipts' = [r \in DOMAIN receipts |-> [receipts[r] EXCEPT !.part =
            [k \in DOMAIN @ |-> IF <<r, k>> \in kept THEN "copied" ELSE IF <<r, k>> \in rows THEN "gone" ELSE @[k]]]]
     /\ UNCHANGED <<order, txs, bank>>

-----------------------------------------------------------------------------
(***************************************************************************)
(* The steps of a request.  It ends without a trace when it is refused,    *)
(* fails, runs out of time or is the victim of a deadlock.                 *)
(***************************************************************************)
Refused(q) ==
  CASE req[q].op = "commit" -> CommitRefused(q)
    [] req[q].op = "revert" -> RevertRefused(q)
    [] req[q].op \in {"close", "reopen", "replace", "send"} -> OrderRefused(q)

Acquire(q) ==
  /\ InFlight(q) /\ ~Refused(q)
  /\ \E lock \in req[q].todo :
       /\ IsNext(q, lock) /\ Free(q, lock)
       /\ req' = [req EXCEPT ![q].has = @ \cup {lock}, ![q].todo = @ \ {lock}]
  /\ UNCHANGED <<receipts, order, txs, bank>>

Finish(q) ==
  /\ InFlight(q) /\ ~Waiting(q) /\ ~Refused(q)
  /\ \/ req[q].op = "commit" /\ Commit(q)
     \/ req[q].op = "revert" /\ Revert(q)
     \/ req[q].op = "send" /\ SendLine(q)
     \/ req[q].op = "close" /\ CloseOrder(q)
     \/ req[q].op = "reopen" /\ ReopenOrder(q)
     \/ req[q].op = "replace" /\ ReplaceLines(q)
  /\ End(q)

Rollback(q) ==
  /\ InFlight(q) /\ End(q)
  /\ UNCHANGED <<receipts, order, txs, bank>>

-----------------------------------------------------------------------------
(***************************************************************************)
(* The list of operations and the statement of the bank.                   *)
(***************************************************************************)
Act == acts < MaxActs /\ acts' = acts + 1
Entry(amount, by) == Append(txs, [amount |-> amount, live |-> TRUE, by |-> by])
LinkedTo(n) == {l \in Lines : line[l].tx = n}

Enter(amount) ==
  /\ Act /\ Room
  /\ txs' = Entry(amount, "hand")
  /\ UNCHANGED <<receipts, order, line, touched, req>>

\* An expense of kind OTHER may be deleted and changed, also one of a document.
Erase(n) ==
  /\ Act /\ txs[n].live
  /\ txs' = [txs EXCEPT ![n].live = FALSE]
  /\ touched' = touched \cup {n}
  /\ UNCHANGED <<receipts, order, line, req>>

Change(n, amount) ==
  /\ Act /\ txs[n].live /\ txs[n].amount # amount
  /\ txs' = [txs EXCEPT ![n].amount = amount]
  /\ touched' = touched \cup {n}
  /\ UNCHANGED <<receipts, order, line, req>>

\* A line comes by itself; it takes an entry of its sum no line has taken, or waits in
\* the inbox.
Arrive(l) ==
  LET twins == {n \in DOMAIN txs : txs[n].live /\ txs[n].amount = LineAmount[l] /\ LinkedTo(n) = {}}
  IN /\ line[l].status = "absent"
     /\ \/ \E n \in twins : line' = [line EXCEPT ![l] = [status |-> "RESOLVED", tx |-> n, adopted |-> TRUE]]
        \/ twins = {} /\ line' = [line EXCEPT ![l].status = "NEW"]
     /\ UNCHANGED <<receipts, order, txs, acts, touched, req>>

Book(l) ==
  /\ Act /\ Room /\ line[l].status = "NEW"
  /\ txs' = Entry(LineAmount[l], "line")
  /\ line' = [line EXCEPT ![l] = [status |-> "RESOLVED", tx |-> Len(txs) + 1, adopted |-> FALSE]]
  /\ UNCHANGED <<receipts, order, touched, req>>

\* An adopted line lets go of its operation, a booked one deletes it.
Undo(l) ==
  LET n == line[l].tx
      own == txs[n].live /\ ~line[l].adopted
  IN /\ Act /\ line[l].status = "RESOLVED"
     /\ line' = [line EXCEPT ![l] = [NoLine EXCEPT !.status = "NEW"]]
     /\ txs' = IF own THEN [txs EXCEPT ![n].live = FALSE] ELSE txs
     /\ touched' = IF own THEN touched \cup {n} ELSE touched
     /\ UNCHANGED <<receipts, order, req>>

-----------------------------------------------------------------------------
Totals == {Len(content) : content \in Contents}

Start(q) ==
  \/ \E doc \in Docs \cup {NoDoc}, content \in Contents, money \in DOMAIN txs \cup {0} :
       StartCommit(q, doc, content, money)
  \/ \E r \in DOMAIN receipts : StartRevert(q, r)
  \/ \E o \in Orders : StartClose(q, o) \/ StartReopen(q, o) \/ StartReplace(q, o) \/ StartSend(q, o)

People ==
  \/ \E amount \in Totals : Enter(amount)
  \/ \E n \in DOMAIN txs : Erase(n)
  \/ \E n \in DOMAIN txs, amount \in Totals : Change(n, amount)
  \/ \E l \in Lines : Arrive(l) \/ Book(l) \/ Undo(l)

Next ==
  \/ \E q \in Requests : Start(q) \/ Acquire(q) \/ Finish(q) \/ Rollback(q)
  \/ People

Spec == Init /\ [][Next]_vars

-----------------------------------------------------------------------------
PartStates == {"skipped", "whole", "sold", "back", "tied", "sent", "copied", "gone", "void"}

(***************************************************************************)
(* The shape of the tables: what a document, an operation and a line of    *)
(* the statement say of each other.                                        *)
(***************************************************************************)
TypeOK ==
  /\ \A r \in DOMAIN receipts : /\ receipts[r].part \in [DOMAIN receipts[r].content -> PartStates]
                                /\ receipts[r].tx \in DOMAIN txs \cup {0}
                                /\ Live(r) <=> receipts[r].tx # 0
  /\ \A l \in Lines : line[l].tx \in DOMAIN txs \cup {0} /\ (line[l].status = "RESOLVED" <=> line[l].tx # 0)
  /\ touched \subseteq DOMAIN txs

\* Two documents that stand share neither number nor operation.
StandApart ==
  \A r, s \in {r \in DOMAIN receipts : Live(r)} :
    r # s => receipts[r].tx # receipts[s].tx /\ (receipts[r].doc # NoDoc => receipts[r].doc # receipts[s].doc)

(***************************************************************************)
(* A document is booked once, also when two requests book it or link its   *)
(* expense at one moment, and as a whole: while it stands, its expense of  *)
(* the full sum is in the books and its goods are in the warehouse or in   *)
(* the orders; once it is taken back, neither its lots nor its lines nor   *)
(* the expense it made are left ("revert: as a whole").  People may delete *)
(* or change the operation through other pages (touched), and may replace  *)
(* the lines of an order: such a line is no longer tied to the document    *)
(* and survives the revert (see RevertedIsGone).                           *)
(***************************************************************************)
BookedWholeAndOnce ==
  /\ StandApart
  /\ \A r \in DOMAIN receipts :
       LET doc == receipts[r]
       IN IF doc.live
          THEN /\ "void" \notin Range(doc.part)
               /\ doc.tx \notin touched => txs[doc.tx].live /\ txs[doc.tx].amount = Len(doc.content)
          ELSE \A k \in DOMAIN doc.part : doc.part[k] \in {"skipped", "void", "copied", "gone"}
  /\ \A n \in DOMAIN txs : txs[n].by = "receipt" /\ txs[n].live => Tied(n)

(***************************************************************************)
(* Taking a document back costs nobody anything else: an operation a       *)
(* person entered or a line of the bank booked is never deleted by it,     *)
(* whenever it was read ("a linked one is let go"), and goods that were    *)
(* sold, once and returned too, or sent stay where they are.               *)
(***************************************************************************)
RevertTakesItsOwn ==
  [][/\ \A n \in DOMAIN txs : txs[n].live /\ ~txs'[n].live => txs[n].by = "receipt" \/ n \in touched'
     /\ \A r \in DOMAIN receipts : \A k \in DOMAIN receipts[r].part :
          receipts'[r].part[k] = "void" => receipts[r].part[k] \in {"whole", "tied", "void"}]_vars

(***************************************************************************)
(* "Orders first (sorted by id), then the items (sorted by id): against    *)
(* deadlock": requests never wait for each other over rows that are locked *)
(* for update.                                                             *)
(***************************************************************************)
SortedLocksNeverBlock == \A waiting \in SUBSET Requests : ~Knot(waiting, {"update"})

(***************************************************************************)
(* What the comments promise: no deadlock at all.  It does not hold: the   *)
(* lines of a document name their items (FOR KEY SHARE) before the items   *)
(* are locked for update.                                                  *)
(***************************************************************************)
NoDeadlock == \A waiting \in SUBSET Requests : ~Knot(waiting, {"update", "share"})

(***************************************************************************)
(* What revert promises: the goods of a document that was taken back are   *)
(* in no order.  It does not hold for lines that were replaced.            *)
(***************************************************************************)
RevertedIsGone ==
  \A r \in DOMAIN receipts : ~Live(r) => "copied" \notin Range(receipts[r].part)

(***************************************************************************)
(* What the deletion of an order says of the statement: no line stays with *)
(* a deleted operation.  A revert leaves one that adopted its expense.     *)
(***************************************************************************)
NoLineHeldByReverted ==
  \A l \in Lines : line[l].tx # 0 /\ line[l].tx \notin touched => txs[line[l].tx].live
=============================================================================
