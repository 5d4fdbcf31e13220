------------------------------- MODULE Inbox -------------------------------
(***************************************************************************)
(* The bank statement inbox: InboxService, the arrival of lines in         *)
(* SyncService.ingestLine, and the deletions that send a line back.        *)
(*                                                                         *)
(* A statement line is NEW until somebody books it (status RESOLVED, or    *)
(* AUTO_POSTED by a rule) or dismisses it.  Most handlers are not one      *)
(* database transaction: they read the line, claim it by a compare-and-    *)
(* swap on its status, call another service that commits on its own, and   *)
(* write the line again.  Each of those statements is an action, a process *)
(* may die between any two, and what a handler knows is in its job.  A     *)
(* read that the next statement checks again is no step of its own.        *)
(*                                                                         *)
(* Two things are kept that the tables do not have: `for`, the lines whose *)
(* money a transaction books, and `astray`, lines that were not left to    *)
(* one handler at a time.  No guard reads them.  A line goes astray when a *)
(* handler writes it unconditionally although it changed since the handler *)
(* last knew it (Write), when a transfer outlives the handler that failed  *)
(* to tie the line to it (ReleaseAlive), and when attachOrder links it to  *)
(* a payment booked for something else (AttachLink).                       *)
(*                                                                         *)
(* The legs of a transfer are created and deleted together: a transfer is  *)
(* one record here, and a line tied to it has the leg on its own account.  *)
(***************************************************************************)
EXTENDS Integers, Sequences, FiniteSets, SequencesExt

CONSTANTS Lines,
          Incoming,     \* lines that are a credit; the others are a debit
          FeeLines,     \* credits whose description may name the acquirer's fee
          AccountOf, ContentOf,    \* of a line: its account, and what its fingerprint is taken of
          OtherAccount, \* an account the bank gives no statement of
          Handlers,
          MaxOccurrence, \* entries of one content that get a fingerprint (50)
          MaxTxs, MaxByHand                                \* bounds

Nowhere == "nowhere"

ASSUME InboxAssumption ==
  /\ FeeLines \subseteq Incoming /\ Incoming \subseteq Lines
  /\ \A l \in Lines : AccountOf[l] \notin {OtherAccount, Nowhere}
  /\ MaxOccurrence \in Nat /\ MaxTxs \in Nat /\ MaxByHand \in Nat

VARIABLES line,         \* BankStatementLine: status, transaction, adopted, transfer, whether a fee was kept
          txs,          \* transactions, in order of creation
          job,          \* what every handler is in the middle of
          astray        \* lines that more than one handler wrote

vars == <<line, txs, job, astray>>

(***************************************************************************)
(* Transactions.  A line is worth 1; gross, a fee line and a loan are 2.   *)
(***************************************************************************)
Tx(kind, for, from, to, amount, key) ==
  [kind |-> kind, for |-> for, from |-> from, to |-> to, amount |-> amount, key |-> key, live |-> TRUE]
NoKey == <<>>

Source(l) == IF l \in Incoming THEN Nowhere ELSE AccountOf[l]
Target(l) == IF l \in Incoming THEN AccountOf[l] ELSE Nowhere
Entry(l, for, key) == Tx("OTHER", for, Source(l), Target(l), 1, key)
Payment(l, for, amount) == Tx("ORDER_PAYMENT", for, Nowhere, AccountOf[l], amount, NoKey)
Fee(l, kind) == Tx(kind, {l}, AccountOf[l], Nowhere, 1, NoKey)
Room(n) == Len(txs) + n <= MaxTxs

Live == {n \in DOMAIN txs : txs[n].live}
Deleted(n) == [txs EXCEPT ![n].live = FALSE]
\* Is transaction n, or the leg of it on the account of l, the transaction of a line?
Linked(n, l) == \E k \in Lines : line[k].tx = n /\ AccountOf[k] = AccountOf[l]

\* bankLineHash: the first occurrence number not held by a transaction of a
\* line; there is none when the content was booked MaxOccurrence times.
Fingerprints(l) ==
  LET held == {k \in 1..MaxOccurrence : \E n \in Live : txs[n].key = <<ContentOf[l], k>> /\ Linked(n, l)}
  IN {<<ContentOf[l], k>> : k \in {k \in 1..MaxOccurrence \ held : 1..(k - 1) \subseteq held}}
Clash(key) == key # NoKey /\ \E n \in Live : txs[n].key = key

(***************************************************************************)
(* Lines and jobs.                                                         *)
(***************************************************************************)
Absent(fee) == [status |-> "absent", tx |-> 0, adopted |-> FALSE, transfer |-> 0, fee |-> fee]
Idle == [at |-> "idle"]
\* at: the statement it is about to execute; known: the rows it believes in;
\* n: the transaction it made, found or is to delete.
Job(at, known, n) == [at |-> at, known |-> known, n |-> n]

Init ==
  /\ \E fees \in SUBSET FeeLines : line = [l \in Lines |-> Absent(l \in fees)]
  /\ txs = <<>>
  /\ job = [h \in Handlers |-> Idle]
  /\ astray = {}

LinesOf(h) == DOMAIN job[h].known
Rows(ls) == [l \in ls |-> line[l]]
Goto(h, at, n) == job' = [job EXCEPT ![h] = Job(at, @.known, n)]
Finish(h) == job' = [job EXCEPT ![h] = Idle]

With(ls, F(_)) == [l \in Lines |-> IF l \in ls THEN F(line[l]) ELSE line[l]]
\* An update by id alone, of the lines ls, by a handler that may be late.
Write(h, ls, F(_)) ==
  /\ line' = With(ls, F)
  /\ astray' = astray \cup {l \in ls : line[l] # job[h].known[l]}

IsAbsent(l) == line[l].status = "absent"
IsNew(l) == line[l].status = "NEW"
ToInbox(row) == [row EXCEPT !.status = "NEW"]
Resolved(row) == [row EXCEPT !.status = "RESOLVED"]
Dismissed(row) == [row EXCEPT !.status = "DISMISSED"]
Freed(row) == [row EXCEPT !.status = "NEW", !.tx = 0, !.adopted = FALSE]

(***************************************************************************)
(* Arrival of a line: adopted by an entry that looks like it, booked by a  *)
(* rule, or left in the inbox.  Which of these depends on dates and rules. *)
(***************************************************************************)
LooksLike(n, l) ==
  (IF l \in Incoming THEN txs[n].to ELSE txs[n].from) = AccountOf[l] /\ txs[n].amount = 1
Twins(l) == {n \in Live : LooksLike(n, l) /\ ~Linked(n, l)}

IngestNew(l) ==
  /\ IsAbsent(l)
  /\ line' = With({l}, ToInbox)
  /\ UNCHANGED <<txs, job, astray>>

\* The entry of line l and its link, in one transaction.
Book(l, status, key) ==
  /\ Room(1) /\ ~Clash(key)
  /\ txs' = Append(txs, Entry(l, {l}, key))
  /\ line' = With({l}, LAMBDA row : [row EXCEPT !.status = status, !.tx = Len(txs) + 1])
  /\ UNCHANGED <<job, astray>>

IngestPosted(l) == IsAbsent(l) /\ \E key \in Fingerprints(l) : Book(l, "AUTO_POSTED", key)

At(h, at) == job[h].at = at

\* The search for an entry to adopt ...
BeginAdopt(h, l, n) ==
  /\ At(h, "idle") /\ IsAbsent(l) /\ n \in Twins(l)
  /\ job' = [job EXCEPT ![h] = Job("adopt", Rows({l}), n)]
  /\ UNCHANGED <<line, txs, astray>>

AdoptedRow(row, n) == [row EXCEPT !.status = "RESOLVED", !.tx = n, !.adopted = TRUE]

\* ... and the line that arrives with the link, whether the entry is still
\* live or not.  A line that came meanwhile, and an entry that has a line by
\* now, violate a unique index, which counts as loaded already.
Adopt(h) ==
  LET n == job[h].n
      free == {l \in LinesOf(h) : IsAbsent(l) /\ ~Linked(n, l)}
  IN /\ At(h, "adopt")
     /\ line' = With(free, LAMBDA row : AdoptedRow(row, n))
     /\ Finish(h)
     /\ UNCHANGED <<txs, astray>>

(***************************************************************************)
(* categorize and postByRule: the claim is part of the transaction.        *)
(***************************************************************************)
\* A fault for mutation: the status is that of the read before.
CategorizeAgain(l) == ~IsAbsent(l) /\ \E key \in Fingerprints(l) : Book(l, "RESOLVED", key)

Categorize(l) == IsNew(l) /\ \E key \in Fingerprints(l) : Book(l, "RESOLVED", key)
PostByRule(l) == IsNew(l) /\ Book(l, "AUTO_POSTED", NoKey)

(***************************************************************************)
(* attachOrder: the claim, the payment, the acquirer's fee, the search for *)
(* the payment, the link.                                                  *)
(***************************************************************************)

Claim(h, ls, at) ==
  /\ At(h, "idle") /\ \A l \in ls : IsNew(l)
  /\ line' = With(ls, Resolved)
  /\ job' = [job EXCEPT ![h] = Job(at, [l \in ls |-> Resolved(line[l])], 0)]
  /\ UNCHANGED <<txs, astray>>

\* The called service refused: the order is cancelled, an account is archived.
Refused(h) ==
  /\ At(h, "pay") \/ At(h, "transfer")
  /\ Write(h, LinesOf(h), ToInbox)
  /\ Finish(h)
  /\ UNCHANGED txs

AttachPay(h) ==
  /\ At(h, "pay") /\ Room(1)
  /\ \E l \in LinesOf(h) :
       /\ txs' = Append(txs, Payment(l, {l}, IF line[l].fee THEN 2 ELSE 1))
       /\ Goto(h, IF line[l].fee THEN "fee" ELSE "search", Len(txs) + 1)
  /\ UNCHANGED <<line, astray>>

\* A loan: the gross payment and the bank's fee at once.
AttachInstallment(h) ==
  /\ At(h, "pay") /\ Room(2)
  /\ \E l \in {l \in LinesOf(h) : ~line[l].fee} : txs' = txs \o <<Payment(l, {l}, 2), Fee(l, "ORDER_FEE")>>
  /\ Goto(h, "search", Len(txs) + 1)
  /\ UNCHANGED <<line, astray>>

AttachFee(h) ==
  /\ At(h, "fee") /\ Room(1)
  /\ \E l \in LinesOf(h) : txs' = Append(txs, Fee(l, "OTHER"))
  /\ Goto(h, "search", job[h].n)
  /\ UNCHANGED <<line, astray>>

\* The latest payment of that sum on that account that no line has.
AttachSearch(h) ==
  LET paid  == txs[job[h].n]
      found == {n \in Live : /\ txs[n].kind = "ORDER_PAYMENT" /\ txs[n].amount = paid.amount
                             /\ txs[n].to = paid.to /\ \A l \in LinesOf(h) : ~Linked(n, l)}
  IN /\ At(h, "search")
     /\ \/ found = {} /\ Finish(h)
        \/ \E n \in found : (\A k \in found : k <= n) /\ Goto(h, "link", n)
     /\ UNCHANGED <<line, txs, astray>>

\* Refused, silently, when another line has taken the payment meanwhile.
AttachLink(h) ==
  LET n == job[h].n
      tied == {l \in LinesOf(h) : \A k \in Lines \ {l} : line[k].tx # n}
  IN /\ At(h, "link")
     /\ line' = With(tied, LAMBDA row : [row EXCEPT !.tx = n])
     /\ astray' = astray \cup {l \in tied : line[l] # job[h].known[l]}
                         \cup UNION {txs[n].for \cup {l} : l \in {l \in tied : txs[n].for # {l}}}
     /\ Finish(h)
     /\ UNCHANGED txs

(***************************************************************************)
(* confirmTransfer, of two lines, and markAsTransfer, of one.              *)
(***************************************************************************)
IsPair(ls) == \E o \in Lines \ Incoming, i \in Incoming : ls = {o, i} /\ AccountOf[o] # AccountOf[i]

\* confirmTransfer read both lines NEW, ...
BeginConfirm(h, ls) ==
  /\ At(h, "idle") /\ IsPair(ls) /\ \A l \in ls : IsNew(l)
  /\ job' = [job EXCEPT ![h] = Job("confirm", Rows(ls), 0)]
  /\ UNCHANGED <<line, txs, astray>>

\* ... and claims those that still are, ...
ConfirmClaim(h) ==
  LET won == {l \in LinesOf(h) : IsNew(l)}
  IN /\ At(h, "confirm")
     /\ line' = With(won, Resolved)
     /\ job' = [job EXCEPT ![h] = Job(IF won = LinesOf(h) THEN "transfer" ELSE "backoff",
                                      [l \in LinesOf(h) |-> IF l \in won THEN Resolved(line[l]) ELSE @.known[l]], 0)]
     /\ UNCHANGED <<txs, astray>>

\* ... and if it lost one, returns whichever of the two has no transaction,
\* whoever claimed it.
BackOff(h) ==
  /\ At(h, "backoff")
  /\ Write(h, {l \in LinesOf(h) : line[l].tx = 0}, ToInbox)
  /\ Finish(h)
  /\ UNCHANGED txs

MakeTransfer(h) ==
  LET account(ls) == IF ls = {} THEN OtherAccount ELSE AccountOf[CHOOSE l \in ls : TRUE]
  IN /\ At(h, "transfer") /\ Room(1)
     /\ txs' = Append(txs, Tx("TRANSFER", LinesOf(h), account(LinesOf(h) \ Incoming), account(LinesOf(h) \cap Incoming), 1, NoKey))
     /\ Goto(h, "tie", Len(txs) + 1)
     /\ UNCHANGED <<line, astray>>

\* The legs are looked up and then written; what was deleted before the lookup is null.
TieLines(h) ==
  LET n == job[h].n
  IN /\ At(h, "tie")
     /\ \A l \in LinesOf(h), k \in Lines \ LinesOf(h) : line[k].tx = n => AccountOf[k] # AccountOf[l]
     /\ \E leg \in IF n \in Live THEN {n} ELSE {n, 0} :
          Write(h, LinesOf(h), LAMBDA row : [row EXCEPT !.tx = leg, !.transfer = n])
     /\ Finish(h)
     /\ UNCHANGED txs

\* The lookup or the link fails (a leg was adopted by an arriving line, the
\* database is away): the lines return to the inbox, the transfer stays.
ReleaseAlive(h) ==
  /\ At(h, "tie")
  /\ line' = With(LinesOf(h), ToInbox)
  /\ astray' = astray \cup LinesOf(h)
  /\ Finish(h)
  /\ UNCHANGED txs

(***************************************************************************)
(* dismiss and undo.                                                       *)
(***************************************************************************)
BeginDismiss(h, l) ==
  /\ At(h, "idle") /\ IsNew(l)
  /\ job' = [job EXCEPT ![h] = Job("dismiss", Rows({l}), 0)]
  /\ UNCHANGED <<line, txs, astray>>

Dismiss(h) ==
  /\ At(h, "dismiss")
  /\ Write(h, LinesOf(h), Dismissed)
  /\ Finish(h)
  /\ UNCHANGED txs

Undismiss(l) ==
  /\ line[l].status = "DISMISSED"
  /\ line' = With({l}, ToInbox)
  /\ UNCHANGED <<txs, job, astray>>

\* A fault for mutation: an adopted entry is taken for one the line made.
OnlyTheLinkIfDead(row) == ~txs[row.tx].live

\* undo drops the link when the transaction is deleted already or not its own.
OnlyTheLink(row) == ~txs[row.tx].live \/ row.adopted

\* What undo will do it decides by what it read.
BeginUndo(h, l) ==
  LET row == line[l]
  IN /\ At(h, "idle") /\ row.status # "DISMISSED" /\ row.tx # 0
     /\ OnlyTheLink(row) \/ txs[row.tx].kind = "OTHER"
     /\ job' = [job EXCEPT ![h] = Job(IF OnlyTheLink(row) THEN "unlink" ELSE "unbook", Rows({l}), row.tx)]
     /\ UNCHANGED <<line, txs, astray>>

Unlink(h) ==
  /\ At(h, "unlink")
  /\ Write(h, LinesOf(h), Freed)
  /\ Finish(h)
  /\ UNCHANGED txs

\* A fault for mutation: the entry survives its undoing.
UnbookKeepingEntry(h) ==
  /\ At(h, "unbook")
  /\ Write(h, LinesOf(h), LAMBDA row : [row EXCEPT !.status = "NEW", !.tx = 0])
  /\ Finish(h)
  /\ UNCHANGED txs

Unbook(h) ==
  /\ At(h, "unbook")
  /\ txs' = Deleted(job[h].n)
  /\ Write(h, LinesOf(h), LAMBDA row : [row EXCEPT !.status = "NEW", !.tx = 0])
  /\ Finish(h)

\* The process dies, or an error ends the handler.
Crash(h) ==
  /\ ~At(h, "idle")
  /\ Finish(h)
  /\ UNCHANGED <<line, txs, astray>>

(***************************************************************************)
(* The rest of the program: entries made by hand, and deletions.           *)
(***************************************************************************)
ByHand == {n \in DOMAIN txs : txs[n].for = {}}

\* An entry or a payment of an order that happens to look like line l.
EnterByHand(l) ==
  /\ Room(1) /\ Cardinality(ByHand) < MaxByHand
  /\ \/ txs' = Append(txs, Entry(l, {}, NoKey))
     \/ l \in Incoming /\ txs' = Append(txs, Payment(l, {}, 1))
  /\ UNCHANGED <<line, job, astray>>

\* Deletes a payment, or the fee of a loan, from the card of the order.
DeletePayment(n) ==
  /\ n \in Live /\ txs[n].kind \in {"ORDER_PAYMENT", "ORDER_FEE"}
  /\ txs' = Deleted(n)
  /\ line' = With({l \in Lines : line[l].tx = n}, Freed)
  /\ UNCHANGED <<job, astray>>

DeleteTransfer(n) ==
  /\ n \in Live /\ txs[n].kind = "TRANSFER"
  /\ txs' = Deleted(n)
  /\ line' = With({l \in Lines : line[l].transfer = n},
                  LAMBDA row : [row EXCEPT !.status = "NEW", !.tx = 0, !.transfer = 0])
  /\ UNCHANGED <<job, astray>>

\* The list of operations deletes only what no other part of the program owns.
DeleteEntry(n) ==
  /\ n \in Live /\ txs[n].kind = "OTHER"
  /\ txs' = Deleted(n)
  /\ UNCHANGED <<line, job, astray>>

\* Handlers that are one statement, or one transaction.
Atomic(l) ==
  \/ IngestNew(l)
  \/ IngestPosted(l)
  \/ Categorize(l)
  \/ PostByRule(l)
  \/ Undismiss(l)
  \/ EnterByHand(l)

Start(h) ==
  \/ \E l \in Lines, n \in DOMAIN txs : BeginAdopt(h, l, n)
  \/ \E l \in Incoming : Claim(h, {l}, "pay")
  \/ \E l \in Lines : Claim(h, {l}, "transfer")
  \/ \E o, i \in Lines : BeginConfirm(h, {o, i})
  \/ \E l \in Lines : BeginDismiss(h, l)
  \/ \E l \in Lines : BeginUndo(h, l)

Continue(h) ==
  \/ Adopt(h)
  \/ Refused(h)
  \/ AttachPay(h)
  \/ AttachInstallment(h)
  \/ AttachFee(h)
  \/ AttachSearch(h)
  \/ AttachLink(h)
  \/ ConfirmClaim(h)
  \/ BackOff(h)
  \/ MakeTransfer(h)
  \/ TieLines(h)
  \/ ReleaseAlive(h)
  \/ Dismiss(h)
  \/ Unlink(h)
  \/ Unbook(h)
  \/ Crash(h)

Next ==
  \/ \E l \in Lines : Atomic(l)
  \/ \E h \in Handlers : Start(h) \/ Continue(h)
  \/ \E n \in DOMAIN txs : DeletePayment(n) \/ DeleteTransfer(n) \/ DeleteEntry(n)

Spec == Init /\ [][Next]_vars

-----------------------------------------------------------------------------
Statuses == {"absent", "NEW", "RESOLVED", "AUTO_POSTED", "DISMISSED"}
RowType == [status : Statuses, tx : 0..MaxTxs, adopted : BOOLEAN, transfer : 0..MaxTxs, fee : BOOLEAN]

(***************************************************************************)
(* The shape of the tables: the link of a line points at a transaction, no *)
(* two lines at one (transactionId is unique), and no two live             *)
(* transactions have one fingerprint.                                      *)
(***************************************************************************)
TypeOK ==
  /\ line \in [Lines -> RowType]
  /\ \A l \in Lines : line[l].tx \in DOMAIN txs \cup {0}
  /\ \A k, l \in Lines : k # l /\ line[k].tx # 0 /\ AccountOf[k] = AccountOf[l] => line[k].tx # line[l].tx
  /\ \A n, m \in Live : n # m /\ txs[n].key = txs[m].key => txs[n].key = NoKey
  /\ astray \subseteq Lines

\* What books the money of a line, its fees aside.
IsFee(t) == \E l \in t.for : t.from = AccountOf[l] /\ l \in Incoming
Bookings(l) == {n \in Live : l \in txs[n].for /\ ~IsFee(txs[n])}

(***************************************************************************)
(* Any number of handlers, however they overlap, fail or die, book a line  *)
(* once ("only one request passes the CAS, the others do not create a      *)
(* second payment"), unless the line has gone astray.                      *)
(***************************************************************************)
BookedOnce == \A l \in Lines \ astray : Cardinality(Bookings(l)) <= 1

(***************************************************************************)
(* What lies in the inbox, or was dismissed, is not in the books: undo,    *)
(* the deletion of a payment or of a transfer take the money of a line out *)
(* of the books before, or together with, its return to the inbox.         *)
(***************************************************************************)
InboxIsUnbooked == \A l \in Lines \ astray : line[l].status \in {"NEW", "DISMISSED"} => Bookings(l) = {}

(***************************************************************************)
(* The inbox never deletes an entry it did not make ("to delete it would   *)
(* be to erase somebody else's record"; the links of adopted lines are     *)
(* only undone), astray or not.                                            *)
(***************************************************************************)
ForeignSurvives ==
  [][\A n \in DOMAIN txs : txs[n].for = {} /\ txs[n].live /\ job' # job => txs'[n].live]_vars

(***************************************************************************)
(* "1:1: a line gives rise to no more than one transaction"                *)
(* (schema.prisma, BankStatementLine.transactionId).                       *)
(***************************************************************************)
OneBookingPerLine == \A l \in Lines : Cardinality(Bookings(l)) <= 1

(***************************************************************************)
(* "The balance on the account (the gross payment less the fee) stays      *)
(* equal to the bank's credit" (inbox.service.ts, attachOrder): a line     *)
(* that is back in the inbox leaves no fee behind.                         *)
(***************************************************************************)
NoFeeWithoutPayment ==
  \A l \in Lines \ astray : line[l].status = "NEW" => \A n \in Live : l \notin txs[n].for
=============================================================================
