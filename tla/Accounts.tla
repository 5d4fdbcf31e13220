------------------------------ MODULE Accounts ------------------------------
(***************************************************************************)
(* Accounts, the operations on them and the transfers between them:        *)
(* AccountService, TransactionService and TransferService.                 *)
(*                                                                         *)
(* A transfer locks both of its accounts and does all its work in one      *)
(* database transaction: one action.  Deleting an account, entering an     *)
(* operation and moving one to another account read first and write later, *)
(* by id and without a lock: two actions each, and what was read is in the *)
(* job of the handler.                                                     *)
(*                                                                         *)
(* The set `raced` is not in the tables and no guard reads it: accounts    *)
(* that got an operation between the count of softDelete and its update,   *)
(* or after it.                                                            *)
(***************************************************************************)
EXTENDS Integers, Sequences, FiniteSets

CONSTANTS AccountIds, Handlers,
          MaxTxs, MaxTransfers          \* bounds

ASSUME AccountsAssumption == MaxTxs \in Nat /\ MaxTransfers \in Nat

VARIABLES account,      \* Account: deletedAt and isArchived
          txs,          \* Transaction, in order of creation
          transfers,    \* Transfer, in order of creation
          job,          \* what every handler is in the middle of
          raced

Idle == [at |-> "idle"]
At(h, at) == job[h].at = at
Finish(h) == job' = [job EXCEPT ![h] = Idle]

\* part: of a transfer, or "entry"; group: the transfer, or 0.
Entry(part, a, group) == [part |-> part, account |-> a, group |-> group, live |-> TRUE]
Room(n) == Len(txs) + n <= MaxTxs
LiveTxs == {n \in DOMAIN txs : txs[n].live}
EntriesOf(a) == {n \in LiveTxs : txs[n].account = a}
Undeleted(a) == account[a] # "deleted"
\* A fault for mutation: the leg of a transfer is an operation like any other.
AnyEditable(n) == TRUE
\* assertGenericEditable: what a transfer made is edited and deleted with it.
GenericEditable(n) == txs[n].group = 0

AccountsInit ==
  /\ account = [a \in AccountIds |-> "open"]
  /\ txs = <<>>
  /\ transfers = <<>>
  /\ job = [h \in Handlers |-> Idle]
  /\ raced = {}

(***************************************************************************)
(* AccountService.                                                         *)
(***************************************************************************)
\* A fault for mutation: an account with operations may go.
BeginRemoveAnyway(h, a) ==
  /\ At(h, "idle") /\ Undeleted(a)
  /\ job' = [job EXCEPT ![h] = [at |-> "remove", a |-> a, seen |-> EntriesOf(a)]]
  /\ UNCHANGED <<account, txs, transfers, raced>>

\* softDelete counts the operations of the account ...
BeginRemove(h, a) ==
  /\ At(h, "idle") /\ Undeleted(a) /\ EntriesOf(a) = {}
  /\ job' = [job EXCEPT ![h] = [at |-> "remove", a |-> a, seen |-> EntriesOf(a)]]
  /\ UNCHANGED <<account, txs, transfers, raced>>

\* ... and deletes by id.
Remove(h) ==
  LET a == job[h].a
  IN /\ At(h, "remove")
     /\ account' = [account EXCEPT ![a] = "deleted"]
     /\ raced' = IF EntriesOf(a) \subseteq job[h].seen THEN raced ELSE raced \cup {a}
     /\ Finish(h)
     /\ UNCHANGED <<txs, transfers>>

\* update, as far as it changes what others ask of an account.
SetArchived(a) ==
  /\ Undeleted(a)
  /\ account' = [account EXCEPT ![a] = IF @ = "open" THEN "archived" ELSE "open"]
  /\ UNCHANGED <<txs, transfers, job, raced>>

(***************************************************************************)
(* TransactionService: create, update, softDelete.                         *)
(***************************************************************************)
\* validateRefs: the account is there when it is read.
BeginEntry(h, a) ==
  /\ At(h, "idle") /\ Undeleted(a)
  /\ job' = [job EXCEPT ![h] = [at |-> "enter", a |-> a]]
  /\ UNCHANGED <<account, txs, transfers, raced>>

Late(a) == IF Undeleted(a) THEN raced ELSE raced \cup {a}

Enter(h) ==
  /\ At(h, "enter") /\ Room(1)
  /\ txs' = Append(txs, Entry("entry", job[h].a, 0))
  /\ raced' = Late(job[h].a)
  /\ Finish(h)
  /\ UNCHANGED <<account, transfers>>

\* update with another account; the new account and the operation were read before.
BeginMove(h, n, a) ==
  /\ At(h, "idle") /\ txs[n].live /\ GenericEditable(n) /\ Undeleted(a) /\ a # txs[n].account
  /\ job' = [job EXCEPT ![h] = [at |-> "move", n |-> n, a |-> a]]
  /\ UNCHANGED <<account, txs, transfers, raced>>

Move(h) ==
  LET n == job[h].n
  IN /\ At(h, "move")
     /\ txs' = [txs EXCEPT ![n].account = job[h].a]
     /\ raced' = IF txs[n].live THEN Late(job[h].a) ELSE raced
     /\ Finish(h)
     /\ UNCHANGED <<account, transfers>>

DeleteEntry(n) ==
  /\ txs[n].live /\ GenericEditable(n)
  /\ txs' = [txs EXCEPT ![n].live = FALSE]
  /\ UNCHANGED <<account, transfers, job, raced>>

(***************************************************************************)
(* TransferService.  Both accounts are locked and must be open; fee tells  *)
(* whether the bank took one, from the account of origin.                  *)
(***************************************************************************)
CreateTransfer(a, b, fee) ==
  LET g == Len(transfers) + 1
      legs == <<Entry("out", a, g), Entry("in", b, g)>>
      made == IF fee THEN Append(legs, Entry("fee", a, g)) ELSE legs
  IN /\ a # b /\ account[a] = "open" /\ account[b] = "open"
     /\ g <= MaxTransfers /\ Room(Len(made))
     /\ transfers' = Append(transfers, [from |-> a, to |-> b, fee |-> fee, live |-> TRUE])
     /\ txs' = txs \o made
     /\ UNCHANGED <<account, job, raced>>

OfTransfer(g) == {n \in DOMAIN txs : txs[n].group = g}
DeleteTransfer(g) ==
  /\ transfers[g].live
  /\ transfers' = [transfers EXCEPT ![g].live = FALSE]
  /\ txs' = [n \in DOMAIN txs |-> IF n \in OfTransfer(g) THEN [txs[n] EXCEPT !.live = FALSE] ELSE txs[n]]
  /\ UNCHANGED <<account, job, raced>>

AccountsNext ==
  \/ \E h \in Handlers :
       \/ \E a \in AccountIds : BeginRemove(h, a) \/ BeginEntry(h, a)
       \/ \E n \in DOMAIN txs, a \in AccountIds : BeginMove(h, n, a)
       \/ Remove(h)
       \/ Enter(h)
       \/ Move(h)
  \/ \E a \in AccountIds : SetArchived(a)
  \/ \E a, b \in AccountIds, fee \in BOOLEAN : CreateTransfer(a, b, fee)
  \/ \E g \in DOMAIN transfers : DeleteTransfer(g)
  \/ \E n \in DOMAIN txs : DeleteEntry(n)

accountsVars == <<account, txs, transfers, job, raced>>
AccountsSpec == AccountsInit /\ [][AccountsNext]_accountsVars

-----------------------------------------------------------------------------
\* The accounts of the operations a transfer is made of.
Shape(g) ==
  LET t == transfers[g]
  IN {<<"out", t.from>>, <<"in", t.to>>} \cup (IF t.fee THEN {<<"fee", t.from>>} ELSE {})

(***************************************************************************)
(* A transfer is in the books whole or not at all: its two legs and the    *)
(* fee of the bank live exactly while it does, on the accounts it names,   *)
(* whatever the general list of operations does beside it.  (Legs without  *)
(* their pair are an income or an expense that never was.)                 *)
(***************************************************************************)
TransfersWhole ==
  \A g \in DOMAIN transfers :
    {<<txs[n].part, txs[n].account>> : n \in {n \in OfTransfer(g) : txs[n].live}}
      = IF transfers[g].live THEN Shape(g) ELSE {}

(***************************************************************************)
(* "An account with active operations must not be deleted, or they are     *)
(* orphans: the cash flow and the balance by account lose them, while the  *)
(* summary counts them" (account.service.ts, softDelete).  True but for    *)
(* operations that came between the count and the deletion.                *)
(***************************************************************************)
OrphansWereRaced == \A n \in LiveTxs : Undeleted(txs[n].account) \/ txs[n].account \in raced

\* The same sentence without the exception.
NoOrphans == \A n \in LiveTxs : Undeleted(txs[n].account)
=============================================================================
