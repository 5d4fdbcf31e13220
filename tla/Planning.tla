------------------------------ MODULE Planning ------------------------------
(***************************************************************************)
(* Planned payments, the recurring rules that fill them in and the ways to *)
(* pay one: PlanningService, and payPlannedFromLine and undo of the inbox. *)
(* (That the account of a payment may be deleted is module Accounts, where *)
(* a payment is an operation like any other.)                              *)
(*                                                                         *)
(* A plan becomes PAID by a compare-and-swap on its status.  Either the    *)
(* payment is created in the same database transaction (and belongs to the *)
(* plan), or an operation that exists is linked, after reads that nothing  *)
(* protects.  Undoing works by what was read before the compare-and-swap.  *)
(*                                                                         *)
(* OFF is SKIPPED or CANCELLED, which nothing in the program tells apart.  *)
(* Three sets are not in the tables and no guard reads them: `raced`,      *)
(* plans reverted by a handler that had read another payment; `borrowed`,  *)
(* plans linked to an operation that was not free for them; and `erased`,  *)
(* payments of plans deleted in the list of operations.                    *)
(***************************************************************************)
EXTENDS Integers, Sequences, FiniteSets

CONSTANTS Rules, Dates, BankLines, Handlers,
          ByHand,               \* bound: plans made by hand
          MaxPlans, MaxTxs      \* bounds

ASSUME PlanningAssumption == "none" \notin BankLines /\ ByHand \in Nat /\ MaxPlans \in Nat /\ MaxTxs \in Nat

VARIABLES plans,        \* PlannedPayment, in order of creation
          rule,         \* RecurringPayment: "active", "paused", "deleted"
          txs,          \* Transaction, in order of creation
          line,         \* BankStatementLine: whether it is NEW, and its transaction
          job,          \* what every handler is in the middle of
          raced, borrowed, erased

vars == <<plans, rule, txs, line, job, raced, borrowed, erased>>

Idle == [at |-> "idle"]
At(h, at) == job[h].at = at
Finish(h) == job' = [job EXCEPT ![h] = Idle]

\* An operation; plan is the plan it was created to pay, or 0 (not in the table).
Entry(plan) == [plan |-> plan, live |-> TRUE]
Room == Len(txs) < MaxTxs
LiveTxs == {n \in DOMAIN txs : txs[n].live}
Gone(n) == [txs EXCEPT ![n].live = FALSE]

NoRule == "by hand"
NewPlan(r, d) == [rule |-> r, due |-> d, status |-> "PLANNED", tx |-> 0, auto |-> FALSE, live |-> TRUE]
Planned == {p \in DOMAIN plans : plans[p].live}
PaidPlans == {p \in Planned : plans[p].status = "PAID"}
Unpaid(p) == p \in Planned /\ plans[p].status # "PAID"
MatchedBy(n) == {p \in DOMAIN plans : plans[p].tx = n}

Init ==
  /\ plans = <<>>
  /\ rule = [r \in Rules |-> "active"]
  /\ txs = <<>>
  /\ line = [l \in BankLines |-> [new |-> TRUE, tx |-> 0]]
  /\ job = [h \in Handlers |-> Idle]
  /\ raced = {} /\ borrowed = {} /\ erased = {}

(***************************************************************************)
(* Recurring rules.                                                        *)
(***************************************************************************)
\* updateRecurring, as far as it changes what materialize reads.
ToggleRule(r) ==
  /\ rule[r] \in {"active", "paused"}
  /\ rule' = [rule EXCEPT ![r] = IF @ = "active" THEN "paused" ELSE "active"]
  /\ UNCHANGED <<plans, txs, line, job, raced, borrowed, erased>>

DeleteRule(r) ==
  /\ rule[r] \in {"active", "paused"}
  /\ rule' = [rule EXCEPT ![r] = "deleted"]
  /\ plans' = [p \in DOMAIN plans |->
                 IF p \in Planned /\ plans[p].rule = r /\ plans[p].status = "PLANNED"
                   THEN [plans[p] EXCEPT !.status = "OFF"] ELSE plans[p]]
  /\ UNCHANGED <<txs, line, job, raced, borrowed, erased>>

\* The unique index on (rule, date).
Occupied(w) == \E p \in Planned : <<plans[p].rule, plans[p].due>> = w

\* materialize reads the active rules and the dates that have a plan ...
BeginMaterialize(h) ==
  LET wanted == {w \in Rules \X Dates : rule[w[1]] = "active" /\ \A p \in Planned : <<plans[p].rule, plans[p].due>> # w}
  IN /\ At(h, "idle") /\ wanted # {}
     /\ job' = [job EXCEPT ![h] = [at |-> "materialize", wanted |-> wanted]]
     /\ UNCHANGED <<plans, rule, txs, line, raced, borrowed, erased>>

\* ... and creates the others one by one; what another run has created by
\* then is refused and passed over.
Materialize(h, w) ==
  LET left == job[h].wanted \ {w}
  IN /\ At(h, "materialize") /\ w \in job[h].wanted
     /\ \/ Occupied(w) /\ UNCHANGED plans
        \/ ~Occupied(w) /\ Len(plans) < MaxPlans /\ plans' = Append(plans, NewPlan(w[1], w[2]))
     /\ job' = [job EXCEPT ![h] = IF left = {} THEN Idle ELSE [at |-> "materialize", wanted |-> left]]
     /\ UNCHANGED <<rule, txs, line, raced, borrowed, erased>>

(***************************************************************************)
(* Plans by hand, and their status.                                        *)
(***************************************************************************)
CreatePlanned ==
  /\ Len(plans) < MaxPlans /\ Cardinality({p \in DOMAIN plans : plans[p].rule = NoRule}) < ByHand
  /\ \E d \in Dates : plans' = Append(plans, NewPlan(NoRule, d))
  /\ UNCHANGED <<rule, txs, line, job, raced, borrowed, erased>>

SetPlannedStatus(p, status) ==
  /\ Unpaid(p)
  /\ plans' = [plans EXCEPT ![p].status = status]
  /\ UNCHANGED <<rule, txs, line, job, raced, borrowed, erased>>

\* updatePlanned with another date.
UpdatePlanned(p, d) ==
  /\ p \in Planned /\ plans[p].status = "PLANNED"
  /\ plans[p].rule = NoRule \/ ~Occupied(<<plans[p].rule, d>>)
  /\ plans' = [plans EXCEPT ![p].due = d]
  /\ UNCHANGED <<rule, txs, line, job, raced, borrowed, erased>>

DeletePlanned(p) ==
  /\ Unpaid(p)
  /\ plans' = [plans EXCEPT ![p].live = FALSE]
  /\ UNCHANGED <<rule, txs, line, job, raced, borrowed, erased>>

(***************************************************************************)
(* payPlanned.                                                             *)
(***************************************************************************)
PaidBy(row, n, auto) == [row EXCEPT !.status = "PAID", !.tx = n, !.auto = auto]

\* A fault for mutation: no compare-and-swap, the read before is enough.
PayAgain(p) ==
  /\ p \in Planned /\ Room
  /\ txs' = Append(txs, Entry(p))
  /\ plans' = [plans EXCEPT ![p] = PaidBy(@, Len(txs) + 1, TRUE)]
  /\ borrowed' = borrowed \ {p}
  /\ UNCHANGED <<rule, line, job, raced, erased>>

\* With a new operation: it and the compare-and-swap are one transaction.
Pay(p) ==
  /\ Unpaid(p) /\ Room
  /\ txs' = Append(txs, Entry(p))
  /\ plans' = [plans EXCEPT ![p] = PaidBy(@, Len(txs) + 1, TRUE)]
  /\ borrowed' = borrowed \ {p}
  /\ UNCHANGED <<rule, line, job, raced, erased>>

\* With an operation that is there and that no live plan has, ...
Linkable(p, n) == n \in LiveTxs /\ MatchedBy(n) \cap Planned \subseteq {p}

BeginLink(h, p, n) ==
  /\ At(h, "idle") /\ Unpaid(p) /\ Linkable(p, n)
  /\ job' = [job EXCEPT ![h] = [at |-> "link", p |-> p, n |-> n, l |-> "none"]]
  /\ UNCHANGED <<plans, rule, txs, line, raced, borrowed, erased>>

\* The operation is another handler's, that has booked a line to pay a plan and
\* does not know yet whether it will be the one.
Unsettled(h, n) ==
  \E g \in Handlers \ {h} :
    job[g].at \in {"offer", "link", "withdraw"} /\ job[g].l # "none" /\ job[g].n = n

\* Not free: deleted by now, another handler's, or made to pay another plan.
Borrows(h, p, n) == ~txs[n].live \/ Unsettled(h, n) \/ txs[n].plan \notin {0, p}

\* ... claimPaid.  matchedTransactionId is unique; nothing else of the operation
\* is asked again.
CanClaim(p, n) == Unpaid(p) /\ MatchedBy(n) = {}
ClaimPaid(h, p, n) ==
  /\ CanClaim(p, n)
  /\ plans' = [plans EXCEPT ![p] = PaidBy(@, n, FALSE)]
  /\ borrowed' = IF Borrows(h, p, n) THEN borrowed \cup {p} ELSE borrowed \ {p}

Link(h) ==
  /\ At(h, "link") /\ job[h].l = "none"
  /\ \/ ClaimPaid(h, job[h].p, job[h].n)
     \/ ~CanClaim(job[h].p, job[h].n) /\ UNCHANGED <<plans, borrowed>>
  /\ Finish(h)
  /\ UNCHANGED <<rule, txs, line, raced, erased>>

(***************************************************************************)
(* revertPlanned.                                                          *)
(***************************************************************************)
Reopened(row) == [row EXCEPT !.status = "PLANNED", !.tx = 0, !.auto = FALSE]

BeginRevert(h, p) ==
  /\ At(h, "idle") /\ p \in PaidPlans
  /\ job' = [job EXCEPT ![h] = [at |-> "revert", p |-> p, n |-> plans[p].tx, auto |-> plans[p].auto]]
  /\ UNCHANGED <<plans, rule, txs, line, raced, borrowed, erased>>

\* A fault for mutation: an operation the plan was only linked to goes as well.
RevertAny(h) ==
  LET p == job[h].p n == job[h].n
  IN /\ At(h, "revert")
     /\ \/ /\ p \in PaidPlans
           /\ plans' = [plans EXCEPT ![p] = Reopened(@)]
           /\ txs' = Gone(n)
           /\ raced' = IF plans[p].tx = n THEN raced ELSE raced \cup {p}
           /\ borrowed' = borrowed \ {p}
        \/ p \notin PaidPlans /\ UNCHANGED <<txs, plans, raced, borrowed>>
     /\ Finish(h)
     /\ UNCHANGED <<rule, line, erased>>

\* Whoever wins the status deletes the payment read before, which need not be
\* the payment the plan has now.
Revert(h) ==
  LET p == job[h].p n == job[h].n
  IN /\ At(h, "revert")
     /\ \/ /\ p \in PaidPlans
           /\ plans' = [plans EXCEPT ![p] = Reopened(@)]
           /\ txs' = IF job[h].auto THEN Gone(n) ELSE txs
           /\ raced' = IF plans[p].tx = n THEN raced ELSE raced \cup {p}
           /\ borrowed' = borrowed \ {p}
        \/ p \notin PaidPlans /\ UNCHANGED <<txs, plans, raced, borrowed>>
     /\ Finish(h)
     /\ UNCHANGED <<rule, line, erased>>

(***************************************************************************)
(* A plan paid by a line of a bank statement, and the undoing of the line. *)
(***************************************************************************)
\* Reads the line NEW and the plan PLANNED, ...
BeginPayFromLine(h, l, p) ==
  /\ At(h, "idle") /\ line[l].new /\ p \in Planned /\ plans[p].status = "PLANNED"
  /\ job' = [job EXCEPT ![h] = [at |-> "book", p |-> p, l |-> l]]
  /\ UNCHANGED <<plans, rule, txs, line, raced, borrowed, erased>>

\* ... makes an operation of the line, if the line is still NEW, ...
BookLine(h) ==
  LET l == job[h].l n == Len(txs) + 1
  IN /\ At(h, "book")
     /\ \/ /\ line[l].new /\ Room
           /\ txs' = Append(txs, Entry(0))
           /\ line' = [line EXCEPT ![l] = [new |-> FALSE, tx |-> n]]
           /\ job' = [job EXCEPT ![h] = [at |-> "offer", p |-> @.p, n |-> n, l |-> l]]
        \/ ~line[l].new /\ Finish(h) /\ UNCHANGED <<txs, line>>
     /\ UNCHANGED <<plans, rule, raced, borrowed, erased>>

\* ... and hands it to payPlanned, which reads all of it again ...
OfferLine(h) ==
  /\ At(h, "offer")
  /\ job' = [job EXCEPT ![h].at = IF Unpaid(job[h].p) /\ Linkable(job[h].p, job[h].n) THEN "link" ELSE "withdraw"]
  /\ UNCHANGED <<plans, rule, txs, line, raced, borrowed, erased>>

\* ... before it claims the plan.
LinkLine(h) ==
  LET p == job[h].p n == job[h].n
  IN /\ At(h, "link") /\ job[h].l # "none"
     /\ \/ ClaimPaid(h, p, n) /\ Finish(h)
        \/ /\ ~CanClaim(p, n)
           /\ job' = [job EXCEPT ![h].at = "withdraw"]
           /\ UNCHANGED <<plans, borrowed>>
     /\ UNCHANGED <<rule, txs, line, raced, erased>>

\* Refused: the operation goes and the line returns, both by id.  A plan that
\* somebody linked to the operation meanwhile keeps the link.
Withdraw(h) ==
  LET n == job[h].n l == job[h].l
  IN /\ At(h, "withdraw")
     /\ txs' = Gone(n)
     /\ line' = [line EXCEPT ![l] = [new |-> TRUE, tx |-> 0]]
     /\ Finish(h)
     /\ UNCHANGED <<plans, rule, raced, borrowed, erased>>

\* undo read the line with its operation, ...
BeginUndo(h, l) ==
  /\ At(h, "idle") /\ line[l].tx # 0
  /\ job' = [job EXCEPT ![h] = [at |-> IF txs[line[l].tx].live THEN "unbook" ELSE "unlink", l |-> l, n |-> line[l].tx]]
  /\ UNCHANGED <<plans, rule, txs, line, raced, borrowed, erased>>

FreeLine(h) ==
  LET l == job[h].l
  IN /\ line' = [line EXCEPT ![l] = [new |-> TRUE, tx |-> 0]]
     /\ Finish(h)

\* A fault for mutation: undo does not know of plans.
UnbookLineOnly(h) ==
  /\ At(h, "unbook")
  /\ txs' = Gone(job[h].n)
  /\ FreeLine(h)
  /\ UNCHANGED <<plans, rule, raced, borrowed, erased>>

\* ... reopens the plan the operation has paid, deletes the operation and
\* returns the line, in one transaction.
Unbook(h) ==
  /\ At(h, "unbook")
  /\ plans' = [p \in DOMAIN plans |->
                 IF p \in MatchedBy(job[h].n) \cap Planned THEN Reopened(plans[p]) ELSE plans[p]]
  /\ txs' = Gone(job[h].n)
  /\ FreeLine(h)
  /\ borrowed' = borrowed \ MatchedBy(job[h].n)
  /\ UNCHANGED <<rule, raced, erased>>

\* The operation was deleted before: the line just returns.
Unlink(h) ==
  /\ At(h, "unlink")
  /\ FreeLine(h)
  /\ UNCHANGED <<plans, rule, txs, raced, borrowed, erased>>

(***************************************************************************)
(* The process dies, or an error ends the handler.                         *)
(***************************************************************************)
Crash(h) == ~At(h, "idle") /\ Finish(h) /\ UNCHANGED <<plans, rule, txs, line, raced, borrowed, erased>>

\* The list of operations: an operation by hand, and the deletion of one, be it
\* the payment of a plan.
EnterByHand == Room /\ txs' = Append(txs, Entry(0)) /\ UNCHANGED <<plans, rule, line, job, raced, borrowed, erased>>
Erase(n) ==
  /\ n \in LiveTxs
  /\ txs' = Gone(n)
  /\ erased' = IF MatchedBy(n) = {} THEN erased ELSE erased \cup {n}
  /\ UNCHANGED <<plans, rule, line, job, raced, borrowed>>

RuleStep == \E r \in Rules : ToggleRule(r) \/ DeleteRule(r)
PlanStep ==
  \/ CreatePlanned
  \/ \E p \in DOMAIN plans :
       \/ \E status \in {"PLANNED", "OFF"} : SetPlannedStatus(p, status)
       \/ \E d \in Dates : UpdatePlanned(p, d)
       \/ DeletePlanned(p)
       \/ Pay(p)
Start(h) ==
  \/ BeginMaterialize(h)
  \/ \E p \in DOMAIN plans :
       \/ \E n \in DOMAIN txs : BeginLink(h, p, n)
       \/ BeginRevert(h, p)
       \/ \E l \in BankLines : BeginPayFromLine(h, l, p)
  \/ \E l \in BankLines : BeginUndo(h, l)
Continue(h) ==
  \/ \E w \in Rules \X Dates : Materialize(h, w)
  \/ Link(h)
  \/ Revert(h)
  \/ BookLine(h)
  \/ OfferLine(h)
  \/ LinkLine(h)
  \/ Withdraw(h)
  \/ Unbook(h)
  \/ Unlink(h)
  \/ Crash(h)

Next ==
  \/ RuleStep
  \/ PlanStep
  \/ \E h \in Handlers : Start(h) \/ Continue(h)
  \/ EnterByHand
  \/ \E n \in DOMAIN txs : Erase(n)

Spec == Init /\ [][Next]_vars

-----------------------------------------------------------------------------
\* The live operations that were created as the payment of plan p.
PaymentsOf(p) == {n \in LiveTxs : txs[n].plan = p}

\* A plan has an operation exactly while it is PAID.
StatusTellsPayment == \A p \in DOMAIN plans : plans[p].tx # 0 <=> plans[p].status = "PAID"

\* No operation pays for two plans.
OperationPaysOne ==
  \A p, q \in DOMAIN plans : p # q /\ plans[p].tx # 0 => plans[p].tx # plans[q].tx

\* No rule has two live plans for one date.
PlannedOnce ==
  \A p, q \in Planned : p # q /\ plans[p].rule # NoRule => <<plans[p].rule, plans[p].due>> # <<plans[q].rule, plans[q].due>>

(***************************************************************************)
(* A date of a rule is planned once, and a plan is paid once: an operation *)
(* created to pay it lives only while the plan is PAID by it ("the race of *)
(* a double click does not pay twice"; undoing deletes it), and pays for   *)
(* nothing else.  A plan reverted by a handler that had read a payment of  *)
(* it before the present one is aside, see PaymentIsOurs.                  *)
(***************************************************************************)
PaidOnce ==
  /\ StatusTellsPayment /\ OperationPaysOne /\ PlannedOnce
  /\ \A p \in DOMAIN plans \ raced : \A n \in PaymentsOf(p) : plans[p].tx = n /\ plans[p].live

(***************************************************************************)
(* A plan that says PAID has its money in the books: undoing a line, the   *)
(* withdrawal of a line that lost the plan and the reversal of a payment   *)
(* never leave a plan paid by a deleted operation ("otherwise the plan     *)
(* would stay paid by a deleted operation and the real payment would pass  *)
(* it by"), if the operation was free when the plan was linked to it.  The *)
(* list of operations does (erased), see PaidMeansMoney.                   *)
(***************************************************************************)
HasMoney(p) == txs[plans[p].tx].live \/ plans[p].tx \in erased
PaidIsPaid == \A p \in PaidPlans \ borrowed : HasMoney(p)

(***************************************************************************)
(* The same of every plan.  A link looks the operation up before it claims *)
(* the plan, and asks nothing of it then: the operation may be deleted by  *)
(* then, or be one that its own handler is yet to withdraw.                *)
(***************************************************************************)
PaidMeansMoney == \A p \in PaidPlans : HasMoney(p)

(***************************************************************************)
(* The operation payPlannedFromLine withdraws, by id, is nobody's: no plan *)
(* was paid by it since the line was booked.                               *)
(***************************************************************************)
WithdrawsItsOwn == \A h \in Handlers : At(h, "withdraw") => MatchedBy(job[h].n) \cap PaidPlans = {}

(***************************************************************************)
(* An operation the plan did not create survives the reversal of the plan  *)
(* ("a linked one is only unlinked").                                      *)
(***************************************************************************)
LinkedSurvives ==
  [][\A h \in Handlers : At(h, "revert") /\ job[h]' # job[h] =>
       \A n \in LiveTxs : txs[n].plan # job[h].p => txs'[n].live]_vars

(***************************************************************************)
(* "First the payment is taken off atomically.  The operation is deleted   *)
(* only if the claim won - a parallel revert rolls back without touching   *)
(* anybody's work" (planning.service.ts, revertPlanned).                   *)
(***************************************************************************)
PaymentIsOurs == \A p \in DOMAIN plans : \A n \in PaymentsOf(p) : plans[p].tx = n

(***************************************************************************)
(* "Future expected positions of this rule are no longer relevant"         *)
(* (planning.service.ts, deleteRecurring).                                 *)
(***************************************************************************)
DeletedRuleIsQuiet ==
  \A p \in Planned : plans[p].rule # NoRule /\ rule[plans[p].rule] = "deleted" => plans[p].status # "PLANNED"
=============================================================================
