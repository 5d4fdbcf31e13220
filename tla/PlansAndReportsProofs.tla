----------------------- MODULE PlansAndReportsProofs -----------------------
(***************************************************************************)
(* Theorems about the two components that reckon by the month: the planned *)
(* payments, of which each month makes its own, and the reports, which     *)
(* divide operations and orders by month.  The two specifications share no *)
(* variable and no constant; each part is about one of them and has an     *)
(* invariant of its own.  The facts about sums over finite sets are those  *)
(* proved with the stock ledger.                                           *)
(***************************************************************************)
EXTENDS Planning, Reports, StockLedgerProofs, FiniteSetTheorems, TLAPS

-----------------------------------------------------------------------------
(***************************************************************************)
(* Theorems about plans, for every set of rules, dates, lines and handlers *)
(* and every bound: a date is planned once and paid once (PaidOnce), a     *)
(* plan that says PAID has its money in the books (PaidIsPaid), and the    *)
(* reversal of a plan deletes no operation but one that was created to pay *)
(* it (LinkedSurvives).                                                    *)
(*                                                                         *)
(* None is inductive: reverting works by what was read before the          *)
(* compare-and-swap, and so do the claims of a plan for an operation that  *)
(* exists.  IInv says, beside the types (PlansTyped):                      *)
(*   - PaidRows: a plan is PAID exactly while it points at an operation    *)
(*     that exists, a deleted plan is not, and `auto` tells whether the    *)
(*     operation was created for the plan;                                 *)
(*   - Alone: the only live operation created for a plan that was not      *)
(*     reverted by a stale read (raced) is the one it points at;           *)
(*   - Hands: what a handler read exists, and what revertPlanned read of   *)
(*     an operation is still true of it.                                   *)
(* PaidIsPaid needs more (MoneyInv): a plan that borrowed no operation has *)
(* one that nobody made to pay another plan, and the operation of a line   *)
(* that its handler may still withdraw has been linked only by plans that  *)
(* borrowed it.                                                            *)
(* Operations are never removed, never come back and never change what     *)
(* they were created for (Grows), so what a handler knows of one stays     *)
(* true whatever the others do.                                            *)
(***************************************************************************)

PlanType == [rule : Rules \cup {NoRule}, due : Dates, status : {"PLANNED", "OFF", "PAID"},
             tx : Nat, auto : BOOLEAN, live : BOOLEAN]
TxType == [plan : Nat, live : BOOLEAN]
LineType == [new : BOOLEAN, tx : Nat]
LinkJob == [at : {"link", "offer", "withdraw"}, p : Nat, n : Nat, l : BankLines \cup {"none"}]
RevertJob == [at : {"revert"}, p : Nat, n : Nat, auto : BOOLEAN]
UndoJob == [at : {"unbook", "unlink"}, l : BankLines, n : Nat]
JobType ==
  {Idle} \cup [at : {"materialize"}, wanted : SUBSET (Rules \X Dates)]
         \cup [at : {"book"}, p : Nat, l : BankLines] \cup LinkJob \cup RevertJob \cup UndoJob

PlansTyped ==
  /\ plans \in Seq(PlanType)
  /\ txs \in Seq(TxType)
  /\ line \in [BankLines -> LineType]
  /\ job \in [Handlers -> JobType]
  /\ \A l \in BankLines : line[l].tx \in DOMAIN txs \cup {0}
  /\ \A n \in DOMAIN txs : txs[n].plan \in DOMAIN plans \cup {0}

RowOk(p) ==
  /\ plans[p].tx \in DOMAIN txs \cup {0}
  /\ plans[p].tx # 0 <=> plans[p].status = "PAID"
  /\ plans[p].tx # 0 =>
       /\ plans[p].live
       /\ plans[p].auto => txs[plans[p].tx].plan = p
       /\ ~plans[p].auto /\ p \notin raced => txs[plans[p].tx].plan # p
PaidRows == \A p \in DOMAIN plans : RowOk(p)

Alone == \A p \in DOMAIN plans \ raced : \A n \in PaymentsOf(p) : plans[p].tx = n

InHand(j) ==
  /\ j.at \in {"book", "link", "offer", "withdraw", "revert"} => j.p \in DOMAIN plans
  /\ j.at \in {"link", "offer", "withdraw", "revert", "unbook", "unlink"} => j.n \in DOMAIN txs
  /\ j.at \in {"offer", "withdraw"} => j.l \in BankLines
  /\ j.at \in {"link", "offer", "withdraw"} /\ j.p \notin raced => txs[j.n].plan # j.p
  /\ j.at = "revert" => /\ j.auto => txs[j.n].plan = j.p
                        /\ ~j.auto /\ j.p \notin raced => txs[j.n].plan # j.p
Hands == \A h \in Handlers : InHand(job[h])

IInv == PlansTyped /\ PaidRows /\ OperationPaysOne /\ PlannedOnce /\ Alone /\ Hands

-----------------------------------------------------------------------------
LEMMA PlanRow == ASSUME PlansTyped, NEW p \in DOMAIN plans PROVE plans[p] \in PlanType /\ p \in Nat /\ p # 0
  BY DEF PlansTyped

LEMMA TxRow == ASSUME PlansTyped, NEW n \in DOMAIN txs PROVE txs[n] \in TxType /\ n \in Nat /\ n # 0
  BY DEF PlansTyped

LEMMA JobFields ==
  ASSUME NEW j \in JobType
  PROVE  /\ j.at = "materialize" => j.wanted \subseteq Rules \X Dates /\ j = [at |-> "materialize", wanted |-> j.wanted]
         /\ j.at = "book" => j.p \in Nat /\ j.l \in BankLines
         /\ j.at \in {"link", "offer", "withdraw"} => j.p \in Nat /\ j.n \in Nat /\ j.l \in BankLines \cup {"none"}
         /\ j.at = "revert" => j.p \in Nat /\ j.n \in Nat /\ j.auto \in BOOLEAN
         /\ j.at \in {"unbook", "unlink"} => j.l \in BankLines /\ j.n \in Nat
  BY DEF JobType, Idle, LinkJob, RevertJob, UndoJob

LEMMA Jobs ==
  /\ Idle \in JobType /\ Idle.at = "idle"
  /\ \A w \in SUBSET (Rules \X Dates) : [at |-> "materialize", wanted |-> w] \in JobType
  /\ \A p \in Nat, l \in BankLines : [at |-> "book", p |-> p, l |-> l] \in JobType
  /\ \A at \in {"link", "offer", "withdraw"}, p \in Nat, n \in Nat, l \in BankLines \cup {"none"} :
       [at |-> at, p |-> p, n |-> n, l |-> l] \in JobType
  /\ \A p \in Nat, n \in Nat, auto \in BOOLEAN : [at |-> "revert", p |-> p, n |-> n, auto |-> auto] \in JobType
  /\ \A at \in {"unbook", "unlink"}, l \in BankLines, n \in Nat : [at |-> at, l |-> l, n |-> n] \in JobType
  BY DEF JobType, Idle, LinkJob, RevertJob, UndoJob

\* What no step takes away from what a handler may know.
Grows ==
  /\ txs' \in Seq(TxType) /\ DOMAIN txs \subseteq DOMAIN txs'
  /\ \A n \in DOMAIN txs : txs'[n].plan = txs[n].plan /\ (txs'[n].live => txs[n].live)
  /\ plans' \in Seq(PlanType) /\ DOMAIN plans \subseteq DOMAIN plans'
  /\ raced \subseteq raced' /\ erased \subseteq erased'

LEMMA StillInHand == ASSUME Grows, NEW j, InHand(j) PROVE InHand(j)'
  BY DEF Grows, InHand

LEMMA AllStillInHand == ASSUME Grows, Hands, UNCHANGED job PROVE Hands'
<1> SUFFICES ASSUME NEW h \in Handlers PROVE InHand(job[h])'
  BY DEF Hands
<1> PICK j : j = job[h]
  OBVIOUS
<1>1. InHand(j)'
  BY StillInHand DEF Hands
<1> QED
  BY <1>1 DEF InHand

LEMMA Turned ==
  ASSUME PlansTyped, Grows, Hands, NEW h \in Handlers, NEW j \in JobType, InHand(j)', job' = [job EXCEPT ![h] = j]
  PROVE  job' \in [Handlers -> JobType] /\ Hands'
<1>1. \A i \in Handlers : job'[i] = IF i = h THEN j ELSE job[i]
  BY DEF PlansTyped
<1>2. job' \in [Handlers -> JobType]
  BY DEF PlansTyped
<1>3. ASSUME NEW i \in Handlers PROVE InHand(job[i])'
  <2> PICK k : k = job'[i]
    OBVIOUS
  <2>1. InHand(k)'
    <3>1. CASE i = h
      BY <1>1, <3>1
    <3>2. CASE i # h
      BY <1>1, <3>2, StillInHand DEF Hands
    <3> QED
      BY <3>1, <3>2
  <2> QED
    BY <2>1 DEF InHand
<1> QED
  BY <1>2, <1>3 DEF Hands

LEMMA Finished ==
  ASSUME PlansTyped, Grows, Hands, NEW h \in Handlers, Finish(h)
  PROVE  job' \in [Handlers -> JobType] /\ Hands'
<1>1. InHand(Idle)'
  BY Jobs DEF InHand, Idle
<1> QED
  BY <1>1, Jobs, Turned DEF Finish

-----------------------------------------------------------------------------
\* What a step may do to plan p without paying it.
Same(p) ==
  /\ plans'[p].tx = plans[p].tx
  /\ plans'[p].status = "PAID" <=> plans[p].status = "PAID"
  /\ plans'[p].auto <=> plans[p].auto
  /\ plans[p].tx # 0 => (plans'[p].live <=> plans[p].live)
Vacant(p) == plans'[p].tx = 0 /\ plans'[p].status # "PAID"

\* The steps that pay no plan.  The payment of a plan that they reopen goes.
Loosens ==
  /\ \A p \in DOMAIN plans' : (p \in DOMAIN plans /\ Same(p)) \/ Vacant(p)
  /\ \A p \in DOMAIN plans \ raced' : plans[p].tx = 0 \/ Same(p) \/ \A n \in PaymentsOf(p) : ~txs'[n].live
  /\ \A n \in DOMAIN txs' \ DOMAIN txs : txs'[n].plan = 0

LEMMA Loosened ==
  ASSUME IInv, Grows, Loosens
  PROVE  /\ PaidRows' /\ OperationPaysOne' /\ Alone'
         /\ \A n \in DOMAIN txs' : txs'[n].plan \in DOMAIN plans' \cup {0}
<1>1. PaidRows'
  <2> SUFFICES ASSUME NEW p \in DOMAIN plans' PROVE RowOk(p)'
    BY DEF PaidRows
  <2>1. CASE Vacant(p)
    BY <2>1 DEF Vacant, RowOk
  <2>2. CASE p \in DOMAIN plans /\ Same(p)
    BY <2>2 DEF IInv, PaidRows, RowOk, Same, Grows
  <2> QED
    BY <2>1, <2>2 DEF Loosens
<1>2. OperationPaysOne'
  BY DEF IInv, OperationPaysOne, Loosens, Same, Vacant
<1>3. \A n \in DOMAIN txs' : txs'[n].plan \in DOMAIN plans' \cup {0}
  BY DEF IInv, PlansTyped, Grows, Loosens
<1>4. Alone'
  <2> SUFFICES ASSUME NEW p \in DOMAIN plans' \ raced', NEW n \in DOMAIN txs', txs'[n].live, txs'[n].plan = p
               PROVE  plans'[p].tx = n
    BY DEF Alone, PaymentsOf, LiveTxs
  <2>1. p # 0
    BY DEF Grows
  <2>2. n \in DOMAIN txs /\ txs[n].live /\ txs[n].plan = p
    BY <2>1 DEF Loosens, Grows
  <2>3. p \in DOMAIN plans \ raced /\ n \in PaymentsOf(p)
    BY <2>1, <2>2 DEF IInv, PlansTyped, Grows, PaymentsOf, LiveTxs
  <2>4. plans[p].tx = n /\ n # 0
    <3>1. n # 0
      BY <2>2, TxRow DEF IInv
    <3> QED
      BY <2>3, <3>1 DEF IInv, Alone
  <2>5. Same(p)
    BY <2>3, <2>4 DEF Loosens
  <2> QED
    BY <2>4, <2>5 DEF Same
<1> QED
  BY <1>1, <1>2, <1>3, <1>4

\* The steps that pay plan p by operation n, created for it or not.
Pays(p, n, auto) ==
  /\ Unpaid(p) /\ MatchedBy(n) = {} /\ n \in DOMAIN txs' /\ n # 0
  /\ plans'[p].tx = n /\ plans'[p].status = "PAID" /\ plans'[p].live /\ (plans'[p].auto <=> auto)
  /\ DOMAIN plans' = DOMAIN plans /\ \A q \in DOMAIN plans \ {p} : plans'[q] = plans[q]
  /\ DOMAIN txs' = DOMAIN txs \cup {n} /\ \A m \in DOMAIN txs : txs'[m] = txs[m]
  /\ ~auto /\ p \notin raced => txs'[n].plan # p
  /\ IF n \in DOMAIN txs THEN ~auto ELSE auto /\ txs'[n].plan = p

LEMMA PaidSafely ==
  ASSUME IInv, Grows, NEW p, NEW n, NEW auto \in BOOLEAN, Pays(p, n, auto)
  PROVE  /\ PaidRows' /\ OperationPaysOne' /\ Alone'
         /\ \A m \in DOMAIN txs' : txs'[m].plan \in DOMAIN plans' \cup {0}
<1>1. p \in DOMAIN plans /\ plans[p].tx = 0 /\ plans[p].live
  BY DEF Pays, Unpaid, Planned, IInv, PaidRows, RowOk
<1>2. p \notin raced => PaymentsOf(p) = {}
  BY <1>1, TxRow DEF IInv, Alone, PaymentsOf, LiveTxs
<1>3. \A q \in DOMAIN plans : plans[q].tx # n
  BY DEF Pays, MatchedBy
<1>4. PaidRows'
  <2> SUFFICES ASSUME NEW q \in DOMAIN plans' PROVE RowOk(q)'
    BY DEF PaidRows
  <2>1. CASE q # p
    BY <2>1 DEF Pays, Grows, IInv, PaidRows, RowOk
  <2>2. CASE q = p
    <3>1. auto => txs'[n].plan = p
      BY DEF Pays
    <3>2. ~auto /\ p \notin raced' => txs'[n].plan # p
      BY DEF Pays, Grows
    <3> QED
      BY <2>2, <3>1, <3>2 DEF Pays, RowOk
  <2> QED
    BY <2>1, <2>2
<1>5. OperationPaysOne'
  BY <1>1, <1>3 DEF IInv, OperationPaysOne, Pays
<1>6. \A m \in DOMAIN txs' : txs'[m].plan \in DOMAIN plans' \cup {0}
  BY <1>1 DEF IInv, PlansTyped, Pays
<1>7. Alone'
  <2> SUFFICES ASSUME NEW q \in DOMAIN plans' \ raced', NEW m \in DOMAIN txs', txs'[m].live, txs'[m].plan = q
               PROVE  plans'[q].tx = m
    BY DEF Alone, PaymentsOf, LiveTxs
  <2>1. CASE m \in DOMAIN txs
    <3>1. q \in DOMAIN plans \ raced /\ m \in PaymentsOf(q)
      BY <2>1 DEF Pays, Grows, PaymentsOf, LiveTxs
    <3>2. q # p /\ plans[q].tx = m
      BY <1>2, <3>1 DEF IInv, Alone
    <3> QED
      BY <3>1, <3>2 DEF Pays
  <2>2. CASE m \notin DOMAIN txs
    BY <2>2 DEF Pays
  <2> QED
    BY <2>1, <2>2
<1> QED
  BY <1>4, <1>5, <1>6, <1>7

-----------------------------------------------------------------------------
\* The tables under the statements of the handlers.
LEMMA Reopening ==
  ASSUME NEW w \in PlanType
  PROVE  /\ Reopened(w) \in PlanType /\ Reopened(w).tx = 0 /\ Reopened(w).status = "PLANNED"
         /\ Reopened(w).rule = w.rule /\ Reopened(w).due = w.due /\ (Reopened(w).live <=> w.live)
  BY DEF PlanType, Reopened

LEMMA Paying ==
  ASSUME NEW w \in PlanType, NEW n \in Nat, NEW auto \in BOOLEAN
  PROVE  LET v == PaidBy(w, n, auto)
         IN /\ v \in PlanType /\ v.tx = n /\ v.status = "PAID" /\ (v.auto <=> auto)
            /\ v.rule = w.rule /\ v.due = w.due /\ (v.live <=> w.live)
  BY DEF PlanType, PaidBy

LEMMA Edited ==
  ASSUME PlansTyped, NEW p \in DOMAIN plans, NEW w \in PlanType, plans' = [plans EXCEPT ![p] = w]
  PROVE  /\ plans' \in Seq(PlanType) /\ DOMAIN plans' = DOMAIN plans
         /\ plans'[p] = w /\ \A q \in DOMAIN plans \ {p} : plans'[q] = plans[q]
  BY DEF PlansTyped

LEMMA PlanAppended ==
  ASSUME PlansTyped, NEW w \in PlanType, plans' = Append(plans, w)
  PROVE  /\ plans' \in Seq(PlanType) /\ DOMAIN plans' = DOMAIN plans \cup {Len(plans) + 1} /\ Len(plans) + 1 \notin DOMAIN plans
         /\ plans'[Len(plans) + 1] = w /\ \A q \in DOMAIN plans : plans'[q] = plans[q]
  BY DEF PlansTyped

LEMMA NewPlans ==
  ASSUME NEW r \in Rules \cup {NoRule}, NEW d \in Dates
  PROVE  LET w == NewPlan(r, d) IN w \in PlanType /\ w.rule = r /\ w.due = d /\ w.tx = 0 /\ w.status = "PLANNED"
  BY DEF NewPlan, PlanType

LEMMA TxAppended ==
  ASSUME PlansTyped, NEW k \in Nat, txs' = Append(txs, Entry(k))
  PROVE  /\ txs' \in Seq(TxType) /\ DOMAIN txs' = DOMAIN txs \cup {Len(txs) + 1} /\ Len(txs) + 1 \notin DOMAIN txs
         /\ Len(txs) + 1 \in Nat /\ Len(txs) + 1 # 0
         /\ txs'[Len(txs) + 1].plan = k /\ txs'[Len(txs) + 1].live /\ \A n \in DOMAIN txs : txs'[n] = txs[n]
<1> DEFINE t == Entry(k)
<1>1. t \in TxType /\ t.plan = k /\ t.live
  BY DEF Entry, TxType
<1> HIDE DEF t
<1>2. txs' = Append(txs, t)
  BY DEF t
<1> QED
  BY <1>1, <1>2 DEF PlansTyped

LEMMA TxGone ==
  ASSUME PlansTyped, NEW n \in DOMAIN txs, txs' = Gone(n)
  PROVE  /\ txs' \in Seq(TxType) /\ DOMAIN txs' = DOMAIN txs /\ \A m \in DOMAIN txs \ {n} : txs'[m] = txs[m]
         /\ txs'[n].plan = txs[n].plan /\ ~txs'[n].live
<1> DEFINE t == [txs[n] EXCEPT !.live = FALSE]
<1>1. t \in TxType /\ t.plan = txs[n].plan /\ ~t.live
  BY TxRow DEF TxType
<1> HIDE DEF t
<1>2. txs' = [txs EXCEPT ![n] = t]
  BY DEF t, Gone
<1> QED
  BY <1>1, <1>2 DEF PlansTyped

LEMMA DatesStay ==
  ASSUME PlannedOnce,
         \A p \in Planned' : p \in Planned /\ plans'[p].rule = plans[p].rule /\ plans'[p].due = plans[p].due
  PROVE  PlannedOnce'
  BY DEF PlannedOnce

LEMMA Together ==
  ASSUME IInv, Grows, Loosens, PlannedOnce', Hands', job' \in [Handlers -> JobType],
         line' \in [BankLines -> LineType], \A l \in BankLines : line'[l].tx \in DOMAIN txs' \cup {0}
  PROVE  IInv'
<1>1. /\ PaidRows' /\ OperationPaysOne' /\ Alone'
      /\ \A n \in DOMAIN txs' : txs'[n].plan \in DOMAIN plans' \cup {0}
  BY Loosened
<1>2. PlansTyped'
  BY <1>1 DEF PlansTyped, Grows
<1> QED
  BY <1>1, <1>2 DEF IInv

\* Steps that leave the plans and the operations alone.
LEMMA Quiet ==
  ASSUME IInv, UNCHANGED <<plans, txs, raced, erased>>
  PROVE  Grows /\ Loosens /\ PlannedOnce'
<1>1. Grows
  BY DEF Grows, IInv, PlansTyped
<1>2. Loosens
  BY DEF Loosens, Same, LiveTxs
<1>3. PlannedOnce'
  BY DatesStay DEF Planned, IInv
<1> QED
  BY <1>1, <1>2, <1>3

LEMMA LineTyped == ASSUME IInv PROVE line \in [BankLines -> LineType] /\ \A l \in BankLines : line[l].tx \in DOMAIN txs \cup {0}
  BY DEF IInv, PlansTyped

LEMMA ReadsKeep ==
  ASSUME IInv, NEW h \in Handlers, NEW j \in JobType, InHand(j), job' = [job EXCEPT ![h] = j],
         UNCHANGED <<plans, txs, line, raced, erased>>
  PROVE  IInv'
<1>1. Grows /\ Loosens /\ PlannedOnce'
  BY Quiet
<1>2. InHand(j)'
  BY <1>1, StillInHand
<1>3. job' \in [Handlers -> JobType] /\ Hands'
  BY <1>1, <1>2, Turned DEF IInv
<1> QED
  BY <1>1, <1>3, LineTyped, Together

LEMMA FinishKeeps ==
  ASSUME IInv, NEW h \in Handlers, Finish(h), UNCHANGED <<plans, txs, line, raced, erased>>
  PROVE  IInv'
<1>1. Idle \in JobType /\ InHand(Idle)
  BY Jobs DEF InHand
<1> QED
  BY <1>1, ReadsKeep DEF Finish

-----------------------------------------------------------------------------
LEMMA ToggleRuleKeeps == ASSUME IInv, NEW r \in Rules, ToggleRule(r) PROVE IInv'
<1>1. UNCHANGED <<plans, txs, line, job, raced, erased>>
  BY DEF ToggleRule
<1>2. Grows /\ Loosens /\ PlannedOnce'
  BY <1>1, Quiet
<1>3. Hands' /\ job' \in [Handlers -> JobType]
  BY <1>1, <1>2, AllStillInHand DEF IInv, PlansTyped
<1> QED
  BY <1>1, <1>2, <1>3, LineTyped, Together

LEMMA DeleteRuleKeeps == ASSUME IInv, NEW r \in Rules, DeleteRule(r) PROVE IInv'
<1> DEFINE off(p) == p \in Planned /\ plans[p].rule = r /\ plans[p].status = "PLANNED"
<1>1. UNCHANGED <<txs, line, job, raced, erased>>
  BY DEF DeleteRule
<1>2. plans' = [p \in DOMAIN plans |-> IF off(p) THEN [plans[p] EXCEPT !.status = "OFF"] ELSE plans[p]]
  BY DEF DeleteRule
<1>3. DOMAIN plans' = DOMAIN plans
  BY <1>2
<1>4. ASSUME NEW p \in DOMAIN plans
      PROVE  /\ plans'[p] \in PlanType /\ plans'[p].tx = plans[p].tx /\ plans'[p].rule = plans[p].rule
             /\ plans'[p].due = plans[p].due /\ (plans'[p].live <=> plans[p].live) /\ (plans'[p].auto <=> plans[p].auto)
             /\ plans'[p].status = "PAID" <=> plans[p].status = "PAID"
  <2>1. plans[p] \in PlanType
    BY PlanRow DEF IInv
  <2>2. CASE off(p)
    <3>1. plans'[p] = [plans[p] EXCEPT !.status = "OFF"] /\ plans[p].status = "PLANNED"
      BY <1>2, <2>2
    <3> QED
      BY <2>1, <3>1 DEF PlanType
  <2>3. CASE ~off(p)
    BY <1>2, <2>1, <2>3
  <2> QED
    BY <2>2, <2>3
<1> HIDE DEF off
<1>5. plans' \in Seq(PlanType)
  BY <1>2, <1>3, <1>4 DEF IInv, PlansTyped
<1>6. Grows
  BY <1>1, <1>3, <1>5 DEF Grows, IInv, PlansTyped
<1>7. Loosens
  BY <1>1, <1>3, <1>4 DEF Loosens, Same, LiveTxs
<1>8. PlannedOnce'
  BY <1>3, <1>4, DatesStay DEF Planned, IInv
<1>9. Hands' /\ job' \in [Handlers -> JobType]
  BY <1>1, <1>6, AllStillInHand DEF IInv, PlansTyped
<1> QED
  BY <1>1, <1>6, <1>7, <1>8, <1>9, LineTyped, Together

\* A plan that is not paid gets another status or date, or is deleted.
LEMMA EditKeeps ==
  ASSUME IInv, NEW p \in DOMAIN plans, NEW w \in PlanType, plans' = [plans EXCEPT ![p] = w], PlannedOnce',
         plans[p].status # "PAID", w.status # "PAID", w.tx = plans[p].tx, UNCHANGED <<txs, line, job, raced, erased>>
  PROVE  IInv'
<1>1. /\ plans' \in Seq(PlanType) /\ DOMAIN plans' = DOMAIN plans
      /\ plans'[p] = w /\ \A q \in DOMAIN plans \ {p} : plans'[q] = plans[q]
  BY Edited DEF IInv
<1>2. Vacant(p) /\ plans[p].tx = 0
  BY <1>1 DEF Vacant, IInv, PaidRows, RowOk
<1>3. Grows
  BY <1>1 DEF Grows, IInv, PlansTyped
<1>4. Loosens
  BY <1>1, <1>2 DEF Loosens, Same, LiveTxs
<1>5. Hands' /\ job' \in [Handlers -> JobType]
  BY <1>3, AllStillInHand DEF IInv, PlansTyped
<1> QED
  BY <1>3, <1>4, <1>5, LineTyped, Together

LEMMA SetPlannedStatusKeeps ==
  ASSUME IInv, NEW p \in DOMAIN plans, NEW status \in {"PLANNED", "OFF"}, SetPlannedStatus(p, status) PROVE IInv'
<1> DEFINE w == [plans[p] EXCEPT !.status = status]
<1>1. /\ w \in PlanType /\ w.tx = plans[p].tx /\ w.status = status
      /\ w.rule = plans[p].rule /\ w.due = plans[p].due /\ (w.live <=> plans[p].live)
  BY PlanRow DEF IInv, PlanType
<1>2. plans' = [plans EXCEPT ![p] = w] /\ plans[p].status # "PAID" /\ UNCHANGED <<txs, line, job, raced, erased>>
  BY DEF SetPlannedStatus, Unpaid
<1> HIDE DEF w
<1>3. PlannedOnce'
  BY <1>1, <1>2, Edited, DatesStay DEF Planned, IInv
<1> QED
  BY <1>1, <1>2, <1>3, EditKeeps

LEMMA DeletePlannedKeeps == ASSUME IInv, NEW p \in DOMAIN plans, DeletePlanned(p) PROVE IInv'
<1> DEFINE w == [plans[p] EXCEPT !.live = FALSE]
<1>1. /\ w \in PlanType /\ w.tx = plans[p].tx /\ w.status = plans[p].status /\ ~w.live
  BY PlanRow DEF IInv, PlanType
<1>2. plans' = [plans EXCEPT ![p] = w] /\ plans[p].status # "PAID" /\ UNCHANGED <<txs, line, job, raced, erased>>
  BY DEF DeletePlanned, Unpaid
<1> HIDE DEF w
<1>3. PlannedOnce'
  BY <1>1, <1>2, Edited, DatesStay DEF Planned, IInv
<1> QED
  BY <1>1, <1>2, <1>3, EditKeeps

LEMMA UpdatePlannedKeeps == ASSUME IInv, NEW p \in DOMAIN plans, NEW d \in Dates, UpdatePlanned(p, d) PROVE IInv'
<1> DEFINE w == [plans[p] EXCEPT !.due = d]
<1>1. /\ w \in PlanType /\ w.tx = plans[p].tx /\ w.status = plans[p].status
      /\ w.rule = plans[p].rule /\ w.due = d /\ (w.live <=> plans[p].live)
  BY PlanRow DEF IInv, PlanType
<1>2. /\ plans' = [plans EXCEPT ![p] = w] /\ plans[p].status = "PLANNED" /\ p \in Planned
      /\ plans[p].rule = NoRule \/ ~Occupied(<<plans[p].rule, d>>)
      /\ UNCHANGED <<txs, line, job, raced, erased>>
  BY DEF UpdatePlanned
<1> HIDE DEF w
<1>3. DOMAIN plans' = DOMAIN plans /\ plans'[p] = w /\ \A q \in DOMAIN plans \ {p} : plans'[q] = plans[q]
  BY <1>1, <1>2, Edited DEF IInv
<1>4. Planned' = Planned
  BY <1>1, <1>3 DEF Planned
<1>5. PlannedOnce'
  BY <1>1, <1>2, <1>3, <1>4 DEF IInv, PlannedOnce, Occupied
<1> QED
  BY <1>1, <1>2, <1>5, EditKeeps

\* A new plan, by hand or of a rule that has none for its date.
LEMMA PlanKeeps ==
  ASSUME IInv, NEW r \in Rules \cup {NoRule}, NEW d \in Dates, plans' = Append(plans, NewPlan(r, d)),
         r = NoRule \/ ~Occupied(<<r, d>>), UNCHANGED <<txs, raced, erased>>
  PROVE  Grows /\ Loosens /\ PlannedOnce'
<1> DEFINE w == NewPlan(r, d)
<1>1. w \in PlanType /\ w.rule = r /\ w.due = d /\ w.tx = 0 /\ w.status = "PLANNED" /\ plans' = Append(plans, w)
  BY NewPlans
<1> HIDE DEF w
<1>2. /\ plans' \in Seq(PlanType) /\ DOMAIN plans' = DOMAIN plans \cup {Len(plans) + 1} /\ Len(plans) + 1 \notin DOMAIN plans
      /\ plans'[Len(plans) + 1] = w /\ \A q \in DOMAIN plans : plans'[q] = plans[q]
  BY <1>1, PlanAppended DEF IInv
<1>3. Grows
  BY <1>2 DEF Grows, IInv, PlansTyped
<1>4. Loosens
  BY <1>1, <1>2 DEF Loosens, Same, Vacant, LiveTxs
<1>5. PlannedOnce'
  BY <1>1, <1>2 DEF IInv, PlannedOnce, Planned, Occupied
<1> QED
  BY <1>3, <1>4, <1>5

LEMMA CreatePlannedKeeps == ASSUME IInv, CreatePlanned PROVE IInv'
<1>1. PICK d \in Dates : plans' = Append(plans, NewPlan(NoRule, d))
  BY DEF CreatePlanned
<1>2. UNCHANGED <<txs, line, job, raced, erased>>
  BY DEF CreatePlanned
<1>3. Grows /\ Loosens /\ PlannedOnce'
  BY <1>1, <1>2, PlanKeeps
<1>4. Hands' /\ job' \in [Handlers -> JobType]
  BY <1>2, <1>3, AllStillInHand DEF IInv, PlansTyped
<1> QED
  BY <1>2, <1>3, <1>4, LineTyped, Together

-----------------------------------------------------------------------------
LEMMA BeginMaterializeKeeps == ASSUME IInv, NEW h \in Handlers, BeginMaterialize(h) PROVE IInv'
<1>1. PICK w \in SUBSET (Rules \X Dates) : job' = [job EXCEPT ![h] = [at |-> "materialize", wanted |-> w]]
  BY DEF BeginMaterialize
<1> DEFINE j == [at |-> "materialize", wanted |-> w]
<1>2. j \in JobType /\ InHand(j)
  BY Jobs DEF InHand
<1> HIDE DEF j
<1> QED
  BY <1>1, <1>2, ReadsKeep DEF BeginMaterialize, j

LEMMA MaterializeKeeps == ASSUME IInv, NEW h \in Handlers, NEW w \in Rules \X Dates, Materialize(h, w) PROVE IInv'
<1> DEFINE left == job[h].wanted \ {w}
<1>1. job[h] \in JobType /\ job[h].at = "materialize" /\ UNCHANGED <<txs, line, raced, erased>>
  BY DEF Materialize, At, IInv, PlansTyped
<1>2. left \in SUBSET (Rules \X Dates)
  BY <1>1, JobFields
<1>3. PICK j \in JobType : j.at \in {"idle", "materialize"} /\ job' = [job EXCEPT ![h] = j]
  <2>1. CASE left = {}
    BY <2>1, Jobs DEF Materialize
  <2>2. CASE left # {}
    <3>1. job' = [job EXCEPT ![h] = [at |-> "materialize", wanted |-> left]]
      BY <2>2 DEF Materialize
    <3>2. [at |-> "materialize", wanted |-> left] \in JobType
      BY <1>2, Jobs
    <3> QED
      BY <3>1, <3>2
  <2> QED
    BY <2>1, <2>2
<1>4. Grows /\ Loosens /\ PlannedOnce'
  <2>1. CASE UNCHANGED plans
    BY <1>1, <2>1, Quiet
  <2>2. CASE ~Occupied(w) /\ plans' = Append(plans, NewPlan(w[1], w[2]))
    <3>1. w[1] \in Rules \cup {NoRule} /\ w[2] \in Dates /\ w = <<w[1], w[2]>>
      OBVIOUS
    <3> QED
      BY <1>1, <2>2, <3>1, PlanKeeps
  <2> QED
    BY <2>1, <2>2 DEF Materialize
<1>5. InHand(j)'
  <2>1. InHand(j)
    BY <1>3 DEF InHand
  <2> QED
    BY <1>4, <2>1, StillInHand
<1>6. Hands' /\ job' \in [Handlers -> JobType]
  BY <1>3, <1>4, <1>5, Turned DEF IInv
<1> QED
  BY <1>1, <1>4, <1>6, LineTyped, Together

LEMMA BeginLinkKeeps ==
  ASSUME IInv, NEW h \in Handlers, NEW p \in DOMAIN plans, NEW n \in DOMAIN txs, BeginLink(h, p, n) PROVE IInv'
<1> DEFINE j == [at |-> "link", p |-> p, n |-> n, l |-> "none"]
<1>1. j \in JobType /\ InHand(j)
  <2>1. p \notin raced => txs[n].plan # p
    BY TxRow DEF BeginLink, Linkable, Unpaid, Planned, IInv, PaidRows, RowOk, Alone, PaymentsOf, LiveTxs
  <2> QED
    BY <2>1, PlanRow, TxRow, Jobs DEF IInv, InHand
<1>2. job' = [job EXCEPT ![h] = j] /\ UNCHANGED <<plans, txs, line, raced, erased>>
  BY DEF BeginLink
<1> HIDE DEF j
<1> QED
  BY <1>1, <1>2, ReadsKeep

LEMMA BeginRevertKeeps == ASSUME IInv, NEW h \in Handlers, NEW p \in DOMAIN plans, BeginRevert(h, p) PROVE IInv'
<1> DEFINE j == [at |-> "revert", p |-> p, n |-> plans[p].tx, auto |-> plans[p].auto]
<1>1. plans[p].status = "PAID" /\ plans[p] \in PlanType /\ p \in Nat
  BY PlanRow DEF BeginRevert, PaidPlans, Planned, IInv
<1>2. plans[p].tx \in DOMAIN txs /\ plans[p].tx \in Nat /\ plans[p].auto \in BOOLEAN
  BY <1>1 DEF IInv, PaidRows, RowOk, PlanType
<1>3. j \in JobType
  BY <1>1, <1>2, Jobs
<1>4. InHand(j)
  BY <1>1, <1>2 DEF InHand, IInv, PaidRows, RowOk
<1>5. job' = [job EXCEPT ![h] = j] /\ UNCHANGED <<plans, txs, line, raced, erased>>
  BY DEF BeginRevert
<1> HIDE DEF j
<1> QED
  BY <1>3, <1>4, <1>5, ReadsKeep

LEMMA BeginPayFromLineKeeps ==
  ASSUME IInv, NEW h \in Handlers, NEW l \in BankLines, NEW p \in DOMAIN plans, BeginPayFromLine(h, l, p) PROVE IInv'
<1> DEFINE j == [at |-> "book", p |-> p, l |-> l]
<1>1. j \in JobType /\ InHand(j)
  BY PlanRow, Jobs DEF IInv, InHand
<1>2. job' = [job EXCEPT ![h] = j] /\ UNCHANGED <<plans, txs, line, raced, erased>>
  BY DEF BeginPayFromLine
<1> HIDE DEF j
<1> QED
  BY <1>1, <1>2, ReadsKeep

LEMMA BeginUndoKeeps == ASSUME IInv, NEW h \in Handlers, NEW l \in BankLines, BeginUndo(h, l) PROVE IInv'
<1> DEFINE at == IF txs[line[l].tx].live THEN "unbook" ELSE "unlink"
           j == [at |-> at, l |-> l, n |-> line[l].tx]
<1>1. line[l].tx \in DOMAIN txs
  BY DEF BeginUndo, IInv, PlansTyped
<1>2. at \in {"unbook", "unlink"} /\ line[l].tx \in Nat
  BY <1>1, TxRow DEF IInv
<1>3. job' = [job EXCEPT ![h] = j] /\ UNCHANGED <<plans, txs, line, raced, erased>>
  BY DEF BeginUndo
<1> HIDE DEF at
<1>4. j \in JobType /\ InHand(j)
  BY <1>1, <1>2, Jobs DEF InHand
<1> HIDE DEF j
<1> QED
  BY <1>3, <1>4, ReadsKeep

-----------------------------------------------------------------------------
LEMMA ClaimGrows ==
  ASSUME IInv, NEW h, NEW p \in DOMAIN plans, NEW n \in DOMAIN txs, ClaimPaid(h, p, n), UNCHANGED <<txs, raced, erased>>,
         p \notin raced => txs[n].plan # p
  PROVE  /\ Grows /\ PlannedOnce' /\ PaidRows' /\ OperationPaysOne' /\ Alone'
         /\ \A m \in DOMAIN txs' : txs'[m].plan \in DOMAIN plans' \cup {0}
<1> DEFINE w == PaidBy(plans[p], n, FALSE)
<1>1. plans' = [plans EXCEPT ![p] = w] /\ Unpaid(p) /\ MatchedBy(n) = {}
  BY DEF ClaimPaid, CanClaim
<1>2. raced = raced'
  OBVIOUS
<1>3. plans[p] \in PlanType /\ n \in Nat /\ n # 0
  BY PlanRow, TxRow DEF IInv
<1>4. /\ w \in PlanType /\ w.tx = n /\ w.status = "PAID" /\ (w.auto <=> FALSE)
      /\ w.rule = plans[p].rule /\ w.due = plans[p].due /\ (w.live <=> plans[p].live)
  BY <1>3, Paying
<1> HIDE DEF w
<1>5. /\ plans' \in Seq(PlanType) /\ DOMAIN plans' = DOMAIN plans
      /\ plans'[p] = w /\ \A q \in DOMAIN plans \ {p} : plans'[q] = plans[q]
  BY <1>1, <1>4, Edited DEF IInv
<1>6. Grows
  BY <1>2, <1>5 DEF Grows, IInv, PlansTyped
<1>7. Pays(p, n, FALSE)
  BY <1>1, <1>2, <1>3, <1>4, <1>5 DEF Pays, Unpaid, Planned
<1>8. PlannedOnce'
  BY <1>4, <1>5, DatesStay DEF Planned, IInv
<1> QED
  BY <1>6, <1>7, <1>8, PaidSafely

\* The steps that pay a plan.
LEMMA PaidTogether ==
  ASSUME IInv, Grows, PlannedOnce', PaidRows', OperationPaysOne', Alone',
         \A m \in DOMAIN txs' : txs'[m].plan \in DOMAIN plans' \cup {0},
         job' \in [Handlers -> JobType], Hands', UNCHANGED line
  PROVE  IInv'
<1>1. PlansTyped'
  BY LineTyped DEF PlansTyped, Grows
<1> QED
  BY <1>1 DEF IInv

LEMMA PayKeeps == ASSUME IInv, NEW p \in DOMAIN plans, Pay(p) PROVE IInv'
<1>1. PICK n \in Nat : n = Len(txs) + 1
  BY DEF IInv, PlansTyped
<1> DEFINE w == PaidBy(plans[p], n, TRUE)
<1>2. /\ plans' = [plans EXCEPT ![p] = w] /\ Unpaid(p) /\ txs' = Append(txs, Entry(p))
      /\ UNCHANGED <<line, job, raced, erased>>
  BY <1>1 DEF Pay
<1>3. plans[p] \in PlanType /\ p \in Nat
  BY PlanRow DEF IInv
<1>4. /\ w \in PlanType /\ w.tx = n /\ w.status = "PAID" /\ (w.auto <=> TRUE)
      /\ w.rule = plans[p].rule /\ w.due = plans[p].due /\ (w.live <=> plans[p].live)
  BY <1>3, Paying
<1> HIDE DEF w
<1>5. /\ plans' \in Seq(PlanType) /\ DOMAIN plans' = DOMAIN plans
      /\ plans'[p] = w /\ \A q \in DOMAIN plans \ {p} : plans'[q] = plans[q]
  BY <1>2, <1>4, Edited DEF IInv
<1>6. /\ txs' \in Seq(TxType) /\ DOMAIN txs' = DOMAIN txs \cup {n} /\ n \notin DOMAIN txs /\ n # 0
      /\ txs'[n].plan = p /\ txs'[n].live /\ \A m \in DOMAIN txs : txs'[m] = txs[m]
  BY <1>1, <1>2, <1>3, TxAppended DEF IInv
<1>7. Grows
  BY <1>2, <1>5, <1>6 DEF Grows
<1>8. MatchedBy(n) = {}
  BY <1>6 DEF MatchedBy, IInv, PaidRows, RowOk
<1>9. Pays(p, n, TRUE)
  BY <1>2, <1>4, <1>5, <1>6, <1>8 DEF Pays, Unpaid, Planned
<1>10. PlannedOnce'
  BY <1>4, <1>5, DatesStay DEF Planned, IInv
<1>11. Hands' /\ job' \in [Handlers -> JobType]
  BY <1>2, <1>7, AllStillInHand DEF IInv, PlansTyped
<1>12. /\ PaidRows' /\ OperationPaysOne' /\ Alone'
       /\ \A m \in DOMAIN txs' : txs'[m].plan \in DOMAIN plans' \cup {0}
  BY <1>7, <1>9, PaidSafely
<1> QED
  BY <1>2, <1>7, <1>10, <1>11, <1>12, PaidTogether

LEMMA LinkKeeps == ASSUME IInv, NEW h \in Handlers, Link(h) PROVE IInv'
<1> DEFINE p == job[h].p
           n == job[h].n
<1>1. p \in DOMAIN plans /\ n \in DOMAIN txs /\ (p \notin raced => txs[n].plan # p)
  BY DEF IInv, Hands, InHand, Link, At
<1>2. Finish(h) /\ UNCHANGED <<txs, line, raced, erased>>
  BY DEF Link
<1>3. CASE ClaimPaid(h, p, n)
  <2> HIDE DEF p, n
  <2>1. /\ Grows /\ PlannedOnce' /\ PaidRows' /\ OperationPaysOne' /\ Alone'
        /\ \A m \in DOMAIN txs' : txs'[m].plan \in DOMAIN plans' \cup {0}
    BY <1>1, <1>2, <1>3, ClaimGrows
  <2>2. Hands' /\ job' \in [Handlers -> JobType]
    BY <1>2, <2>1, Finished DEF IInv
  <2> QED
    BY <1>2, <2>1, <2>2, PaidTogether
<1>4. CASE UNCHANGED plans
  BY <1>2, <1>4, FinishKeeps
<1> QED
  BY <1>3, <1>4 DEF Link

\* What LinkLine and OfferLine do to a job: it goes on to another statement.
LEMMA GoneOn ==
  ASSUME NEW j \in JobType, j.at \in {"link", "offer", "withdraw"}, NEW at \in {"link", "withdraw"}, InHand(j),
         j.l \in BankLines
  PROVE  LET k == [j EXCEPT !.at = at] IN k \in JobType /\ InHand(k)
<1> DEFINE k == [j EXCEPT !.at = at]
<1>1. k \in JobType /\ k.at = at /\ k.p = j.p /\ k.n = j.n /\ k.l = j.l
  BY DEF JobType, Idle, LinkJob, RevertJob, UndoJob
<1> HIDE DEF k
<1>2. InHand(k)
  BY <1>1 DEF InHand
<1> QED
  BY <1>1, <1>2 DEF k

LEMMA OfferLineKeeps == ASSUME IInv, NEW h \in Handlers, OfferLine(h) PROVE IInv'
<1>1. PICK at \in {"link", "withdraw"} : job' = [job EXCEPT ![h] = [job[h] EXCEPT !.at = at]]
  BY DEF OfferLine
<1>2. job[h] \in JobType /\ InHand(job[h]) /\ job[h].at = "offer"
  BY DEF OfferLine, At, IInv, PlansTyped, Hands
<1>3. job[h].l \in BankLines
  BY <1>2 DEF InHand
<1> DEFINE j == [job[h] EXCEPT !.at = at]
<1>4. j \in JobType /\ InHand(j)
  BY <1>2, <1>3, GoneOn
<1> HIDE DEF j
<1> QED
  BY <1>1, <1>4, ReadsKeep DEF j, OfferLine

LEMMA LinkLineKeeps == ASSUME IInv, NEW h \in Handlers, LinkLine(h) PROVE IInv'
<1> DEFINE p == job[h].p
           n == job[h].n
<1>1. p \in DOMAIN plans /\ n \in DOMAIN txs /\ (p \notin raced => txs[n].plan # p)
  BY DEF IInv, Hands, InHand, LinkLine, At
<1>2. UNCHANGED <<txs, line, raced, erased>>
  BY DEF LinkLine
<1>3. CASE ClaimPaid(h, p, n) /\ Finish(h)
  <2> HIDE DEF p, n
  <2>1. /\ Grows /\ PlannedOnce' /\ PaidRows' /\ OperationPaysOne' /\ Alone'
        /\ \A m \in DOMAIN txs' : txs'[m].plan \in DOMAIN plans' \cup {0}
    BY <1>1, <1>2, <1>3, ClaimGrows
  <2>2. Hands' /\ job' \in [Handlers -> JobType]
    BY <1>3, <2>1, Finished DEF IInv
  <2> QED
    BY <1>2, <2>1, <2>2, PaidTogether
<1>4. CASE job' = [job EXCEPT ![h].at = "withdraw"] /\ UNCHANGED plans
  <2>1. job[h] \in JobType /\ InHand(job[h]) /\ job[h].at = "link" /\ job[h].l # "none"
    BY DEF LinkLine, At, IInv, PlansTyped, Hands
  <2>2. job[h].l \in BankLines
    BY <2>1, JobFields
  <2> DEFINE j == [job[h] EXCEPT !.at = "withdraw"]
  <2>3. j \in JobType /\ InHand(j)
    BY <2>1, <2>2, GoneOn
  <2>4. job' = [job EXCEPT ![h] = j]
    BY <1>4
  <2> HIDE DEF j
  <2> QED
    BY <1>2, <1>4, <2>3, <2>4, ReadsKeep
<1> QED
  BY <1>3, <1>4 DEF LinkLine

-----------------------------------------------------------------------------
\* A new operation that pays no plan, and the plans as they are.
LEMMA EntryGrows ==
  ASSUME IInv, txs' = Append(txs, Entry(0)), UNCHANGED <<plans, raced, erased>>
  PROVE  /\ Grows /\ Loosens /\ PlannedOnce' /\ Len(txs) + 1 \in DOMAIN txs' /\ Len(txs) + 1 \in Nat
<1>1. /\ txs' \in Seq(TxType) /\ DOMAIN txs' = DOMAIN txs \cup {Len(txs) + 1} /\ Len(txs) + 1 \notin DOMAIN txs
      /\ Len(txs) + 1 \in Nat /\ txs'[Len(txs) + 1].plan = 0 /\ \A n \in DOMAIN txs : txs'[n] = txs[n]
  BY TxAppended DEF IInv
<1>2. Grows
  BY <1>1 DEF Grows, IInv, PlansTyped
<1>3. Loosens
  BY <1>1 DEF Loosens, Same, LiveTxs
<1>4. PlannedOnce'
  BY DatesStay DEF Planned, IInv
<1> QED
  BY <1>1, <1>2, <1>3, <1>4

LEMMA EnterByHandKeeps == ASSUME IInv, EnterByHand PROVE IInv'
<1>1. txs' = Append(txs, Entry(0)) /\ UNCHANGED <<plans, line, job, raced, erased>>
  BY DEF EnterByHand
<1>2. Grows /\ Loosens /\ PlannedOnce'
  BY <1>1, EntryGrows
<1>3. Hands' /\ job' \in [Handlers -> JobType]
  BY <1>1, <1>2, AllStillInHand DEF IInv, PlansTyped
<1>4. line' \in [BankLines -> LineType] /\ \A l \in BankLines : line'[l].tx \in DOMAIN txs' \cup {0}
  BY <1>1, <1>2, LineTyped DEF Grows
<1> QED
  BY <1>2, <1>3, <1>4, Together

LEMMA BookLineKeeps == ASSUME IInv, NEW h \in Handlers, BookLine(h) PROVE IInv'
<1>1. PICK n \in Nat : n = Len(txs) + 1
  BY DEF IInv, PlansTyped
<1>2. PICK l \in BankLines, p \in DOMAIN plans : l = job[h].l /\ p = job[h].p
  BY JobFields DEF IInv, PlansTyped, Hands, InHand, BookLine, At
<1>3. UNCHANGED <<plans, raced, erased>>
  BY DEF BookLine
<1>4. CASE /\ txs' = Append(txs, Entry(0))
           /\ line' = [line EXCEPT ![l] = [new |-> FALSE, tx |-> n]]
           /\ job' = [job EXCEPT ![h] = [at |-> "offer", p |-> p, n |-> n, l |-> l]]
  <2> DEFINE j == [at |-> "offer", p |-> p, n |-> n, l |-> l]
  <2>1. Grows /\ Loosens /\ PlannedOnce' /\ n \in DOMAIN txs'
    BY <1>1, <1>3, <1>4, EntryGrows
  <2>2. j \in JobType
    BY PlanRow, Jobs DEF IInv
  <2>3. InHand(j)'
    <3>1. txs'[n].plan = 0 /\ p # 0
      BY <1>1, <1>4, PlanRow, TxAppended DEF IInv
    <3> QED
      BY <1>3, <2>1, <3>1 DEF InHand
  <2>4. job' = [job EXCEPT ![h] = j]
    BY <1>4
  <2> HIDE DEF j
  <2>5. Hands' /\ job' \in [Handlers -> JobType]
    BY <2>1, <2>2, <2>3, <2>4, Turned DEF IInv
  <2>6. line' \in [BankLines -> LineType]
    BY <1>4, LineTyped DEF LineType
  <2>7. \A k \in BankLines : line'[k].tx \in DOMAIN txs' \cup {0}
    BY <1>4, <2>1, LineTyped DEF Grows
  <2> QED
    BY <2>1, <2>5, <2>6, <2>7, Together
<1>5. CASE Finish(h) /\ UNCHANGED <<txs, line>>
  BY <1>3, <1>5, FinishKeeps
<1> QED
  BY <1>1, <1>2, <1>4, <1>5 DEF BookLine

LEMMA FreeLineTyped ==
  ASSUME IInv, Grows, NEW h \in Handlers, FreeLine(h), job[h].l \in BankLines
  PROVE  line' \in [BankLines -> LineType] /\ \A l \in BankLines : line'[l].tx \in DOMAIN txs' \cup {0}
<1>1. line' \in [BankLines -> LineType]
  BY LineTyped DEF FreeLine, LineType
<1>2. \A l \in BankLines : line'[l].tx \in DOMAIN txs' \cup {0}
  BY LineTyped DEF FreeLine, Grows
<1> QED
  BY <1>1, <1>2

LEMMA WithdrawKeeps == ASSUME IInv, NEW h \in Handlers, Withdraw(h) PROVE IInv'
<1>1. PICK n \in DOMAIN txs : n = job[h].n
  BY DEF IInv, Hands, InHand, Withdraw, At
<1>2. job[h].l \in BankLines
  BY DEF IInv, Hands, InHand, Withdraw, At
<1>3. txs' = Gone(n) /\ FreeLine(h) /\ Finish(h) /\ UNCHANGED <<plans, raced, erased>>
  BY <1>1 DEF Withdraw, FreeLine
<1>4. /\ txs' \in Seq(TxType) /\ DOMAIN txs' = DOMAIN txs /\ \A m \in DOMAIN txs \ {n} : txs'[m] = txs[m]
      /\ txs'[n].plan = txs[n].plan /\ ~txs'[n].live
  BY <1>3, TxGone DEF IInv
<1>5. Grows
  BY <1>3, <1>4 DEF Grows, IInv, PlansTyped
<1>6. Loosens
  BY <1>3, <1>4 DEF Loosens, Same, LiveTxs
<1>7. PlannedOnce'
  BY <1>3, DatesStay DEF Planned, IInv
<1>8. Hands' /\ job' \in [Handlers -> JobType]
  BY <1>3, <1>5, Finished DEF IInv
<1>9. line' \in [BankLines -> LineType] /\ \A l \in BankLines : line'[l].tx \in DOMAIN txs' \cup {0}
  BY <1>2, <1>3, <1>5, FreeLineTyped
<1> QED
  BY <1>5, <1>6, <1>7, <1>8, <1>9, Together

LEMMA UnlinkKeeps == ASSUME IInv, NEW h \in Handlers, Unlink(h) PROVE IInv'
<1>1. job[h].l \in BankLines
  BY JobFields DEF IInv, PlansTyped, Unlink, At
<1>2. FreeLine(h) /\ Finish(h) /\ UNCHANGED <<plans, txs, raced, erased>>
  BY DEF Unlink, FreeLine
<1>3. Grows /\ Loosens /\ PlannedOnce'
  BY <1>2, Quiet
<1>4. Hands' /\ job' \in [Handlers -> JobType]
  BY <1>2, <1>3, Finished DEF IInv
<1>5. line' \in [BankLines -> LineType] /\ \A l \in BankLines : line'[l].tx \in DOMAIN txs' \cup {0}
  BY <1>1, <1>2, <1>3, FreeLineTyped
<1> QED
  BY <1>3, <1>4, <1>5, Together

LEMMA UnbookKeeps == ASSUME IInv, NEW h \in Handlers, Unbook(h) PROVE IInv'
<1>1. PICK n \in DOMAIN txs : n = job[h].n
  BY DEF IInv, Hands, InHand, Unbook, At
<1>2. job[h].l \in BankLines
  BY JobFields DEF IInv, PlansTyped, Unbook, At
<1> DEFINE reopen == MatchedBy(n) \cap Planned
<1>3. /\ plans' = [p \in DOMAIN plans |-> IF p \in reopen THEN Reopened(plans[p]) ELSE plans[p]]
      /\ txs' = Gone(n) /\ FreeLine(h) /\ Finish(h) /\ UNCHANGED <<raced, erased>>
  BY <1>1 DEF Unbook, FreeLine
<1>4. MatchedBy(n) \subseteq reopen
  BY TxRow DEF IInv, PaidRows, RowOk, MatchedBy, Planned
<1>5. \A p \in reopen : plans[p].tx = n
  BY DEF MatchedBy
<1> HIDE DEF reopen
<1>6. DOMAIN plans' = DOMAIN plans
  BY <1>3
<1>7. \A p \in DOMAIN plans : p \notin reopen => plans'[p] = plans[p]
  BY <1>3
<1>8. ASSUME NEW p \in DOMAIN plans, p \in reopen
      PROVE  /\ plans'[p] \in PlanType /\ plans'[p].tx = 0 /\ plans'[p].status = "PLANNED"
             /\ plans'[p].rule = plans[p].rule /\ plans'[p].due = plans[p].due /\ (plans'[p].live <=> plans[p].live)
  <2>1. plans'[p] = Reopened(plans[p]) /\ plans[p] \in PlanType
    BY <1>3, <1>8, PlanRow DEF IInv
  <2> QED
    BY <2>1, Reopening
<1>9. \A p \in DOMAIN plans : plans'[p] \in PlanType
  BY <1>7, <1>8, PlanRow DEF IInv
<1>10. plans' \in Seq(PlanType)
  BY <1>3, <1>6, <1>9 DEF IInv, PlansTyped
<1>11. /\ txs' \in Seq(TxType) /\ DOMAIN txs' = DOMAIN txs /\ \A m \in DOMAIN txs \ {n} : txs'[m] = txs[m]
       /\ txs'[n].plan = txs[n].plan /\ ~txs'[n].live
  BY <1>3, TxGone DEF IInv
<1>12. Grows
  BY <1>3, <1>6, <1>10, <1>11 DEF Grows
<1>13. Loosens
  <2>1. \A p \in DOMAIN plans' : (p \in DOMAIN plans /\ Same(p)) \/ Vacant(p)
    BY <1>6, <1>7, <1>8 DEF Same, Vacant
  <2>2. \A p \in DOMAIN plans \ raced' : p \in reopen => \A m \in PaymentsOf(p) : ~txs'[m].live
    BY <1>3, <1>5, <1>11 DEF IInv, Alone
  <2>3. \A p \in DOMAIN plans : p \notin reopen => Same(p)
    BY <1>7 DEF Same
  <2> QED
    BY <1>11, <2>1, <2>2, <2>3 DEF Loosens
<1>14. PlannedOnce'
  BY <1>6, <1>7, <1>8, DatesStay DEF Planned, IInv
<1>15. Hands' /\ job' \in [Handlers -> JobType]
  BY <1>3, <1>12, Finished DEF IInv
<1>16. line' \in [BankLines -> LineType] /\ \A l \in BankLines : line'[l].tx \in DOMAIN txs' \cup {0}
  BY <1>2, <1>3, <1>12, FreeLineTyped
<1> QED
  BY <1>12, <1>13, <1>14, <1>15, <1>16, Together

LEMMA RevertKeeps == ASSUME IInv, NEW h \in Handlers, Revert(h) PROVE IInv'
<1>1. PICK p \in DOMAIN plans, n \in DOMAIN txs, auto \in BOOLEAN :
        /\ p = job[h].p /\ n = job[h].n /\ (auto <=> job[h].auto)
        /\ auto => txs[n].plan = p
        /\ ~auto /\ p \notin raced => txs[n].plan # p
  BY JobFields DEF IInv, PlansTyped, Hands, InHand, Revert, At
<1>2. Finish(h) /\ UNCHANGED <<line, erased>>
  BY DEF Revert
<1>3. CASE /\ p \in PaidPlans
           /\ plans' = [plans EXCEPT ![p] = Reopened(plans[p])]
           /\ txs' = IF auto THEN Gone(n) ELSE txs
           /\ raced' = IF plans[p].tx = n THEN raced ELSE raced \cup {p}
  <2> DEFINE w == Reopened(plans[p])
  <2>1. /\ w \in PlanType /\ w.tx = 0 /\ w.status = "PLANNED"
        /\ w.rule = plans[p].rule /\ w.due = plans[p].due /\ (w.live <=> plans[p].live)
    BY PlanRow, Reopening DEF IInv
  <2>2. plans' = [plans EXCEPT ![p] = w]
    BY <1>3
  <2> HIDE DEF w
  <2>3. /\ plans' \in Seq(PlanType) /\ DOMAIN plans' = DOMAIN plans
        /\ plans'[p] = w /\ \A q \in DOMAIN plans \ {p} : plans'[q] = plans[q]
    BY <2>1, <2>2, Edited DEF IInv
  <2>4. /\ txs' \in Seq(TxType) /\ DOMAIN txs' = DOMAIN txs /\ \A m \in DOMAIN txs \ {n} : txs'[m] = txs[m]
        /\ txs'[n].plan = txs[n].plan /\ (txs'[n].live <=> (txs[n].live /\ ~auto))
    <3>1. CASE auto
      BY <1>3, <3>1, TxGone DEF IInv
    <3>2. CASE ~auto
      BY <1>3, <3>2 DEF IInv, PlansTyped
    <3> QED
      BY <3>1, <3>2
  <2>5. raced \subseteq raced' /\ (p \notin raced' => plans[p].tx = n)
    BY <1>3
  <2>7. Grows
    BY <1>2, <2>3, <2>4, <2>5 DEF Grows
  <2>8. Vacant(p) /\ \A q \in DOMAIN plans \ {p} : Same(q)
    BY <2>1, <2>3 DEF Vacant, Same
  <2>9. p \notin raced' => \A m \in PaymentsOf(p) : ~txs'[m].live
    <3> SUFFICES ASSUME p \notin raced', NEW m \in PaymentsOf(p) PROVE ~txs'[m].live
      OBVIOUS
    <3>1. p \notin raced /\ plans[p].tx = n
      BY <2>5
    <3>2. m = n /\ txs[n].plan = p
      BY <3>1 DEF IInv, Alone, PaymentsOf
    <3> QED
      BY <1>1, <2>4, <3>1, <3>2
  <2>11. Loosens
    BY <2>3, <2>4, <2>8, <2>9 DEF Loosens
  <2>12. PlannedOnce'
    BY <2>1, <2>3, DatesStay DEF Planned, IInv
  <2>13. Hands' /\ job' \in [Handlers -> JobType]
    BY <1>2, <2>7, Finished DEF IInv
  <2>14. line' \in [BankLines -> LineType] /\ \A l \in BankLines : line'[l].tx \in DOMAIN txs' \cup {0}
    BY <1>2, <2>4, LineTyped
  <2> QED
    BY <2>7, <2>11, <2>12, <2>13, <2>14, Together
<1>4. CASE UNCHANGED <<txs, plans, raced>>
  BY <1>2, <1>4, FinishKeeps
<1> QED
  BY <1>1, <1>3, <1>4 DEF Revert

LEMMA EraseKeeps == ASSUME IInv, NEW n \in DOMAIN txs, Erase(n) PROVE IInv'
<1>1. txs' = Gone(n) /\ erased \subseteq erased' /\ UNCHANGED <<plans, line, job, raced>>
  BY DEF Erase
<1>2. /\ txs' \in Seq(TxType) /\ DOMAIN txs' = DOMAIN txs /\ \A m \in DOMAIN txs \ {n} : txs'[m] = txs[m]
      /\ txs'[n].plan = txs[n].plan /\ ~txs'[n].live
  BY <1>1, TxGone DEF IInv
<1>3. Grows
  BY <1>1, <1>2 DEF Grows, IInv, PlansTyped
<1>4. Loosens
  BY <1>1, <1>2 DEF Loosens, Same, LiveTxs
<1>5. PlannedOnce'
  BY <1>1, DatesStay DEF Planned, IInv
<1>6. Hands' /\ job' \in [Handlers -> JobType]
  BY <1>1, <1>3, AllStillInHand DEF IInv, PlansTyped
<1>7. line' \in [BankLines -> LineType] /\ \A l \in BankLines : line'[l].tx \in DOMAIN txs' \cup {0}
  BY <1>1, <1>2, LineTyped
<1> QED
  BY <1>3, <1>4, <1>5, <1>6, <1>7, Together

LEMMA CrashKeeps == ASSUME IInv, NEW h \in Handlers, Crash(h) PROVE IInv'
  BY FinishKeeps DEF Crash

-----------------------------------------------------------------------------
LEMMA InitIInv == Init => IInv
<1> SUFFICES ASSUME Init PROVE IInv
  OBVIOUS
<1>1. PlansTyped
  BY Jobs DEF Init, PlansTyped, LineType
<1>2. PaidRows /\ OperationPaysOne /\ PlannedOnce /\ Alone
  BY DEF Init, PaidRows, OperationPaysOne, PlannedOnce, Alone, Planned
<1>3. Hands
  BY Jobs DEF Init, Hands, InHand
<1> QED
  BY <1>1, <1>2, <1>3 DEF IInv

LEMMA StepIInv == IInv /\ [Next]_vars => IInv'
<1> SUFFICES ASSUME IInv, [Next]_vars PROVE IInv'
  OBVIOUS
<1>1. CASE RuleStep
  BY <1>1, ToggleRuleKeeps, DeleteRuleKeeps DEF RuleStep
<1>2. CASE PlanStep
  BY <1>2, CreatePlannedKeeps, SetPlannedStatusKeeps, UpdatePlannedKeeps, DeletePlannedKeeps, PayKeeps DEF PlanStep
<1>3. ASSUME NEW h \in Handlers, Start(h) PROVE IInv'
  BY <1>3, BeginMaterializeKeeps, BeginLinkKeeps, BeginRevertKeeps, BeginPayFromLineKeeps, BeginUndoKeeps DEF Start
<1>4. ASSUME NEW h \in Handlers, Continue(h) PROVE IInv'
  BY <1>4, MaterializeKeeps, LinkKeeps, RevertKeeps, BookLineKeeps, OfferLineKeeps, LinkLineKeeps, WithdrawKeeps,
     UnbookKeeps, UnlinkKeeps, CrashKeeps DEF Continue
<1>5. ASSUME NEW n \in DOMAIN txs, Erase(n) PROVE IInv'
  BY <1>5, EraseKeeps
<1>6. CASE UNCHANGED vars
  <2>1. UNCHANGED <<plans, txs, line, job, raced, erased>>
    BY <1>6 DEF vars
  <2>2. Grows /\ Loosens /\ PlannedOnce'
    BY <2>1, Quiet
  <2>3. Hands' /\ job' \in [Handlers -> JobType]
    BY <2>1, <2>2, AllStillInHand DEF IInv, PlansTyped
  <2> QED
    BY <2>1, <2>2, <2>3, LineTyped, Together
<1> QED
  BY <1>1, <1>2, <1>3, <1>4, <1>5, <1>6, EnterByHandKeeps DEF Next

LEMMA IInvAlways == Spec => []IInv
  BY InitIInv, StepIInv, PTL DEF Spec

\* A date of a rule is planned once, and a plan is paid once: no operation
\* pays for two plans, and one that was created to pay a plan lives only while
\* the plan, those reverted by a stale read aside, is PAID by it.
THEOREM PlannedAndPaidOnce == Spec => []PaidOnce
<1>1. ASSUME IInv PROVE PaidOnce
  <2>1. StatusTellsPayment
    BY <1>1 DEF IInv, PaidRows, RowOk, StatusTellsPayment
  <2>2. ASSUME NEW p \in DOMAIN plans \ raced, NEW n \in PaymentsOf(p) PROVE plans[p].tx = n /\ plans[p].live
    <3>1. plans[p].tx = n /\ n # 0
      BY <1>1, TxRow DEF IInv, Alone, PaymentsOf, LiveTxs
    <3> QED
      BY <1>1, <3>1 DEF IInv, PaidRows, RowOk
  <2> QED
    BY <1>1, <2>1, <2>2 DEF IInv, PaidOnce
<1> QED
  BY <1>1, IInvAlways, PTL

-----------------------------------------------------------------------------
\* The handler has booked a line and may still withdraw its operation.
InFlight(h) == job[h].at \in {"offer", "link", "withdraw"} /\ job[h].l # "none"

OwnMoney(p) == HasMoney(p) /\ txs[plans[p].tx].plan \in {0, p}

MoneyInv ==
  /\ \A p \in PaidPlans \ borrowed : OwnMoney(p)
  /\ \A h \in Handlers : InFlight(h) => MatchedBy(job[h].n) \subseteq borrowed

\* The steps that pay no plan: what pays a plan stays, unless the plan is
\* reopened or has borrowed it, and a handler withdraws what it has just
\* booked or already had in flight.
KeepsPlan(p) == p \in DOMAIN plans /\ plans'[p].tx = plans[p].tx /\ (p \in borrowed => p \in borrowed')
KeepsTx(n) ==
  /\ txs'[n].plan = txs[n].plan
  /\ txs[n].live => txs'[n].live \/ n \in erased' \/ \A p \in MatchedBy(n) : p \in borrowed' \/ plans'[p].tx = 0
KeepsJobs ==
  \A h \in Handlers : InFlight(h)' => job'[h].n \notin DOMAIN txs \/ (InFlight(h) /\ job'[h].n = job[h].n)
PaysNone ==
  /\ \A p \in DOMAIN plans' : plans'[p].tx = 0 \/ KeepsPlan(p)
  /\ \A n \in DOMAIN txs : KeepsTx(n)
  /\ erased \subseteq erased'
  /\ KeepsJobs

\* What MoneyInv rests on: a plan is PAID by an operation there is.
LEMMA PaidRow ==
  ASSUME IInv, NEW p \in DOMAIN plans
  PROVE  /\ p \in PaidPlans <=> plans[p].tx # 0
         /\ plans[p].tx # 0 => plans[p].tx \in DOMAIN txs
         /\ p # 0 /\ 0 \notin DOMAIN txs
<1>1. 0 \notin DOMAIN txs /\ p # 0
  BY PlanRow, TxRow DEF IInv
<1> QED
  BY <1>1 DEF IInv, PaidRows, RowOk, PaidPlans, Planned

LEMMA MoneyKept == ASSUME IInv, IInv', MoneyInv, PaysNone PROVE MoneyInv'
<1>1. ASSUME NEW p \in PaidPlans', p \notin borrowed' PROVE OwnMoney(p)'
  <2>1. p \in DOMAIN plans' /\ plans'[p].tx # 0
    BY <1>1 DEF IInv, PaidRows, RowOk, PaidPlans, Planned
  <2>2. KeepsPlan(p)
    BY <2>1 DEF PaysNone
  <2>3. p \in PaidPlans \ borrowed /\ plans[p].tx \in DOMAIN txs
    BY <1>1, <2>1, <2>2, PaidRow DEF KeepsPlan
  <2>4. OwnMoney(p)
    BY <2>3 DEF MoneyInv
  <2>5. KeepsTx(plans[p].tx) /\ p \in MatchedBy(plans[p].tx)
    BY <2>2, <2>3 DEF PaysNone, MatchedBy, KeepsPlan
  <2> QED
    BY <1>1, <2>1, <2>2, <2>4, <2>5 DEF OwnMoney, HasMoney, KeepsTx, KeepsPlan, PaysNone
<1>2. ASSUME NEW h \in Handlers, InFlight(h)', NEW p \in DOMAIN plans', plans'[p].tx = job'[h].n PROVE p \in borrowed'
  <2>1. plans'[p].tx # 0
    <3>1. job'[h].n \in DOMAIN txs'
      BY <1>2 DEF IInv, Hands, InHand, InFlight
    <3>2. 0 \notin DOMAIN txs'
      BY DEF IInv, PlansTyped
    <3> QED
      BY <1>2, <3>1, <3>2
  <2>2. KeepsPlan(p)
    BY <2>1 DEF PaysNone
  <2>3. plans[p].tx \in DOMAIN txs
    BY <2>1, <2>2, PaidRow DEF KeepsPlan
  <2>4. InFlight(h) /\ job'[h].n = job[h].n
    BY <1>2, <2>2, <2>3 DEF PaysNone, KeepsJobs, KeepsPlan
  <2> QED
    BY <1>2, <2>2, <2>4 DEF MoneyInv, MatchedBy, KeepsPlan
<1> QED
  BY <1>1, <1>2 DEF MoneyInv, MatchedBy

\* The jobs after a statement of handler h.
LEMMA JobsKept ==
  ASSUME PlansTyped, NEW h \in Handlers, NEW j, job' = [job EXCEPT ![h] = j],
         j.at \in {"offer", "link", "withdraw"} /\ j.l # "none" =>
           j.n \notin DOMAIN txs \/ (InFlight(h) /\ j.n = job[h].n)
  PROVE  KeepsJobs
<1>1. \A i \in Handlers : job'[i] = IF i = h THEN j ELSE job[i]
  BY DEF PlansTyped
<1> QED
  BY <1>1 DEF KeepsJobs, InFlight

LEMMA JobDone == ASSUME PlansTyped, NEW h \in Handlers, Finish(h) PROVE KeepsJobs
  BY Jobs, JobsKept DEF Finish

LEMMA SameJobs == ASSUME UNCHANGED job PROVE KeepsJobs
  BY DEF KeepsJobs, InFlight

\* Steps that leave alone what pays the plans.
LEMMA MoneyQuiet ==
  ASSUME IInv, UNCHANGED <<txs, borrowed, erased>>, KeepsJobs,
         \A p \in DOMAIN plans' : plans'[p].tx = 0 \/ (p \in DOMAIN plans /\ plans'[p].tx = plans[p].tx)
  PROVE  PaysNone
BY DEF PaysNone, KeepsPlan, KeepsTx

LEMMA MoneyStill == ASSUME IInv, UNCHANGED <<plans, txs, borrowed, erased>>, KeepsJobs PROVE PaysNone
  BY MoneyQuiet

-----------------------------------------------------------------------------
LEMMA RulesPayNone == ASSUME IInv, NEW r \in Rules, ToggleRule(r) \/ DeleteRule(r) PROVE PaysNone
<1>1. CASE ToggleRule(r)
  BY <1>1, SameJobs, MoneyStill DEF ToggleRule
<1>2. CASE DeleteRule(r)
  <2>1. \A p \in DOMAIN plans : [plans[p] EXCEPT !.status = "OFF"].tx = plans[p].tx
    BY PlanRow DEF IInv, PlanType
  <2> QED
    BY <1>2, <2>1, SameJobs, MoneyQuiet DEF DeleteRule
<1> QED
  BY <1>1, <1>2

LEMMA EditsPayNone ==
  ASSUME IInv, NEW p \in DOMAIN plans,
         DeletePlanned(p) \/ (\E status \in {"PLANNED", "OFF"} : SetPlannedStatus(p, status)) \/ (\E d \in Dates : UpdatePlanned(p, d))
  PROVE  PaysNone
<1>1. PICK w : plans' = [plans EXCEPT ![p] = w] /\ w.tx = plans[p].tx
  <2>1. /\ \A v : [plans[p] EXCEPT !.status = v].tx = plans[p].tx /\ [plans[p] EXCEPT !.live = v].tx = plans[p].tx
        /\ \A v : [plans[p] EXCEPT !.due = v].tx = plans[p].tx
    BY PlanRow DEF IInv, PlanType
  <2>2. CASE DeletePlanned(p)
    BY <2>1, <2>2 DEF DeletePlanned
  <2>3. ASSUME NEW status, SetPlannedStatus(p, status) PROVE \E w : plans' = [plans EXCEPT ![p] = w] /\ w.tx = plans[p].tx
    BY <2>1, <2>3 DEF SetPlannedStatus
  <2>4. ASSUME NEW d, UpdatePlanned(p, d) PROVE \E w : plans' = [plans EXCEPT ![p] = w] /\ w.tx = plans[p].tx
    BY <2>1, <2>4 DEF UpdatePlanned
  <2> QED
    BY <2>2, <2>3, <2>4
<1>2. UNCHANGED <<txs, borrowed, erased, job>>
  BY DEF DeletePlanned, SetPlannedStatus, UpdatePlanned
<1>3. \A q \in DOMAIN plans' : q \in DOMAIN plans /\ plans'[q].tx = plans[q].tx
  BY <1>1 DEF IInv, PlansTyped
<1> QED
  BY <1>2, <1>3, SameJobs, MoneyQuiet

\* A new plan has no operation.
LEMMA MorePlans ==
  ASSUME IInv, UNCHANGED <<txs, borrowed, erased>>, KeepsJobs,
         NEW r \in Rules \cup {NoRule}, NEW d \in Dates, plans' = Append(plans, NewPlan(r, d))
  PROVE  PaysNone
<1> DEFINE w == NewPlan(r, d)
<1>1. w \in PlanType /\ w.tx = 0
  BY NewPlans
<1> HIDE DEF w
<1>2. plans' = Append(plans, w)
  BY DEF w
<1>3. /\ DOMAIN plans' = DOMAIN plans \cup {Len(plans) + 1} /\ plans'[Len(plans) + 1] = w
      /\ \A q \in DOMAIN plans : plans'[q] = plans[q]
  BY <1>1, <1>2, PlanAppended DEF IInv
<1> QED
  BY <1>1, <1>3, MoneyQuiet

LEMMA CreatesPayNone == ASSUME IInv, CreatePlanned PROVE PaysNone
<1>1. PICK d \in Dates : plans' = Append(plans, NewPlan(NoRule, d))
  BY DEF CreatePlanned
<1>2. UNCHANGED <<txs, borrowed, erased, job>>
  BY DEF CreatePlanned
<1> QED
  BY <1>1, <1>2, SameJobs, MorePlans

LEMMA MaterializePaysNone == ASSUME IInv, NEW h \in Handlers, NEW w \in Rules \X Dates, Materialize(h, w) PROVE PaysNone
<1>1. UNCHANGED <<txs, borrowed, erased>>
  BY DEF Materialize
<1>2. KeepsJobs
  <2> DEFINE left == job[h].wanted \ {w}
             j == IF left = {} THEN Idle ELSE [at |-> "materialize", wanted |-> left]
  <2>1. job' = [job EXCEPT ![h] = j]
    BY DEF Materialize
  <2>2. j.at \notin {"offer", "link", "withdraw"}
    BY Jobs
  <2> HIDE DEF j
  <2> QED
    BY <2>1, <2>2, JobsKept DEF IInv
<1>3. CASE UNCHANGED plans
  BY <1>1, <1>2, <1>3, MoneyStill
<1>4. CASE plans' = Append(plans, NewPlan(w[1], w[2]))
  BY <1>1, <1>2, <1>4, MorePlans
<1> QED
  BY <1>3, <1>4 DEF Materialize

LEMMA StartsPayNone == ASSUME IInv, NEW h \in Handlers, Start(h) PROVE PaysNone
<1>1. UNCHANGED <<plans, txs, borrowed, erased>>
  BY DEF Start, BeginMaterialize, BeginLink, BeginRevert, BeginPayFromLine, BeginUndo
<1>2. PICK j : job' = [job EXCEPT ![h] = j] /\ (j.at \notin {"offer", "link", "withdraw"} \/ j.l = "none")
  <2>1. ASSUME BeginMaterialize(h)
        PROVE  \E j : job' = [job EXCEPT ![h] = j] /\ (j.at \notin {"offer", "link", "withdraw"} \/ j.l = "none")
    <3> DEFINE left == {w \in Rules \X Dates :
                          rule[w[1]] = "active" /\ \A p \in Planned : <<plans[p].rule, plans[p].due>> # w}
               j == [at |-> "materialize", wanted |-> left]
    <3>1. job' = [job EXCEPT ![h] = j] /\ j.at \notin {"offer", "link", "withdraw"}
      BY <2>1 DEF BeginMaterialize
    <3> QED
      BY <3>1
  <2>2. ASSUME NEW p, NEW n, BeginLink(h, p, n)
        PROVE  \E j : job' = [job EXCEPT ![h] = j] /\ (j.at \notin {"offer", "link", "withdraw"} \/ j.l = "none")
    <3> DEFINE j == [at |-> "link", p |-> p, n |-> n, l |-> "none"]
    <3>1. job' = [job EXCEPT ![h] = j] /\ j.l = "none"
      BY <2>2 DEF BeginLink
    <3> QED
      BY <3>1
  <2>3. ASSUME NEW p, BeginRevert(h, p)
        PROVE  \E j : job' = [job EXCEPT ![h] = j] /\ (j.at \notin {"offer", "link", "withdraw"} \/ j.l = "none")
    <3> DEFINE j == [at |-> "revert", p |-> p, n |-> plans[p].tx, auto |-> plans[p].auto]
    <3>1. job' = [job EXCEPT ![h] = j] /\ j.at \notin {"offer", "link", "withdraw"}
      BY <2>3 DEF BeginRevert
    <3> QED
      BY <3>1
  <2>4. ASSUME NEW l, NEW p, BeginPayFromLine(h, l, p)
        PROVE  \E j : job' = [job EXCEPT ![h] = j] /\ (j.at \notin {"offer", "link", "withdraw"} \/ j.l = "none")
    <3> DEFINE j == [at |-> "book", p |-> p, l |-> l]
    <3>1. job' = [job EXCEPT ![h] = j] /\ j.at \notin {"offer", "link", "withdraw"}
      BY <2>4 DEF BeginPayFromLine
    <3> QED
      BY <3>1
  <2>5. ASSUME NEW l, BeginUndo(h, l)
        PROVE  \E j : job' = [job EXCEPT ![h] = j] /\ (j.at \notin {"offer", "link", "withdraw"} \/ j.l = "none")
    <3> DEFINE j == [at |-> IF txs[line[l].tx].live THEN "unbook" ELSE "unlink", l |-> l, n |-> line[l].tx]
    <3>1. job' = [job EXCEPT ![h] = j] /\ j.at \notin {"offer", "link", "withdraw"}
      BY <2>5 DEF BeginUndo
    <3> QED
      BY <3>1
  <2> QED
    BY <2>1, <2>2, <2>3, <2>4, <2>5 DEF Start
<1>3. KeepsJobs
  BY <1>2, JobsKept DEF IInv
<1> QED
  BY <1>1, <1>3, MoneyStill

-----------------------------------------------------------------------------
\* The steps that pay a plan.
LEMMA PaysMoney == ASSUME IInv, IInv', MoneyInv, NEW p \in DOMAIN plans, Pay(p) PROVE MoneyInv'
<1>1. PICK n \in Nat : n = Len(txs) + 1
  BY DEF IInv, PlansTyped
<1> DEFINE w == PaidBy(plans[p], n, TRUE)
<1>2. /\ plans' = [plans EXCEPT ![p] = w] /\ txs' = Append(txs, Entry(p)) /\ borrowed' = borrowed \ {p}
      /\ UNCHANGED <<line, job, erased>>
  BY <1>1 DEF Pay
<1>3. plans[p] \in PlanType /\ p \in Nat
  BY PlanRow DEF IInv
<1>4. w \in PlanType /\ w.tx = n
  BY <1>3, Paying
<1> HIDE DEF w
<1>5. DOMAIN plans' = DOMAIN plans /\ plans'[p] = w /\ \A q \in DOMAIN plans \ {p} : plans'[q] = plans[q]
  BY <1>2, <1>4, Edited DEF IInv
<1>6. n \notin DOMAIN txs /\ txs'[n].plan = p /\ txs'[n].live /\ \A m \in DOMAIN txs : txs'[m] = txs[m]
  BY <1>1, <1>2, <1>3, TxAppended DEF IInv
<1>7. ASSUME NEW q \in PaidPlans', q \notin borrowed' PROVE OwnMoney(q)'
  <2>1. CASE q = p
    BY <1>4, <1>5, <1>6, <2>1 DEF OwnMoney, HasMoney
  <2>2. CASE q # p
    <3>1. q \in DOMAIN plans /\ plans'[q] = plans[q] /\ q \in PaidPlans \ borrowed
      BY <1>2, <1>5, <1>7, <2>2 DEF PaidPlans, Planned
    <3>2. OwnMoney(q) /\ plans[q].tx \in DOMAIN txs
      BY <3>1, PaidRow DEF MoneyInv
    <3> QED
      BY <1>2, <1>6, <3>1, <3>2 DEF OwnMoney, HasMoney
  <2> QED
    BY <2>1, <2>2
<1>8. ASSUME NEW h \in Handlers, InFlight(h)', NEW q \in DOMAIN plans', plans'[q].tx = job'[h].n PROVE q \in borrowed'
  <2>1. job'[h] = job[h] /\ InFlight(h) /\ job[h].n \in DOMAIN txs
    BY <1>2, <1>8 DEF InFlight, IInv, Hands, InHand
  <2>2. q # p
    BY <1>4, <1>5, <1>6, <1>8, <2>1
  <2> QED
    BY <1>2, <1>5, <1>8, <2>1, <2>2 DEF MoneyInv, MatchedBy
<1> QED
  BY <1>7, <1>8 DEF MoneyInv, MatchedBy

LEMMA ClaimsMoney ==
  ASSUME IInv, IInv', MoneyInv, NEW h \in Handlers, NEW p \in DOMAIN plans, NEW n \in DOMAIN txs,
         ClaimPaid(h, p, n), Finish(h), UNCHANGED <<txs, erased>>
  PROVE  MoneyInv'
<1> DEFINE w == PaidBy(plans[p], n, FALSE)
<1>1. plans' = [plans EXCEPT ![p] = w]
  BY DEF ClaimPaid
<1>2. w \in PlanType /\ w.tx = n
  BY PlanRow, TxRow, Paying DEF IInv
<1> HIDE DEF w
<1>3. DOMAIN plans' = DOMAIN plans /\ plans'[p] = w /\ \A q \in DOMAIN plans \ {p} : plans'[q] = plans[q]
  BY <1>1, <1>2, Edited DEF IInv
<1>4. borrowed \ {p} \subseteq borrowed' /\ borrowed' \subseteq borrowed \cup {p} /\ (p \in borrowed' <=> Borrows(h, p, n))
  BY DEF ClaimPaid
<1>5. \A i \in Handlers : job'[i] = IF i = h THEN Idle ELSE job[i]
  BY DEF Finish, IInv, PlansTyped
<1>6. ASSUME NEW q \in PaidPlans', q \notin borrowed' PROVE OwnMoney(q)'
  <2>1. CASE q = p
    BY <1>2, <1>3, <1>4, <1>6, <2>1 DEF OwnMoney, HasMoney, Borrows
  <2>2. CASE q # p
    <3>1. q \in DOMAIN plans /\ plans'[q] = plans[q] /\ q \in PaidPlans \ borrowed
      BY <1>3, <1>4, <1>6, <2>2 DEF PaidPlans, Planned
    <3>2. OwnMoney(q)
      BY <3>1 DEF MoneyInv
    <3> QED
      BY <3>1, <3>2 DEF OwnMoney, HasMoney
  <2> QED
    BY <2>1, <2>2
<1>7. ASSUME NEW i \in Handlers, InFlight(i)', NEW q \in DOMAIN plans', plans'[q].tx = job'[i].n PROVE q \in borrowed'
  <2>1. i # h /\ job'[i] = job[i] /\ InFlight(i)
    BY <1>5, <1>7, Jobs DEF InFlight
  <2>2. CASE q = p
    <3>1. Unsettled(h, n)
      BY <1>2, <1>3, <1>7, <2>1, <2>2 DEF Unsettled, InFlight
    <3> QED
      BY <1>4, <2>2, <3>1 DEF Borrows
  <2>3. CASE q # p
    BY <1>3, <1>4, <1>7, <2>1, <2>3 DEF MoneyInv, MatchedBy
  <2> QED
    BY <2>2, <2>3
<1> QED
  BY <1>6, <1>7 DEF MoneyInv, MatchedBy

LEMMA LinkMoney == ASSUME IInv, IInv', MoneyInv, NEW h \in Handlers, Link(h) PROVE MoneyInv'
<1> DEFINE p == job[h].p
           n == job[h].n
<1>1. p \in DOMAIN plans /\ n \in DOMAIN txs
  BY DEF IInv, Hands, InHand, Link, At
<1>2. Finish(h) /\ UNCHANGED <<txs, erased>>
  BY DEF Link
<1>3. CASE ClaimPaid(h, p, n)
  <2> HIDE DEF p, n
  <2> QED
    BY <1>1, <1>2, <1>3, ClaimsMoney
<1>4. CASE UNCHANGED <<plans, borrowed>>
  BY <1>2, <1>4, JobDone, MoneyStill, MoneyKept DEF IInv
<1> QED
  BY <1>3, <1>4 DEF Link

LEMMA LinkLineMoney == ASSUME IInv, IInv', MoneyInv, NEW h \in Handlers, LinkLine(h) PROVE MoneyInv'
<1> DEFINE p == job[h].p
           n == job[h].n
<1>1. p \in DOMAIN plans /\ n \in DOMAIN txs
  BY DEF IInv, Hands, InHand, LinkLine, At
<1>2. UNCHANGED <<txs, erased>>
  BY DEF LinkLine
<1>3. CASE ClaimPaid(h, p, n) /\ Finish(h)
  <2> HIDE DEF p, n
  <2> QED
    BY <1>1, <1>2, <1>3, ClaimsMoney
<1>4. CASE job' = [job EXCEPT ![h].at = "withdraw"] /\ UNCHANGED <<plans, borrowed>>
  <2> DEFINE j == [job[h] EXCEPT !.at = "withdraw"]
  <2>1. InFlight(h)
    BY DEF LinkLine, At, InFlight
  <2>2. job[h] \in JobType /\ job[h].at = "link"
    BY DEF LinkLine, At, IInv, PlansTyped
  <2>3. j.n = job[h].n
    BY <2>2 DEF JobType, Idle, LinkJob, RevertJob, UndoJob
  <2>4. job' = [job EXCEPT ![h] = j]
    BY <1>4
  <2> HIDE DEF j
  <2>5. KeepsJobs
    BY <2>1, <2>3, <2>4, JobsKept DEF IInv
  <2> QED
    BY <1>2, <1>4, <2>5, MoneyStill, MoneyKept
<1> QED
  BY <1>3, <1>4 DEF LinkLine

-----------------------------------------------------------------------------
LEMMA OfferLinePaysNone == ASSUME IInv, NEW h \in Handlers, OfferLine(h) PROVE PaysNone
<1>1. PICK at \in {"link", "withdraw"} : job' = [job EXCEPT ![h] = [job[h] EXCEPT !.at = at]]
  BY DEF OfferLine
<1> DEFINE j == [job[h] EXCEPT !.at = at]
<1>2. job[h] \in JobType /\ InHand(job[h]) /\ job[h].at = "offer"
  BY DEF OfferLine, At, IInv, PlansTyped, Hands
<1>3. InFlight(h)
  BY <1>2, PlanningAssumption DEF InHand, InFlight
<1>4. j.n = job[h].n
  BY <1>2 DEF JobType, Idle, LinkJob, RevertJob, UndoJob
<1> HIDE DEF j
<1>5. KeepsJobs
  BY <1>1, <1>3, <1>4, JobsKept DEF IInv, j
<1> QED
  BY <1>5, MoneyStill DEF OfferLine

\* A new operation.
LEMMA MoreTxs ==
  ASSUME IInv, txs' = Append(txs, Entry(0)), UNCHANGED <<plans, borrowed, erased>>, KeepsJobs
  PROVE  PaysNone
<1>1. \A n \in DOMAIN txs : txs'[n] = txs[n]
  BY TxAppended DEF IInv
<1> QED
  BY <1>1 DEF PaysNone, KeepsPlan, KeepsTx

LEMMA BookLinePaysNone == ASSUME IInv, NEW h \in Handlers, BookLine(h) PROVE PaysNone
<1>1. UNCHANGED <<plans, borrowed, erased>>
  BY DEF BookLine
<1>2. CASE /\ txs' = Append(txs, Entry(0))
           /\ job' = [job EXCEPT ![h] = [at |-> "offer", p |-> job[h].p, n |-> Len(txs) + 1, l |-> job[h].l]]
  <2>1. Len(txs) + 1 \notin DOMAIN txs
    BY DEF IInv, PlansTyped
  <2>2. KeepsJobs
    BY <1>2, <2>1, JobsKept DEF IInv
  <2> QED
    BY <1>1, <1>2, <2>2, MoreTxs
<1>3. CASE Finish(h) /\ UNCHANGED txs
  BY <1>1, <1>3, JobDone, MoneyStill DEF IInv
<1> QED
  BY <1>2, <1>3 DEF BookLine

LEMMA EnterByHandPaysNone == ASSUME IInv, EnterByHand PROVE PaysNone
<1>1. txs' = Append(txs, Entry(0)) /\ UNCHANGED <<plans, borrowed, erased, job>>
  BY DEF EnterByHand
<1> QED
  BY <1>1, SameJobs, MoreTxs

\* An operation goes.
LEMMA GoneKeeps ==
  ASSUME IInv, NEW n \in DOMAIN txs, txs' = Gone(n),
         n \in erased' \/ \A p \in MatchedBy(n) : p \in borrowed' \/ plans'[p].tx = 0
  PROVE  \A m \in DOMAIN txs : KeepsTx(m)
BY TxGone DEF KeepsTx, IInv

LEMMA WithdrawPaysNone == ASSUME IInv, MoneyInv, NEW h \in Handlers, Withdraw(h) PROVE PaysNone
<1>1. PICK n \in DOMAIN txs : n = job[h].n
  BY DEF IInv, Hands, InHand, Withdraw, At
<1>2. InFlight(h)
  BY PlanningAssumption DEF IInv, Hands, InHand, Withdraw, At, InFlight
<1>3. txs' = Gone(n) /\ Finish(h) /\ UNCHANGED <<plans, borrowed, erased>>
  BY <1>1 DEF Withdraw
<1>4. \A m \in DOMAIN txs : KeepsTx(m)
  <2>1. \A p \in MatchedBy(n) : p \in borrowed'
    BY <1>1, <1>2, <1>3 DEF MoneyInv
  <2> QED
    BY <1>3, <2>1, GoneKeeps
<1>5. KeepsJobs
  BY <1>3, JobDone DEF IInv
<1> QED
  BY <1>3, <1>4, <1>5 DEF PaysNone, KeepsPlan

LEMMA UnbookPaysNone == ASSUME IInv, NEW h \in Handlers, Unbook(h) PROVE PaysNone
<1>1. PICK n \in DOMAIN txs : n = job[h].n
  BY DEF IInv, Hands, InHand, Unbook, At
<1> DEFINE reopen == MatchedBy(n) \cap Planned
<1>2. /\ plans' = [p \in DOMAIN plans |-> IF p \in reopen THEN Reopened(plans[p]) ELSE plans[p]]
      /\ txs' = Gone(n) /\ Finish(h) /\ borrowed' = borrowed \ MatchedBy(n) /\ UNCHANGED erased
  BY <1>1 DEF Unbook, FreeLine
<1>3. MatchedBy(n) = reopen
  BY TxRow DEF IInv, PaidRows, RowOk, MatchedBy, Planned
<1> HIDE DEF reopen
<1>4. \A p \in DOMAIN plans : p \in reopen => plans'[p].tx = 0
  BY <1>2, PlanRow, Reopening DEF IInv
<1>5. \A p \in DOMAIN plans : p \notin reopen => KeepsPlan(p)
  BY <1>2, <1>3 DEF KeepsPlan
<1>6. \A m \in DOMAIN txs : KeepsTx(m)
  <2>1. \A p \in MatchedBy(n) : plans'[p].tx = 0
    BY <1>3, <1>4 DEF MatchedBy
  <2> QED
    BY <1>2, <2>1, GoneKeeps
<1>7. KeepsJobs
  BY <1>2, JobDone DEF IInv
<1> QED
  BY <1>2, <1>4, <1>5, <1>6, <1>7 DEF PaysNone

\* A stale reversal deletes the operation made to pay plan p, whoever has it
\* now: another plan has borrowed it.
LEMMA RevertPaysNone == ASSUME IInv, MoneyInv, NEW h \in Handlers, Revert(h) PROVE PaysNone
<1>1. PICK p \in DOMAIN plans, n \in DOMAIN txs, auto \in BOOLEAN :
        p = job[h].p /\ n = job[h].n /\ (auto <=> job[h].auto) /\ (auto => txs[n].plan = p)
  BY JobFields DEF IInv, PlansTyped, Hands, InHand, Revert, At
<1>2. Finish(h) /\ UNCHANGED erased
  BY DEF Revert
<1>3. KeepsJobs
  BY <1>2, JobDone DEF IInv
<1>4. CASE /\ plans' = [plans EXCEPT ![p] = Reopened(plans[p])]
           /\ txs' = IF auto THEN Gone(n) ELSE txs
           /\ borrowed' = borrowed \ {p}
  <2>1. Reopened(plans[p]) \in PlanType /\ Reopened(plans[p]).tx = 0
    BY PlanRow, Reopening DEF IInv
  <2>2. DOMAIN plans' = DOMAIN plans /\ plans'[p].tx = 0 /\ \A q \in DOMAIN plans \ {p} : plans'[q] = plans[q]
    BY <1>4, <2>1, Edited DEF IInv
  <2>3. \A q \in DOMAIN plans' : plans'[q].tx = 0 \/ KeepsPlan(q)
    BY <1>4, <2>2 DEF KeepsPlan
  <2>4. CASE auto
    <3>1. ASSUME NEW q \in MatchedBy(n), q # p PROVE q \in borrowed'
      <4>1. q \in DOMAIN plans /\ plans[q].tx = n /\ q \in PaidPlans
        BY <3>1, PaidRow DEF MatchedBy
      <4>2. txs[n].plan \notin {0, q}
        BY <1>1, <2>4, <3>1, PaidRow
      <4>3. q \in borrowed
        BY <4>1, <4>2 DEF MoneyInv, OwnMoney
      <4> QED
        BY <1>4, <3>1, <4>3
    <3>2. txs' = Gone(n)
      BY <1>4, <2>4
    <3>3. \A m \in DOMAIN txs : KeepsTx(m)
      BY <2>2, <3>1, <3>2, GoneKeeps
    <3> QED
      BY <1>2, <1>3, <2>3, <3>3 DEF PaysNone
  <2>5. CASE ~auto
    <3>1. \A m \in DOMAIN txs : KeepsTx(m)
      BY <1>4, <2>5 DEF KeepsTx
    <3> QED
      BY <1>2, <1>3, <2>3, <3>1 DEF PaysNone
  <2> QED
    BY <2>4, <2>5
<1>5. CASE UNCHANGED <<txs, plans, borrowed>>
  BY <1>2, <1>3, <1>5, MoneyStill
<1> QED
  BY <1>1, <1>4, <1>5 DEF Revert

LEMMA ErasePaysNone == ASSUME IInv, NEW n \in DOMAIN txs, Erase(n) PROVE PaysNone
<1>1. /\ txs' = Gone(n) /\ UNCHANGED <<plans, borrowed, job>>
      /\ erased' = IF MatchedBy(n) = {} THEN erased ELSE erased \cup {n}
  BY DEF Erase
<1>2. \A m \in DOMAIN txs : KeepsTx(m)
  BY <1>1, GoneKeeps
<1> QED
  BY <1>1, <1>2, SameJobs DEF PaysNone, KeepsPlan

LEMMA StepMoney == IInv /\ IInv' /\ MoneyInv /\ [Next]_vars => MoneyInv'
<1> SUFFICES ASSUME IInv, IInv', MoneyInv, [Next]_vars PROVE MoneyInv'
  OBVIOUS
<1>1. CASE RuleStep
  BY <1>1, RulesPayNone, MoneyKept DEF RuleStep
<1>2. CASE PlanStep
  BY <1>2, CreatesPayNone, EditsPayNone, PaysMoney, MoneyKept DEF PlanStep
<1>3. ASSUME NEW h \in Handlers, Start(h) PROVE MoneyInv'
  BY <1>3, StartsPayNone, MoneyKept
<1>4. ASSUME NEW h \in Handlers, Continue(h) PROVE MoneyInv'
  <2>1. CASE Unlink(h) \/ Crash(h)
    <3>1. Finish(h) /\ UNCHANGED <<plans, txs, borrowed, erased>>
      BY <2>1 DEF Unlink, FreeLine, Crash
    <3> QED
      BY <3>1, JobDone, MoneyStill, MoneyKept DEF IInv
  <2> QED
    BY <1>4, <2>1, MaterializePaysNone, LinkMoney, RevertPaysNone, BookLinePaysNone, OfferLinePaysNone, LinkLineMoney,
       WithdrawPaysNone, UnbookPaysNone, MoneyKept DEF Continue
<1>5. CASE EnterByHand \/ \E n \in DOMAIN txs : Erase(n)
  BY <1>5, EnterByHandPaysNone, ErasePaysNone, MoneyKept
<1>6. CASE UNCHANGED vars
  BY <1>6, SameJobs, MoneyStill, MoneyKept DEF vars
<1> QED
  BY <1>1, <1>2, <1>3, <1>4, <1>5, <1>6 DEF Next

\* A plan that says PAID has its money in the books, whoever withdraws, undoes
\* or reverts what meanwhile, unless the list of operations deleted it or the
\* operation was not free when the plan was linked to it.
THEOREM PaidHasMoney == Spec => []PaidIsPaid
<1>1. Init => MoneyInv
  BY Jobs DEF Init, MoneyInv, PaidPlans, Planned, InFlight
<1>2. Spec => []MoneyInv
  BY <1>1, StepMoney, IInvAlways, PTL DEF Spec
<1>3. MoneyInv => PaidIsPaid
  BY DEF MoneyInv, OwnMoney, PaidIsPaid
<1> QED
  BY <1>2, <1>3, PTL

-----------------------------------------------------------------------------
\* What LinkedSurvives says of a step.
Spares ==
  \A h \in Handlers : At(h, "revert") /\ job'[h] # job[h] =>
    \A n \in LiveTxs : txs[n].plan # job[h].p => txs'[n].live

LEMMA OwnJob ==
  ASSUME PlansTyped, NEW h \in Handlers, Start(h) \/ Continue(h)
  PROVE  /\ \A i \in Handlers \ {h} : job'[i] = job[i]
         /\ At(h, "revert") => Revert(h) \/ Crash(h)
<1>1. \A j : job' = [job EXCEPT ![h] = j] => \A i \in Handlers \ {h} : job'[i] = job[i]
  BY DEF PlansTyped
<1>2. CASE Start(h)
  <2>1. \E j : job' = [job EXCEPT ![h] = j]
    BY <1>2 DEF Start, BeginMaterialize, BeginLink, BeginRevert, BeginPayFromLine, BeginUndo
  <2>2. At(h, "idle")
    BY <1>2 DEF Start, BeginMaterialize, BeginLink, BeginRevert, BeginPayFromLine, BeginUndo
  <2> QED
    BY <1>1, <2>1, <2>2 DEF At
<1>3. CASE Continue(h)
  <2>1. \E j : job' = [job EXCEPT ![h] = j]
    BY <1>3 DEF Continue, Materialize, Link, Revert, BookLine, OfferLine, LinkLine, Withdraw, Unbook, Unlink, Crash, FreeLine, Finish
  <2>2. At(h, "revert") => Revert(h) \/ Crash(h)
    BY <1>3 DEF Continue, Materialize, Link, BookLine, OfferLine, LinkLine, Withdraw, Unbook, Unlink, At
  <2> QED
    BY <1>1, <2>1, <2>2
<1> QED
  BY <1>2, <1>3

LEMMA StepSpares == IInv /\ Next => Spares
<1> SUFFICES ASSUME IInv, Next, NEW h \in Handlers, At(h, "revert"), job'[h] # job[h],
                    NEW n \in LiveTxs, txs[n].plan # job[h].p
             PROVE  txs'[n].live
  BY DEF Spares
<1>1. job' # job
  OBVIOUS
<1>2. ASSUME Revert(h) \/ Crash(h) PROVE txs'[n].live
  <2>1. CASE Crash(h)
    BY <2>1 DEF Crash, LiveTxs
  <2>2. CASE Revert(h)
    <3>1. job[h].n \in DOMAIN txs /\ (job[h].auto => txs[job[h].n].plan = job[h].p)
      BY DEF IInv, Hands, InHand, At
    <3>2. txs' = txs \/ (job[h].auto /\ txs' = Gone(job[h].n))
      BY <2>2 DEF Revert
    <3>3. job[h].auto => n # job[h].n
      BY <3>1
    <3>4. CASE txs' = txs
      BY <3>4 DEF LiveTxs
    <3>5. CASE job[h].auto /\ txs' = Gone(job[h].n)
      BY <3>1, <3>3, <3>5, TxGone DEF IInv, LiveTxs
    <3> QED
      BY <3>2, <3>4, <3>5
  <2> QED
    BY <1>2, <2>1, <2>2
<1>3. ASSUME NEW i \in Handlers, Start(i) \/ Continue(i) PROVE txs'[n].live
  BY <1>2, <1>3, OwnJob DEF IInv
<1>4. CASE RuleStep \/ PlanStep \/ EnterByHand \/ \E m \in DOMAIN txs : Erase(m)
  <2>1. job' = job
    BY <1>4 DEF RuleStep, ToggleRule, DeleteRule, PlanStep, CreatePlanned, SetPlannedStatus, UpdatePlanned, DeletePlanned,
                Pay, EnterByHand, Erase
  <2> QED
    BY <1>1, <2>1
<1> QED
  BY <1>3, <1>4 DEF Next

\* An operation a plan did not create survives the reversal of the plan,
\* whatever happened between its reading and its compare-and-swap.
THEOREM LinkedOnlyUnlinked == Spec => LinkedSurvives
<1>1. IInv /\ [Next]_vars =>
        [\A h \in Handlers : At(h, "revert") /\ job[h]' # job[h] =>
           \A n \in LiveTxs : txs[n].plan # job[h].p => txs'[n].live]_vars
  BY StepSpares DEF Spares
<1> QED
  BY <1>1, IInvAlways, PTL DEF Spec, LinkedSurvives

-----------------------------------------------------------------------------
(***************************************************************************)
(* Theorems about the reports, for any accounts, categories, operations,   *)
(* transfers, orders and days: every tile of the operation list sums to    *)
(* the number it was opened from (DrillDownMatches), the P&L report and    *)
(* the tax section accrue the same tax (TaxSectionAgrees), the month       *)
(* summary shows the profit of the P&L report in shares that add up        *)
(* (SummaryAddsUp), and a sum is the same by months or by quarters, by     *)
(* client, by account or by category (ReportsAgree).                       *)
(*                                                                         *)
(* No report writes, so most of it is about operators on well-typed tables *)
(* (TablesTyped, the invariant); the cash reports need besides that both   *)
(* legs of every transfer are in the ledger (TransfersCancel).  The ledger *)
(* is a bag: Weigh says what the rows of a set are worth in it.            *)
(***************************************************************************)

-----------------------------------------------------------------------------
(***************************************************************************)
(* The tables.                                                             *)
(***************************************************************************)
\* The kinds a row of a type has: by hand, and of orders, purchases, write-offs and transfers.
KindsOf ==
  [INCOME  |-> ManualKinds.INCOME \cup {"ORDER_PAYMENT", "TRANSFER_IN"},
   EXPENSE |-> ManualKinds.EXPENSE \cup {"ORDER_REFUND", "PURCHASE", "WRITE_OFF", "TRANSFER_OUT"}]
AllKinds == KindsOf.INCOME \cup KindsOf.EXPENSE
OrderKinds == {"ORDER_PAYMENT", "ORDER_REFUND"}

LedgerRow ==
  [at : DaysAsked, type : Types, kind : AllKinds, cat : Categories \cup {NoCat}, acc : Accounts, amount : Int,
   order : OrderIds \cup {NoOrder}, period : Int, mark : Marks \cup {"none"}]

RowTyped(r) ==
  /\ r \in LedgerRow /\ r.kind \in KindsOf[r.type]
  /\ r.cat # NoCat => r.kind \in ManualKinds[r.type] /\ Kind[r.cat] = r.type
  /\ r.period # NoMonth => r.kind = "TAX"
  /\ r.order # NoOrder <=> r.kind \in OrderKinds

BagOk(L) == L \in [DOMAIN L -> Nat \ {0}] /\ IsFiniteSet(DOMAIN L) /\ \A r \in DOMAIN L : RowTyped(r)

\* What the rows of a set P have in a bag L.
Worths(L) == [r \in DOMAIN L |-> L[r] * r.amount]
Weigh(L, P) == Sum(Worths(L), DOMAIN L \cap P)

LEMMA RowAmount == ASSUME NEW r, RowTyped(r) PROVE r.amount \in Int
  BY DEF RowTyped, LedgerRow

LEMMA WorthsType ==
  ASSUME NEW L, BagOk(L), NEW r \in DOMAIN L PROVE Worths(L)[r] = L[r] * r.amount /\ Worths(L)[r] \in Int
<1>1. L[r] \in Int /\ r.amount \in Int
  BY RowAmount DEF BagOk
<1>2. L[r] * r.amount \in Int
  BY <1>1
<1> QED BY <1>2 DEF Worths

LEMMA BagPut ==
  ASSUME NEW L, BagOk(L), NEW R, IsFiniteSet(R), \A r \in R : RowTyped(r)
  PROVE  BagOk(L (+) SetToBag(R)) /\ DOMAIN (L (+) SetToBag(R)) = DOMAIN L \cup R
<1> DEFINE D == DOMAIN L \cup R
           M == [r \in D |-> (IF r \in DOMAIN L THEN L[r] ELSE 0) + (IF r \in R THEN 1 ELSE 0)]
<1>1. L (+) SetToBag(R) = M
  BY DEF (+), SetToBag
<1>2. IsFiniteSet(D)
  BY FS_Union DEF BagOk
<1>3. \A r \in D : M[r] \in Nat \ {0}
  BY DEF BagOk
<1>4. M \in [D -> Nat \ {0}] /\ DOMAIN M = D
  BY <1>3
<1>5. BagOk(M)
  BY <1>2, <1>4 DEF BagOk
<1> QED BY <1>1, <1>4, <1>5

LEMMA WeighPut ==
  ASSUME NEW L, BagOk(L), NEW R, IsFiniteSet(R), \A r \in R : RowTyped(r), NEW P
  PROVE  Weigh(L (+) SetToBag(R), P) = Weigh(L, P) + Sum([r \in R |-> r.amount], R \cap P)
<1> DEFINE D == DOMAIN L \cup R
           M == L (+) SetToBag(R)
           old == [r \in D |-> IF r \in DOMAIN L THEN L[r] * r.amount ELSE 0]
           new == [r \in D |-> IF r \in R THEN r.amount ELSE 0]
           S == D \cap P
<1>1. BagOk(M) /\ DOMAIN M = D
  BY BagPut
<1>2. IsFiniteSet(S) /\ IsFiniteSet(DOMAIN L \cap P) /\ IsFiniteSet(R \cap P)
  BY <1>1, FS_Subset DEF BagOk
<1>3. \A r \in S : old[r] \in Int /\ new[r] \in Int /\ Worths(M)[r] = old[r] + new[r]
  <2> SUFFICES ASSUME NEW r \in S PROVE old[r] \in Int /\ new[r] \in Int /\ Worths(M)[r] = old[r] + new[r]
    OBVIOUS
  <2>1. r \in D /\ r.amount \in Int
    BY RowAmount DEF BagOk
  <2>2. M[r] = (IF r \in DOMAIN L THEN L[r] ELSE 0) + (IF r \in R THEN 1 ELSE 0)
    BY <2>1 DEF (+), SetToBag
  <2>3. Worths(M)[r] = M[r] * r.amount
    BY <1>1, <2>1, WorthsType
  <2>4. PICK a \in Int : a = r.amount
    BY <2>1
  <2>5. CASE r \in DOMAIN L
    <3>1. PICK n \in Int : n = L[r]
      BY <2>5 DEF BagOk
    <3>2. n * a \in Int /\ (n + 1) * a = n * a + a /\ (n + 0) * a = n * a
      OBVIOUS
    <3> QED BY <2>1, <2>2, <2>3, <2>4, <2>5, <3>1, <3>2
  <2>6. CASE r \notin DOMAIN L
    <3>1. r \in R /\ M[r] = 1
      BY <2>1, <2>2, <2>6
    <3>2. 1 * a = a
      OBVIOUS
    <3> QED BY <2>1, <2>3, <2>4, <2>6, <3>1, <3>2
  <2> QED BY <2>5, <2>6
<1>4. Sum(Worths(M), S) = Sum(old, S) + Sum(new, S)
  <2> HIDE DEF old, new, M, S
  <2> QED BY <1>2, <1>3, SumPlus
<1>5. Sum(old, S) = Sum(old, DOMAIN L \cap P)
  <2>1. \A r \in S \ (DOMAIN L \cap P) : old[r] = 0
    OBVIOUS
  <2>2. DOMAIN L \cap P \in SUBSET S
    OBVIOUS
  <2> HIDE DEF old, new, M, S
  <2> QED BY <1>2, <1>3, <2>1, <2>2, SumNarrow
<1>6. Sum(old, DOMAIN L \cap P) = Weigh(L, P)
  <2>1. \A r \in DOMAIN L \cap P : old[r] = Worths(L)[r]
    BY DEF Worths
  <2> HIDE DEF old
  <2> QED BY <1>2, <2>1, SumSame DEF Weigh
<1>7. Sum(new, S) = Sum(new, R \cap P)
  <2>1. \A r \in S \ (R \cap P) : new[r] = 0
    OBVIOUS
  <2>2. R \cap P \in SUBSET S
    OBVIOUS
  <2> HIDE DEF old, new, M, S
  <2> QED BY <1>2, <1>3, <2>1, <2>2, SumNarrow
<1>8. Sum(new, R \cap P) = Sum([r \in R |-> r.amount], R \cap P)
  <2>1. \A r \in R \cap P : new[r] = [x \in R |-> x.amount][r]
    OBVIOUS
  <2> HIDE DEF new
  <2> QED BY <1>2, <2>1, SumSame
<1>9. Weigh(M, P) = Sum(Worths(M), S)
  BY <1>1 DEF Weigh
<1> QED
  <2> HIDE DEF old, new, S
  <2>1. Weigh(M, P) = Sum(old, S) + Sum(new, S)
    BY <1>4, <1>9
  <2>2. Sum(old, S) = Weigh(L, P)
    BY <1>5, <1>6
  <2>3. Sum(new, S) = Sum([r \in R |-> r.amount], R \cap P)
    BY <1>7, <1>8
  <2> QED BY <2>1, <2>2, <2>3

\* One row more, and one row less.
Amount(r, P) == IF r \in P THEN r.amount ELSE 0

LEMMA BagAdds ==
  ASSUME NEW L, BagOk(L), NEW r, RowTyped(r)
  PROVE  /\ BagOk(L (+) SetToBag({r})) /\ DOMAIN (L (+) SetToBag({r})) = DOMAIN L \cup {r}
         /\ \A P : Weigh(L (+) SetToBag({r}), P) = Weigh(L, P) + Amount(r, P)
<1> DEFINE M == L (+) SetToBag({r})
<1>1. IsFiniteSet({r})
  BY FS_Singleton
<1>2. \A x \in {r} : RowTyped(x)
  OBVIOUS
<1>3. BagOk(M) /\ DOMAIN M = DOMAIN L \cup {r}
  BY <1>1, <1>2, BagPut
<1>4. ASSUME NEW P PROVE Weigh(M, P) = Weigh(L, P) + Amount(r, P)
  <2> DEFINE f == [x \in {r} |-> x.amount]
  <2>1. Weigh(M, P) = Weigh(L, P) + Sum(f, {r} \cap P)
    BY <1>1, <1>2, WeighPut
  <2>2. r.amount \in Int
    BY RowAmount
  <2>3. CASE r \in P
    <3>1. {r} \cap P = {r} /\ {} \cup {r} = {r} /\ r \notin {} /\ \A x \in {} \cup {r} : f[x] \in Int
      BY <2>2, <2>3
    <3>2. f[r] = r.amount
      OBVIOUS
    <3> HIDE DEF f
    <3>3. Sum(f, {} \cup {r}) = f[r] + Sum(f, {})
      BY <3>1, FS_EmptySet, SumPut, Zenon
    <3>4. Sum(f, {}) = 0
      BY SumEmpty
    <3>5. Sum(f, {r}) = r.amount + 0
      BY <3>1, <3>2, <3>3, <3>4, Zenon
    <3>6. Sum(f, {r} \cap P) = r.amount
      <4>1. Sum(f, {r} \cap P) = r.amount + 0
        BY <3>1, <3>5, Zenon
      <4> QED BY <2>2, <4>1
    <3> QED BY <2>1, <2>3, <3>6 DEF Amount
  <2>4. CASE r \notin P
    <3>1. {r} \cap P = {}
      BY <2>4
    <3> HIDE DEF f
    <3>2. Sum(f, {r} \cap P) = 0
      BY <3>1, SumEmpty
    <3> QED BY <2>1, <2>4, <3>2 DEF Amount
  <2> QED BY <2>3, <2>4
<1> QED BY <1>3, <1>4

LEMMA WeighType == ASSUME NEW L, BagOk(L), NEW P PROVE Weigh(L, P) \in Int
<1>1. IsFiniteSet(DOMAIN L \cap P)
  BY FS_Subset DEF BagOk
<1>2. \A r \in DOMAIN L \cap P : Worths(L)[r] \in Int
  BY WorthsType
<1> QED BY <1>1, <1>2, SumType DEF Weigh

Without(M, L, r) == M = L (-) SetToBag({r})

LEMMA BagRemoves ==
  ASSUME NEW L, BagOk(L), NEW r \in DOMAIN L, NEW M, Without(M, L, r)
  PROVE  BagOk(M) /\ DOMAIN M \subseteq DOMAIN L /\ \A P : Weigh(M, P) = Weigh(L, P) - Amount(r, P)
<1> DEFINE N == [x \in DOMAIN L |-> IF x = r THEN L[x] - 1 ELSE L[x]]
           K == {x \in DOMAIN L : N[x] > 0}
<1>1. M = [x \in K |-> N[x]]
  <2>1. DOMAIN SetToBag({r}) = {r} /\ SetToBag({r})[r] = 1
    BY DEF SetToBag
  <2>2. N = [x \in DOMAIN L |-> IF x \in DOMAIN SetToBag({r}) THEN L[x] - SetToBag({r})[x] ELSE L[x]]
    BY <2>1
  <2> QED BY <2>2 DEF (-), Without
<1>2. L = [x \in DOMAIN L |-> L[x]] /\ \A x \in DOMAIN L : L[x] \in Nat \ {0}
  BY DEF BagOk
<1>3. DOMAIN M = K /\ K \subseteq DOMAIN L /\ \A x \in K : M[x] = N[x] /\ N[x] \in Nat \ {0}
  <2>1. \A x \in DOMAIN L : N[x] \in Nat
    BY <1>2
  <2>2. \A x \in K : x \in DOMAIN L /\ N[x] > 0
    OBVIOUS
  <2> HIDE DEF K, N
  <2>3. \A x \in K : N[x] \in Nat \ {0}
    BY <2>1, <2>2
  <2> QED BY <1>1, <2>2, <2>3
<1>4. BagOk(M)
  <2>1. IsFiniteSet(K)
    BY <1>3, FS_Subset DEF BagOk
  <2> HIDE DEF K, N
  <2> QED BY <1>1, <1>3, <2>1 DEF BagOk
<1>5. L = M (+) SetToBag({r})
  <2>1. DOMAIN SetToBag({r}) = {r} /\ SetToBag({r})[r] = 1
    BY DEF SetToBag
  <2>2. K \cup {r} = DOMAIN L
    <3>1. \A x \in DOMAIN L : x # r => N[x] > 0
      BY <1>2
    <3> QED BY <3>1
  <2>3. \A x \in DOMAIN L : (IF x \in K THEN M[x] ELSE 0) + (IF x \in {r} THEN SetToBag({r})[x] ELSE 0) = L[x]
    BY <1>2, <1>3, <2>1
  <2>4. M (+) SetToBag({r})
          = [x \in DOMAIN L |-> (IF x \in K THEN M[x] ELSE 0) + (IF x \in {r} THEN SetToBag({r})[x] ELSE 0)]
    BY <1>3, <2>1, <2>2 DEF (+)
  <2> HIDE DEF K, N
  <2> QED BY <1>2, <2>3, <2>4
<1>6. RowTyped(r) /\ r.amount \in Int
  BY RowAmount DEF BagOk
<1>a. BagOk(M) /\ RowTyped(r)
  BY <1>4, <1>6
<1> HIDE DEF K, N
<1>b. \A P : Weigh(M (+) SetToBag({r}), P) = Weigh(M, P) + Amount(r, P)
  BY <1>a, BagAdds
<1>7. ASSUME NEW P PROVE Weigh(M, P) = Weigh(L, P) - Amount(r, P)
  <2>1. Weigh(L, P) = Weigh(M, P) + Amount(r, P)
    BY <1>5, <1>b, Zenon
  <2>2. Weigh(M, P) \in Int /\ Amount(r, P) \in Int
    BY <1>4, <1>6, WeighType DEF Amount
  <2> QED BY <2>1, <2>2
<1> QED BY <1>3, <1>4, <1>7

LEMMA SumFunctionIs == ASSUME NEW f PROVE SumFunction(f) = Sum(f, DOMAIN f)
  BY DEF Sum, SumFunction

Units == 1..Len(UnitCost)
LineStates == {"OPEN", "DONE", "CANCELLED"}
ReturnEvent == [at : Nat, units : SUBSET Units, cost : Int]
OrderState == [status : LineStates, closed : Nat, out : SUBSET Units, events : SUBSET ReturnEvent]

OrdersOk ==
  /\ order \in [OrderIds -> OrderState]
  /\ \A o \in OrderIds : IsFiniteSet(order[o].events) /\ Cardinality(order[o].out) <= Qty[o]

CategoriesOk ==
  /\ category \in [Categories -> [bucket : Buckets, deleted : BOOLEAN]]
  /\ counted \subseteq Categories

TablesTyped == BagOk(ledger) /\ CategoriesOk /\ OrdersOk /\ onHand \subseteq Units /\ bought \in 0..Len(UnitCost)

LEMMA UnitsFinite ==
  /\ Len(UnitCost) \in Nat /\ IsFiniteSet(Units) /\ Units \subseteq Nat
  /\ \A u \in Units : UnitCost[u] \in Nat
  /\ \A S \in SUBSET Units : IsFiniteSet(S) /\ Cardinality(S) \in Nat
<1>1. Len(UnitCost) \in Nat /\ \A u \in Units : UnitCost[u] \in Nat
  BY ReportsAssumption DEF Units
<1>2. IsFiniteSet(Units) /\ Units \subseteq Nat
  BY <1>1, FS_Interval DEF Units
<1> QED BY <1>1, <1>2, FS_Subset, FS_CardinalityType

\* The first n units there are.
Begins(T, S, n) == T \in SUBSET S /\ Cardinality(T) = n /\ \A t \in T, u \in S \ T : t < u

LEMMA OldestExists ==
  ASSUME NEW S \in SUBSET Units, NEW n \in Nat, n <= Cardinality(S)
  PROVE  \E T : Begins(T, S, n)
<1> DEFINE Bad == {k \in Nat : k <= Cardinality(S) /\ ~ \E T : Begins(T, S, k)}
<1> SUFFICES ASSUME Bad # {} PROVE FALSE
  OBVIOUS
<1>1. PICK k \in Bad : \A j \in Nat : j < k => j \notin Bad
  <2>1. Bad \in SUBSET Nat
    OBVIOUS
  <2> HIDE DEF Bad
  <2> QED BY <2>1, SmallestNumber
<1>2. k # 0
  <2>1. Begins({}, S, 0)
    BY FS_EmptySet DEF Begins
  <2> QED BY <1>1, <2>1
<1>3. k - 1 \in Nat /\ k - 1 < k /\ k - 1 <= Cardinality(S)
  BY <1>1, <1>2, UnitsFinite
<1>4. PICK T : Begins(T, S, k - 1)
  BY <1>1, <1>3
<1>5. IsFiniteSet(S) /\ IsFiniteSet(T) /\ Cardinality(S) \in Nat
  BY <1>4, UnitsFinite, FS_Subset DEF Begins
<1>6. S \ T # {}
  <2> SUFFICES ASSUME S \ T = {} PROVE FALSE
    OBVIOUS
  <2>1. S = T
    BY <1>4 DEF Begins
  <2> QED BY <1>1, <1>3, <1>4, <1>5, <2>1 DEF Begins
<1>7. PICK u \in S \ T : \A v \in Nat : v < u => v \notin S \ T
  <2>1. S \ T \in SUBSET Nat
    BY UnitsFinite
  <2> QED BY <1>6, <2>1, SmallestNumber
<1>8. Cardinality(T \cup {u}) = k
  <2>1. Cardinality(T \cup {u}) = Cardinality(T) + 1
    BY <1>5, <1>7, FS_AddElement
  <2> QED BY <1>1, <1>4, <2>1 DEF Begins
<1>9. Begins(T \cup {u}, S, k)
  <2>1. ASSUME NEW t \in T \cup {u}, NEW v \in S \ (T \cup {u}) PROVE t < v
    <3>1. v \in Nat /\ u \in Nat /\ v \in S \ T /\ v # u
      BY <1>7, <2>1, UnitsFinite
    <3>2. CASE t \in T
      BY <1>4, <3>1, <3>2 DEF Begins
    <3>3. CASE t = u
      BY <1>7, <3>1, <3>3
    <3> QED BY <2>1, <3>2, <3>3
  <2> QED BY <1>4, <1>7, <1>8, <2>1 DEF Begins
<1> QED BY <1>1, <1>9

LEMMA OldestIs ==
  ASSUME NEW S \in SUBSET Units, NEW n \in Nat, n <= Cardinality(S)
  PROVE  Begins(Oldest(S, n), S, n)
<1>1. \E T \in SUBSET S : Cardinality(T) = n /\ \A t \in T, u \in S \ T : t < u
  BY OldestExists DEF Begins
<1> QED BY <1>1 DEF Oldest, Begins

LEMMA CostType == ASSUME NEW S \in SUBSET Units PROVE CostOf(S) \in Nat
<1> DEFINE f == [u \in S |-> UnitCost[u]]
<1>1. IsFiniteSet(S) /\ \A u \in S : f[u] \in Nat
  BY UnitsFinite
<1>2. CostOf(S) = Sum(f, S)
  BY SumFunctionIs DEF CostOf
<1> HIDE DEF f
<1> QED BY <1>1, <1>2, SumType

LEMMA RoundedUp == ASSUME NEW a \in Nat, NEW b \in Nat \ {0} PROVE RoundHalfUp(a, b) \in Nat
<1>1. 2 * a + b \in Nat /\ 2 * b \in Nat \ {0}
  OBVIOUS
<1>2. ASSUME NEW x \in Nat, NEW y \in Nat \ {0} PROVE x \div y \in Nat
  BY <1>2
<1>3. (2 * a + b) \div (2 * b) \in Nat
  BY <1>1, <1>2
<1> QED BY <1>3 DEF RoundHalfUp

LEMMA SoldCostType == ASSUME NEW S \in SUBSET Units PROVE SoldCost(S) \in Nat
<1>1. CostOf(S) \in Nat /\ IsFiniteSet(S) /\ Cardinality(S) \in Nat
  BY CostType, UnitsFinite
<1>2. UnitCostAtSale(S) \in Nat
  <2>1. CASE S = {}
    BY <2>1 DEF UnitCostAtSale
  <2>2. CASE S # {}
    <3>1. Cardinality(S) \in Nat \ {0}
      BY <1>1, <2>2, FS_EmptySet
    <3> QED BY <1>1, <2>2, <3>1, RoundedUp DEF UnitCostAtSale
  <2> QED BY <2>1, <2>2
<1> QED BY <1>1, <1>2, Products DEF SoldCost

-----------------------------------------------------------------------------
\* Rows that are entered are rows of the ledger.

LEMMA RowIsOk ==
  ASSUME NEW at \in DaysAsked, NEW type \in Types, NEW kind \in KindsOf[type], NEW acc \in Accounts, NEW amount \in Int,
         kind \notin OrderKinds
  PROVE  RowTyped(Row(at, type, kind, NoCat, acc, amount))
<1>1. kind \in AllKinds /\ NoMonth \in Int
  BY DEF AllKinds, Types, KindsOf, NoMonth
<1> QED BY <1>1 DEF RowTyped, Row, LedgerRow

LEMMA EnterOk ==
  ASSUME BagOk(ledger), NEW R, IsFiniteSet(R), \A r \in R : RowTyped(r), Enter(R)
  PROVE  BagOk(ledger')
  BY BagPut DEF Enter

LEMMA OneRow == ASSUME NEW r, RowTyped(r), BagOk(ledger), Enter({r}) PROVE BagOk(ledger')
<1>1. IsFiniteSet({r}) /\ \A x \in {r} : RowTyped(x)
  BY FS_Singleton
<1> QED BY <1>1, EnterOk

LEMMA RowsAre == ASSUME BagOk(ledger) PROVE Rows = DOMAIN ledger
  BY DEF Rows, BagToSet

LEMMA InitTyped == ASSUME ReportsInit PROVE TablesTyped
<1>1. BagOk(ledger)
  <2>1. EmptyBag = [e \in {} |-> 1]
    BY DEF EmptyBag, SetToBag
  <2> QED BY <2>1, FS_EmptySet DEF ReportsInit, BagOk
<1>2. CategoriesOk
  <2>1. \A c \in Categories : Bucket0[c] \in Buckets
    <3> TAKE c \in Categories
    <3>1. Kind[c] \in Types /\ Bucket0[c] \in AllowedBuckets(Kind[c])
      BY ReportsAssumption
    <3> QED BY <3>1 DEF AllowedBuckets, Types, Buckets
  <2> QED BY <2>1 DEF ReportsInit, CategoriesOk
<1>3. OrdersOk
  <2>1. IsFiniteSet({}) /\ Cardinality({}) = 0
    BY FS_EmptySet
  <2>2. \A o \in OrderIds : Qty[o] \in Nat
    BY ReportsAssumption
  <2> DEFINE open == [status |-> "OPEN", closed |-> 0, out |-> {}, events |-> {}]
  <2>3. open \in OrderState
    BY DEF OrderState, LineStates
  <2>4. \A o \in OrderIds : order[o] = open
    BY DEF ReportsInit
  <2>5. order \in [OrderIds -> OrderState]
    BY <2>3 DEF ReportsInit
  <2>6. \A o \in OrderIds : order[o].out = {} /\ order[o].events = {}
    BY <2>4
  <2> QED BY <2>1, <2>2, <2>5, <2>6 DEF OrdersOk
<1>4. onHand \subseteq Units /\ bought \in 0..Len(UnitCost)
  BY ReportsAssumption DEF ReportsInit, Units
<1> QED BY <1>1, <1>2, <1>3, <1>4 DEF TablesTyped

\* One row comes into the ledger, and it is not of a transfer.
EntersOne == \E r : RowTyped(r) /\ r.kind \notin TransferKinds /\ Enter({r})

LEMMA OneComes == ASSUME TablesTyped, NEW r, RowTyped(r), r.kind \notin TransferKinds, Enter({r}) PROVE BagOk(ledger') /\ EntersOne
  BY OneRow DEF TablesTyped, EntersOne

LEMMA EntryTyped == ASSUME TablesTyped, NEW e \in Entries, CreateEntry(e) PROVE BagOk(ledger') /\ EntersOne
<1> DEFINE r == Row(e.at, e.type, e.kind, e.cat, e.acc, e.amount)
<1>1. /\ e.at \in DaysAsked /\ e.type \in Types /\ e.kind \in ManualKinds[e.type] /\ e.cat \in Categories \cup {NoCat}
      /\ e.acc \in Accounts /\ e.amount \in Int
  BY ReportsAssumption DEF DaysAsked
<1>2. e.kind \in KindsOf[e.type] /\ e.kind \in AllKinds /\ e.kind \notin OrderKinds /\ NoMonth \in Int
  BY <1>1 DEF Types, KindsOf, AllKinds, ManualKinds, OrderKinds, NoMonth
<1>3. RowTyped(r)
  BY <1>1, <1>2 DEF RowTyped, Row, LedgerRow, CreateEntry
<1>4. r.kind = e.kind /\ e.kind \notin TransferKinds /\ Enter({r})
  BY <1>1 DEF Row, Types, ManualKinds, TransferKinds, CreateEntry
<1> HIDE DEF r
<1> QED BY <1>3, <1>4, OneComes

LEMMA TransferTyped ==
  ASSUME TablesTyped, NEW x \in Transfers, CreateTransfer(x[1], x[2], x[3], x[4]) PROVE BagOk(ledger')
<1>1. x[1] \in Accounts /\ x[2] \in Accounts /\ x[3] \in Int /\ x[4] \in DaysAsked /\ Fee \in Int
  BY ReportsAssumption DEF DaysAsked
<1> DEFINE taken == Row(x[4], "EXPENSE", "TRANSFER_OUT", NoCat, x[1], x[3])
           in == Row(x[4], "INCOME", "TRANSFER_IN", NoCat, x[2], x[3])
           fee == Row(x[4], "EXPENSE", "VARIABLE_COST", NoCat, x[1], Fee)
<1>2. RowTyped(taken) /\ RowTyped(in) /\ RowTyped(fee)
  <2>1. "TRANSFER_OUT" \in KindsOf["EXPENSE"] \ OrderKinds /\ "TRANSFER_IN" \in KindsOf["INCOME"] \ OrderKinds
        /\ "VARIABLE_COST" \in KindsOf["EXPENSE"] \ OrderKinds /\ "EXPENSE" \in Types /\ "INCOME" \in Types
    BY DEF KindsOf, ManualKinds, OrderKinds, Types
  <2> QED BY <1>1, <2>1, RowIsOk
<1>3. Enter({taken, in, fee})
  BY DEF CreateTransfer
<1> HIDE DEF taken, in, fee
<1>4. IsFiniteSet({taken, in, fee})
  <2>1. {taken, in, fee} = ({taken} \cup {in}) \cup {fee}
    OBVIOUS
  <2>2. IsFiniteSet({taken}) /\ IsFiniteSet({in}) /\ IsFiniteSet({fee})
    BY FS_Singleton
  <2>3. IsFiniteSet({taken} \cup {in})
    BY <2>2, FS_Union
  <2>4. IsFiniteSet(({taken} \cup {in}) \cup {fee})
    BY <2>2, <2>3, FS_Union
  <2> QED BY <2>1, <2>4, Zenon
<1> QED BY <1>2, <1>3, <1>4, EnterOk DEF TablesTyped

LEMMA TaxTyped ==
  ASSUME TablesTyped, NEW x \in TaxButtons, MarkPaid(x[1], x[2], x[3], x[4]) PROVE BagOk(ledger') /\ EntersOne
<1> DEFINE r == [Row(x[4], "EXPENSE", "TAX", NoCat, x[2], x[3]) EXCEPT !.period = x[1]]
<1>1. x[1] \in Int /\ x[2] \in Accounts /\ x[3] \in Int /\ x[4] \in DaysAsked
  BY ReportsAssumption DEF DaysAsked
<1>2. RowTyped(r)
  BY <1>1 DEF RowTyped, Row, LedgerRow, Types, KindsOf, AllKinds, ManualKinds, OrderKinds
<1>3. r.kind \notin TransferKinds /\ Enter({r})
  BY DEF Row, TransferKinds, MarkPaid
<1> HIDE DEF r
<1> QED BY <1>2, <1>3, OneComes

LEMMA PurchaseTyped ==
  ASSUME TablesTyped, NEW acc \in Accounts, NEW at \in PurchaseDays, CreatePurchase(acc, at)
  PROVE  BagOk(ledger') /\ EntersOne /\ onHand' \subseteq Units /\ bought' \in 0..Len(UnitCost)
<1>1. bought + 1 \in Units /\ bought' = bought + 1 /\ bought' \in 0..Len(UnitCost)
  BY UnitsFinite DEF CreatePurchase, TablesTyped, Units
<1>2. UnitCost[bought + 1] \in Int
  BY <1>1, UnitsFinite
<1> DEFINE r == Row(at, "EXPENSE", "PURCHASE", NoCat, acc, UnitCost[bought + 1])
<1>3. RowTyped(r)
  <2>1. at \in DaysAsked /\ "EXPENSE" \in Types /\ "PURCHASE" \in KindsOf["EXPENSE"] /\ "PURCHASE" \notin OrderKinds
    BY DEF DaysAsked, Types, KindsOf, OrderKinds
  <2> QED BY <1>2, <2>1, RowIsOk
<1>a. r.kind \notin TransferKinds /\ Enter({r})
  BY DEF Row, TransferKinds, CreatePurchase
<1> HIDE DEF r
<1>4. BagOk(ledger') /\ EntersOne
  BY <1>3, <1>a, OneComes
<1> QED BY <1>1, <1>4 DEF CreatePurchase, TablesTyped

LEMMA LossTyped ==
  ASSUME TablesTyped, NEW acc \in Accounts, NEW at \in WriteOffDays, LoseUnit(acc, at)
  PROVE  BagOk(ledger') /\ EntersOne /\ onHand' \subseteq Units
<1> DEFINE lost == Oldest(onHand, 1)
<1>1. lost \in SUBSET onHand /\ onHand \in SUBSET Units
  <2>1. onHand \in SUBSET Units /\ onHand # {} /\ IsFiniteSet(onHand) /\ Cardinality(onHand) \in Nat
    BY UnitsFinite DEF TablesTyped, LoseUnit
  <2>2. 1 <= Cardinality(onHand)
    BY <2>1, FS_EmptySet
  <2> QED BY <2>1, <2>2, OldestIs DEF Begins
<1>2. CostOf(lost) \in Int
  BY <1>1, CostType
<1> DEFINE r == Row(at, "EXPENSE", "WRITE_OFF", NoCat, acc, CostOf(lost))
<1>3. RowTyped(r)
  <2>1. at \in DaysAsked /\ "EXPENSE" \in Types /\ "WRITE_OFF" \in KindsOf["EXPENSE"] /\ "WRITE_OFF" \notin OrderKinds
    BY DEF DaysAsked, Types, KindsOf, OrderKinds
  <2> HIDE DEF lost
  <2> QED BY <1>2, <2>1, RowIsOk
<1>a. r.kind \notin TransferKinds /\ Enter({r})
  BY DEF Row, TransferKinds, LoseUnit
<1> HIDE DEF r
<1>4. BagOk(ledger') /\ EntersOne
  BY <1>3, <1>a, OneComes
<1> QED BY <1>1, <1>4 DEF LoseUnit, TablesTyped

LEMMA OrderRowIsOk ==
  ASSUME NEW at \in DaysAsked, NEW type \in Types, NEW kind \in KindsOf[type] \cap OrderKinds, NEW acc \in Accounts,
         NEW amount \in Int, NEW o \in OrderIds
  PROVE  RowTyped(OrderRow(at, type, kind, acc, amount, o))
<1>1. kind \in AllKinds /\ NoMonth \in Int /\ o # NoOrder
  BY ReportsAssumption DEF AllKinds, Types, KindsOf, NoMonth
<1> QED BY <1>1 DEF RowTyped, OrderRow, Row, LedgerRow

LEMMA PaymentTyped ==
  ASSUME TablesTyped, NEW o \in OrderIds, NEW x \in Payments, NEW at \in OrderDays, AddPayment(o, x[1], x[2], at)
  PROVE  BagOk(ledger') /\ EntersOne
<1>1. at \in DaysAsked /\ x[1] \in Accounts /\ x[2] \in Int
  BY ReportsAssumption DEF DaysAsked
<1>2. "INCOME" \in Types /\ "ORDER_PAYMENT" \in KindsOf["INCOME"] \cap OrderKinds
  BY DEF Types, KindsOf, OrderKinds
<1> DEFINE r == OrderRow(at, "INCOME", "ORDER_PAYMENT", x[1], x[2], o)
<1>3. RowTyped(r)
  BY <1>1, <1>2, OrderRowIsOk
<1>4. r.kind \notin TransferKinds /\ Enter({r})
  BY DEF OrderRow, Row, TransferKinds, AddPayment
<1> HIDE DEF r
<1> QED BY <1>3, <1>4, OneComes

LEMMA RefundTyped ==
  ASSUME TablesTyped, NEW o \in OrderIds, NEW q \in Nat, NEW x \in Payments, NEW refund \in Int, NEW at \in OrderDays,
         ReturnItem(o, q, refund, x[1], at)
  PROVE  BagOk(ledger') /\ (EntersOne \/ UNCHANGED ledger)
<1>1. at \in DaysAsked /\ x[1] \in Accounts
  BY ReportsAssumption DEF DaysAsked
<1>2. "EXPENSE" \in Types /\ "ORDER_REFUND" \in KindsOf["EXPENSE"] \cap OrderKinds
  BY DEF Types, KindsOf, OrderKinds
<1> DEFINE r == OrderRow(at, "EXPENSE", "ORDER_REFUND", x[1], refund, o)
<1>3. RowTyped(r)
  BY <1>1, <1>2, OrderRowIsOk
<1>a. r.kind \notin TransferKinds /\ (refund > 0 => Enter({r}))
  BY DEF OrderRow, Row, TransferKinds, ReturnItem
<1> HIDE DEF r
<1>4. CASE refund > 0
  BY <1>3, <1>4, <1>a, OneComes
<1>5. CASE ~(refund > 0)
  BY <1>5 DEF ReturnItem, TablesTyped
<1> QED BY <1>4, <1>5

LEMMA DeletionTyped == ASSUME TablesTyped, NEW r \in Rows, DeleteEntry(r) \/ DeletePayment(r) PROVE BagOk(ledger')
<1>1. r \in DOMAIN ledger /\ BagOk(ledger)
  BY RowsAre DEF TablesTyped
<1>2. Without(ledger', ledger, r)
  BY DEF DeleteEntry, DeletePayment, Without
<1> QED BY <1>1, <1>2, BagRemoves

LEMMA MarkTyped == ASSUME TablesTyped, NEW r \in Rows, NEW mark \in Marks, SetAusnMark(r, mark) PROVE BagOk(ledger')
<1> DEFINE M == ledger (-) SetToBag({r})
           s == [r EXCEPT !.mark = mark]
<1>1. r \in DOMAIN ledger /\ BagOk(ledger)
  BY RowsAre DEF TablesTyped
<1>2. Without(M, ledger, r)
  BY DEF Without
<1>3. BagOk(M)
  BY <1>1, <1>2, BagRemoves
<1>4. RowTyped(s)
  BY <1>1 DEF BagOk, RowTyped, LedgerRow
<1>5. ledger' = M (+) SetToBag({s})
  BY DEF SetAusnMark
<1> HIDE DEF M, s
<1> QED BY <1>3, <1>4, <1>5, BagAdds

\* The orders, when one of them becomes x.
LEMMA OneOrder ==
  ASSUME OrdersOk, NEW o \in OrderIds, NEW x \in OrderState, IsFiniteSet(x.events), Cardinality(x.out) <= Qty[o],
         order' = [order EXCEPT ![o] = x]
  PROVE  OrdersOk'
<1>1. order' \in [OrderIds -> OrderState]
  BY DEF OrdersOk
<1>2. \A p \in OrderIds : order'[p] = IF p = o THEN x ELSE order[p]
  BY DEF OrdersOk
<1> QED BY <1>1, <1>2 DEF OrdersOk

\* Goods go out: n units of those on hand, and as many fewer are there.
LEMMA GoodsOut ==
  ASSUME TablesTyped, NEW o \in OrderIds, NEW n \in Nat, n <= Cardinality(onHand), Cardinality(order[o].out) + n <= Qty[o]
  PROVE  /\ order[o].out \cup Oldest(onHand, n) \in SUBSET Units
         /\ Cardinality(order[o].out \cup Oldest(onHand, n)) <= Qty[o]
<1>1. order[o].out \in SUBSET Units /\ onHand \in SUBSET Units
  BY DEF TablesTyped, OrdersOk, OrderState
<1>2. Begins(Oldest(onHand, n), onHand, n)
  BY <1>1, OldestIs
<1> DEFINE T == Oldest(onHand, n)
           S == order[o].out
<1>3. T \in SUBSET Units /\ Cardinality(T) = n
  BY <1>1, <1>2 DEF Begins
<1> HIDE DEF T
<1>4. IsFiniteSet(S) /\ IsFiniteSet(T) /\ IsFiniteSet(S \cap T) /\ Cardinality(S) \in Nat /\ Cardinality(S \cap T) \in Nat
  BY <1>1, <1>3, UnitsFinite, FS_Subset
<1>5. Cardinality(S \cup T) = Cardinality(S) + Cardinality(T) - Cardinality(S \cap T)
  BY <1>4, FS_Union
<1>6. Cardinality(S \cup T) <= Qty[o]
  <2>1. Qty[o] \in Nat
    BY ReportsAssumption
  <2> QED BY <1>3, <1>4, <1>5, <2>1
<1> QED BY <1>1, <1>3, <1>6 DEF T

LEMMA ShipTyped ==
  ASSUME TablesTyped, NEW o \in OrderIds, NEW q \in 1..MaxShipped, Ship(o, q)
  PROVE  OrdersOk' /\ onHand' \subseteq Units
<1> DEFINE x == [order[o] EXCEPT !.out = @ \cup Oldest(onHand, q)]
<1>1. q \in Nat
  BY ReportsAssumption
<1>2. order[o] \in OrderState /\ IsFiniteSet(order[o].events)
  BY DEF TablesTyped, OrdersOk
<1>3. order[o].out \cup Oldest(onHand, q) \in SUBSET Units /\ Cardinality(order[o].out \cup Oldest(onHand, q)) <= Qty[o]
  BY <1>1, GoodsOut DEF Ship
<1>4. x \in OrderState /\ x.out = order[o].out \cup Oldest(onHand, q) /\ x.events = order[o].events
  BY <1>2, <1>3 DEF OrderState
<1>5. order' = [order EXCEPT ![o] = x]
  BY DEF Ship
<1> HIDE DEF x
<1>6. OrdersOk'
  BY <1>2, <1>3, <1>4, <1>5, OneOrder DEF TablesTyped
<1> QED BY <1>6 DEF Ship, TablesTyped

LEMMA FinalizeTyped ==
  ASSUME TablesTyped, NEW o \in OrderIds, NEW at \in OrderDays, Finalize(o, at)
  PROVE  OrdersOk' /\ onHand' \subseteq Units
<1> DEFINE rest == Qty[o] - Cardinality(order[o].out)
           x == [order[o] EXCEPT !.status = "DONE", !.closed = at, !.out = @ \cup Oldest(onHand, rest)]
<1>1. rest \in Nat /\ Cardinality(order[o].out) + rest <= Qty[o]
  <2>1. order[o].out \in SUBSET Units /\ Cardinality(order[o].out) <= Qty[o] /\ Qty[o] \in Nat
    BY ReportsAssumption DEF TablesTyped, OrdersOk, OrderState
  <2>2. Cardinality(order[o].out) \in Nat
    BY <2>1, UnitsFinite
  <2> QED BY <2>1, <2>2
<1>2. order[o] \in OrderState /\ IsFiniteSet(order[o].events) /\ at \in Nat
  BY ReportsAssumption DEF TablesTyped, OrdersOk, DaysAsked
<1>3. order' = [order EXCEPT ![o] = x]
  BY DEF Finalize
<1>4. rest <= Cardinality(onHand)
  <2>1. Cardinality(onHand) \in Nat
    BY UnitsFinite DEF TablesTyped
  <2> QED BY <1>1, <2>1 DEF Finalize
<1>5. onHand' \subseteq Units
  BY DEF Finalize, TablesTyped
<1> HIDE DEF rest
<1>6. order[o].out \cup Oldest(onHand, rest) \in SUBSET Units
      /\ Cardinality(order[o].out \cup Oldest(onHand, rest)) <= Qty[o]
  BY <1>1, <1>4, GoodsOut
<1>7. x \in OrderState /\ x.out = order[o].out \cup Oldest(onHand, rest) /\ x.events = order[o].events
  BY <1>2, <1>6 DEF OrderState, LineStates
<1> HIDE DEF x
<1>8. OrdersOk'
  BY <1>2, <1>3, <1>6, <1>7, OneOrder DEF TablesTyped
<1> QED BY <1>5, <1>8

LEMMA ReturnTyped ==
  ASSUME TablesTyped, NEW o \in OrderIds, NEW q, NEW refund, NEW acc, NEW at \in OrderDays, ReturnItem(o, q, refund, acc, at)
  PROVE  OrdersOk' /\ onHand' \subseteq Units
<1> DEFINE back == Newest(order[o].out, q)
           cost == SoldCost(order[o].out) - SoldCost(order[o].out \ back)
           event == [at |-> at, units |-> back, cost |-> cost]
           x == [order[o] EXCEPT !.out = @ \ back, !.events = @ \cup {event}]
<1>1. order[o] \in OrderState /\ IsFiniteSet(order[o].events) /\ at \in Nat /\ order[o].out \in SUBSET Units
  BY ReportsAssumption DEF TablesTyped, OrdersOk, OrderState, DaysAsked
<1>2. back \in SUBSET order[o].out
  BY DEF Newest
<1>3. order' = [order EXCEPT ![o] = x] /\ onHand' = onHand \cup back
  BY DEF ReturnItem
<1>a. cost \in Int
  <2>1. order[o].out \ back \in SUBSET Units
    BY <1>1
  <2> QED BY <1>1, <2>1, SoldCostType
<1> HIDE DEF back, cost
<1>4. x \in OrderState /\ x.out = order[o].out \ back /\ x.events = order[o].events \cup {event}
  <2>1. event \in ReturnEvent
    BY <1>1, <1>2, <1>a DEF ReturnEvent
  <2> QED BY <1>1, <2>1 DEF OrderState
<1>5. IsFiniteSet(x.events)
  <2>1. IsFiniteSet(order[o].events \cup {event})
    BY <1>1, FS_AddElement
  <2> QED BY <1>4, <2>1, Zenon
<1>6. Cardinality(x.out) <= Qty[o]
  <2>1. IsFiniteSet(order[o].out) /\ Cardinality(order[o].out) \in Nat /\ Cardinality(order[o].out) <= Qty[o] /\ Qty[o] \in Nat
    BY <1>1, UnitsFinite, ReportsAssumption DEF TablesTyped, OrdersOk
  <2>2. x.out \in SUBSET order[o].out
    BY <1>4
  <2>3. Cardinality(x.out) <= Cardinality(order[o].out) /\ Cardinality(x.out) \in Nat
    BY <2>1, <2>2, FS_Subset, FS_CardinalityType
  <2> QED BY <2>1, <2>3
<1> HIDE DEF x
<1>7. OrdersOk'
  BY <1>3, <1>4, <1>5, <1>6, OneOrder DEF TablesTyped
<1> QED BY <1>1, <1>2, <1>3, <1>7 DEF TablesTyped

LEMMA ReversalTyped ==
  ASSUME TablesTyped, NEW o \in OrderIds, NEW status \in LineStates, NEW closed \in Nat, ReverseFinalization(o, status, closed)
  PROVE  OrdersOk' /\ onHand' \subseteq Units
<1> DEFINE x == [status |-> status, closed |-> closed, out |-> {}, events |-> {}]
<1>1. x \in OrderState /\ IsFiniteSet(x.events) /\ Cardinality(x.out) <= Qty[o]
  BY FS_EmptySet, ReportsAssumption DEF OrderState
<1>2. order' = [order EXCEPT ![o] = x] /\ onHand' = onHand \cup order[o].out /\ order[o].out \in SUBSET Units
  BY DEF ReverseFinalization, TablesTyped, OrdersOk, OrderState
<1> HIDE DEF x
<1>3. OrdersOk'
  BY <1>1, <1>2, OneOrder DEF TablesTyped
<1> QED BY <1>2, <1>3 DEF TablesTyped

LEMMA CategoryTyped ==
  ASSUME TablesTyped, NEW c \in Removals, BeginRemoveCategory(c) \/ RemoveCategory(c)
  PROVE  CategoriesOk'
<1>1. c \in Categories
  BY ReportsAssumption
<1>2. CASE BeginRemoveCategory(c)
  BY <1>1, <1>2 DEF BeginRemoveCategory, TablesTyped, CategoriesOk
<1>3. CASE RemoveCategory(c)
  BY <1>1, <1>3 DEF RemoveCategory, TablesTyped, CategoriesOk
<1> QED BY <1>2, <1>3

LEMMA BucketTyped ==
  ASSUME TablesTyped, NEW x \in Rebuckets, UpdateBucket(x[1], x[2])
  PROVE  CategoriesOk'
<1>1. x[1] \in Categories /\ x[2] \in Buckets
  BY ReportsAssumption
<1> QED BY <1>1 DEF UpdateBucket, TablesTyped, CategoriesOk

LEMMA OrderStepTyped ==
  ASSUME TablesTyped, NEW o \in OrderIds, NEW at \in OrderDays, OrderStep(o, at)
  PROVE  TablesTyped'
<1>1. CASE \E x \in Payments : AddPayment(o, x[1], x[2], at)
  <2>1. PICK x \in Payments : AddPayment(o, x[1], x[2], at)
    BY <1>1
  <2>2. BagOk(ledger')
    BY <2>1, PaymentTyped
  <2> QED BY <2>1, <2>2 DEF AddPayment, TablesTyped, CategoriesOk, OrdersOk
<1>2. CASE Finalize(o, at)
  <2>1. OrdersOk' /\ onHand' \subseteq Units
    BY <1>2, FinalizeTyped
  <2> QED BY <1>2, <2>1 DEF Finalize, TablesTyped, CategoriesOk
<1>3. CASE \E q \in 1..Qty[o], x \in Payments, refunded \in BOOLEAN :
             ReturnItem(o, q, IF refunded THEN x[2] ELSE 0, x[1], at)
  <2>1. PICK q \in 1..Qty[o], x \in Payments, refunded \in BOOLEAN :
               ReturnItem(o, q, IF refunded THEN x[2] ELSE 0, x[1], at)
    BY <1>3
  <2> DEFINE refund == IF refunded THEN x[2] ELSE 0
  <2>2. q \in Nat /\ refund \in Int
    BY ReportsAssumption
  <2>3. ReturnItem(o, q, refund, x[1], at)
    BY <2>1
  <2> HIDE DEF refund
  <2>4. BagOk(ledger')
    BY <2>2, <2>3, RefundTyped
  <2>5. OrdersOk' /\ onHand' \subseteq Units
    BY <2>3, ReturnTyped
  <2> QED BY <2>3, <2>4, <2>5 DEF ReturnItem, TablesTyped, CategoriesOk
<1> QED BY <1>1, <1>2, <1>3 DEF OrderStep

LEMMA NextTyped == ASSUME TablesTyped, [ReportsNext]_reportsVars PROVE TablesTyped'
<1>1. CASE \E e \in Entries : CreateEntry(e)
  <2>1. PICK e \in Entries : CreateEntry(e)
    BY <1>1
  <2>2. BagOk(ledger')
    BY <2>1, EntryTyped
  <2> QED BY <2>1, <2>2 DEF CreateEntry, TablesTyped, CategoriesOk, OrdersOk
<1>2. CASE \E x \in Transfers : CreateTransfer(x[1], x[2], x[3], x[4])
  <2>1. PICK x \in Transfers : CreateTransfer(x[1], x[2], x[3], x[4])
    BY <1>2
  <2>2. BagOk(ledger')
    BY <2>1, TransferTyped
  <2> QED BY <2>1, <2>2 DEF CreateTransfer, TablesTyped, CategoriesOk, OrdersOk
<1>3. CASE \E x \in TaxButtons : MarkPaid(x[1], x[2], x[3], x[4])
  <2>1. PICK x \in TaxButtons : MarkPaid(x[1], x[2], x[3], x[4])
    BY <1>3
  <2>2. BagOk(ledger')
    BY <2>1, TaxTyped
  <2> QED BY <2>1, <2>2 DEF MarkPaid, TablesTyped, CategoriesOk, OrdersOk
<1>4. CASE \E a \in Accounts \ Cash, at \in PurchaseDays : CreatePurchase(a, at)
  <2>1. PICK a \in Accounts \ Cash, at \in PurchaseDays : CreatePurchase(a, at)
    BY <1>4
  <2>2. BagOk(ledger') /\ onHand' \subseteq Units /\ bought' \in 0..Len(UnitCost)
    BY <2>1, PurchaseTyped
  <2> QED BY <2>1, <2>2 DEF CreatePurchase, TablesTyped, CategoriesOk, OrdersOk
<1>5. CASE \E a \in Accounts \ Cash, at \in WriteOffDays : LoseUnit(a, at)
  <2>1. PICK a \in Accounts \ Cash, at \in WriteOffDays : LoseUnit(a, at)
    BY <1>5
  <2>2. BagOk(ledger') /\ onHand' \subseteq Units
    BY <2>1, LossTyped
  <2> QED BY <2>1, <2>2 DEF LoseUnit, TablesTyped, CategoriesOk, OrdersOk
<1>6. CASE \E o \in OrderIds, at \in OrderDays : OrderStep(o, at)
  BY <1>6, OrderStepTyped
<1>7. CASE \E o \in OrderIds, q \in 1..MaxShipped : Ship(o, q)
  <2>1. PICK o \in OrderIds, q \in 1..MaxShipped : Ship(o, q)
    BY <1>7
  <2>2. OrdersOk' /\ onHand' \subseteq Units
    BY <2>1, ShipTyped
  <2> QED BY <2>1, <2>2 DEF Ship, TablesTyped, CategoriesOk
<1>8. CASE \E o \in OrderIds : Cancel(o) \/ Reopen(o)
  <2>1. PICK o \in OrderIds : Cancel(o) \/ Reopen(o)
    BY <1>8
  <2>2. order[o].closed \in Nat /\ "CANCELLED" \in LineStates /\ "OPEN" \in LineStates
    BY DEF TablesTyped, OrdersOk, OrderState, LineStates
  <2>3. PICK status \in LineStates, closed \in Nat : ReverseFinalization(o, status, closed)
    BY <2>1, <2>2 DEF Cancel, Reopen
  <2>4. OrdersOk' /\ onHand' \subseteq Units
    BY <2>3, ReversalTyped
  <2> QED BY <2>3, <2>4 DEF ReverseFinalization, TablesTyped, CategoriesOk
<1>9. CASE \E r \in Rows : DeleteEntry(r) \/ DeletePayment(r)
  <2>1. PICK r \in Rows : DeleteEntry(r) \/ DeletePayment(r)
    BY <1>9
  <2>2. BagOk(ledger')
    BY <2>1, DeletionTyped
  <2> QED BY <2>1, <2>2 DEF DeleteEntry, DeletePayment, TablesTyped, CategoriesOk, OrdersOk
<1>10. CASE \E r \in Rows, mark \in Marks : SetAusnMark(r, mark)
  <2>1. PICK r \in Rows, mark \in Marks : SetAusnMark(r, mark)
    BY <1>10
  <2>2. BagOk(ledger')
    BY <2>1, MarkTyped
  <2> QED BY <2>1, <2>2 DEF SetAusnMark, TablesTyped, CategoriesOk, OrdersOk
<1>11. CASE \E c \in Removals : BeginRemoveCategory(c) \/ RemoveCategory(c)
  <2>1. PICK c \in Removals : BeginRemoveCategory(c) \/ RemoveCategory(c)
    BY <1>11
  <2>2. CategoriesOk'
    BY <2>1, CategoryTyped
  <2> QED BY <2>1, <2>2 DEF BeginRemoveCategory, RemoveCategory, TablesTyped, OrdersOk
<1>12. CASE \E x \in Rebuckets : UpdateBucket(x[1], x[2])
  <2>1. PICK x \in Rebuckets : UpdateBucket(x[1], x[2])
    BY <1>12
  <2>2. CategoriesOk'
    BY <2>1, BucketTyped
  <2> QED BY <2>1, <2>2 DEF UpdateBucket, TablesTyped, OrdersOk
<1>13. CASE UNCHANGED reportsVars
  BY <1>13 DEF reportsVars, TablesTyped, CategoriesOk, OrdersOk
<1> QED
  BY <1>1, <1>2, <1>3, <1>4, <1>5, <1>6, <1>7, <1>8, <1>9, <1>10, <1>11, <1>12, <1>13 DEF ReportsNext

\* The tables are well-typed, always: what every theorem about the reports rests on.
LEMMA TypedAlways == ReportsSpec => []TablesTyped
<1>1. ReportsInit => TablesTyped
  BY InitTyped
<1>2. TablesTyped /\ [ReportsNext]_reportsVars => TablesTyped'
  BY NextTyped
<1> QED BY <1>1, <1>2, PTL DEF ReportsSpec

-----------------------------------------------------------------------------
(***************************************************************************)
(* Sums over the rows of the ledger.                                       *)
(***************************************************************************)
LEMMA RowSumIs ==
  ASSUME TablesTyped, NEW S \in SUBSET Rows
  PROVE  /\ IsFiniteSet(S) /\ \A r \in S : Worths(ledger)[r] \in Int
         /\ RowSum(S) = Sum(Worths(ledger), S) /\ RowSum(S) \in Int
<1> DEFINE f == [r \in S |-> ledger[r] * r.amount]
<1>1. BagOk(ledger) /\ S \subseteq DOMAIN ledger
  BY RowsAre DEF TablesTyped
<1>2. IsFiniteSet(S) /\ \A r \in S : Worths(ledger)[r] \in Int /\ f[r] = Worths(ledger)[r]
  <2>1. IsFiniteSet(S)
    BY <1>1, FS_Subset DEF BagOk
  <2>2. \A r \in S : Worths(ledger)[r] \in Int /\ Worths(ledger)[r] = ledger[r] * r.amount
    BY <1>1, WorthsType
  <2> QED BY <2>1, <2>2
<1>3. RowSum(S) = Sum(f, S)
  BY SumFunctionIs DEF RowSum
<1> HIDE DEF f
<1>4. Sum(f, S) = Sum(Worths(ledger), S)
  BY <1>2, SumSame
<1>5. Sum(Worths(ledger), S) \in Int
  BY <1>2, SumType
<1> QED BY <1>2, <1>3, <1>4, <1>5

LEMMA RowSumUnion ==
  ASSUME TablesTyped, NEW S \in SUBSET Rows, NEW T \in SUBSET Rows, S \cap T = {}
  PROVE  RowSum(S \cup T) = RowSum(S) + RowSum(T)
<1>1. S \cup T \in SUBSET Rows
  OBVIOUS
<1>2. Sum(Worths(ledger), S \cup T) = Sum(Worths(ledger), S) + Sum(Worths(ledger), T)
  <2>1. IsFiniteSet(S) /\ IsFiniteSet(T) /\ \A r \in S \cup T : Worths(ledger)[r] \in Int
    BY RowSumIs
  <2> QED BY <2>1, SumUnion
<1> QED BY <1>1, <1>2, RowSumIs

LEMMA InRowsType == ASSUME TablesTyped, NEW S \in SUBSET Rows, NEW type PROVE InRows(S, type) \in Int
<1>1. {r \in S : r.type = type} \in SUBSET Rows
  OBVIOUS
<1> QED BY <1>1, RowSumIs DEF InRows

LEMMA DaysAre == DaysAsked \subseteq Nat /\ IsFiniteSet(DaysAsked) /\ DaysAsked # {}
  BY ReportsAssumption

LEMMA EntryFacts ==
  ASSUME TablesTyped, NEW r \in Rows
  PROVE  /\ RowTyped(r) /\ r.kind \in AllKinds /\ r.type \in Types /\ r.at \in Int /\ r.amount \in Int
         /\ LiveCategory(r.cat) => r.cat \in Categories /\ r.kind \in ManualKinds[r.type] /\ category[r.cat].bucket \in Buckets
<1>1. RowTyped(r)
  BY RowsAre DEF TablesTyped, BagOk
<1>2. r.kind \in AllKinds /\ r.type \in Types /\ r.at \in Int /\ r.amount \in Int /\ r.cat \in Categories \cup {NoCat}
  <2>1. r \in LedgerRow
    BY <1>1 DEF RowTyped
  <2>2. r.at \in DaysAsked /\ r.kind \in AllKinds /\ r.type \in Types /\ r.amount \in Int /\ r.cat \in Categories \cup {NoCat}
    BY <2>1 DEF LedgerRow
  <2>3. r.at \in Nat
    BY <2>2, DaysAre
  <2>4. r.at \in Int
    BY <2>3
  <2> QED BY <2>2, <2>4
<1>3. r.cat # NoCat => r.kind \in ManualKinds[r.type]
  BY <1>1 DEF RowTyped
<1>4. \A c \in Categories : category[c].bucket \in Buckets
  BY DEF TablesTyped, CategoriesOk
<1> QED BY <1>1, <1>2, <1>3, <1>4 DEF LiveCategory

LEMMA ManualRow == ASSUME NEW type \in Types, NEW kind \in ManualKinds[type] PROVE kind \notin OffPnl /\ kind \notin TransferKinds
  BY DEF Types, ManualKinds, OffPnl, TransferKinds

(***************************************************************************)
(* DrillDownMatches.                                                       *)
(***************************************************************************)
LEMMA BucketOfKind ==
  ASSUME NEW kind \in AllKinds \ TransferKinds, NEW b \in {"PURCHASES", "FIXED", "VARIABLE", "CAPITAL", "OTHER"}
  PROVE  /\ kind \in KindsForBucket(b) <=> BucketForSystemKind(kind) = b
         /\ kind \in KindsForBucket(b) => kind \notin OffPnl
<1>1. kind \in {"CAPITAL_IN", "OTHER", "SALARY", "TAX", "FIXED_COST", "VARIABLE_COST", "NON_OP", "CAPITAL_OUT",
                "ORDER_PAYMENT", "ORDER_REFUND", "PURCHASE", "WRITE_OFF"}
  BY DEF AllKinds, KindsOf, ManualKinds, TransferKinds
<1>2. BucketForSystemKind(kind) =
        CASE kind \in {"ORDER_PAYMENT", "ORDER_REFUND"} -> "REVENUE" [] kind = "WRITE_OFF" -> "COGS"
          [] kind = "PURCHASE" -> "PURCHASES" [] kind \in {"CAPITAL_IN", "CAPITAL_OUT"} -> "CAPITAL"
          [] kind = "TAX" -> "TAX" [] kind \in {"FIXED_COST", "SALARY"} -> "FIXED" [] kind = "VARIABLE_COST" -> "VARIABLE"
          [] kind \in {"OTHER", "NON_OP"} -> "OTHER"
  BY <1>1 DEF BucketForSystemKind
<1> QED BY <1>1, <1>2 DEF KindsForBucket, OffPnl, TransferKinds

LEMMA TileIsBucket ==
  ASSUME TablesTyped, NEW p, NEW b \in {"PURCHASES", "FIXED", "VARIABLE", "CAPITAL", "OTHER"}
  PROVE  BucketTile(b, p) = {r \in PnlRows(p) : BucketOf(r) = b}
<1> SUFFICES ASSUME NEW r \in Rows, During(r.at, p)
             PROVE  r \in BucketTile(b, p) <=> r.kind \notin OffPnl /\ BucketOf(r) # "TAX" /\ BucketOf(r) = b
  BY DEF BucketTile, PnlRows
<1>1. CASE LiveCategory(r.cat)
  <2>1. r.kind \notin OffPnl /\ r.kind \notin TransferKinds
    BY <1>1, EntryFacts, ManualRow
  <2> QED BY <1>1, <2>1 DEF BucketTile, BucketOf
<1>2. CASE ~LiveCategory(r.cat)
  <2>1. BucketOf(r) = BucketForSystemKind(r.kind) /\ r.kind \in AllKinds
    BY <1>2, EntryFacts DEF BucketOf
  <2>2. CASE r.kind \in TransferKinds
    BY <2>2 DEF BucketTile, OffPnl
  <2>3. CASE r.kind \notin TransferKinds
    BY <1>2, <2>1, <2>3, BucketOfKind DEF BucketTile
  <2> QED BY <2>2, <2>3
<1> QED BY <1>1, <1>2

LEMMA TileIsGroup ==
  ASSUME TablesTyped, NEW m, NEW g
  PROVE  {r \in GroupTile(Group(m, g), MonthPeriod(m)) : r.type = "EXPENSE"} = {r \in ExpenseRows(m) : GroupOf(r) = g}
<1> DEFINE rows == {r \in ExpenseRows(m) : GroupOf(r) = g}
           ids == {r.cat : r \in {r \in rows : LiveCategory(r.cat)}}
           kinds == {r.kind : r \in {r \in rows : ~LiveCategory(r.cat)}}
<1>1. Group(m, g).categoryIds = ids /\ Group(m, g).uncategorizedKinds = kinds
  BY DEF Group
<1>2. \A r \in rows : /\ r \in Rows /\ During(r.at, MonthPeriod(m)) /\ r.kind \notin OffPnl /\ BucketOf(r) # "TAX"
                      /\ r.type = "EXPENSE" /\ BucketOf(r) \in ExpenseGroupBuckets /\ GroupOf(r) = g
  BY DEF ExpenseRows, PnlRows
<1>3. ASSUME NEW r \in rows PROVE r \in GroupTile(Group(m, g), MonthPeriod(m)) /\ r.type = "EXPENSE"
  <2>1. r \in Rows /\ During(r.at, MonthPeriod(m)) /\ r.kind \notin TransferKinds /\ r.type = "EXPENSE"
    BY <1>2 DEF OffPnl
  <2>2. r.cat \in ids \/ (~LiveCategory(r.cat) /\ r.kind \in kinds)
    OBVIOUS
  <2> HIDE DEF ids, kinds, rows
  <2> QED BY <1>1, <2>1, <2>2 DEF GroupTile
<1>4. ASSUME NEW r \in GroupTile(Group(m, g), MonthPeriod(m)), r.type = "EXPENSE" PROVE r \in rows
  <2>1. r \in Rows /\ During(r.at, MonthPeriod(m)) /\ r.kind \notin TransferKinds
        /\ (r.cat \in ids \/ (~LiveCategory(r.cat) /\ r.kind \in kinds))
    BY <1>1 DEF GroupTile
  <2>2. CASE r.cat \in ids
    <3>1. PICK s \in rows : LiveCategory(s.cat) /\ s.cat = r.cat
      BY <2>2
    <3>2. r.kind \notin OffPnl
      BY <2>1, <3>1, EntryFacts, ManualRow
    <3>3. BucketOf(r) = BucketOf(s) /\ GroupOf(r) = GroupOf(s)
      BY <3>1 DEF BucketOf, GroupOf
    <3>4. s \in Rows /\ BucketOf(s) # "TAX" /\ BucketOf(s) \in ExpenseGroupBuckets /\ GroupOf(s) = g
      BY <1>2
    <3> QED BY <1>4, <2>1, <3>2, <3>3, <3>4 DEF ExpenseRows, PnlRows
  <2>3. CASE ~LiveCategory(r.cat) /\ r.kind \in kinds
    <3>1. PICK s \in rows : ~LiveCategory(s.cat) /\ s.kind = r.kind
      BY <2>3
    <3>2. BucketOf(r) = BucketOf(s) /\ GroupOf(r) = GroupOf(s)
      BY <2>3, <3>1 DEF BucketOf, GroupOf
    <3>3. s.kind \notin OffPnl /\ BucketOf(s) # "TAX" /\ BucketOf(s) \in ExpenseGroupBuckets /\ GroupOf(s) = g
      BY <1>2
    <3> QED BY <1>4, <2>1, <3>1, <3>2, <3>3 DEF ExpenseRows, PnlRows
  <2> QED BY <2>1, <2>2, <2>3
<1> QED
  <2>1. \A r \in GroupTile(Group(m, g), MonthPeriod(m)) : r.type = "EXPENSE" => r \in rows
    BY <1>4
  <2>2. \A r \in rows : r \in GroupTile(Group(m, g), MonthPeriod(m)) /\ r.type = "EXPENSE"
    BY <1>3
  <2> HIDE DEF rows
  <2>3. {r \in GroupTile(Group(m, g), MonthPeriod(m)) : r.type = "EXPENSE"} = rows
    BY <2>1, <2>2
  <2> QED BY <2>3 DEF rows

LEMMA DrillDown == ASSUME TablesTyped PROVE DrillDownMatches
<1> SUFFICES ASSUME NEW m \in ReportMonths
             PROVE  LET p == MonthPeriod(m) income == Income(p) expense == Expense(p, p)
                    IN /\ \A b \in Buckets \ {"REVENUE", "COGS", "TAX"} :
                            /\ InRows(BucketTile(b, p), "INCOME") = income[b]
                            /\ InRows(BucketTile(b, p), "EXPENSE") = expense[b]
                       /\ \A g \in GroupKeys(m) :
                            InRows(GroupTile(Group(m, g), p), "EXPENSE") + TaxIn(m, g) = Group(m, g).amount
  BY DEF DrillDownMatches
<1> DEFINE p == MonthPeriod(m)
<1>1. ASSUME NEW b \in Buckets \ {"REVENUE", "COGS", "TAX"}
      PROVE  InRows(BucketTile(b, p), "INCOME") = Income(p)[b] /\ InRows(BucketTile(b, p), "EXPENSE") = Expense(p, p)[b]
  <2> DEFINE rows == {r \in PnlRows(p) : BucketOf(r) = b}
  <2>1. b \in {"PURCHASES", "FIXED", "VARIABLE", "CAPITAL", "OTHER"} /\ b \in Buckets
    BY DEF Buckets
  <2>2. BucketTile(b, p) = rows
    BY <2>1, TileIsBucket
  <2>3. rows \in SUBSET Rows
    BY DEF PnlRows
  <2>4. Income(p)[b] = InRows(rows, "INCOME") + 0
    BY <2>1 DEF Income
  <2>5. Expense(p, p)[b] = InRows(rows, "EXPENSE") + 0
    BY <2>1 DEF Expense
  <2> HIDE DEF rows, p
  <2>6. InRows(rows, "INCOME") \in Int /\ InRows(rows, "EXPENSE") \in Int
    BY <2>3, InRowsType
  <2> QED BY <2>2, <2>4, <2>5, <2>6
<1>2. ASSUME NEW g \in GroupKeys(m)
      PROVE  InRows(GroupTile(Group(m, g), p), "EXPENSE") + TaxIn(m, g) = Group(m, g).amount
  <2>1. Group(m, g).amount = RowSum({r \in ExpenseRows(m) : GroupOf(r) = g}) + TaxIn(m, g)
    BY DEF Group
  <2>2. InRows(GroupTile(Group(m, g), p), "EXPENSE") = RowSum({r \in ExpenseRows(m) : GroupOf(r) = g})
    BY TileIsGroup, Zenon DEF InRows
  <2> QED BY <2>1, <2>2
<1> QED BY <1>1, <1>2

\* Each number of the P&L report and of the month summary is the sum of the
\* operations that TransactionService lists when its tile is opened: the filters
\* of the list and the sums of the reports take the same rows.
THEOREM TilesSumToTheirNumbers == ReportsSpec => []DrillDownMatches
<1>1. TablesTyped => DrillDownMatches
  BY DrillDown
<1> QED BY <1>1, TypedAlways, PTL

-----------------------------------------------------------------------------
(***************************************************************************)
(* The calendar.                                                           *)
(***************************************************************************)
LEMMA FirstDays ==
  /\ \A k \in 1..12 : FirstOf[k] \in 1..335
  /\ FirstOf[1] = 1 /\ FirstOf[12] = 335
  /\ \A k \in 1..11 : FirstOf[k + 1] - FirstOf[k] \in 28..31
  /\ \A j, k \in 1..12 : j < k => FirstOf[j] < FirstOf[k]
<1> DEFINE F(k) == CASE k = 1 -> 1 [] k = 2 -> 32 [] k = 3 -> 60 [] k = 4 -> 91 [] k = 5 -> 121 [] k = 6 -> 152
                     [] k = 7 -> 182 [] k = 8 -> 213 [] k = 9 -> 244 [] k = 10 -> 274 [] k = 11 -> 305 [] k = 12 -> 335
<1>1. \A k \in 1..12 : FirstOf[k] = F(k)
  BY DEF FirstOf
<1> QED BY <1>1

LEMMA FirstDay == ASSUME NEW k \in 1..12 PROVE FirstOf[k] \in 1..335 /\ FirstOf[k] \in Int
<1>1. FirstOf[k] \in 1..335
  BY FirstDays
<1> QED BY <1>1

LEMMA NextFirst == ASSUME NEW k \in 1..11 PROVE FirstOf[k + 1] - FirstOf[k] \in 28..31
  BY FirstDays

LEMMA MonthParts ==
  ASSUME NEW m \in Int
  PROVE  /\ m \div 12 \in Int /\ m % 12 \in 0..11 /\ m = 12 * (m \div 12) + (m % 12)
         /\ MonthStart(m) = 365 * (m \div 12) + FirstOf[(m % 12) + 1] /\ MonthStart(m) \in Int
<1>1. m \div 12 \in Int /\ m % 12 \in 0..11 /\ m = 12 * (m \div 12) + (m % 12)
  OBVIOUS
<1>2. FirstOf[(m % 12) + 1] \in Int
  <2>1. (m % 12) + 1 \in 1..12
    BY <1>1
  <2> QED BY <2>1, FirstDay
<1> QED BY <1>1, <1>2 DEF MonthStart

LEMMA StartOf ==
  ASSUME NEW y \in Int, NEW j \in 0..11
  PROVE  MonthStart(12 * y + j) = 365 * y + FirstOf[j + 1]
<1>1. (12 * y + j) \div 12 = y /\ (12 * y + j) % 12 = j
  OBVIOUS
<1> QED BY <1>1 DEF MonthStart

LEMMA MonthLength ==
  ASSUME NEW m \in Int PROVE MonthStart(m + 1) - MonthStart(m) \in 28..31 /\ MonthEnd(m) \in Int /\ MonthStart(m) \in Int
<1> DEFINE y == m \div 12
           j == m % 12
<1>1. y \in Int /\ j \in 0..11 /\ m = 12 * y + j /\ MonthStart(m) = 365 * y + FirstOf[j + 1] /\ MonthStart(m) \in Int
  BY MonthParts
<1>2. MonthStart(m + 1) \in Int
  BY MonthParts
<1> HIDE DEF y, j
<1>3. CASE j < 11
  <2>1. j + 1 \in 0..11 /\ m + 1 = 12 * y + (j + 1) /\ j + 1 \in 1..11
    BY <1>1, <1>3
  <2>2. MonthStart(m + 1) = 365 * y + FirstOf[(j + 1) + 1]
    BY <1>1, <2>1, StartOf
  <2>3. FirstOf[(j + 1) + 1] - FirstOf[j + 1] \in 28..31 /\ FirstOf[(j + 1) + 1] \in Int /\ FirstOf[j + 1] \in Int
    <3> DEFINE k == j + 1
    <3>1. k \in 1..11 /\ k \in 1..12 /\ k + 1 \in 1..12
      BY <2>1
    <3> HIDE DEF k
    <3>2. FirstOf[k + 1] - FirstOf[k] \in 28..31
      BY <3>1, NextFirst
    <3>3. FirstOf[k + 1] \in Int /\ FirstOf[k] \in Int
      BY <3>1, FirstDay
    <3> QED BY <3>2, <3>3 DEF k
  <2> QED BY <1>1, <1>2, <2>2, <2>3 DEF MonthEnd
<1>4. CASE j = 11
  <2>1. m + 1 = 12 * (y + 1) + 0 /\ y + 1 \in Int /\ 0 \in 0..11
    BY <1>1, <1>4
  <2>2. MonthStart(m + 1) = 365 * (y + 1) + FirstOf[0 + 1]
    BY <2>1, StartOf
  <2>3. MonthStart(m) = 365 * y + 335 /\ MonthStart(m + 1) = 365 * (y + 1) + 1
    BY <1>1, <1>4, <2>2, FirstDays
  <2> QED BY <1>1, <1>2, <2>3 DEF MonthEnd
<1> QED BY <1>1, <1>3, <1>4

LEMMA MonthBounds == ASSUME NEW m \in Int PROVE MonthStart(m) \in Int /\ MonthEnd(m) \in Int /\ MonthStart(m) <= MonthEnd(m)
<1>1. MonthStart(m + 1) - MonthStart(m) \in 28..31 /\ MonthEnd(m) \in Int /\ MonthStart(m) \in Int
  BY MonthLength
<1>2. MonthStart(m + 1) \in Int
  <2>1. m + 1 \in Int
    OBVIOUS
  <2> QED BY <2>1, MonthLength
<1>3. MonthEnd(m) = MonthStart(m + 1) - 1
  BY DEF MonthEnd
<1>4. PICK a \in Int, b \in Int, c \in Int : a = MonthStart(m) /\ b = MonthStart(m + 1) /\ c = MonthEnd(m)
  BY <1>1, <1>2
<1>5. b - a \in 28..31 /\ c = b - 1
  BY <1>1, <1>3, <1>4
<1>6. a <= c
  BY <1>5
<1> QED BY <1>1, <1>4, <1>6

\* Months follow each other.
LEMMA MonthsInOrder ==
  ASSUME NEW m \in Int, NEW n \in Int, m < n PROVE MonthEnd(m) < MonthStart(n)
<1> DEFINE y == m \div 12
           j == m % 12
           z == n \div 12
           k == n % 12
<1>1. y \in Int /\ j \in 0..11 /\ m = 12 * y + j /\ MonthStart(m) = 365 * y + FirstOf[j + 1] /\ MonthStart(m) \in Int
  BY MonthParts
<1>2. z \in Int /\ k \in 0..11 /\ n = 12 * z + k /\ MonthStart(n) = 365 * z + FirstOf[k + 1] /\ MonthStart(n) \in Int
  BY MonthParts
<1>3. MonthStart(m + 1) \in Int /\ MonthStart(m + 1) - MonthStart(m) \in 28..31
  BY MonthLength, MonthParts
<1> HIDE DEF y, j, z, k
<1>a. FirstOf[j + 1] \in 1..335 /\ FirstOf[k + 1] \in 1..335
  <2>1. j + 1 \in 1..12 /\ k + 1 \in 1..12
    BY <1>1, <1>2
  <2> QED BY <2>1, FirstDays
<1>4. CASE y = z
  <2>1. j < k /\ j + 1 \in 0..11 /\ m + 1 = 12 * y + (j + 1)
    BY <1>1, <1>2, <1>4
  <2>2. MonthStart(m + 1) = 365 * y + FirstOf[(j + 1) + 1]
    BY <1>1, <2>1, StartOf
  <2>3. FirstOf[(j + 1) + 1] <= FirstOf[k + 1] /\ FirstOf[(j + 1) + 1] \in Int
    <3>1. (j + 1) + 1 \in 1..12 /\ k + 1 \in 1..12 /\ (j + 1) + 1 <= k + 1
      BY <1>1, <1>2, <2>1
    <3>2. FirstOf[(j + 1) + 1] \in 1..335 /\ FirstOf[(j + 1) + 1] \in Int
      BY <3>1, FirstDay
    <3>3. CASE (j + 1) + 1 = k + 1
      BY <3>2, <3>3
    <3>4. CASE (j + 1) + 1 < k + 1
      <4>1. FirstOf[(j + 1) + 1] < FirstOf[k + 1]
        BY <3>1, <3>4, FirstDays
      <4> QED BY <1>a, <3>2, <4>1
    <3>5. (j + 1) + 1 = k + 1 \/ (j + 1) + 1 < k + 1
      BY <3>1
    <3>6. FirstOf[(j + 1) + 1] <= FirstOf[k + 1]
      BY <3>3, <3>4, <3>5
    <3>7. FirstOf[(j + 1) + 1] \in Int
      BY <3>2
    <3> QED BY <3>6, <3>7, Zenon
  <2> QED BY <1>1, <1>2, <1>3, <1>4, <1>a, <2>2, <2>3 DEF MonthEnd
<1>5. CASE y # z
  <2>1. y + 1 <= z
    BY <1>1, <1>2, <1>5
  <2>2. MonthStart(m + 1) <= 365 * (y + 1) + 1
    <3>1. CASE j = 11
      <4>1. m + 1 = 12 * (y + 1) + 0
        BY <1>1, <3>1
      <4>2. MonthStart(m + 1) = 365 * (y + 1) + FirstOf[0 + 1]
        <5>1. y + 1 \in Int /\ 0 \in 0..11
          BY <1>1
        <5> QED BY <4>1, <5>1, StartOf
      <4> QED BY <1>1, <4>2, FirstDays
    <3>2. CASE j < 11
      <4>1. j + 1 \in 0..11 /\ m + 1 = 12 * y + (j + 1) /\ (j + 1) + 1 \in 1..12
        BY <1>1, <3>2
      <4>2. MonthStart(m + 1) = 365 * y + FirstOf[(j + 1) + 1]
        BY <1>1, <4>1, StartOf
      <4>3. FirstOf[(j + 1) + 1] \in 1..335
        BY <4>1, FirstDays
      <4> QED BY <1>1, <4>2, <4>3
    <3> QED BY <1>1, <3>1, <3>2
  <2>3. MonthStart(n) >= 365 * (y + 1) + 1
    BY <1>1, <1>2, <1>a, <2>1
  <2> QED BY <1>1, <1>2, <1>3, <2>2, <2>3 DEF MonthEnd
<1> QED BY <1>4, <1>5

LEMMA DayOfYear ==
  ASSUME NEW d \in 1..365
  PROVE  /\ MonthOfDay[d] \in 0..11 /\ FirstOf[MonthOfDay[d] + 1] <= d
         /\ MonthOfDay[d] < 11 => d < FirstOf[(MonthOfDay[d] + 1) + 1]
<1>1. PICK k \in 1..12 : FirstOf[k] <= d /\ (k < 12 => d < FirstOf[k + 1])
  <2>1. /\ FirstOf[1] = 1 /\ FirstOf[2] = 32 /\ FirstOf[3] = 60 /\ FirstOf[4] = 91 /\ FirstOf[5] = 121 /\ FirstOf[6] = 152
        /\ FirstOf[7] = 182 /\ FirstOf[8] = 213 /\ FirstOf[9] = 244 /\ FirstOf[10] = 274 /\ FirstOf[11] = 305
        /\ FirstOf[12] = 335
    BY DEF FirstOf
  <2>2. CASE d < 32
    BY <2>1, <2>2
  <2>3. CASE d >= 32 /\ d < 60
    BY <2>1, <2>3
  <2>4. CASE d >= 60 /\ d < 91
    BY <2>1, <2>4
  <2>5. CASE d >= 91 /\ d < 121
    BY <2>1, <2>5
  <2>6. CASE d >= 121 /\ d < 152
    BY <2>1, <2>6
  <2>7. CASE d >= 152 /\ d < 182
    BY <2>1, <2>7
  <2>8. CASE d >= 182 /\ d < 213
    BY <2>1, <2>8
  <2>9. CASE d >= 213 /\ d < 244
    BY <2>1, <2>9
  <2>10. CASE d >= 244 /\ d < 274
    BY <2>1, <2>10
  <2>11. CASE d >= 274 /\ d < 305
    BY <2>1, <2>11
  <2>12. CASE d >= 305 /\ d < 335
    BY <2>1, <2>12
  <2>13. CASE d >= 335
    BY <2>1, <2>13
  <2> QED BY <2>2, <2>3, <2>4, <2>5, <2>6, <2>7, <2>8, <2>9, <2>10, <2>11, <2>12, <2>13
<1>2. {j \in 1..12 : FirstOf[j] <= d} = 1..k
  <2>1. ASSUME NEW j \in 1..12, j <= k PROVE FirstOf[j] <= d
    <3>1. FirstOf[j] \in Int /\ FirstOf[k] \in Int
      BY FirstDay
    <3>2. CASE j = k
      BY <1>1, <3>2
    <3>3. CASE j < k
      <4>1. FirstOf[j] < FirstOf[k]
        BY <3>3, FirstDays
      <4> QED BY <1>1, <3>1, <4>1
    <3> QED BY <2>1, <3>2, <3>3
  <2>2. ASSUME NEW j \in 1..12, j > k PROVE ~(FirstOf[j] <= d)
    <3>1. k < 12 /\ k + 1 \in 1..12 /\ d < FirstOf[k + 1]
      BY <1>1, <2>2
    <3>2. FirstOf[j] \in Int /\ FirstOf[k + 1] \in Int
      BY <3>1, FirstDay
    <3>3. CASE j = k + 1
      BY <3>1, <3>2, <3>3
    <3>4. CASE k + 1 < j
      <4>1. FirstOf[k + 1] < FirstOf[j]
        BY <3>1, <3>4, FirstDays
      <4> QED BY <3>1, <3>2, <4>1
    <3> QED BY <2>2, <3>3, <3>4
  <2>3. \A j \in 1..12 : FirstOf[j] <= d <=> j \in 1..k
    BY <2>1, <2>2
  <2> QED BY <2>3
<1>3. MonthOfDay[d] = k - 1
  <2>1. Cardinality(1..k) = k
    <3>1. Cardinality(1..k) = IF 1 > k THEN 0 ELSE k - 1 + 1
      BY FS_Interval
    <3> QED BY <3>1
  <2>2. MonthOfDay[d] = Cardinality({j \in 1..12 : FirstOf[j] <= d}) - 1
    BY DEF MonthOfDay
  <2>3. Cardinality({j \in 1..12 : FirstOf[j] <= d}) = k
    BY <1>2, <2>1, Zenon
  <2> QED BY <2>2, <2>3
<1>4. (k - 1) + 1 = k /\ ((k - 1) + 1) + 1 = k + 1 /\ k - 1 \in 0..11
  OBVIOUS
<1>5. MonthOfDay[d] + 1 = k /\ (MonthOfDay[d] + 1) + 1 = k + 1 /\ MonthOfDay[d] \in 0..11
  BY <1>3, <1>4
<1> QED BY <1>1, <1>3, <1>5

\* The month of a day is the only one that contains it.
LEMMA MonthHasDay ==
  ASSUME NEW at \in Int
  PROVE  MonthOf(at) \in Int /\ MonthStart(MonthOf(at)) <= at /\ at <= MonthEnd(MonthOf(at))
<1> DEFINE y == (at - 1) \div 365
           d == ((at - 1) % 365) + 1
           j == MonthOfDay[d]
<1>1. y \in Int /\ d \in 1..365 /\ at = 365 * y + d
  OBVIOUS
<1>2. MonthOf(at) = 12 * y + j
  BY DEF MonthOf
<1> HIDE DEF y, d
<1>3. j \in 0..11 /\ FirstOf[j + 1] <= d /\ (j < 11 => d < FirstOf[(j + 1) + 1])
  BY <1>1, DayOfYear
<1> HIDE DEF j
<1>4. MonthStart(12 * y + j) = 365 * y + FirstOf[j + 1]
  BY <1>1, <1>3, StartOf
<1>5. FirstOf[j + 1] \in Int
  <2>1. j + 1 \in 1..12
    BY <1>3
  <2> QED BY <2>1, FirstDay
<1>6. at <= MonthEnd(12 * y + j)
  <2>1. CASE j < 11
    <3>1. j + 1 \in 0..11 /\ (j + 1) + 1 \in 1..12 /\ 12 * y + j + 1 = 12 * y + (j + 1)
      BY <1>1, <1>3, <2>1
    <3>2. MonthStart(12 * y + (j + 1)) = 365 * y + FirstOf[(j + 1) + 1]
      BY <1>1, <3>1, StartOf
    <3>3. FirstOf[(j + 1) + 1] \in Int
      BY <3>1, FirstDay
    <3> QED BY <1>1, <1>3, <2>1, <3>1, <3>2, <3>3 DEF MonthEnd
  <2>2. CASE j = 11
    <3>1. 12 * y + j + 1 = 12 * (y + 1) + 0 /\ y + 1 \in Int /\ 0 \in 0..11
      BY <1>1, <2>2
    <3>2. MonthStart(12 * (y + 1) + 0) = 365 * (y + 1) + FirstOf[0 + 1]
      BY <3>1, StartOf
    <3>3. MonthStart(12 * y + j + 1) = 365 * (y + 1) + 1
      BY <3>1, <3>2, FirstDays
    <3> QED BY <1>1, <3>3 DEF MonthEnd
  <2> QED BY <1>3, <2>1, <2>2
<1> QED BY <1>1, <1>2, <1>3, <1>4, <1>5, <1>6

LEMMA MonthOfDayIs ==
  ASSUME NEW at \in Int, NEW m \in Int
  PROVE  MonthOf(at) = m <=> MonthStart(m) <= at /\ at <= MonthEnd(m)
<1>1. /\ MonthOf(at) \in Int /\ MonthStart(MonthOf(at)) <= at /\ at <= MonthEnd(MonthOf(at))
      /\ MonthStart(MonthOf(at)) \in Int /\ MonthEnd(MonthOf(at)) \in Int
      /\ MonthStart(m) \in Int /\ MonthEnd(m) \in Int
  BY MonthHasDay, MonthLength
<1>2. CASE MonthOf(at) < m
  <2>1. MonthEnd(MonthOf(at)) < MonthStart(m)
    BY <1>1, <1>2, MonthsInOrder
  <2> QED BY <1>1, <1>2, <2>1
<1>3. CASE m < MonthOf(at)
  <2>1. MonthEnd(m) < MonthStart(MonthOf(at))
    BY <1>1, <1>3, MonthsInOrder
  <2> QED BY <1>1, <1>3, <2>1
<1> QED BY <1>1, <1>2, <1>3

LEMMA MonthsGrow ==
  ASSUME NEW m \in Int, NEW n \in Int, m <= n PROVE MonthStart(m) <= MonthStart(n) /\ MonthEnd(m) <= MonthEnd(n)
<1>1. \A k \in Int : MonthStart(k) \in Int /\ MonthEnd(k) \in Int /\ MonthStart(k) <= MonthEnd(k)
  BY MonthBounds
<1>2. CASE m = n
  BY <1>1, <1>2
<1>3. CASE m < n
  BY <1>1, <1>3, MonthsInOrder
<1> QED BY <1>2, <1>3

-----------------------------------------------------------------------------
(***************************************************************************)
(* The tax of a month.                                                     *)
(***************************************************************************)
LEMMA MaxOfTwo ==
  ASSUME NEW a \in Int, NEW b \in Int
  PROVE  Max({a, b}) = (IF a >= b THEN a ELSE b) /\ Max({a, b}) \in Int
<1>1. \E x \in {a, b} : \A y \in {a, b} : x >= y
  OBVIOUS
<1>2. Max({a, b}) \in {a, b} /\ \A y \in {a, b} : Max({a, b}) >= y
  BY <1>1 DEF Max
<1> QED BY <1>2

LEMMA Max0Is == ASSUME NEW a \in Int PROVE Max0(a) = (IF a >= 0 THEN a ELSE 0) /\ Max0(a) \in Nat
<1>1. Max({a, 0}) = (IF a >= 0 THEN a ELSE 0)
  BY MaxOfTwo
<1> QED BY <1>1 DEF Max0

LEMMA TaxType == ASSUME TablesTyped, NEW S \in SUBSET Rows PROVE AusnMonthTax(S) \in Int
<1>1. ASSUME NEW plus, NEW minus PROVE AusnSum(S, plus, minus) \in Int
  <2>1. {r \in S : ClassifyAusnWithBucket(r) = plus} \in SUBSET Rows
        /\ {r \in S : ClassifyAusnWithBucket(r) = minus} \in SUBSET Rows
    OBVIOUS
  <2> QED BY <2>1, RowSumIs DEF AusnSum
<1> DEFINE income == Max0(AusnSum(S, "INCOME_PLUS", "INCOME_MINUS"))
           expense == Max0(AusnSum(S, "EXPENSE_PLUS", "EXPENSE_MINUS"))
<1>2. income \in Int /\ expense \in Int
  BY <1>1, Max0Is
<1>3. AusnMonthTax(S) = Max({RoundHalfUp(Max0(income - expense) * 20, 100), RoundHalfUp(income * 3, 100)})
  BY DEF AusnMonthTax
<1> HIDE DEF income, expense
<1>4. Max0(income - expense) \in Int
  BY <1>2, Max0Is
<1>5. RoundHalfUp(Max0(income - expense) * 20, 100) \in Int /\ RoundHalfUp(income * 3, 100) \in Int
  BY <1>2, <1>4 DEF RoundHalfUp
<1> QED BY <1>3, <1>5, MaxOfTwo

\* A payment of the bank that is taken for the month m comes in these weeks.
LEMMA InferredWeeks ==
  ASSUME NEW at \in Int, NEW m \in Int, InferredTaxPeriod(at) = m
  PROVE  MonthEnd(m) < at /\ at <= MonthEnd(m) + 45
<1> DEFINE n == MonthOf(at)
<1>1. n \in Int /\ MonthStart(n) <= at /\ at <= MonthEnd(n) /\ MonthStart(n) \in Int
  BY MonthHasDay, MonthLength
<1>2. m = n - (IF at - MonthStart(n) + 1 < 15 THEN 2 ELSE 1)
  BY DEF InferredTaxPeriod, DayOfMonth
<1> HIDE DEF n
<1>3. CASE at - MonthStart(n) + 1 < 15
  <2>1. m + 1 \in Int /\ n = m + 1 + 1 /\ MonthStart(m + 1) \in Int
    BY <1>1, <1>2, <1>3, MonthLength
  <2>2. MonthStart(m + 1 + 1) - MonthStart(m + 1) \in 28..31
    BY <2>1, MonthLength
  <2> QED BY <1>1, <1>3, <2>1, <2>2 DEF MonthEnd
<1>4. CASE ~(at - MonthStart(n) + 1 < 15)
  <2>1. n = m + 1
    BY <1>1, <1>2, <1>4
  <2>2. MonthStart(n + 1) - MonthStart(n) \in 28..31 /\ MonthStart(n + 1) \in Int
    BY <1>1, MonthLength
  <2> QED BY <1>1, <1>4, <2>1, <2>2 DEF MonthEnd
<1> QED BY <1>3, <1>4

\* All that was ever paid for the month m.
PaidFor(m) == TaxPaidByPeriod({r \in Rows : PaidByButton(r) \/ PaidByBank(r)}, m)

LEMMA PaidInWindow ==
  ASSUME TablesTyped, NEW m \in Int, NEW from \in Int, NEW to \in Int,
         \A r \in Rows : PaidByBank(r) /\ InferredTaxPeriod(r.at) = m => from <= r.at /\ r.at <= to
  PROVE  TaxPaidByPeriod(TaxPayments(from, to), m) = PaidFor(m)
<1>1. ASSUME NEW r \in Rows, PaidByBank(r), PaidMonth(r) = m PROVE from <= r.at /\ r.at <= to
  <2>1. RowTyped(r) /\ r.kind # "TAX"
    BY <1>1, EntryFacts DEF PaidByBank
  <2>2. r.period = NoMonth
    BY <2>1 DEF RowTyped
  <2> QED BY <1>1, <2>1, <2>2 DEF PaidMonth
<1>2. {r \in TaxPayments(from, to) : PaidMonth(r) = m}
        = {r \in {r \in Rows : PaidByButton(r) \/ PaidByBank(r)} : PaidMonth(r) = m}
  BY <1>1 DEF TaxPayments
<1> QED BY <1>2, Zenon DEF TaxPaidByPeriod, PaidFor

LEMMA PaidForType == ASSUME TablesTyped, NEW m PROVE PaidFor(m) \in Int
<1>1. {r \in {r \in Rows : PaidByButton(r) \/ PaidByBank(r)} : PaidMonth(r) = m} \in SUBSET Rows
  OBVIOUS
<1> QED BY <1>1, RowSumIs DEF PaidFor, TaxPaidByPeriod

\* In a period that holds the whole month, the P&L report accrues the tax of its rows, or what was paid.
MonthTax(m) == Max({TaxDue(m), PaidFor(m)})

LEMMA TaxDueType == ASSUME TablesTyped, NEW m PROVE TaxDue(m) \in Int
<1>1. {r \in Rows : MonthOf(r.at) = m} \in SUBSET Rows
  OBVIOUS
<1> QED BY <1>1, TaxType DEF TaxDue

LEMMA MonthTaxType == ASSUME TablesTyped, NEW m PROVE MonthTax(m) \in Int
  BY TaxDueType, PaidForType, MaxOfTwo DEF MonthTax

LEMMA AccruedInMonth ==
  ASSUME TablesTyped, NEW m \in Int, NEW p, p.from \in Int, p.to \in Int, p.from <= MonthStart(m), MonthEnd(m) <= p.to
  PROVE  Max({AusnMonthTax({r \in Rows : During(r.at, p) /\ MonthOf(r.at) = m}), PnlTaxPaid(m, p)}) = MonthTax(m)
<1>1. {r \in Rows : During(r.at, p) /\ MonthOf(r.at) = m} = {r \in Rows : MonthOf(r.at) = m}
  <2>1. ASSUME NEW r \in Rows, MonthOf(r.at) = m PROVE During(r.at, p)
    <3>1. r.at \in Int /\ MonthStart(m) \in Int /\ MonthEnd(m) \in Int
      BY EntryFacts, MonthLength
    <3>2. MonthStart(m) <= r.at /\ r.at <= MonthEnd(m)
      BY <2>1, <3>1, MonthOfDayIs
    <3> QED BY <3>1, <3>2 DEF During
  <2> QED BY <2>1
<1>2. PnlTaxPaid(m, p) = PaidFor(m)
  <2>1. ASSUME NEW r \in Rows, PaidByBank(r), InferredTaxPeriod(r.at) = m PROVE p.from <= r.at /\ r.at <= p.to + 62
    <3>1. r.at \in Int /\ MonthStart(m) \in Int /\ MonthEnd(m) \in Int /\ MonthStart(m + 1) - MonthStart(m) \in 28..31
          /\ MonthStart(m + 1) \in Int
      BY EntryFacts, MonthLength
    <3>2. MonthEnd(m) < r.at /\ r.at <= MonthEnd(m) + 45
      BY <2>1, <3>1, InferredWeeks
    <3> QED BY <3>1, <3>2 DEF MonthEnd
  <2>2. p.to + 62 \in Int
    OBVIOUS
  <2>3. TaxPaidByPeriod(TaxPayments(p.from, p.to + 62), m) = PaidFor(m)
    BY <2>1, <2>2, PaidInWindow
  <2> QED BY <2>3 DEF PnlTaxPaid, IsWholeMonth
<1> QED BY <1>1, <1>2, Zenon DEF MonthTax, TaxDue

LEMMA MonthsOfMonth == ASSUME NEW m \in Int PROVE MonthsOf(MonthPeriod(m)) = {m} /\ MonthPeriod(m).from = MonthStart(m)
                                                  /\ MonthPeriod(m).to = MonthEnd(m)
<1>1. MonthPeriod(m).from = MonthStart(m) /\ MonthPeriod(m).to = MonthEnd(m)
  BY DEF MonthPeriod, Span
<1>2. MonthStart(m) \in Int /\ MonthEnd(m) \in Int /\ MonthStart(m) <= MonthEnd(m)
  BY MonthBounds
<1>3. MonthOf(MonthStart(m)) = m /\ MonthOf(MonthEnd(m)) = m
  BY <1>2, MonthOfDayIs
<1>4. m..m = {m}
  OBVIOUS
<1> QED BY <1>1, <1>3, <1>4 DEF MonthsOf

LEMMA SumOfOne == ASSUME NEW f, NEW x, DOMAIN f = {x}, f[x] \in Int PROVE SumFunction(f) = f[x]
<1>1. SumFunction(f) = Sum(f, {x})
  BY SumFunctionIs
<1>2. x \notin {} /\ {} \cup {x} = {x} /\ \A y \in {} \cup {x} : f[y] \in Int
  OBVIOUS
<1>3. Sum(f, {} \cup {x}) = f[x] + Sum(f, {}) /\ Sum(f, {}) = 0
  BY <1>2, FS_EmptySet, SumPut, SumEmpty, Zenon
<1>4. Sum(f, {x}) = f[x] + 0
  BY <1>2, <1>3, Zenon
<1> QED BY <1>1, <1>4

LEMMA AccruedForMonth ==
  ASSUME TablesTyped, NEW m \in Int, NEW p, p.from \in Int, p.to \in Int, p.from <= MonthStart(m), MonthEnd(m) <= p.to
  PROVE  AccruedTax(MonthPeriod(m), p) = MonthTax(m)
<1> DEFINE f == [k \in MonthsOf(MonthPeriod(m)) |->
                   Max({AusnMonthTax({r \in Rows : During(r.at, p) /\ MonthOf(r.at) = k}), PnlTaxPaid(k, p)})]
<1>1. DOMAIN f = {m}
  BY MonthsOfMonth
<1>2. f[m] = Max({AusnMonthTax({r \in Rows : During(r.at, p) /\ MonthOf(r.at) = m}), PnlTaxPaid(m, p)})
  BY <1>1
<1>3. f[m] = MonthTax(m)
  BY <1>2, AccruedInMonth
<1>4. AccruedTax(MonthPeriod(m), p) = SumFunction(f)
  BY DEF AccruedTax
<1> HIDE DEF f
<1> QED BY <1>1, <1>3, <1>4, SumOfOne, MonthTaxType

LEMMA YearOf ==
  ASSUME NEW m \in Int
  PROVE  LET y == m \div 12
         IN /\ y \in Int /\ 12 * y <= m /\ m <= 12 * y + 11 /\ (m = 12 * y + 11 <=> m % 12 = 11)
            /\ YearPeriod(y).from = MonthStart(12 * y) /\ YearPeriod(y).to = MonthEnd(12 * y + 11)
            /\ YearPeriod(y).from \in Int /\ YearPeriod(y).to \in Int
            /\ YearPeriod(y).from <= MonthStart(m) /\ MonthEnd(m) <= YearPeriod(y).to
<1> DEFINE y == m \div 12
<1>1. y \in Int /\ 12 * y <= m /\ m <= 12 * y + 11 /\ (m = 12 * y + 11 <=> m % 12 = 11) /\ 12 * y \in Int /\ 12 * y + 11 \in Int
  BY MonthParts
<1> HIDE DEF y
<1>2. YearPeriod(y).from = MonthStart(12 * y) /\ YearPeriod(y).to = MonthEnd(12 * y + 11)
  BY DEF YearPeriod, Span
<1>3. MonthStart(12 * y) \in Int /\ MonthEnd(12 * y + 11) \in Int
  BY <1>1, MonthLength
<1>4. MonthStart(12 * y) <= MonthStart(m) /\ MonthEnd(m) <= MonthEnd(12 * y + 11)
  BY <1>1, MonthsGrow
<1> QED BY <1>1, <1>2, <1>3, <1>4 DEF y

LEMMA TaxSection == ASSUME TablesTyped PROVE TaxSectionAgrees
<1> SUFFICES ASSUME NEW m \in Int, m % 12 = 11 => \A r \in Rows : ~LateForYear(r, m \div 12)
             PROVE  AccruedTax(MonthPeriod(m), YearPeriod(m \div 12)) = Max({TaxDue(m), TaxPaid(m)})
  BY DEF TaxSectionAgrees, MonthsOf
<1> DEFINE y == m \div 12
           p == YearPeriod(y)
<1>1. /\ y \in Int /\ 12 * y <= m /\ m <= 12 * y + 11 /\ (m = 12 * y + 11 <=> m % 12 = 11)
      /\ p.from = MonthStart(12 * y) /\ p.to = MonthEnd(12 * y + 11) /\ p.from \in Int /\ p.to \in Int
      /\ p.from <= MonthStart(m) /\ MonthEnd(m) <= p.to
  BY YearOf
<1>2. AccruedTax(MonthPeriod(m), p) = MonthTax(m)
  <2> HIDE DEF p
  <2> QED BY <1>1, AccruedForMonth
<1>3. ASSUME NEW r \in Rows, PaidByBank(r), InferredTaxPeriod(r.at) = m PROVE p.from <= r.at /\ r.at <= p.to + 32
  <2> HIDE DEF p
  <2>1. r.at \in Int /\ MonthStart(m) \in Int /\ MonthEnd(m) \in Int /\ MonthStart(m) <= MonthEnd(m)
    <3>1. r.at \in Int
      BY EntryFacts
    <3>2. MonthStart(m) \in Int /\ MonthEnd(m) \in Int /\ MonthStart(m + 1) - MonthStart(m) \in 28..31
      BY MonthLength
    <3>3. m + 1 \in Int
      OBVIOUS
    <3>4. MonthStart(m + 1) \in Int
      BY <3>3, MonthLength
    <3> QED BY <3>1, <3>2, <3>4 DEF MonthEnd
  <2>2. MonthEnd(m) < r.at /\ r.at <= MonthEnd(m) + 45
    BY <1>3, <2>1, InferredWeeks
  <2>3. CASE m = 12 * y + 11
    <3>1. ~LateForYear(r, y)
      BY <1>1, <2>3
    <3>2. r.at <= YearPeriod(y).to + 32
      BY <1>1, <1>3, <2>1, <2>3, <3>1 DEF LateForYear, p
    <3> QED BY <1>1, <2>1, <2>2, <3>2 DEF p
  <2>4. CASE m < 12 * y + 11
    <3>1. m + 1 <= 12 * y + 11 /\ m + 1 \in Int /\ 12 * y + 11 \in Int
      BY <1>1, <2>4
    <3>2. MonthStart(m + 1) <= MonthStart(12 * y + 11) /\ MonthStart(m + 1) \in Int /\ MonthStart(12 * y + 11) \in Int
      BY <3>1, MonthsGrow, MonthLength
    <3>3. MonthStart(12 * y + 11 + 1) - MonthStart(12 * y + 11) \in 28..31 /\ MonthStart(12 * y + 11 + 1) \in Int
      <4>1. 12 * y + 11 + 1 \in Int
        BY <3>1
      <4> QED BY <3>1, <4>1, MonthLength
    <3> QED BY <1>1, <2>1, <2>2, <3>2, <3>3 DEF MonthEnd
  <2> QED BY <1>1, <2>3, <2>4
<1>4. TaxPaid(m) = PaidFor(m)
  <2>1. TaxPaid(m) = TaxPaidByPeriod(TaxPayments(p.from, p.to + 32), m)
    BY DEF TaxPaid
  <2> HIDE DEF p
  <2>2. p.to + 32 \in Int
    BY <1>1
  <2>3. TaxPaidByPeriod(TaxPayments(p.from, p.to + 32), m) = PaidFor(m)
    BY <1>1, <1>3, <2>2, PaidInWindow
  <2> QED BY <2>1, <2>3
<1> QED BY <1>2, <1>4, Zenon DEF MonthTax

\* The tax that PnlService accrues for a month is what TaxService.yearReport says
\* is due or was paid for it, but for payments of December's tax that the year
\* does not read.
THEOREM AccruedIsTaxSection == ReportsSpec => []TaxSectionAgrees
<1>1. TablesTyped => TaxSectionAgrees
  BY TaxSection
<1> QED BY <1>1, TypedAlways, PTL

-----------------------------------------------------------------------------
(***************************************************************************)
(* More about sums.                                                        *)
(***************************************************************************)
LEMMA SumScaled ==
  ASSUME NEW f, NEW g, NEW S, IsFiniteSet(S), NEW c \in Int, \A x \in S : f[x] \in Int /\ g[x] = c * f[x]
  PROVE  Sum(g, S) = c * Sum(f, S)
<1> DEFINE F(U) == Sum(f, U)
           G(U) == Sum(g, U)
           Bad == {U \in SUBSET S : G(U) # c * F(U)}
<1> SUFFICES ASSUME Bad # {} PROVE FALSE
  OBVIOUS
<1>1. PICK U \in Bad : \A V \in SUBSET U : V # U => V \notin Bad
  <2>1. Bad \in SUBSET (SUBSET S)
    OBVIOUS
  <2> HIDE DEF Bad
  <2> QED BY <2>1, Smallest
<1>2. U \in SUBSET S /\ IsFiniteSet(U) /\ G(U) # c * F(U)
  BY <1>1, FS_Subset
<1>3. U # {}
  <2>1. F({}) = 0 /\ G({}) = 0 /\ c * 0 = 0
    BY SumEmpty
  <2> HIDE DEF F, G
  <2> QED BY <1>2, <2>1
<1>4. PICK x \in U : TRUE
  BY <1>3
<1> DEFINE V == U \ {x}
<1>5. V \in SUBSET U /\ V # U /\ V \in SUBSET S /\ IsFiniteSet(V)
  BY <1>2, <1>4, FS_Subset
<1>6. \A y \in U : f[y] \in Int /\ g[y] \in Int
  BY <1>2
<1>7. F(U) = f[x] + F(V) /\ G(U) = g[x] + G(V)
  <2> HIDE DEF F, G
  <2>1. F(U) = f[x] + F(U \ {x}) /\ G(U) = g[x] + G(U \ {x})
    BY <1>2, <1>4, <1>6, SumTake DEF F, G
  <2> QED BY <2>1
<1>8. G(V) = c * F(V)
  BY <1>1, <1>5
<1>9. F(V) \in Int
  BY <1>5, <1>6, SumType
<1>10. g[x] = c * f[x] /\ f[x] \in Int
  BY <1>2, <1>4
<1> HIDE DEF F, G, V, Bad
<1>11. c * (f[x] + F(V)) = c * f[x] + c * F(V)
  BY <1>9, <1>10
<1> QED BY <1>2, <1>7, <1>8, <1>10, <1>11

LEMMA SumOnes ==
  ASSUME NEW f, NEW S, IsFiniteSet(S), \A x \in S : f[x] = 1
  PROVE  Sum(f, S) = Cardinality(S)
<1> DEFINE F(U) == Sum(f, U)
           Bad == {U \in SUBSET S : F(U) # Cardinality(U)}
<1> SUFFICES ASSUME Bad # {} PROVE FALSE
  OBVIOUS
<1>1. PICK U \in Bad : \A V \in SUBSET U : V # U => V \notin Bad
  <2>1. Bad \in SUBSET (SUBSET S)
    OBVIOUS
  <2> HIDE DEF Bad
  <2> QED BY <2>1, Smallest
<1>2. U \in SUBSET S /\ IsFiniteSet(U) /\ F(U) # Cardinality(U)
  BY <1>1, FS_Subset
<1>3. U # {}
  <2>1. F({}) = 0 /\ Cardinality({}) = 0
    BY SumEmpty, FS_EmptySet
  <2> HIDE DEF F
  <2> QED BY <1>2, <2>1
<1>4. PICK x \in U : TRUE
  BY <1>3
<1> DEFINE V == U \ {x}
<1>5. V \in SUBSET U /\ V # U /\ V \in SUBSET S
  BY <1>2, <1>4
<1>6. \A y \in U : f[y] \in Int /\ f[y] = 1
  BY <1>2
<1>7. F(U) = f[x] + F(V)
  <2> HIDE DEF F
  <2>1. F(U) = f[x] + F(U \ {x})
    BY <1>2, <1>4, <1>6, SumTake DEF F
  <2> QED BY <2>1
<1>8. F(V) = Cardinality(V)
  BY <1>1, <1>5
<1>9. Cardinality(V) = Cardinality(U) - 1 /\ Cardinality(U) \in Nat
  BY <1>2, <1>4, FS_RemoveElement, FS_CardinalityType
<1> HIDE DEF F, V, Bad
<1> QED BY <1>2, <1>4, <1>6, <1>7, <1>8, <1>9

\* A sum of differences, and of opposites.
LEMMA SumMinus ==
  ASSUME NEW e, NEW f, NEW g, NEW S, IsFiniteSet(S),
         \A x \in S : e[x] \in Int /\ f[x] \in Int /\ g[x] = e[x] - f[x]
  PROVE  Sum(g, S) = Sum(e, S) - Sum(f, S)
<1>1. \A x \in S : g[x] \in Int /\ f[x] \in Int /\ e[x] = g[x] + f[x]
  OBVIOUS
<1>2. Sum(e, S) = Sum(g, S) + Sum(f, S)
  BY <1>1, SumPlus
<1>3. Sum(g, S) \in Int /\ Sum(f, S) \in Int
  BY <1>1, SumType
<1> QED BY <1>2, <1>3

\* The library's enumeration of a set.
LEMMA Enumerated ==
  ASSUME NEW S, IsFiniteSet(S)
  PROVE  LET s == SetToSeq(S) n == Cardinality(S)
         IN  /\ n \in Nat /\ s \in [1..n -> S] /\ Len(s) = n
             /\ \A i, j \in 1..n : s[i] = s[j] => i = j
             /\ {s[i] : i \in 1..n} = S
<1> DEFINE n == Cardinality(S)
           s == SetToSeq(S)
<1>1. n \in Nat /\ ExistsBijection(1..n, S)
  BY FS_CardinalityType
<1>2. PICK g : g \in Bijection(1..n, S)
  BY <1>1 DEF ExistsBijection
<1>3. g \in [1..n -> S] /\ IsInjective(g)
  BY <1>2 DEF Bijection, Injection, IsInjective
<1>4. s \in [1..n -> S] /\ IsInjective(s)
  BY <1>3 DEF SetToSeq
<1> HIDE DEF s
<1>5. \A i, j \in 1..n : s[i] = s[j] => i = j
  BY <1>4 DEF IsInjective
<1>6. s \in Injection(1..n, S)
  BY <1>4, <1>5 DEF Injection
<1>7. Cardinality(1..n) = n
  <2>1. 1 \in Int /\ n \in Int
    BY <1>1
  <2>2. Cardinality(1..n) = IF 1 > n THEN 0 ELSE n - 1 + 1
    BY <2>1, FS_Interval
  <2> QED BY <1>1, <2>2
<1>8. s \in Surjection(1..n, S)
  BY <1>6, <1>7, FS_Injection
<1>9. {s[i] : i \in 1..n} = S
  BY <1>4, <1>8 DEF Surjection
<1>10. Len(s) = n
  BY <1>1, <1>4
<1> QED BY <1>1, <1>4, <1>5, <1>9, <1>10 DEF s

\* A sum along an enumeration of a set is the sum over the set.
Enumerates(s, D, S) ==
  /\ IsFiniteSet(D) /\ s \in [D -> S]
  /\ (\A i, j \in D : s[i] = s[j] => i = j) /\ \A x \in S : \E i \in D : s[i] = x

Follows(e, f, s, D) == DOMAIN e = D /\ \A i \in D : e[i] \in Int /\ f[s[i]] = e[i]

LEMMA SumAlong ==
  ASSUME NEW s, NEW D, NEW S, Enumerates(s, D, S), NEW f, NEW e, Follows(e, f, s, D)
  PROVE  SumFunction(e) = Sum(f, S)
<1> USE DEF Follows
<1>1. {s[i] : i \in D} = S
  BY DEF Enumerates
<1>2. Sum(f, {s[i] : i \in D}) = Sum(e, D)
  BY SumRenamed DEF Enumerates
<1>3. Sum(f, S) = Sum(e, D)
  BY <1>1, <1>2, Zenon
<1>4. SumFunction(e) = Sum(e, D)
  BY SumFunctionIs
<1> QED BY <1>3, <1>4, Zenon

LEMMA SumEnumerated ==
  ASSUME NEW S, IsFiniteSet(S), NEW f, \A x \in S : f[x] \in Int
  PROVE  SumFunction([i \in 1..Cardinality(S) |-> f[SetToSeq(S)[i]]]) = Sum(f, S)
<1>1. PICK D, s : D = 1..Cardinality(S) /\ s = SetToSeq(S)
  OBVIOUS
<1>2. /\ Cardinality(S) \in Nat /\ s \in [D -> S] /\ \A i, j \in D : s[i] = s[j] => i = j
      /\ \A x \in S : \E i \in D : s[i] = x
  BY <1>1, Enumerated
<1>3. IsFiniteSet(D)
  BY <1>1, <1>2, FS_Interval
<1>4. Enumerates(s, D, S)
  BY <1>2, <1>3 DEF Enumerates
<1> DEFINE e == [i \in D |-> f[s[i]]]
<1>5. DOMAIN e = D /\ \A i \in D : e[i] \in Int /\ f[s[i]] = e[i]
  BY <1>2
<1> HIDE DEF e
<1>6. SumFunction(e) = Sum(f, S)
  BY <1>4, <1>5, SumAlong DEF Follows
<1>7. e = [i \in 1..Cardinality(S) |-> f[SetToSeq(S)[i]]]
  BY <1>1 DEF e
<1> QED BY <1>6, <1>7, Zenon

\* The sum of a concatenation.
LEMMA SumAppended ==
  ASSUME NEW s \in Seq(Int), NEW t \in Seq(Int)
  PROVE  SumFunction(s \o t) = SumFunction(s) + SumFunction(t)
<1> DEFINE a == Len(s)
           b == Len(t)
           u == s \o t
           later == [i \in 1..b |-> a + i]
<1>1. a \in Nat /\ b \in Nat /\ DOMAIN s = 1..a /\ DOMAIN t = 1..b
  OBVIOUS
<1>2. DOMAIN u = 1..(a + b) /\ (\A i \in 1..a : u[i] = s[i]) /\ (\A i \in 1..b : u[a + i] = t[i])
  BY <1>1
<1>3. (\A i \in 1..a : s[i] \in Int) /\ (\A i \in 1..b : t[i] \in Int)
  BY <1>1
<1> HIDE DEF a, b, u
<1>4. IsFiniteSet(1..a) /\ IsFiniteSet(1..b)
  BY <1>1, FS_Interval
<1>5. {later[i] : i \in 1..b} = (a + 1)..(a + b)
  <2>1. \A k \in (a + 1)..(a + b) : k - a \in 1..b /\ later[k - a] = k
    BY <1>1
  <2>2. \A i \in 1..b : later[i] \in (a + 1)..(a + b)
    BY <1>1
  <2> HIDE DEF later
  <2> QED BY <2>1, <2>2
<1>6. Sum(u, {later[i] : i \in 1..b}) = Sum(t, 1..b)
  <2>1. \A i, j \in 1..b : later[i] = later[j] => i = j
    BY <1>1
  <2>2. \A i \in 1..b : t[i] \in Int /\ u[later[i]] = t[i]
    BY <1>1, <1>2, <1>3
  <2> DEFINE D == 1..b
  <2>3. IsFiniteSet(D) /\ (\A i, j \in D : later[i] = later[j] => i = j) /\ \A i \in D : t[i] \in Int /\ u[later[i]] = t[i]
    BY <1>4, <2>1, <2>2
  <2> HIDE DEF later, D
  <2>4. Sum(u, {later[i] : i \in D}) = Sum(t, D)
    BY <2>3, SumRenamed
  <2> QED BY <2>4 DEF D
<1>7. Sum(u, 1..a) = Sum(s, 1..a)
  BY <1>2, <1>4, SumSame
<1>8. Sum(u, (1..a) \cup ((a + 1)..(a + b))) = Sum(u, 1..a) + Sum(u, (a + 1)..(a + b))
  <2>1. IsFiniteSet((a + 1)..(a + b))
    BY <1>1, FS_Interval
  <2>2. (1..a) \cap ((a + 1)..(a + b)) = {}
    BY <1>1
  <2>3. \A k \in (1..a) \cup ((a + 1)..(a + b)) : u[k] \in Int
    <3>1. \A k \in (a + 1)..(a + b) : k - a \in 1..b /\ a + (k - a) = k
      BY <1>1
    <3> QED BY <1>2, <1>3, <3>1
  <2> QED BY <1>4, <2>1, <2>2, <2>3, SumUnion
<1>9. 1..(a + b) = (1..a) \cup ((a + 1)..(a + b))
  BY <1>1
<1>10. SumFunction(u) = Sum(u, 1..(a + b)) /\ SumFunction(s) = Sum(s, 1..a) /\ SumFunction(t) = Sum(t, 1..b)
  BY <1>1, <1>2, SumFunctionIs, Zenon
<1> QED BY <1>5, <1>6, <1>7, <1>8, <1>9, <1>10, Zenon DEF u

-----------------------------------------------------------------------------
(***************************************************************************)
(* SummaryMatchesPnl: what the month summary shows, as sums over the rows  *)
(* of the profit and loss.                                                 *)
(***************************************************************************)
\* The rows of a type in some buckets.
BucketRows(p, type, B) == {r \in PnlRows(p) : r.type = type /\ BucketOf(r) \in B}
InBuckets(p, type, B) == RowSum(BucketRows(p, type, B))

LEMMA InBucketsType == ASSUME TablesTyped, NEW p, NEW type, NEW B PROVE InBuckets(p, type, B) \in Int
<1>1. BucketRows(p, type, B) \in SUBSET Rows
  BY DEF BucketRows, PnlRows
<1> QED BY <1>1, RowSumIs DEF InBuckets

LEMMA BucketsJoin ==
  ASSUME TablesTyped, NEW p, NEW type, NEW B, NEW C, B \cap C = {}
  PROVE  InBuckets(p, type, B \cup C) = InBuckets(p, type, B) + InBuckets(p, type, C)
<1>1. BucketRows(p, type, B) \in SUBSET Rows /\ BucketRows(p, type, C) \in SUBSET Rows
      /\ BucketRows(p, type, B) \cap BucketRows(p, type, C) = {}
  BY DEF BucketRows, PnlRows
<1>2. BucketRows(p, type, B \cup C) = BucketRows(p, type, B) \cup BucketRows(p, type, C)
  BY DEF BucketRows
<1>3. RowSum(BucketRows(p, type, B) \cup BucketRows(p, type, C))
        = RowSum(BucketRows(p, type, B)) + RowSum(BucketRows(p, type, C))
  BY <1>1, RowSumUnion
<1> QED BY <1>2, <1>3, Zenon DEF InBuckets

LEMMA OneBucket ==
  ASSUME NEW p, NEW type, NEW b PROVE InRows({r \in PnlRows(p) : BucketOf(r) = b}, type) = InBuckets(p, type, {b})
<1>1. {r \in {r \in PnlRows(p) : BucketOf(r) = b} : r.type = type} = BucketRows(p, type, {b})
  BY DEF BucketRows
<1> QED BY <1>1, Zenon DEF InRows, InBuckets

LEMMA RowBucket == ASSUME TablesTyped, NEW r \in Rows PROVE BucketOf(r) \in Buckets
<1>1. BucketForSystemKind(r.kind) \in Buckets
  BY DEF BucketForSystemKind, Buckets
<1> QED BY <1>1, EntryFacts DEF BucketOf

(***************************************************************************)
(* What the orders bring into a report is a number.                        *)
(***************************************************************************)
LEMMA OrderFacts ==
  ASSUME TablesTyped, NEW o \in OrderIds
  PROVE  /\ order[o].out \in SUBSET Units /\ order[o].events \in SUBSET ReturnEvent /\ IsFiniteSet(order[o].events)
         /\ Qty[o] \in Nat /\ Price[o] \in Nat /\ Discount[o] \in Nat /\ Qty[o] * Price[o] \in Nat
         /\ Discount[o] <= Qty[o] * Price[o] /\ TotalAmount(o) \in Nat /\ order[o].status \in LineStates
         /\ order[o].closed \in Nat
<1>1. order[o] \in OrderState /\ IsFiniteSet(order[o].events)
  BY DEF TablesTyped, OrdersOk
<1>2. order[o].out \in SUBSET Units /\ order[o].events \in SUBSET ReturnEvent /\ order[o].status \in LineStates
      /\ order[o].closed \in Nat
  BY <1>1 DEF OrderState
<1>3. Qty[o] \in Nat /\ Price[o] \in Nat /\ Discount[o] \in 0..(Qty[o] * Price[o])
  BY ReportsAssumption
<1>4. Qty[o] * Price[o] \in Nat
  BY <1>3, Products
<1> QED BY <1>1, <1>2, <1>3, <1>4 DEF TotalAmount

LEMMA EventsSum ==
  ASSUME TablesTyped, NEW o \in OrderIds, NEW E \in SUBSET order[o].events
  PROVE  IsFiniteSet(E) /\ EventCost(E) \in Int /\ EventRevenue(o, E) \in Nat
<1> DEFINE cost == [e \in E |-> e.cost]
           revenue == [e \in E |-> Cardinality(e.units) * Price[o]]
<1>1. IsFiniteSet(E) /\ \A e \in E : e.units \in SUBSET Units
  BY OrderFacts, FS_Subset DEF ReturnEvent
<1>2. \A e \in E : cost[e] \in Int
  BY OrderFacts DEF ReturnEvent
<1>3. \A e \in E : revenue[e] \in Nat
  <2>1. \A e \in E : Cardinality(e.units) \in Nat
    BY <1>1, UnitsFinite
  <2>2. Price[o] \in Nat
    BY OrderFacts
  <2> QED BY <2>1, <2>2, Products
<1>4. EventCost(E) = Sum(cost, E) /\ EventRevenue(o, E) = Sum(revenue, E)
  <2>1. DOMAIN cost = E /\ DOMAIN revenue = E
    OBVIOUS
  <2>2. EventCost(E) = SumFunction(cost) /\ EventRevenue(o, E) = SumFunction(revenue)
    BY DEF EventCost, EventRevenue
  <2> HIDE DEF cost, revenue
  <2> QED BY <2>1, <2>2, SumFunctionIs, Zenon
<1> HIDE DEF cost, revenue
<1> QED BY <1>1, <1>2, <1>3, <1>4, SumType

LEMMA SumOverOrders ==
  ASSUME NEW S \in SUBSET OrderIds, NEW f, DOMAIN f = S, NEW D \in {Nat, Int}, \A o \in S : f[o] \in D
  PROVE  IsFiniteSet(S) /\ SumFunction(f) = Sum(f, S) /\ SumFunction(f) \in D
<1>1. IsFiniteSet(S)
  BY ReportsAssumption, FS_Subset
<1>2. SumFunction(f) = Sum(f, S)
  BY SumFunctionIs
<1>3. Sum(f, S) \in D
  BY <1>1, SumType
<1> QED BY <1>1, <1>2, <1>3

LEMMA OrderSums ==
  ASSUME TablesTyped, NEW p
  PROVE  RecognizedRevenue(p) \in Nat /\ RecognizedCogs(p) \in Int /\ ReturnedRevenue(p) \in Nat /\ ReturnedCogs(p) \in Int
<1> DEFINE a == [o \in ClosedIn(p) |-> TotalAmount(o)]
           b == [o \in ClosedIn(p) |-> SoldCost(order[o].out) + EventCost(order[o].events)]
           c == [o \in OrderIds |-> EventRevenue(o, EventsIn(o, p))]
           d == [o \in OrderIds |-> EventCost(EventsIn(o, p))]
<1>1. ClosedIn(p) \in SUBSET OrderIds
  BY DEF ClosedIn
<1>2. \A o \in ClosedIn(p) : a[o] \in Nat
  BY <1>1, OrderFacts
<1>3. \A o \in ClosedIn(p) : b[o] \in Int
  <2> SUFFICES ASSUME NEW o \in ClosedIn(p) PROVE SoldCost(order[o].out) + EventCost(order[o].events) \in Int
    OBVIOUS
  <2>1. o \in OrderIds /\ order[o].events \in SUBSET order[o].events
    BY <1>1
  <2>2. SoldCost(order[o].out) \in Nat
    BY <2>1, OrderFacts, SoldCostType
  <2>3. EventCost(order[o].events) \in Int
    BY <2>1, EventsSum
  <2> QED BY <2>2, <2>3
<1>4. \A o \in OrderIds : c[o] \in Nat /\ d[o] \in Int
  <2>1. \A o \in OrderIds : EventsIn(o, p) \in SUBSET order[o].events
    BY DEF EventsIn
  <2> QED BY <2>1, EventsSum
<1>5. RecognizedRevenue(p) = SumFunction(a) /\ RecognizedCogs(p) = SumFunction(b) /\ ReturnedRevenue(p) = SumFunction(c)
      /\ ReturnedCogs(p) = SumFunction(d)
  BY DEF RecognizedRevenue, RecognizedCogs, ReturnedRevenue, ReturnedCogs
<1>6. DOMAIN a = ClosedIn(p) /\ DOMAIN b = ClosedIn(p) /\ DOMAIN c = OrderIds /\ DOMAIN d = OrderIds
  OBVIOUS
<1> HIDE DEF a, b, c, d
<1>7. SumFunction(a) \in Nat /\ SumFunction(b) \in Int
  BY <1>1, <1>2, <1>3, <1>6, SumOverOrders
<1>8. SumFunction(c) \in Nat /\ SumFunction(d) \in Int
  BY <1>4, <1>6, SumOverOrders
<1> QED BY <1>5, <1>7, <1>8

LEMMA TaxIsNat == ASSUME TablesTyped, NEW m PROVE TaxDue(m) \in Nat /\ MonthTax(m) \in Nat
<1> DEFINE S == {r \in Rows : MonthOf(r.at) = m}
           income == Max0(AusnSum(S, "INCOME_PLUS", "INCOME_MINUS"))
           expense == Max0(AusnSum(S, "EXPENSE_PLUS", "EXPENSE_MINUS"))
<1>1. ASSUME NEW plus, NEW minus PROVE AusnSum(S, plus, minus) \in Int
  <2>1. {r \in S : ClassifyAusnWithBucket(r) = plus} \in SUBSET Rows
        /\ {r \in S : ClassifyAusnWithBucket(r) = minus} \in SUBSET Rows
    OBVIOUS
  <2> QED BY <2>1, RowSumIs DEF AusnSum
<1>2. income \in Nat /\ expense \in Nat
  BY <1>1, Max0Is
<1>3. AusnMonthTax(S) = Max({RoundHalfUp(Max0(income - expense) * 20, 100), RoundHalfUp(income * 3, 100)})
  BY DEF AusnMonthTax
<1>a. TaxDue(m) = AusnMonthTax(S)
  BY DEF TaxDue
<1> HIDE DEF income, expense, S
<1>4. Max0(income - expense) \in Nat
  BY <1>2, Max0Is
<1>5. RoundHalfUp(Max0(income - expense) * 20, 100) \in Nat /\ RoundHalfUp(income * 3, 100) \in Nat
  <2>1. Max0(income - expense) * 20 \in Nat /\ income * 3 \in Nat
    BY <1>2, <1>4
  <2> QED BY <2>1, RoundedUp
<1>6. AusnMonthTax(S) \in Nat
  BY <1>3, <1>5, MaxOfTwo
<1>7. PaidFor(m) \in Int
  BY PaidForType
<1> QED BY <1>a, <1>6, <1>7, MaxOfTwo DEF MonthTax

\* The sum over the groups.
LEMMA ExpenseGroups ==
  ASSUME TablesTyped, NEW m \in Int
  PROVE  /\ IsFiniteSet(GroupKeys(m)) /\ \A g \in GroupKeys(m) : Group(m, g).amount \in Int
         /\ Sum([g \in GroupKeys(m) |-> Group(m, g).amount], GroupKeys(m)) = RowSum(ExpenseRows(m)) + MonthTax(m)
<1> DEFINE K == GroupKeys(m)
           P == [g \in K |-> {r \in ExpenseRows(m) : GroupOf(r) = g}]
           rows == [g \in K |-> RowSum(P[g])]
           tax == [g \in K |-> TaxIn(m, g)]
           amount == [g \in K |-> Group(m, g).amount]
           t == GroupOfSystem("tax")
<1>1. AccruedTax(MonthPeriod(m), MonthPeriod(m)) = MonthTax(m) /\ MonthTax(m) \in Nat
  <2>1. MonthPeriod(m).from = MonthStart(m) /\ MonthPeriod(m).to = MonthEnd(m) /\ MonthStart(m) \in Int /\ MonthEnd(m) \in Int
    BY MonthsOfMonth, MonthLength
  <2>2. MonthPeriod(m).from \in Int /\ MonthPeriod(m).to \in Int /\ MonthPeriod(m).from <= MonthStart(m)
        /\ MonthEnd(m) <= MonthPeriod(m).to
    BY <2>1
  <2>3. AccruedTax(MonthPeriod(m), MonthPeriod(m)) = MonthTax(m)
    BY <2>2, AccruedForMonth
  <2> QED BY <2>3, TaxIsNat
<1>2. ExpenseRows(m) \in SUBSET Rows /\ IsFiniteSet(ExpenseRows(m))
  <2>1. ExpenseRows(m) \in SUBSET Rows
    BY DEF ExpenseRows, PnlRows
  <2> QED BY <2>1, RowSumIs
<1>3. IsFiniteSet(K)
  <2> DEFINE h == [r \in ExpenseRows(m) |-> GroupOf(r)]
  <2>1. {GroupOf(r) : r \in ExpenseRows(m)} = {h[r] : r \in ExpenseRows(m)}
    OBVIOUS
  <2> HIDE DEF h
  <2>2. IsFiniteSet({h[r] : r \in ExpenseRows(m)})
    BY <1>2, ImageFinite
  <2>3. IsFiniteSet({GroupOf(r) : r \in ExpenseRows(m)})
    BY <2>1, <2>2, Zenon
  <2>4. IsFiniteSet({t}) /\ IsFiniteSet({})
    BY FS_Singleton, FS_EmptySet
  <2>5. IsFiniteSet(IF AccruedTax(MonthPeriod(m), MonthPeriod(m)) > 0 THEN {t} ELSE {})
    BY <2>4
  <2> QED BY <2>3, <2>5, FS_Union DEF GroupKeys
<1>4. \A g \in K : /\ P[g] \in SUBSET Rows /\ rows[g] \in Int /\ tax[g] \in Int /\ amount[g] = rows[g] + tax[g]
                   /\ tax[g] = (IF g = t THEN MonthTax(m) ELSE 0)
  <2> SUFFICES ASSUME NEW g \in K
               PROVE  /\ P[g] \in SUBSET Rows /\ rows[g] \in Int /\ tax[g] \in Int /\ amount[g] = rows[g] + tax[g]
                      /\ tax[g] = (IF g = t THEN MonthTax(m) ELSE 0)
    OBVIOUS
  <2>1. P[g] = {r \in ExpenseRows(m) : GroupOf(r) = g} /\ rows[g] = RowSum(P[g]) /\ tax[g] = TaxIn(m, g)
        /\ amount[g] = Group(m, g).amount
    OBVIOUS
  <2>2. P[g] \in SUBSET Rows
    BY <1>2, <2>1
  <2>3. Group(m, g).amount = RowSum({r \in ExpenseRows(m) : GroupOf(r) = g}) + TaxIn(m, g)
    BY DEF Group
  <2>4. TaxIn(m, g) = (IF g = t THEN MonthTax(m) ELSE 0) /\ TaxIn(m, g) \in Int
    BY <1>1 DEF TaxIn
  <2> HIDE DEF P, rows, tax, amount, t
  <2>5. RowSum(P[g]) \in Int
    BY <2>2, RowSumIs
  <2>6. amount[g] = rows[g] + tax[g]
    BY <2>1, <2>3, Zenon
  <2> QED BY <2>1, <2>2, <2>4, <2>5, <2>6
<1>5. Sum(amount, K) = Sum(rows, K) + Sum(tax, K)
  <2> HIDE DEF P, rows, tax, amount, t, K
  <2> QED BY <1>3, <1>4, SumPlus
<1>6. Sum(rows, K) = RowSum(ExpenseRows(m))
  <2>1. Parted(Worths(ledger), K, P, rows)
    <3>1. \A j, k \in K : j # k => P[j] \cap P[k] = {}
      OBVIOUS
    <3>2. ASSUME NEW k \in K PROVE IsFiniteSet(P[k]) /\ rows[k] = Sum(Worths(ledger), P[k]) /\ \A x \in P[k] : Worths(ledger)[x] \in Int
      <4>1. P[k] \in SUBSET Rows
        BY <1>4
      <4>2. rows[k] = RowSum(P[k])
        OBVIOUS
      <4> HIDE DEF P, rows, K
      <4> QED BY <4>1, <4>2, RowSumIs
    <3> HIDE DEF P, rows, K
    <3> QED BY <3>1, <3>2 DEF Parted
  <2>2. UNION {P[k] : k \in K} = ExpenseRows(m)
    <3>1. \A r \in ExpenseRows(m) : GroupOf(r) \in K /\ r \in P[GroupOf(r)]
      BY DEF GroupKeys
    <3>2. \A k \in K : P[k] \subseteq ExpenseRows(m)
      OBVIOUS
    <3> HIDE DEF P, K
    <3> QED BY <3>1, <3>2
  <2> HIDE DEF P, rows, K
  <2>3. Sum(Worths(ledger), UNION {P[k] : k \in K}) = Sum(rows, K)
    BY <1>3, <2>1, SumParts
  <2>4. RowSum(ExpenseRows(m)) = Sum(Worths(ledger), ExpenseRows(m))
    BY <1>2, RowSumIs
  <2> QED BY <2>2, <2>3, <2>4, Zenon
<1>7. Sum(tax, K) = MonthTax(m)
  <2>1. t \in K \/ MonthTax(m) = 0
    BY <1>1 DEF GroupKeys
  <2>2. \A g \in K : tax[g] \in Int /\ tax[g] = (IF g = t THEN MonthTax(m) ELSE 0)
    BY <1>4
  <2> HIDE DEF P, rows, tax, amount, t, K
  <2>3. CASE MonthTax(m) = 0
    <3>1. \A g \in K : tax[g] = 0
      BY <2>2, <2>3
    <3> QED BY <1>3, <2>3, <3>1, SumZero
  <2>4. CASE t \in K
    <3>1. Sum(tax, K) = tax[t] + Sum(tax, K \ {t})
      BY <1>3, <2>2, <2>4, SumTake
    <3>2. Sum(tax, K \ {t}) = 0
      <4>1. IsFiniteSet(K \ {t}) /\ \A g \in K \ {t} : tax[g] = 0
        BY <1>3, <2>2, FS_Subset
      <4> QED BY <4>1, SumZero
    <3> QED BY <1>1, <2>2, <2>4, <3>1, <3>2
  <2> QED BY <2>1, <2>3, <2>4
<1>8. \A g \in K : Group(m, g).amount \in Int
  <2>1. \A g \in K : amount[g] = Group(m, g).amount
    OBVIOUS
  <2> HIDE DEF P, rows, tax, amount, t, K
  <2>2. \A g \in K : amount[g] \in Int
    BY <1>4
  <2> QED BY <2>1, <2>2
<1> QED BY <1>3, <1>5, <1>6, <1>7, <1>8

\* The other income is what the rows of its buckets bring.
LEMMA OtherIncomeIs ==
  ASSUME TablesTyped, NEW p
  PROVE  SumFunction([b \in OtherIncomeBuckets |-> Income(p)[b]]) = InBuckets(p, "INCOME", OtherIncomeBuckets)
<1> DEFINE K == OtherIncomeBuckets
           P == [b \in K |-> BucketRows(p, "INCOME", {b})]
           f == [b \in K |-> Income(p)[b]]
<1>1. IsFiniteSet(K)
  <2>1. K = {"COGS", "FIXED"} \cup {"VARIABLE", "TAX"} \cup {"OTHER"}
    BY DEF OtherIncomeBuckets
  <2>2. IsFiniteSet({"COGS"} \cup {"FIXED"}) /\ IsFiniteSet({"VARIABLE"} \cup {"TAX"}) /\ IsFiniteSet({"OTHER"})
    BY FS_Singleton, FS_Union
  <2>3. {"COGS"} \cup {"FIXED"} = {"COGS", "FIXED"} /\ {"VARIABLE"} \cup {"TAX"} = {"VARIABLE", "TAX"}
    OBVIOUS
  <2>4. IsFiniteSet({"COGS", "FIXED"}) /\ IsFiniteSet({"VARIABLE", "TAX"}) /\ IsFiniteSet({"OTHER"})
    BY <2>2, <2>3, Zenon
  <2>5. IsFiniteSet({"COGS", "FIXED"} \cup {"VARIABLE", "TAX"})
    BY <2>4, FS_Union
  <2>6. IsFiniteSet({"COGS", "FIXED"} \cup {"VARIABLE", "TAX"} \cup {"OTHER"})
    BY <2>4, <2>5, FS_Union
  <2> QED BY <2>1, <2>6, Zenon
<1>2. ASSUME NEW b \in K
      PROVE  /\ IsFiniteSet(P[b]) /\ f[b] = Sum(Worths(ledger), P[b]) /\ \A x \in P[b] : Worths(ledger)[x] \in Int
  <2>1. P[b] = BucketRows(p, "INCOME", {b}) /\ f[b] = Income(p)[b]
    OBVIOUS
  <2>2. b \in Buckets /\ b # "REVENUE"
    BY DEF OtherIncomeBuckets, Buckets
  <2>3. Income(p)[b] = InRows({r \in PnlRows(p) : BucketOf(r) = b}, "INCOME") + 0
    BY <2>2 DEF Income
  <2>4. P[b] \in SUBSET Rows
    BY <2>1 DEF BucketRows, PnlRows
  <2> HIDE DEF P, f, K
  <2>7. InRows({r \in PnlRows(p) : BucketOf(r) = b}, "INCOME") = InBuckets(p, "INCOME", {b})
    BY OneBucket
  <2>8. InBuckets(p, "INCOME", {b}) = RowSum(P[b])
    BY <2>1, Zenon DEF InBuckets
  <2>5. InRows({r \in PnlRows(p) : BucketOf(r) = b}, "INCOME") = RowSum(P[b])
    BY <2>7, <2>8, Zenon
  <2>6. IsFiniteSet(P[b]) /\ (\A x \in P[b] : Worths(ledger)[x] \in Int) /\ RowSum(P[b]) = Sum(Worths(ledger), P[b])
        /\ RowSum(P[b]) \in Int
    BY <2>4, RowSumIs
  <2>9. f[b] = RowSum(P[b]) + 0
    BY <2>1, <2>3, <2>5, Zenon
  <2>10. f[b] = RowSum(P[b])
    BY <2>6, <2>9
  <2> QED BY <2>6, <2>10
<1>3. \A j, k \in K : j # k => P[j] \cap P[k] = {}
  BY DEF BucketRows
<1>4. UNION {P[b] : b \in K} = BucketRows(p, "INCOME", K)
  <2>1. \A b \in K : P[b] = BucketRows(p, "INCOME", {b})
    OBVIOUS
  <2>2. \A b \in K : \A r : r \in BucketRows(p, "INCOME", {b}) <=> r \in BucketRows(p, "INCOME", K) /\ BucketOf(r) = b
    BY DEF BucketRows
  <2>3. \A r \in BucketRows(p, "INCOME", K) : BucketOf(r) \in K
    BY DEF BucketRows
  <2> HIDE DEF P, f, K
  <2>4. \A b \in K : \A r \in P[b] : r \in BucketRows(p, "INCOME", K)
    BY <2>1, <2>2
  <2>5. \A r \in BucketRows(p, "INCOME", K) : \E b \in K : r \in P[b]
    <3> SUFFICES ASSUME NEW r \in BucketRows(p, "INCOME", K) PROVE \E b \in K : r \in P[b]
      OBVIOUS
    <3>1. PICK b \in K : b = BucketOf(r)
      BY <2>3
    <3>2. r \in BucketRows(p, "INCOME", {b})
      BY <2>2, <3>1
    <3>3. r \in P[b]
      BY <2>1, <3>1, <3>2, Zenon
    <3> QED BY <3>1, <3>3
  <2> QED BY <2>4, <2>5
<1>5. DOMAIN f = K
  OBVIOUS
<1> HIDE DEF P, f, K
<1>6. Parted(Worths(ledger), K, P, f)
  BY <1>2, <1>3 DEF Parted
<1>7. Sum(Worths(ledger), UNION {P[b] : b \in K}) = Sum(f, K)
  BY <1>1, <1>6, SumParts
<1>8. Sum(Worths(ledger), BucketRows(p, "INCOME", K)) = Sum(f, K)
  BY <1>4, <1>7, Zenon
<1>9. InBuckets(p, "INCOME", K) = Sum(Worths(ledger), BucketRows(p, "INCOME", K))
  <2>1. BucketRows(p, "INCOME", K) \in SUBSET Rows
    BY DEF BucketRows, PnlRows
  <2> QED BY <2>1, RowSumIs DEF InBuckets
<1>10. SumFunction(f) = Sum(f, K)
  BY <1>5, SumFunctionIs
<1>11. SumFunction(f) = InBuckets(p, "INCOME", K)
  BY <1>8, <1>9, <1>10, Zenon
<1> QED BY <1>11 DEF f, K

SalesBuckets == {"REVENUE"}
GoodsBuckets == {"COGS"}

\* What the profit counts of the rows of a type.
LEMMA ProfitRows ==
  ASSUME TablesTyped, NEW p, NEW type
  PROVE  /\ InRows({r \in PnlRows(p) : BucketOf(r) \notin OffNet}, type)
              = InBuckets(p, type, SalesBuckets) + InBuckets(p, type, GoodsBuckets) + InBuckets(p, type, ExpenseGroupBuckets)
         /\ InBuckets(p, type, OtherIncomeBuckets) = InBuckets(p, type, GoodsBuckets) + InBuckets(p, type, ExpenseGroupBuckets)
<1>1. GoodsBuckets \cap ExpenseGroupBuckets = {} /\ GoodsBuckets \cup ExpenseGroupBuckets = OtherIncomeBuckets
      /\ SalesBuckets \cap OtherIncomeBuckets = {}
  BY DEF ExpenseGroupBuckets, OtherIncomeBuckets, SalesBuckets, GoodsBuckets
<1>2. InBuckets(p, type, GoodsBuckets \cup ExpenseGroupBuckets)
        = InBuckets(p, type, GoodsBuckets) + InBuckets(p, type, ExpenseGroupBuckets)
  BY <1>1, BucketsJoin
<1>3. InBuckets(p, type, OtherIncomeBuckets) = InBuckets(p, type, GoodsBuckets) + InBuckets(p, type, ExpenseGroupBuckets)
  BY <1>1, <1>2, Zenon
<1>4. InBuckets(p, type, SalesBuckets \cup OtherIncomeBuckets)
        = InBuckets(p, type, SalesBuckets) + InBuckets(p, type, OtherIncomeBuckets)
  BY <1>1, BucketsJoin
<1>5. {r \in {r \in PnlRows(p) : BucketOf(r) \notin OffNet} : r.type = type}
        = BucketRows(p, type, SalesBuckets \cup OtherIncomeBuckets)
  <2>1. ASSUME NEW r \in PnlRows(p) PROVE BucketOf(r) \notin OffNet <=> BucketOf(r) \in SalesBuckets \cup OtherIncomeBuckets
    <3>1. BucketOf(r) \in Buckets
      BY RowBucket DEF PnlRows
    <3> QED BY <3>1 DEF Buckets, OffNet, OtherIncomeBuckets, SalesBuckets
  <2> QED BY <2>1 DEF BucketRows
<1>6. InRows({r \in PnlRows(p) : BucketOf(r) \notin OffNet}, type) = InBuckets(p, type, SalesBuckets \cup OtherIncomeBuckets)
  BY <1>5, Zenon DEF InRows, InBuckets
<1>7. InBuckets(p, type, SalesBuckets) \in Int /\ InBuckets(p, type, GoodsBuckets) \in Int
      /\ InBuckets(p, type, ExpenseGroupBuckets) \in Int
  BY InBucketsType
<1> QED BY <1>3, <1>4, <1>6, <1>7

LEMMA SliceNetIs ==
  ASSUME TablesTyped, NEW p, NEW q, AccruedTax(p, q) \in Int
  PROVE  /\ SliceNet(p, q)
              = InBuckets(p, "INCOME", SalesBuckets) + InBuckets(p, "INCOME", OtherIncomeBuckets)
                - InBuckets(p, "EXPENSE", SalesBuckets) - InBuckets(p, "EXPENSE", GoodsBuckets)
                - InBuckets(p, "EXPENSE", ExpenseGroupBuckets)
                + RecognizedRevenue(p) - ReturnedRevenue(p) - RecognizedCogs(p) + ReturnedCogs(p) - AccruedTax(p, q)
         /\ SliceNet(p, q) \in Int
<1>1. \A type, B : InBuckets(p, type, B) \in Int
  BY InBucketsType
<1>2. RecognizedRevenue(p) \in Int /\ RecognizedCogs(p) \in Int /\ ReturnedRevenue(p) \in Int /\ ReturnedCogs(p) \in Int
  BY OrderSums
<1> DEFINE X == {r \in PnlRows(p) : BucketOf(r) \notin OffNet}
<1>3. Balance(X)
        = InBuckets(p, "INCOME", SalesBuckets) + InBuckets(p, "INCOME", OtherIncomeBuckets)
          - (InBuckets(p, "EXPENSE", SalesBuckets) + InBuckets(p, "EXPENSE", GoodsBuckets)
             + InBuckets(p, "EXPENSE", ExpenseGroupBuckets))
  <2>1. InRows(X, "INCOME")
          = InBuckets(p, "INCOME", SalesBuckets) + InBuckets(p, "INCOME", OtherIncomeBuckets)
    BY <1>1, ProfitRows
  <2>2. InRows(X, "EXPENSE")
          = InBuckets(p, "EXPENSE", SalesBuckets) + InBuckets(p, "EXPENSE", GoodsBuckets)
            + InBuckets(p, "EXPENSE", ExpenseGroupBuckets)
    BY ProfitRows
  <2> HIDE DEF X
  <2> QED BY <1>1, <2>1, <2>2 DEF Balance
<1>4. SliceNet(p, q) = Balance(X) + (RecognizedRevenue(p) - ReturnedRevenue(p))
                       - (RecognizedCogs(p) - ReturnedCogs(p)) - AccruedTax(p, q)
  BY DEF SliceNet
<1> HIDE DEF X
<1> QED BY <1>1, <1>2, <1>3, <1>4

LEMMA FiguresAre ==
  ASSUME TablesTyped, NEW m \in Int
  PROVE  LET f == Figures(m) p == MonthPeriod(m)
         IN /\ f.sales = InBuckets(p, "INCOME", SalesBuckets) + RecognizedRevenue(p)
                         - (InBuckets(p, "EXPENSE", SalesBuckets) + ReturnedRevenue(p))
            /\ f.components = InBuckets(p, "EXPENSE", GoodsBuckets) + (RecognizedCogs(p) - ReturnedCogs(p))
            /\ f.otherIncome = InBuckets(p, "INCOME", OtherIncomeBuckets)
            /\ f.net = SliceNet(p, p)
            /\ Expenses(f) = InBuckets(p, "EXPENSE", ExpenseGroupBuckets) + MonthTax(m)
            /\ f.groups \in Seq(Int) /\ f.ordersClosed = Cardinality(ClosedIn(p))
<1> DEFINE f == Figures(m)
           p == MonthPeriod(m)
           K == GroupKeys(m)
           g == [k \in K |-> Group(m, k).amount]
<1>1. f.sales = Income(p)["REVENUE"] - Expense(p, p)["REVENUE"] /\ f.components = Expense(p, p)["COGS"]
      /\ f.otherIncome = SumFunction([b \in OtherIncomeBuckets |-> Income(p)[b]]) /\ f.net = SliceNet(p, p)
      /\ f.groups = [i \in DOMAIN SetToSeq(K) |-> Group(m, SetToSeq(K)[i]).amount]
      /\ f.ordersClosed = Cardinality(ClosedIn(p))
  BY DEF Figures
<1>2. IsFiniteSet(K) /\ (\A k \in K : g[k] \in Int) /\ Sum(g, K) = RowSum(ExpenseRows(m)) + MonthTax(m)
  BY ExpenseGroups
<1>3. \A k \in K : g[k] = Group(m, k).amount
  OBVIOUS
<1>4. ExpenseRows(m) = BucketRows(p, "EXPENSE", ExpenseGroupBuckets)
  BY DEF ExpenseRows, BucketRows
<1> HIDE DEF f, K, g
<1>5. /\ Cardinality(K) \in Nat /\ SetToSeq(K) \in [1..Cardinality(K) -> K]
  BY <1>2, Enumerated
<1>6. f.groups = [i \in 1..Cardinality(K) |-> g[SetToSeq(K)[i]]]
  <2>1. DOMAIN SetToSeq(K) = 1..Cardinality(K) /\ \A i \in 1..Cardinality(K) : SetToSeq(K)[i] \in K
    BY <1>5
  <2> QED BY <1>1, <1>3, <2>1
<1>7. SumFunction(f.groups) = Sum(g, K)
  <2>1. SumFunction([i \in 1..Cardinality(K) |-> g[SetToSeq(K)[i]]]) = Sum(g, K)
    BY <1>2, SumEnumerated
  <2> QED BY <1>6, <2>1, Zenon
<1>8. f.groups \in Seq(Int)
  <2>1. \A i \in 1..Cardinality(K) : g[SetToSeq(K)[i]] \in Int
    BY <1>2, <1>5
  <2> QED BY <1>5, <1>6, <2>1
<1>9. Expenses(f) = InBuckets(p, "EXPENSE", ExpenseGroupBuckets) + MonthTax(m)
  <2>1. RowSum(ExpenseRows(m)) = InBuckets(p, "EXPENSE", ExpenseGroupBuckets)
    BY <1>4, Zenon DEF InBuckets
  <2> HIDE DEF p
  <2> QED BY <1>2, <1>7, <2>1 DEF Expenses
<1>10. /\ Income(p)["REVENUE"] = InBuckets(p, "INCOME", SalesBuckets) + RecognizedRevenue(p)
       /\ Expense(p, p)["REVENUE"] = InBuckets(p, "EXPENSE", SalesBuckets) + ReturnedRevenue(p)
       /\ Expense(p, p)["COGS"] = InBuckets(p, "EXPENSE", GoodsBuckets) + (RecognizedCogs(p) - ReturnedCogs(p))
  <2>1. "REVENUE" \in Buckets /\ "COGS" \in Buckets
    BY DEF Buckets
  <2>2. Income(p)["REVENUE"] = InRows({r \in PnlRows(p) : BucketOf(r) = "REVENUE"}, "INCOME") + RecognizedRevenue(p)
    BY <2>1 DEF Income
  <2>3. /\ Expense(p, p)["REVENUE"] = InRows({r \in PnlRows(p) : BucketOf(r) = "REVENUE"}, "EXPENSE") + ReturnedRevenue(p)
        /\ Expense(p, p)["COGS"]
             = InRows({r \in PnlRows(p) : BucketOf(r) = "COGS"}, "EXPENSE") + (RecognizedCogs(p) - ReturnedCogs(p))
    BY <2>1 DEF Expense
  <2> HIDE DEF p
  <2>4. /\ InRows({r \in PnlRows(p) : BucketOf(r) = "REVENUE"}, "INCOME") = InBuckets(p, "INCOME", SalesBuckets)
        /\ InRows({r \in PnlRows(p) : BucketOf(r) = "REVENUE"}, "EXPENSE") = InBuckets(p, "EXPENSE", SalesBuckets)
        /\ InRows({r \in PnlRows(p) : BucketOf(r) = "COGS"}, "EXPENSE") = InBuckets(p, "EXPENSE", GoodsBuckets)
    BY OneBucket, Zenon DEF SalesBuckets, GoodsBuckets
  <2> QED BY <2>2, <2>3, <2>4, Zenon
<1>11. f.otherIncome = InBuckets(p, "INCOME", OtherIncomeBuckets)
  <2> HIDE DEF p
  <2> QED BY <1>1, OtherIncomeIs, Zenon
<1> HIDE DEF p
<1>12. /\ f.sales = InBuckets(p, "INCOME", SalesBuckets) + RecognizedRevenue(p)
                    - (InBuckets(p, "EXPENSE", SalesBuckets) + ReturnedRevenue(p))
       /\ f.components = InBuckets(p, "EXPENSE", GoodsBuckets) + (RecognizedCogs(p) - ReturnedCogs(p))
       /\ f.otherIncome = InBuckets(p, "INCOME", OtherIncomeBuckets) /\ f.net = SliceNet(p, p)
       /\ Expenses(f) = InBuckets(p, "EXPENSE", ExpenseGroupBuckets) + MonthTax(m)
       /\ f.groups \in Seq(Int) /\ f.ordersClosed = Cardinality(ClosedIn(p))
  <2>1. \A type, B : InBuckets(p, type, B) \in Int
    BY InBucketsType
  <2>2. RecognizedRevenue(p) \in Int /\ ReturnedRevenue(p) \in Int
    BY OrderSums
  <2> QED BY <1>1, <1>8, <1>9, <1>10, <1>11, <2>1, <2>2
<1> QED BY <1>12 DEF f, p

LEMMA MonthAccrues ==
  ASSUME TablesTyped, NEW m \in Int
  PROVE  AccruedTax(MonthPeriod(m), MonthPeriod(m)) = MonthTax(m) /\ MonthTax(m) \in Nat
<1>1. MonthPeriod(m).from = MonthStart(m) /\ MonthPeriod(m).to = MonthEnd(m) /\ MonthStart(m) \in Int /\ MonthEnd(m) \in Int
  BY MonthsOfMonth, MonthLength
<1>2. MonthPeriod(m).from \in Int /\ MonthPeriod(m).to \in Int /\ MonthPeriod(m).from <= MonthStart(m)
      /\ MonthEnd(m) <= MonthPeriod(m).to
  BY <1>1
<1>3. AccruedTax(MonthPeriod(m), MonthPeriod(m)) = MonthTax(m)
  BY <1>2, AccruedForMonth
<1> QED BY <1>3, TaxIsNat

LEMMA FiguresTypes ==
  ASSUME TablesTyped, NEW m \in Int
  PROVE  LET f == Figures(m)
         IN /\ f.sales \in Int /\ f.components \in Int /\ f.otherIncome \in Int /\ f.net \in Int /\ Expenses(f) \in Int
            /\ f.groups \in Seq(Int) /\ f.ordersClosed \in Nat
<1> DEFINE f == Figures(m)
           p == MonthPeriod(m)
<1>1. \A type, B : InBuckets(p, type, B) \in Int
  BY InBucketsType
<1>2. RecognizedRevenue(p) \in Int /\ RecognizedCogs(p) \in Int /\ ReturnedRevenue(p) \in Int /\ ReturnedCogs(p) \in Int
  BY OrderSums
<1>3. MonthTax(m) \in Int /\ AccruedTax(p, p) \in Int
  BY MonthAccrues
<1>4. SliceNet(p, p) \in Int
  BY <1>3, SliceNetIs
<1>5. Cardinality(ClosedIn(p)) \in Nat
  <2>1. IsFiniteSet(ClosedIn(p))
    BY ReportsAssumption, FS_Subset DEF ClosedIn
  <2> QED BY <2>1, FS_CardinalityType
<1>6. /\ f.sales = InBuckets(p, "INCOME", SalesBuckets) + RecognizedRevenue(p)
                   - (InBuckets(p, "EXPENSE", SalesBuckets) + ReturnedRevenue(p))
      /\ f.components = InBuckets(p, "EXPENSE", GoodsBuckets) + (RecognizedCogs(p) - ReturnedCogs(p))
      /\ f.otherIncome = InBuckets(p, "INCOME", OtherIncomeBuckets)
      /\ f.net = SliceNet(p, p)
      /\ Expenses(f) = InBuckets(p, "EXPENSE", ExpenseGroupBuckets) + MonthTax(m)
      /\ f.groups \in Seq(Int) /\ f.ordersClosed = Cardinality(ClosedIn(p))
  BY FiguresAre
<1> HIDE DEF f, p
<1>7. f.sales \in Int /\ f.components \in Int
  BY <1>1, <1>2, <1>6
<1>8. f.otherIncome \in Int /\ f.net \in Int /\ Expenses(f) \in Int
  BY <1>1, <1>3, <1>4, <1>6
<1>9. f.groups \in Seq(Int) /\ f.ordersClosed \in Nat
  BY <1>5, <1>6, Zenon
<1> QED BY <1>7, <1>8, <1>9 DEF f

LEMMA ReportMonth == ASSUME NEW m \in ReportMonths PROVE m \in Int
<1>1. PICK at \in DaysAsked : m = MonthOf(at)
  BY DEF ReportMonths
<1>2. at \in Int
  BY DaysAre
<1> QED BY <1>1, <1>2, MonthHasDay

LEMMA SummaryIsPnl ==
  ASSUME TablesTyped, NEW m \in Int
  PROVE  LET f == Figures(m) IN f.sales - f.components - Expenses(f) + f.otherIncome = f.net
<1> DEFINE f == Figures(m)
           p == MonthPeriod(m)
<1>1. \A type, B : InBuckets(p, type, B) \in Int
  BY InBucketsType
<1>2. RecognizedRevenue(p) \in Int /\ RecognizedCogs(p) \in Int /\ ReturnedRevenue(p) \in Int /\ ReturnedCogs(p) \in Int
  BY OrderSums
<1>3. MonthTax(m) \in Int /\ AccruedTax(p, p) = MonthTax(m)
  BY MonthAccrues
<1>4. SliceNet(p, p)
        = InBuckets(p, "INCOME", SalesBuckets) + InBuckets(p, "INCOME", OtherIncomeBuckets)
          - InBuckets(p, "EXPENSE", SalesBuckets) - InBuckets(p, "EXPENSE", GoodsBuckets)
          - InBuckets(p, "EXPENSE", ExpenseGroupBuckets)
          + RecognizedRevenue(p) - ReturnedRevenue(p) - RecognizedCogs(p) + ReturnedCogs(p) - AccruedTax(p, p)
  BY <1>3, SliceNetIs
<1>5. /\ f.sales = InBuckets(p, "INCOME", SalesBuckets) + RecognizedRevenue(p)
                   - (InBuckets(p, "EXPENSE", SalesBuckets) + ReturnedRevenue(p))
      /\ f.components = InBuckets(p, "EXPENSE", GoodsBuckets) + (RecognizedCogs(p) - ReturnedCogs(p))
      /\ f.otherIncome = InBuckets(p, "INCOME", OtherIncomeBuckets)
      /\ f.net = SliceNet(p, p)
      /\ Expenses(f) = InBuckets(p, "EXPENSE", ExpenseGroupBuckets) + MonthTax(m)
  BY FiguresAre
<1> HIDE DEF f, p
<1>6. f.sales - f.components - Expenses(f) + f.otherIncome = f.net
  BY <1>1, <1>2, <1>3, <1>4, <1>5
<1> QED BY <1>6 DEF f

-----------------------------------------------------------------------------
(***************************************************************************)
(* SharesAddUp: the method of the largest remainder.                       *)
(***************************************************************************)
Abs(x) == IF x < 0 THEN -x ELSE x
Beats(parts, den, i, j) ==
  \/ parts[i] % den > parts[j] % den
  \/ parts[i] % den = parts[j] % den /\ Abs(parts[i]) > Abs(parts[j])
  \/ parts[i] % den = parts[j] % den /\ Abs(parts[i]) = Abs(parts[j]) /\ i < j
Ahead(parts, den, i) == {j \in DOMAIN parts : Beats(parts, den, j, i)}
Rank(parts, den) == [i \in DOMAIN parts |-> Cardinality(Ahead(parts, den, i))]
Missing(parts, target, den) == target - SumFunction([i \in DOMAIN parts |-> parts[i] \div den])

LEMMA SharesAre ==
  ASSUME NEW parts, NEW target, NEW den
  PROVE  LargestRemainder(parts, target, den)
           = [i \in DOMAIN parts |->
                parts[i] \div den + (Missing(parts, target, den) + Len(parts) - 1 - Rank(parts, den)[i]) \div Len(parts)]
  BY DEF LargestRemainder, Missing, Rank, Ahead, Beats, Abs

LEMMA Divided ==
  ASSUME NEW x \in Int, NEW y \in Nat \ {0}
  PROVE  x \div y \in Int /\ x % y \in 0..(y - 1) /\ x = y * (x \div y) + (x % y)
<1>1. x \div y \in Int /\ x % y \in 0..(y - 1)
  OBVIOUS
<1>2. x = y * (x \div y) + (x % y)
  OBVIOUS
<1> QED BY <1>1, <1>2

\* Nobody has the rank of another.
LEMMA Ranked ==
  ASSUME NEW parts \in Seq(Int), NEW den \in Nat \ {0}
  PROVE  LET n == Len(parts) rank == Rank(parts, den)
         IN /\ n \in Nat /\ DOMAIN rank = 1..n /\ \A i \in 1..n : rank[i] \in 0..(n - 1)
            /\ \A i, j \in 1..n : rank[i] = rank[j] => i = j
            /\ {rank[i] : i \in 1..n} = 0..(n - 1)
<1> DEFINE n == Len(parts)
           D == 1..n
           rank == Rank(parts, den)
           A(i) == Ahead(parts, den, i)
           R(j, i) == Beats(parts, den, j, i)
<1>1. n \in Nat /\ DOMAIN parts = D /\ (\A i \in D : parts[i] \in Int) /\ D \subseteq Int
  OBVIOUS
<1>2. IsFiniteSet(D) /\ Cardinality(D) = n
  <2>1. 1 \in Int /\ n \in Int
    OBVIOUS
  <2>2. IsFiniteSet(1..n) /\ Cardinality(1..n) = IF 1 > n THEN 0 ELSE n - 1 + 1
    BY <2>1, FS_Interval
  <2> QED BY <1>1, <2>2
<1> HIDE DEF n, D
<1>3. \A i \in D : A(i) \in SUBSET D /\ IsFiniteSet(A(i)) /\ Cardinality(A(i)) \in Nat /\ rank[i] = Cardinality(A(i))
  <2> SUFFICES ASSUME NEW i \in D
               PROVE  A(i) \in SUBSET D /\ IsFiniteSet(A(i)) /\ Cardinality(A(i)) \in Nat /\ rank[i] = Cardinality(A(i))
    OBVIOUS
  <2>1. A(i) \in SUBSET D
    BY <1>1 DEF Ahead
  <2>2. rank[i] = Cardinality(A(i))
    BY <1>1 DEF Rank
  <2> QED BY <1>2, <2>1, <2>2, FS_Subset, FS_CardinalityType
<1>4. \A i, j \in D : j \in A(i) <=> R(j, i)
  BY <1>1 DEF Ahead
<1>5. \A i, j, k \in D : /\ ~R(i, i) /\ (i # j => R(i, j) \/ R(j, i))
                         /\ R(i, j) /\ R(j, k) => R(i, k)
  <2> SUFFICES ASSUME NEW i \in D, NEW j \in D, NEW k \in D
               PROVE  ~R(i, i) /\ (i # j => R(i, j) \/ R(j, i)) /\ (R(i, j) /\ R(j, k) => R(i, k))
    OBVIOUS
  <2>1. /\ i \in Int /\ j \in Int /\ k \in Int
        /\ parts[i] % den \in Int /\ parts[j] % den \in Int /\ parts[k] % den \in Int
        /\ Abs(parts[i]) \in Int /\ Abs(parts[j]) \in Int /\ Abs(parts[k]) \in Int
    BY <1>1, SMTT(60) DEF Abs
  <2>2. ~R(i, i) /\ (i # j => R(i, j) \/ R(j, i))
    BY <2>1, SMTT(30) DEF Beats
  <2>3. R(i, j) /\ R(j, k) => R(i, k)
    BY <2>1, SMTT(30) DEF Beats
  <2> QED BY <2>2, <2>3
<1>6. ASSUME NEW i \in D, NEW j \in D, R(j, i) PROVE rank[j] < rank[i]
  <2>1. j \in A(i) /\ j \notin A(j) /\ A(j) \subseteq A(i)
    BY <1>3, <1>4, <1>5, <1>6
  <2>2. Cardinality(A(j) \cup {j}) = Cardinality(A(j)) + 1
    BY <1>3, <2>1, FS_AddElement
  <2>3. Cardinality(A(j) \cup {j}) <= Cardinality(A(i))
    <3>1. A(j) \cup {j} \in SUBSET A(i)
      BY <2>1
    <3> QED BY <1>3, <3>1, FS_Subset
  <2> QED BY <1>3, <2>2, <2>3
<1>7. \A i \in D : rank[i] \in 0..(n - 1)
  <2> SUFFICES ASSUME NEW i \in D PROVE rank[i] \in 0..(n - 1)
    OBVIOUS
  <2>1. A(i) \cup {i} \in SUBSET D /\ i \notin A(i)
    BY <1>3, <1>4, <1>5
  <2>2. Cardinality(A(i) \cup {i}) = Cardinality(A(i)) + 1
    BY <1>3, <2>1, FS_AddElement
  <2>3. Cardinality(A(i) \cup {i}) <= n
    BY <1>2, <2>1, FS_Subset
  <2> QED BY <1>1, <1>3, <2>2, <2>3
<1>8. \A i, j \in D : rank[i] = rank[j] => i = j
  <2>1. \A i \in D : rank[i] \in Int
    BY <1>3
  <2> QED BY <1>5, <1>6, <2>1
<1>9. DOMAIN rank = D
  BY <1>1 DEF Rank
<1>10. {rank[i] : i \in D} = 0..(n - 1)
  <2> DEFINE E == 0..(n - 1)
  <2>1. IsFiniteSet(E) /\ Cardinality(E) = n
    <3>1. 0 \in Int /\ n - 1 \in Int
      BY <1>1
    <3>2. IsFiniteSet(0..(n - 1)) /\ Cardinality(0..(n - 1)) = IF 0 > n - 1 THEN 0 ELSE n - 1 - 0 + 1
      BY <3>1, FS_Interval
    <3> QED BY <1>1, <3>2
  <2>2. \A i \in D : rank[i] \in E
    BY <1>7
  <2> HIDE DEF rank, E, A, R
  <2> DEFINE f == [i \in D |-> rank[i]]
  <2>3. f \in Injection(D, E)
    <3>1. f \in [D -> E]
      BY <2>2
    <3>2. \A i \in D : f[i] = rank[i]
      OBVIOUS
    <3> HIDE DEF f
    <3>3. \A i, j \in D : f[i] = f[j] => i = j
      BY <1>8, <3>2
    <3> QED BY <3>1, <3>3 DEF Injection, IsInjective
  <2>4. f \in Surjection(D, E)
    BY <1>2, <2>1, <2>3, FS_Injection
  <2>5. {rank[i] : i \in D} = E
    BY <2>4 DEF Surjection
  <2> QED BY <2>5 DEF E
<1> HIDE DEF A, R, rank
<1> QED BY <1>1, <1>7, <1>8, <1>9, <1>10 DEF D, n, rank

LEMMA ScaledLess == ASSUME NEW a \in Int, NEW b \in Int, NEW c \in Nat \ {0}, c * a < c * b PROVE a < b
<1> SUFFICES ASSUME b <= a PROVE FALSE
  OBVIOUS
<1>1. PICK d \in Nat : a = b + d
  <2>1. a - b \in Nat /\ a = b + (a - b)
    OBVIOUS
  <2> QED BY <2>1
<1>2. c * a = c * b + c * d
  BY <1>1
<1>3. c * d \in Nat
  OBVIOUS
<1>4. c * b \in Int /\ c * a \in Int
  OBVIOUS
<1> QED BY <1>2, <1>3, <1>4

\* Rounding is off by half a unit at most.
LEMMA HalfUp ==
  ASSUME NEW a \in Int, NEW b \in Nat \ {0}
  PROVE  LET t == RoundHalfUp(a, b)
         IN t \in Int /\ 2 * a - b <= 2 * (b * t) /\ 2 * (b * t) <= 2 * a + b
<1> DEFINE t == RoundHalfUp(a, b)
           c == 2 * b
<1>1. c \in Nat \ {0}
  OBVIOUS
<1>4. ASSUME NEW s \in Int PROVE c * s = 2 * (b * s) /\ b * s \in Int /\ b * (-s) = -(b * s)
  <2>1. b * s \in Int /\ (2 * b) * s = 2 * (b * s) /\ b * (-s) = -(b * s)
    OBVIOUS
  <2> QED BY <2>1
<1>2. CASE a < 0
  <2> DEFINE x == -2 * a + b
             s == x \div c
  <2>1. x \in Int /\ x = b - 2 * a
    OBVIOUS
  <2>2. t = -s
    BY <1>2 DEF RoundHalfUp
  <2> HIDE DEF x, c, t
  <2>3. s \in Int /\ x % c \in 0..(c - 1) /\ x = c * s + (x % c)
    BY <1>1, <2>1, Divided
  <2> HIDE DEF s
  <2>4. c * s = 2 * (b * s) /\ b * s \in Int /\ b * (-s) = -(b * s)
    BY <1>4, <2>3
  <2>5. b * t = -(b * s) /\ t \in Int
    BY <2>2, <2>3, <2>4
  <2>6. c = 2 * b
    BY DEF c
  <2>7. 2 * a - b <= 2 * (b * t) /\ 2 * (b * t) <= 2 * a + b
    BY <2>1, <2>3, <2>4, <2>5, <2>6
  <2> QED BY <2>5, <2>7 DEF t
<1>3. CASE ~(a < 0)
  <2> DEFINE x == 2 * a + b
             s == x \div c
  <2>1. x \in Int /\ x = 2 * a + b
    OBVIOUS
  <2>2. t = s
    BY <1>3 DEF RoundHalfUp
  <2> HIDE DEF x, c, t
  <2>3. s \in Int /\ x % c \in 0..(c - 1) /\ x = c * s + (x % c)
    BY <1>1, <2>1, Divided
  <2> HIDE DEF s
  <2>4. c * s = 2 * (b * s) /\ b * s \in Int
    BY <1>4, <2>3
  <2>5. b * t = b * s /\ t \in Int
    BY <2>2, <2>3
  <2>6. c = 2 * b
    BY DEF c
  <2>7. 2 * a - b <= 2 * (b * t) /\ 2 * (b * t) <= 2 * a + b
    BY <2>1, <2>3, <2>4, <2>5, <2>6
  <2> QED BY <2>5, <2>7 DEF t
<1> QED BY <1>2, <1>3

\* What is missing is a unit for some of the parts that were rounded down.
LEMMA MissingIs ==
  ASSUME NEW parts \in Seq(Int), NEW den \in Nat \ {0}
  PROVE  LET D == DOMAIN parts
             short == {i \in D : parts[i] % den > 0}
             m == Missing(parts, RoundHalfUp(SumFunction(parts), den), den)
         IN IsFiniteSet(D) /\ SumFunction(parts) \in Int /\ m \in Int /\ 0 <= m /\ m <= Cardinality(short)
<1> DEFINE D == DOMAIN parts
           short == {i \in D : parts[i] % den > 0}
           q == [i \in D |-> parts[i] \div den]
           r == [i \in D |-> parts[i] % den]
           dq == [i \in D |-> den * q[i]]
           one == [i \in D |-> IF parts[i] % den > 0 THEN 1 ELSE 0]
           room == [i \in D |-> (den - 1) * one[i]]
           spare == [i \in D |-> room[i] - r[i]]
           T == SumFunction(parts)
           t == RoundHalfUp(T, den)
           m == Missing(parts, t, den)
<1>1. IsFiniteSet(D) /\ \A i \in D : parts[i] \in Int
  <2>1. D = 1..Len(parts) /\ Len(parts) \in Nat /\ \A i \in D : parts[i] \in Int
    OBVIOUS
  <2> QED BY <2>1, FS_Interval
<1> HIDE DEF D
<1>2. ASSUME NEW i \in D
      PROVE  /\ q[i] \in Int /\ r[i] \in 0..(den - 1) /\ dq[i] = den * q[i] /\ dq[i] \in Int /\ parts[i] = dq[i] + r[i]
             /\ one[i] = (IF r[i] > 0 THEN 1 ELSE 0) /\ room[i] = (den - 1) * one[i] /\ spare[i] = room[i] - r[i]
  <2>1. q[i] = parts[i] \div den /\ r[i] = parts[i] % den /\ dq[i] = den * q[i]
        /\ one[i] = (IF parts[i] % den > 0 THEN 1 ELSE 0) /\ room[i] = (den - 1) * one[i] /\ spare[i] = room[i] - r[i]
    OBVIOUS
  <2>2. parts[i] \div den \in Int /\ parts[i] % den \in 0..(den - 1)
        /\ parts[i] = den * (parts[i] \div den) + (parts[i] % den)
    BY <1>1, Divided
  <2> HIDE DEF q, r, dq, one, room, spare
  <2>3. den * (parts[i] \div den) \in Int
    BY <2>2
  <2> QED BY <2>1, <2>2, <2>3
<1>3. T = Sum(parts, D) /\ SumFunction(q) = Sum(q, D)
  <2>1. DOMAIN q = D
    OBVIOUS
  <2> HIDE DEF q
  <2> QED BY <2>1, SumFunctionIs DEF D
<1>4. m = t - SumFunction(q)
  BY DEF Missing, D
<1>5. \A i \in D : i \in short <=> r[i] > 0
  OBVIOUS
<1>6. short \in SUBSET D
  OBVIOUS
<1> HIDE DEF q, r, dq, one, room, spare, t, T, m, short
<1>7. Sum(q, D) \in Int /\ Sum(r, D) \in Nat /\ Sum(dq, D) = den * Sum(q, D) /\ T = Sum(dq, D) + Sum(r, D)
  <2>1. \A i \in D : q[i] \in Int /\ r[i] \in Nat /\ r[i] \in Int /\ dq[i] \in Int /\ dq[i] = den * q[i] /\ parts[i] = dq[i] + r[i]
    BY <1>2
  <2>2. Sum(q, D) \in Int /\ Sum(r, D) \in Nat
    BY <1>1, <2>1, SumType
  <2>3. Sum(dq, D) = den * Sum(q, D)
    BY <1>1, <2>1, SumScaled
  <2>4. Sum(parts, D) = Sum(dq, D) + Sum(r, D)
    BY <1>1, <2>1, SumPlus
  <2> QED BY <1>3, <2>2, <2>3, <2>4
<1>8. Sum(one, D) = Cardinality(short) /\ Cardinality(short) \in Nat
  <2>1. \A i \in D : one[i] \in Int
    BY <1>2
  <2>2. \A i \in D \ short : one[i] = 0
    BY <1>2, <1>5
  <2>3. Sum(one, D) = Sum(one, short)
    BY <1>1, <1>6, <2>1, <2>2, SumNarrow
  <2>4. IsFiniteSet(short) /\ \A i \in short : one[i] = 1
    BY <1>1, <1>2, <1>5, <1>6, FS_Subset
  <2> QED BY <2>3, <2>4, SumOnes, FS_CardinalityType
<1>9. Sum(r, D) <= (den - 1) * Cardinality(short)
  <2>1. ASSUME NEW i \in D PROVE one[i] \in Int /\ room[i] \in Int /\ room[i] = (den - 1) * one[i] /\ r[i] \in Int /\ spare[i] = room[i] - r[i] /\ spare[i] \in Nat
    <3>1. /\ r[i] \in 0..(den - 1) /\ one[i] = (IF r[i] > 0 THEN 1 ELSE 0) /\ room[i] = (den - 1) * one[i]
          /\ spare[i] = room[i] - r[i]
      BY <1>2
    <3>2. (den - 1) * 0 = 0 /\ (den - 1) * 1 = den - 1
      OBVIOUS
    <3>3. CASE r[i] > 0
      BY <3>1, <3>2, <3>3
    <3>4. CASE ~(r[i] > 0)
      BY <3>1, <3>2, <3>4
    <3> QED BY <3>3, <3>4
  <2>2. Sum(room, D) = (den - 1) * Sum(one, D)
    <3>1. den - 1 \in Int
      OBVIOUS
    <3> QED BY <1>1, <2>1, <3>1, SumScaled
  <2>3. Sum(spare, D) = Sum(room, D) - Sum(r, D)
    BY <1>1, <2>1, SumMinus
  <2>4. Sum(spare, D) \in Nat /\ Sum(room, D) \in Int
    BY <1>1, <2>1, SumType
  <2>5. Sum(room, D) = (den - 1) * Cardinality(short)
    BY <1>8, <2>2
  <2> QED BY <1>7, <2>3, <2>4, <2>5
<1>10. T \in Int
  <2>1. den * Sum(q, D) \in Int
    BY <1>7
  <2> QED BY <1>7, <2>1
<1>11. t \in Int /\ 2 * T - den <= 2 * (den * t) /\ 2 * (den * t) <= 2 * T + den
  BY <1>10, HalfUp DEF t
<1>12. 0 <= m /\ m <= Cardinality(short) /\ m \in Int
  <2>1. PICK Q \in Int, R \in Nat, k \in Nat : Q = Sum(q, D) /\ R = Sum(r, D) /\ k = Cardinality(short)
    BY <1>7, <1>8
  <2>2. m = t - Q /\ T = den * Q + R /\ R <= (den - 1) * k /\ m \in Int
    <3>1. T = den * Q + R
      BY <1>7, <2>1
    <3>2. m = t - Q /\ m \in Int
      BY <1>3, <1>4, <1>11, <2>1, SMTT(60)
    <3> QED BY <1>9, <2>1, <3>1, <3>2
  <2>3. den * m = den * t - den * Q /\ den * m \in Int /\ den * t \in Int /\ den * Q \in Int
    BY <1>11, <2>2
  <2>4. 2 * R - den <= 2 * (den * m) /\ 2 * (den * m) <= 2 * R + den
    BY <1>11, <2>2, <2>3
  <2>5. (den - 1) * k = den * k - k /\ den * k \in Int
    BY SMTT(30)
  <2>6. -1 < m
    <3>1. den * (-1) < den * m
      BY <2>3, <2>4
    <3>2. -1 \in Int
      OBVIOUS
    <3> QED BY <2>2, <3>1, <3>2, ScaledLess, Zenon
  <2>7. m < k + 1
    <3>1. den * (k + 1) = den * k + den
      BY SMTT(30)
    <3>2. PICK a \in Int, b \in Int, c \in Int : a = den * m /\ b = den * k /\ c = den * (k + 1)
      BY <2>3, <2>5, <3>1
    <3>3. 2 * a <= 2 * R + den
      BY <2>4, <3>2
    <3>4. R <= b - k
      BY <2>2, <2>5, <3>2
    <3>5. c = b + den
      BY <3>1, <3>2
    <3>6. a < c
      BY <3>3, <3>4, <3>5
    <3>7. den * m < den * (k + 1)
      BY <3>2, <3>6
    <3>8. k + 1 \in Int
      OBVIOUS
    <3> QED BY <2>2, <3>7, <3>8, ScaledLess, Zenon
  <2>8. m \in Int
    BY <2>2
  <2>9. m <= k /\ 0 <= m
    BY <2>6, <2>7, <2>8
  <2> QED BY <2>1, <2>8, <2>9
<1> QED BY <1>1, <1>10, <1>12 DEF D, T, m, t, short

\* Who is ahead of all that lack a unit takes one, and nobody else.
LEMMA Increment ==
  ASSUME NEW n \in Nat \ {0}, NEW m \in 0..n, NEW k \in 0..(n - 1)
  PROVE  (m + n - 1 - k) \div n = IF k < m THEN 1 ELSE 0
<1> DEFINE x == m + n - 1 - k
           s == x \div n
<1>1. x \in Int /\ 0 <= x /\ x < 2 * n /\ x = m + n - 1 - k
  OBVIOUS
<1> HIDE DEF x
<1>2. s \in Int /\ x % n \in 0..(n - 1) /\ x = n * s + (x % n)
  BY <1>1, Divided
<1> HIDE DEF s
<1>3. n * s \in Int /\ n * 2 = 2 * n /\ n * (-1) = -n
  BY <1>2
<1>4. s < 2
  <2>1. n * s < n * 2
    BY <1>1, <1>2, <1>3
  <2> QED BY <1>2, <2>1, ScaledLess
<1>5. -1 < s
  <2>1. n * (-1) < n * s
    BY <1>1, <1>2, <1>3
  <2> QED BY <1>2, <2>1, ScaledLess
<1>6. n * 0 = 0 /\ n * 1 = n
  OBVIOUS
<1>7. s = IF k < m THEN 1 ELSE 0
  <2>1. CASE s = 0
    BY <1>1, <1>2, <1>6, <2>1
  <2>2. CASE s = 1
    BY <1>1, <1>2, <1>6, <2>2
  <2> QED BY <1>2, <1>4, <1>5, <2>1, <2>2
<1> QED BY <1>7 DEF s, x

LEMMA RemainderSums ==
  ASSUME NEW parts \in Seq(Int), parts # <<>>, NEW den \in Nat \ {0}
  PROVE  LET t == RoundHalfUp(SumFunction(parts), den) u == LargestRemainder(parts, t, den)
         IN /\ DOMAIN u = DOMAIN parts /\ SumFunction(u) = t
            /\ \A i \in DOMAIN parts : u[i] \in Int /\ u[i] * den - parts[i] \in (1 - den)..(den - 1)
<1> DEFINE D == DOMAIN parts
           n == Len(parts)
           t == RoundHalfUp(SumFunction(parts), den)
           u == LargestRemainder(parts, t, den)
           m == Missing(parts, t, den)
           rank == Rank(parts, den)
           short == {i \in D : parts[i] % den > 0}
           q == [i \in D |-> parts[i] \div den]
           inc == [i \in D |-> (m + n - 1 - rank[i]) \div n]
           E == 0..(n - 1)
           g == [k \in E |-> IF k < m THEN 1 ELSE 0]
<1>1. D = 1..n /\ n \in Nat \ {0} /\ \A i \in D : parts[i] \in Int
  OBVIOUS
<1>2. /\ IsFiniteSet(D) /\ SumFunction(parts) \in Int /\ m \in Int /\ 0 <= m /\ m <= Cardinality(short)
  BY MissingIs
<1>3. /\ DOMAIN rank = D /\ (\A i \in D : rank[i] \in E) /\ (\A i, j \in D : rank[i] = rank[j] => i = j)
      /\ {rank[i] : i \in D} = E
  <2>1. /\ DOMAIN rank = 1..n /\ (\A i \in 1..n : rank[i] \in 0..(n - 1)) /\ (\A i, j \in 1..n : rank[i] = rank[j] => i = j)
        /\ {rank[i] : i \in 1..n} = 0..(n - 1)
    BY Ranked
  <2> HIDE DEF rank, n, D
  <2> QED BY <1>1, <2>1, Zenon
<1>4. IsFiniteSet(short) /\ Cardinality(short) \in Nat /\ Cardinality(short) <= n
  <2>1. 1 \in Int /\ n \in Int /\ short \in SUBSET D
    OBVIOUS
  <2>2. Cardinality(1..n) = IF 1 > n THEN 0 ELSE n - 1 + 1
    BY <2>1, FS_Interval
  <2>3. IsFiniteSet(short) /\ Cardinality(short) <= Cardinality(D)
    BY <1>2, <2>1, FS_Subset
  <2>4. Cardinality(short) \in Nat
    BY <2>3, FS_CardinalityType
  <2>5. Cardinality(D) = Cardinality(1..n)
    BY <1>1, Zenon
  <2> HIDE DEF short, D, n
  <2> QED BY <1>1, <2>2, <2>3, <2>4, <2>5
<1>5. u = [i \in D |-> parts[i] \div den + (m + n - 1 - rank[i]) \div n]
  BY SharesAre
<1>6. DOMAIN u = D /\ \A i \in D : u[i] = q[i] + inc[i]
  <2> HIDE DEF u, m, n, rank, D
  <2> QED BY <1>5
<1>7. DOMAIN inc = D /\ \A i \in D : q[i] = parts[i] \div den /\ inc[i] = (m + n - 1 - rank[i]) \div n
  OBVIOUS
<1>8. \A k \in E : g[k] = IF k < m THEN 1 ELSE 0
  OBVIOUS
<1>9. m = t - SumFunction(q) /\ DOMAIN q = D
  BY DEF Missing
<1>10. t \in Int
  <2> HIDE DEF t
  <2>1. RoundHalfUp(SumFunction(parts), den) \in Int
    BY <1>2, HalfUp
  <2> QED BY <2>1 DEF t
<1>a. \A i \in D : i \in short <=> parts[i] % den > 0
  OBVIOUS
<1>b. \A i \in D : rank[i] = Cardinality(Ahead(parts, den, i))
  BY DEF Rank
<1>d. rank = [i \in D |-> rank[i]]
  BY DEF Rank
<1>c. E = 0..(n - 1)
  OBVIOUS
<1> HIDE DEF D, n, t, u, m, rank, short, q, inc, E, g
<1>11. \A i \in D : inc[i] = IF rank[i] < m THEN 1 ELSE 0
  <2>1. m \in 0..n
    BY <1>1, <1>2, <1>4
  <2> SUFFICES ASSUME NEW i \in D PROVE inc[i] = IF rank[i] < m THEN 1 ELSE 0
    OBVIOUS
  <2>2. rank[i] \in 0..(n - 1)
    BY <1>3, <1>c
  <2>3. (m + n - 1 - rank[i]) \div n = IF rank[i] < m THEN 1 ELSE 0
    BY <1>1, <2>1, <2>2, Increment
  <2> QED BY <1>7, <2>3
<1>12. \A i \in D : inc[i] \in Int /\ q[i] \in Int /\ u[i] = q[i] + inc[i] /\ parts[i] % den \in 0..(den - 1)
                    /\ parts[i] = den * q[i] + (parts[i] % den)
  <2> SUFFICES ASSUME NEW i \in D
               PROVE  inc[i] \in Int /\ q[i] \in Int /\ u[i] = q[i] + inc[i] /\ parts[i] % den \in 0..(den - 1)
                      /\ parts[i] = den * q[i] + (parts[i] % den)
    OBVIOUS
  <2>1. parts[i] \div den \in Int /\ parts[i] % den \in 0..(den - 1)
        /\ parts[i] = den * (parts[i] \div den) + (parts[i] % den)
    BY <1>1, Divided
  <2>2. inc[i] \in Int
    BY <1>11
  <2>3. q[i] = parts[i] \div den /\ u[i] = q[i] + inc[i]
    BY <1>6, <1>7
  <2> QED BY <2>1, <2>2, <2>3
<1>13. Sum(inc, D) = m
  <2>a. \A i \in D : inc[i] \in Int /\ g[rank[i]] = inc[i]
    BY <1>3, <1>8, <1>11, <1>12
  <2>1. Enumerates(rank, D, E)
    <3>1. rank \in [D -> E]
      BY <1>3, <1>d
    <3>2. \A x \in E : \E i \in D : rank[i] = x
      BY <1>3
    <3> QED BY <1>2, <1>3, <3>1, <3>2 DEF Enumerates
  <2>2. SumFunction(inc) = Sum(g, E)
    <3>1. DOMAIN inc = D
      BY <1>7
    <3>2. Follows(inc, g, rank, D)
      BY <2>a, <3>1 DEF Follows
    <3> QED BY <2>1, <3>2, SumAlong
  <2>3. Sum(g, E) = Sum(inc, D)
    BY <1>7, <2>2, SumFunctionIs
  <2> DEFINE F == 0..(m - 1)
  <2>4. IsFiniteSet(F) /\ Cardinality(F) = m
    <3>1. 0 \in Int /\ m - 1 \in Int
      BY <1>2
    <3>2. IsFiniteSet(0..(m - 1)) /\ Cardinality(0..(m - 1)) = IF 0 > m - 1 THEN 0 ELSE m - 1 - 0 + 1
      BY <3>1, FS_Interval
    <3> QED BY <1>2, <3>2
  <2>5. F \in SUBSET E /\ (\A k \in F : g[k] = 1) /\ (\A k \in E \ F : g[k] = 0) /\ \A k \in E : g[k] \in Int
    BY <1>1, <1>2, <1>4, <1>8, <1>c
  <2>6. IsFiniteSet(E)
    BY <1>1, <1>c, FS_Interval
  <2> HIDE DEF F
  <2>7. Sum(g, E) = Sum(g, F)
    BY <2>5, <2>6, SumNarrow
  <2>8. Sum(g, F) = Cardinality(F)
    BY <2>4, <2>5, SumOnes
  <2> QED BY <2>3, <2>4, <2>7, <2>8
<1>14. SumFunction(u) = t
  <2>1. Sum(u, D) = Sum(q, D) + Sum(inc, D)
    BY <1>2, <1>12, SumPlus
  <2>2. SumFunction(u) = Sum(u, D) /\ SumFunction(q) = Sum(q, D)
    <3>1. SumFunction(u) = Sum(u, DOMAIN u) /\ SumFunction(q) = Sum(q, DOMAIN q)
      BY SumFunctionIs
    <3> QED BY <1>6, <1>9, <3>1, Zenon
  <2>3. Sum(q, D) \in Int
    BY <1>2, <1>12, SumType
  <2> QED BY <1>2, <1>9, <1>10, <1>13, <2>1, <2>2, <2>3
<1>15. ASSUME NEW i \in D PROVE u[i] \in Int /\ u[i] * den - parts[i] \in (1 - den)..(den - 1)
  <2>1. PICK a \in Int, b \in Int, r \in 0..(den - 1) : a = q[i] /\ b = inc[i] /\ r = parts[i] % den
    BY <1>12
  <2>2. u[i] = a + b /\ parts[i] = den * a + r /\ b = IF rank[i] < m THEN 1 ELSE 0
    BY <1>11, <1>12, <2>1
  <2>3. (a + b) * den = den * a + den * b /\ den * a \in Int /\ den * 0 = 0 /\ den * 1 = den
    OBVIOUS
  <2>4. rank[i] < m => r > 0
    <3> SUFFICES ASSUME r = 0 PROVE ~(rank[i] < m)
      BY <2>1
    <3>1. short \in SUBSET Ahead(parts, den, i)
      <4>1. \A j \in short : j \in D /\ parts[j] % den > 0
        BY <1>a DEF short
      <4>2. \A j \in short : Beats(parts, den, j, i)
        BY <2>1, <4>1 DEF Beats
      <4> QED BY <4>1, <4>2 DEF Ahead, D
    <3>2. IsFiniteSet(Ahead(parts, den, i))
      <4>1. Ahead(parts, den, i) \in SUBSET D
        BY DEF Ahead, D
      <4> QED BY <1>2, <4>1, FS_Subset
    <3>3. Cardinality(short) <= Cardinality(Ahead(parts, den, i))
      BY <3>1, <3>2, FS_Subset
    <3>4. rank[i] \in Int
      BY <1>1, <1>3, <1>c
    <3> QED BY <1>2, <1>4, <1>b, <3>3, <3>4
  <2>5. CASE rank[i] < m
    <3>1. u[i] * den - parts[i] = den - r
      BY <2>2, <2>3, <2>5
    <3>2. u[i] \in Int /\ r \in Int /\ r > 0 /\ r <= den - 1
      BY <2>1, <2>2, <2>4, <2>5
    <3> QED BY <3>1, <3>2
  <2>6. CASE ~(rank[i] < m)
    <3>1. u[i] * den - parts[i] = -r
      BY <2>2, <2>3, <2>6
    <3>2. u[i] \in Int /\ r \in Int /\ r >= 0 /\ r <= den - 1
      BY <2>1, <2>2, <2>6
    <3> QED BY <3>1, <3>2
  <2> QED BY <2>5, <2>6
<1> QED BY <1>6, <1>14, <1>15 DEF D, t, u

LEMMA SumOfTwo == ASSUME NEW x \in Int, NEW y \in Int PROVE SumFunction(<<x, y>>) = x + y
<1> DEFINE s == <<x, y>>
<1>1. DOMAIN s = 1..2 /\ s[1] = x /\ s[2] = y
  OBVIOUS
<1> HIDE DEF s
<1>2. DOMAIN s = {1} \cup {2} /\ 2 \notin {1} /\ \A i \in {1} \cup {2} : s[i] \in Int
  BY <1>1
<1>3. SumFunction(s) = Sum(s, {1} \cup {2})
  BY <1>2, SumFunctionIs
<1>4. Sum(s, {1} \cup {2}) = s[2] + Sum(s, {1})
  BY <1>2, FS_Singleton, SumPut
<1>5. 1 \notin {} /\ {} \cup {1} = {1} /\ \A i \in {} \cup {1} : s[i] \in Int
  BY <1>2
<1>6. Sum(s, {} \cup {1}) = s[1] + Sum(s, {}) /\ Sum(s, {}) = 0
  BY <1>5, FS_EmptySet, SumPut, SumEmpty, Zenon
<1>7. Sum(s, {1}) = s[1] + 0
  BY <1>5, <1>6, Zenon
<1>8. SumFunction(s) = x + y
  BY <1>1, <1>3, <1>4, <1>7
<1> QED BY <1>8 DEF s

LEMMA LenOfBoth == ASSUME NEW s \in Seq(Int), NEW t \in Seq(Int) PROVE Len(s \o t) = Len(s) + Len(t)
  OBVIOUS

\* The parts of the sales sum to the sales.
LEMMA PartsSum ==
  ASSUME TablesTyped, NEW m \in Int
  PROVE  LET f == Figures(m)
         IN Parts(f) \in Seq(Int) /\ Parts(f) # <<>> /\ SumFunction(Parts(f)) = f.sales
<1> DEFINE f == Figures(m)
           a == <<f.components>>
           c == <<-f.otherIncome, f.net>>
<1>1. /\ f.sales \in Int /\ f.components \in Int /\ f.otherIncome \in Int /\ f.net \in Int /\ Expenses(f) \in Int
      /\ f.groups \in Seq(Int)
  BY FiguresTypes
<1>2. f.sales - f.components - Expenses(f) + f.otherIncome = f.net
  BY SummaryIsPnl
<1>3. Expenses(f) = SumFunction(f.groups) /\ Parts(f) = (a \o f.groups) \o c
  BY DEF Expenses, Parts
<1> HIDE DEF f
<1>4. a \in Seq(Int) /\ DOMAIN a = {1} /\ a[1] = f.components /\ Len(a) = 1
  BY <1>1
<1>5. c \in Seq(Int)
  BY <1>1
<1>6. SumFunction(a) = f.components
  <2> HIDE DEF a
  <2> QED BY <1>1, <1>4, SumOfOne
<1>7. SumFunction(c) = -f.otherIncome + f.net
  <2>1. -f.otherIncome \in Int
    BY <1>1
  <2> QED BY <1>1, <2>1, SumOfTwo
<1> HIDE DEF a, c
<1>8. a \o f.groups \in Seq(Int) /\ SumFunction(a \o f.groups) = SumFunction(a) + SumFunction(f.groups)
  BY <1>1, <1>4, SumAppended
<1>9. SumFunction((a \o f.groups) \o c) = SumFunction(a \o f.groups) + SumFunction(c)
  BY <1>5, <1>8, SumAppended
<1>10. (a \o f.groups) \o c \in Seq(Int) /\ (a \o f.groups) \o c # <<>>
  <2>1. (a \o f.groups) \o c \in Seq(Int)
    BY <1>5, <1>8
  <2>2. Len((a \o f.groups) \o c) = Len(a \o f.groups) + Len(c) /\ Len(a \o f.groups) = 1 + Len(f.groups)
    BY <1>1, <1>4, <1>5, <1>8, LenOfBoth
  <2>3. Len(f.groups) \in Nat /\ Len(c) \in Nat
    BY <1>1, <1>5
  <2>4. Len((a \o f.groups) \o c) # 0
    BY <2>2, <2>3
  <2> QED BY <2>1, <2>4
<1>11. SumFunction(Parts(f)) = f.sales
  <2>1. SumFunction(Parts(f)) = SumFunction((a \o f.groups) \o c) /\ SumFunction(f.groups) = Expenses(f)
    BY <1>3, Zenon
  <2>2. SumFunction((a \o f.groups) \o c) = f.components + Expenses(f) + (-f.otherIncome + f.net)
    BY <1>6, <1>7, <1>8, <1>9, <2>1
  <2>3. f.components + Expenses(f) + (-f.otherIncome + f.net) = f.sales
    BY <1>1, <1>2
  <2> QED BY <2>1, <2>2, <2>3, Zenon
<1> QED BY <1>3, <1>10, <1>11 DEF f

LEMMA RoundExact == ASSUME NEW s \in Nat \ {0}, NEW k \in Int PROVE RoundHalfUp(k * s, s) = k
<1> DEFINE t == RoundHalfUp(k * s, s)
<1>1. k * s \in Int
  OBVIOUS
<1>2. t \in Int /\ 2 * (k * s) - s <= 2 * (s * t) /\ 2 * (s * t) <= 2 * (k * s) + s
  BY <1>1, HalfUp
<1> HIDE DEF t
<1>3. s * (k + 1) = k * s + s /\ s * (k - 1) = k * s - s /\ k * s \in Int
  OBVIOUS
<1>4. s * t \in Int
  BY <1>2
<1>5. t < k + 1
  <2>1. s * t < s * (k + 1)
    BY <1>2, <1>3, <1>4
  <2> QED BY <1>2, <2>1, ScaledLess
<1>6. k - 1 < t
  <2>1. s * (k - 1) < s * t
    BY <1>2, <1>3, <1>4
  <2> QED BY <1>2, <2>1, ScaledLess
<1>7. t = k
  BY <1>2, <1>5, <1>6
<1> QED BY <1>7 DEF t

LEMMA Shares ==
  ASSUME TablesTyped, NEW m \in Int
  PROVE  LET f == Figures(m)
             exact(units, scale, den) ==
               \A i \in DOMAIN units : units[i] * den - scale * Parts(f)[i] \in (1 - den)..(den - 1)
         IN /\ f.sales > 0 => SumFunction(Per100(f)) = 1000 /\ exact(Per100(f), 1000, f.sales)
            /\ f.ordersClosed > 0 =>
                 /\ SumFunction(PerOrder(f)) = RoundHalfUp(f.sales, f.ordersClosed)
                 /\ exact(PerOrder(f), 1, f.ordersClosed)
<1> DEFINE f == Figures(m)
           p == Parts(f)
           exact(units, scale, den) == \A i \in DOMAIN units : units[i] * den - scale * p[i] \in (1 - den)..(den - 1)
<1>1. p \in Seq(Int) /\ p # <<>> /\ SumFunction(p) = f.sales
  BY PartsSum
<1>2. f.sales \in Int /\ f.ordersClosed \in Nat
  BY FiguresTypes
<1>3. ASSUME f.sales > 0 PROVE SumFunction(Per100(f)) = 1000 /\ exact(Per100(f), 1000, f.sales)
  <2> DEFINE k == [i \in DOMAIN p |-> 1000 * p[i]]
             d == f.sales
  <2>1. d \in Nat \ {0}
    BY <1>2, <1>3
  <2>2. Per100(f) = LargestRemainder(k, RoundHalfUp(SumFunction(k), d), d)
    BY DEF Per100
  <2> HIDE DEF f, p, d
  <2>3. DOMAIN p = 1..Len(p) /\ Len(p) \in Nat \ {0} /\ \A i \in DOMAIN p : p[i] \in Int
    BY <1>1
  <2>4. k \in Seq(Int) /\ k # <<>> /\ DOMAIN k = DOMAIN p
    <3>1. k \in [1..Len(p) -> Int]
      BY <2>3
    <3>2. k \in Seq(Int) /\ Len(k) = Len(p)
      BY <2>3, <3>1
    <3> QED BY <2>3, <3>2
  <2>5. \A i \in DOMAIN p : p[i] \in Int /\ k[i] = 1000 * p[i]
    BY <2>3
  <2> HIDE DEF k
  <2>6. SumFunction(k) = 1000 * d
    <3>1. IsFiniteSet(DOMAIN p)
      BY <2>3, FS_Interval
    <3>2. Sum(k, DOMAIN p) = 1000 * Sum(p, DOMAIN p)
      BY <2>5, <3>1, SumScaled
    <3>3. SumFunction(k) = Sum(k, DOMAIN k) /\ SumFunction(p) = Sum(p, DOMAIN p)
      BY SumFunctionIs
    <3>4. SumFunction(k) = Sum(k, DOMAIN p)
      BY <2>4, <3>3, Zenon
    <3>5. SumFunction(p) = d
      BY <1>1 DEF d
    <3> QED BY <3>2, <3>3, <3>4, <3>5
  <2>7. RoundHalfUp(SumFunction(k), d) = 1000
    BY <2>1, <2>6, RoundExact
  <2>8. DOMAIN Per100(f) = DOMAIN p /\ SumFunction(Per100(f)) = 1000
        /\ \A i \in DOMAIN p : Per100(f)[i] * d - k[i] \in (1 - d)..(d - 1)
    <3>1. /\ DOMAIN LargestRemainder(k, RoundHalfUp(SumFunction(k), d), d) = DOMAIN k
          /\ SumFunction(LargestRemainder(k, RoundHalfUp(SumFunction(k), d), d)) = RoundHalfUp(SumFunction(k), d)
          /\ \A i \in DOMAIN k :
               LargestRemainder(k, RoundHalfUp(SumFunction(k), d), d)[i] * d - k[i] \in (1 - d)..(d - 1)
      BY <2>1, <2>4, RemainderSums
    <3>2. /\ DOMAIN Per100(f) = DOMAIN k /\ SumFunction(Per100(f)) = RoundHalfUp(SumFunction(k), d)
          /\ \A i \in DOMAIN k : Per100(f)[i] * d - k[i] \in (1 - d)..(d - 1)
      BY <2>2, <3>1, Zenon
    <3>3. DOMAIN Per100(f) = DOMAIN p /\ SumFunction(Per100(f)) = 1000
      BY <2>4, <2>7, <3>2, Zenon
    <3>4. \A i \in DOMAIN p : Per100(f)[i] * d - k[i] \in (1 - d)..(d - 1)
      BY <2>4, <3>2, Zenon
    <3> QED BY <3>3, <3>4
  <2> QED BY <2>5, <2>8 DEF d
<1>4. ASSUME f.ordersClosed > 0
      PROVE  /\ SumFunction(PerOrder(f)) = RoundHalfUp(f.sales, f.ordersClosed) /\ exact(PerOrder(f), 1, f.ordersClosed)
  <2> DEFINE d == f.ordersClosed
  <2>1. d \in Nat \ {0}
    BY <1>2, <1>4
  <2>2. PerOrder(f) = LargestRemainder(p, RoundHalfUp(SumFunction(p), d), d)
    BY DEF PerOrder
  <2> HIDE DEF f, p, d
  <2>3. DOMAIN PerOrder(f) = DOMAIN p /\ SumFunction(PerOrder(f)) = RoundHalfUp(SumFunction(p), d)
        /\ \A i \in DOMAIN p : PerOrder(f)[i] * d - p[i] \in (1 - d)..(d - 1)
    <3>1. /\ DOMAIN LargestRemainder(p, RoundHalfUp(SumFunction(p), d), d) = DOMAIN p
          /\ SumFunction(LargestRemainder(p, RoundHalfUp(SumFunction(p), d), d)) = RoundHalfUp(SumFunction(p), d)
          /\ \A i \in DOMAIN p :
               LargestRemainder(p, RoundHalfUp(SumFunction(p), d), d)[i] * d - p[i] \in (1 - d)..(d - 1)
      BY <1>1, <2>1, RemainderSums
    <3> QED BY <2>2, <3>1, Zenon
  <2>4. \A i \in DOMAIN p : 1 * p[i] = p[i]
    BY <1>1
  <2>5. SumFunction(PerOrder(f)) = RoundHalfUp(f.sales, f.ordersClosed)
    BY <1>1, <2>3, Zenon DEF d
  <2> QED BY <2>3, <2>4, <2>5 DEF d
<1> QED BY <1>3, <1>4 DEF f, p

LEMMA Summary == ASSUME TablesTyped PROVE SummaryAddsUp
<1>1. SummaryMatchesPnl
  BY SummaryIsPnl, ReportMonth DEF SummaryMatchesPnl
<1>2. SharesAddUp
  BY Shares, ReportMonth DEF SharesAddUp
<1> QED BY <1>1, <1>2 DEF SummaryAddsUp

\* MonthSummaryService shows the net profit of the P&L report, its groups make up
\* the whole expense, and the parts of 100 and of one order add up in spite of
\* the rounding.
THEOREM SummaryIsTheProfit == ReportsSpec => []SummaryAddsUp
<1>1. TablesTyped => SummaryAddsUp
  BY Summary
<1> QED BY <1>1, TypedAlways, PTL

-----------------------------------------------------------------------------
(***************************************************************************)
(* ReportsAgree: the margin of the clients is that of the orders.          *)
(***************************************************************************)
OrdersOf(c) == {o \in OrderIds : ClientOf[o] = c}

LEMMA ClientsFinite == IsFiniteSet(Clients)
<1> DEFINE f == [o \in OrderIds |-> ClientOf[o]]
<1>1. Clients = {f[o] : o \in OrderIds}
  BY DEF Clients
<1> HIDE DEF f
<1>2. IsFiniteSet(OrderIds)
  BY ReportsAssumption
<1>3. IsFiniteSet({f[o] : o \in OrderIds})
  BY <1>2, ImageFinite
<1> QED BY <1>1, <1>3, Zenon

LEMMA SumForOrders ==
  ASSUME NEW S \in SUBSET OrderIds, NEW f, \A o \in OrderIds : f[o] \in Int, NEW g, DOMAIN g = S, \A o \in S : g[o] = f[o]
  PROVE  IsFiniteSet(S) /\ SumFunction(g) = Sum(f, S) /\ SumFunction(g) \in Int
<1>1. IsFiniteSet(S)
  BY ReportsAssumption, FS_Subset
<1>2. \A o \in S : f[o] \in Int
  OBVIOUS
<1>3. Sum(g, S) = Sum(f, S)
  BY <1>1, SumSame
<1>4. SumFunction(g) = Sum(g, S)
  BY SumFunctionIs
<1>5. Sum(f, S) \in Int
  BY <1>1, <1>2, SumType
<1> QED BY <1>1, <1>3, <1>4, <1>5

LEMMA ByClient ==
  ASSUME NEW S \in SUBSET OrderIds, NEW f, \A o \in OrderIds : f[o] \in Int,
         NEW g, \A c \in Clients : g[c] = Sum(f, OrdersOf(c) \cap S)
  PROVE  Sum(g, Clients) = Sum(f, S) /\ \A c \in Clients : g[c] \in Int
<1> DEFINE P == [c \in Clients |-> OrdersOf(c) \cap S]
<1>1. \A c \in Clients : P[c] = OrdersOf(c) \cap S
  OBVIOUS
<1>2. \A c \in Clients : P[c] \in SUBSET OrderIds
  OBVIOUS
<1>3. UNION {P[c] : c \in Clients} = S
  <2>1. \A o \in S : ClientOf[o] \in Clients /\ o \in P[ClientOf[o]]
    BY DEF Clients, OrdersOf
  <2>2. \A c \in Clients : P[c] \subseteq S
    OBVIOUS
  <2> HIDE DEF P
  <2> QED BY <2>1, <2>2
<1>4. \A c, d \in Clients : c # d => P[c] \cap P[d] = {}
  BY DEF OrdersOf
<1> HIDE DEF P
<1>5. \A c \in Clients : IsFiniteSet(P[c]) /\ g[c] = Sum(f, P[c]) /\ \A x \in P[c] : f[x] \in Int
  <2>1. \A c \in Clients : IsFiniteSet(P[c])
    BY <1>2, ReportsAssumption, FS_Subset
  <2>2. \A c \in Clients : g[c] = Sum(f, P[c])
    BY <1>1, Zenon
  <2> QED BY <1>2, <2>1, <2>2
<1>6. Parted(f, Clients, P, g)
  BY <1>4, <1>5 DEF Parted
<1>7. Sum(f, UNION {P[c] : c \in Clients}) = Sum(g, Clients)
  BY <1>6, ClientsFinite, SumParts
<1>8. Sum(g, Clients) = Sum(f, S)
  BY <1>3, <1>7, Zenon
<1>9. \A c \in Clients : g[c] \in Int
  BY <1>5, SumType
<1> QED BY <1>8, <1>9

LEMMA MarginOfClients ==
  ASSUME TablesTyped, NEW p
  PROVE  /\ SumFunction([c \in Clients |-> MarginRevenue(c, p)]) = RecognizedRevenue(p) - ReturnedRevenue(p)
         /\ SumFunction([c \in Clients |-> MarginCogs(c, p)]) = RecognizedCogs(p) - ReturnedCogs(p)
<1> DEFINE S == ClosedIn(p)
           gross == [o \in OrderIds |-> Qty[o] * Price[o]]
           off == [o \in OrderIds |-> Discount[o]]
           total == [o \in OrderIds |-> TotalAmount(o)]
           back == [o \in OrderIds |-> EventRevenue(o, EventsIn(o, p))]
           cost == [o \in OrderIds |-> SoldCost(order[o].out) + EventCost(order[o].events)]
           less == [o \in OrderIds |-> EventCost(EventsIn(o, p))]
           a == [c \in Clients |-> Sum(total, OrdersOf(c) \cap S)]
           b == [c \in Clients |-> Sum(back, OrdersOf(c) \cap OrderIds)]
           d == [c \in Clients |-> Sum(cost, OrdersOf(c) \cap S)]
           e == [c \in Clients |-> Sum(less, OrdersOf(c) \cap OrderIds)]
           revenue == [c \in Clients |-> MarginRevenue(c, p)]
           cogs == [c \in Clients |-> MarginCogs(c, p)]
<1>1. S \in SUBSET OrderIds
  BY DEF ClosedIn
<1>2. \A o \in OrderIds : /\ gross[o] \in Nat /\ off[o] \in Nat /\ total[o] \in Nat /\ total[o] = gross[o] - off[o]
                          /\ gross[o] = Qty[o] * Price[o] /\ off[o] = Discount[o] /\ total[o] = TotalAmount(o)
  <2>1. \A o \in OrderIds : gross[o] = Qty[o] * Price[o] /\ off[o] = Discount[o] /\ total[o] = TotalAmount(o)
    OBVIOUS
  <2> HIDE DEF gross, off, total
  <2>2. \A o \in OrderIds : Qty[o] * Price[o] \in Nat /\ Discount[o] \in Nat /\ TotalAmount(o) \in Nat
    BY OrderFacts
  <2> QED BY <2>1, <2>2 DEF TotalAmount
<1>3. \A o \in OrderIds : /\ back[o] \in Nat /\ back[o] = EventRevenue(o, EventsIn(o, p))
                          /\ less[o] \in Int /\ less[o] = EventCost(EventsIn(o, p))
  <2>1. \A o \in OrderIds : EventsIn(o, p) \in SUBSET order[o].events
    BY DEF EventsIn
  <2>2. \A o \in OrderIds : EventRevenue(o, EventsIn(o, p)) \in Nat /\ EventCost(EventsIn(o, p)) \in Int
    BY <2>1, EventsSum
  <2> QED BY <2>2
<1>4. \A o \in OrderIds : cost[o] \in Int /\ cost[o] = SoldCost(order[o].out) + EventCost(order[o].events)
  <2> SUFFICES ASSUME NEW o \in OrderIds
               PROVE  cost[o] \in Int /\ cost[o] = SoldCost(order[o].out) + EventCost(order[o].events)
    OBVIOUS
  <2>1. cost[o] = SoldCost(order[o].out) + EventCost(order[o].events)
    OBVIOUS
  <2>2. SoldCost(order[o].out) \in Nat
    BY OrderFacts, SoldCostType
  <2>3. EventCost(order[o].events) \in Int
    <3>1. order[o].events \in SUBSET order[o].events
      OBVIOUS
    <3> QED BY <3>1, EventsSum
  <2> HIDE DEF cost
  <2> QED BY <2>1, <2>2, <2>3
<1>5. \A c \in Clients : /\ a[c] = Sum(total, OrdersOf(c) \cap S) /\ b[c] = Sum(back, OrdersOf(c) \cap OrderIds)
                         /\ d[c] = Sum(cost, OrdersOf(c) \cap S) /\ e[c] = Sum(less, OrdersOf(c) \cap OrderIds)
                         /\ revenue[c] = MarginRevenue(c, p) /\ cogs[c] = MarginCogs(c, p)
  OBVIOUS
<1>a. DOMAIN revenue = Clients /\ DOMAIN cogs = Clients
  OBVIOUS
<1> HIDE DEF gross, off, total, back, cost, less, a, b, d, e, revenue, cogs
<1>6. Sum(a, Clients) = Sum(total, S) /\ Sum(b, Clients) = Sum(back, OrderIds)
      /\ Sum(d, Clients) = Sum(cost, S) /\ Sum(e, Clients) = Sum(less, OrderIds)
      /\ \A c \in Clients : a[c] \in Int /\ b[c] \in Int /\ d[c] \in Int /\ e[c] \in Int
  <2> HIDE DEF S
  <2>0. OrderIds \in SUBSET OrderIds
    OBVIOUS
  <2>1. Sum(a, Clients) = Sum(total, S) /\ \A c \in Clients : a[c] \in Int
    <3>1. \A o \in OrderIds : total[o] \in Int
      BY <1>2
    <3>2. \A c \in Clients : a[c] = Sum(total, OrdersOf(c) \cap S)
      BY <1>5
    <3> QED BY <1>1, <2>0, <3>1, <3>2, ByClient
  <2>2. Sum(b, Clients) = Sum(back, OrderIds) /\ \A c \in Clients : b[c] \in Int
    <3>1. \A o \in OrderIds : back[o] \in Int
      BY <1>3
    <3>2. \A c \in Clients : b[c] = Sum(back, OrdersOf(c) \cap OrderIds)
      BY <1>5
    <3> QED BY <1>1, <2>0, <3>1, <3>2, ByClient
  <2>3. Sum(d, Clients) = Sum(cost, S) /\ \A c \in Clients : d[c] \in Int
    <3>1. \A o \in OrderIds : cost[o] \in Int
      BY <1>4
    <3>2. \A c \in Clients : d[c] = Sum(cost, OrdersOf(c) \cap S)
      BY <1>5
    <3> QED BY <1>1, <2>0, <3>1, <3>2, ByClient
  <2>4. Sum(e, Clients) = Sum(less, OrderIds) /\ \A c \in Clients : e[c] \in Int
    <3>1. \A o \in OrderIds : less[o] \in Int
      BY <1>3
    <3>2. \A c \in Clients : e[c] = Sum(less, OrdersOf(c) \cap OrderIds)
      BY <1>5
    <3> QED BY <1>1, <2>0, <3>1, <3>2, ByClient
  <2> QED BY <2>1, <2>2, <2>3, <2>4
<1>7. RecognizedRevenue(p) = Sum(total, S) /\ ReturnedRevenue(p) = Sum(back, OrderIds)
      /\ RecognizedCogs(p) = Sum(cost, S) /\ ReturnedCogs(p) = Sum(less, OrderIds)
  <2> DEFINE t == [o \in S |-> TotalAmount(o)]
             u == [o \in S |-> SoldCost(order[o].out) + EventCost(order[o].events)]
  <2>1. RecognizedRevenue(p) = SumFunction(t) /\ RecognizedCogs(p) = SumFunction(u)
        /\ ReturnedRevenue(p) = SumFunction(back) /\ ReturnedCogs(p) = SumFunction(less)
    BY DEF RecognizedRevenue, RecognizedCogs, ReturnedRevenue, ReturnedCogs, back, less
  <2>2. DOMAIN t = S /\ DOMAIN u = S /\ DOMAIN back = OrderIds /\ DOMAIN less = OrderIds
    BY DEF back, less
  <2>3. \A o \in S : t[o] = total[o] /\ u[o] = cost[o]
    BY <1>1, <1>2, <1>4
  <2> HIDE DEF t, u, S
  <2>4. SumFunction(t) = Sum(total, S)
    BY <1>1, <1>2, <2>2, <2>3, SumForOrders
  <2>5. SumFunction(u) = Sum(cost, S)
    <3>1. (\A o \in OrderIds : cost[o] \in Int) /\ \A o \in S : u[o] = cost[o]
      BY <1>4, <2>3
    <3> QED BY <1>1, <2>2, <3>1, SumForOrders
  <2>6. SumFunction(back) = Sum(back, OrderIds) /\ SumFunction(less) = Sum(less, OrderIds)
    BY <2>2, SumFunctionIs
  <2> QED BY <2>1, <2>4, <2>5, <2>6
<1>8. ASSUME NEW c \in Clients PROVE revenue[c] = a[c] - b[c] /\ cogs[c] = d[c] - e[c]
  <2> DEFINE M == OrdersOf(c)
             T == M \cap S
             x == [o \in T |-> Qty[o] * Price[o]]
             y == [o \in T |-> Discount[o]]
             z == [o \in M |-> EventRevenue(o, EventsIn(o, p))]
             v == [o \in T |-> SoldCost(order[o].out) + EventCost(order[o].events)]
             w == [o \in M |-> EventCost(EventsIn(o, p))]
  <2>1. MarginRevenue(c, p) = Max0(SumFunction(x) - SumFunction(y)) - SumFunction(z)
    BY DEF MarginRevenue, OrdersOf
  <2>2. MarginCogs(c, p) = SumFunction(v) - SumFunction(w)
    BY DEF MarginCogs, OrdersOf
  <2>3. M \in SUBSET OrderIds /\ T \in SUBSET OrderIds /\ M \cap OrderIds = M
    BY DEF OrdersOf
  <2>4. DOMAIN x = T /\ DOMAIN y = T /\ DOMAIN z = M /\ DOMAIN v = T /\ DOMAIN w = M
    OBVIOUS
  <2>5. (\A o \in T : x[o] = gross[o] /\ y[o] = off[o] /\ v[o] = cost[o]) /\ \A o \in M : z[o] = back[o] /\ w[o] = less[o]
    BY <1>2, <1>3, <1>4, <2>3
  <2>b. b[c] = Sum(back, M) /\ e[c] = Sum(less, M)
    <3>1. b[c] = Sum(back, M \cap OrderIds) /\ e[c] = Sum(less, M \cap OrderIds)
      BY <1>5
    <3> QED BY <2>3, <3>1, Zenon
  <2>c. a[c] = Sum(total, T) /\ d[c] = Sum(cost, T)
    BY <1>5
  <2> HIDE DEF M, T, x, y, z, v, w, S
  <2>6. SumFunction(x) = Sum(gross, T) /\ IsFiniteSet(T)
    BY <1>2, <2>3, <2>4, <2>5, SumForOrders
  <2>7. SumFunction(y) = Sum(off, T)
    BY <1>2, <2>3, <2>4, <2>5, SumForOrders
  <2>8. SumFunction(v) = Sum(cost, T)
    BY <1>4, <2>3, <2>4, <2>5, SumForOrders
  <2>9. SumFunction(z) = Sum(back, M)
    BY <1>3, <2>3, <2>4, <2>5, SumForOrders
  <2>10. SumFunction(w) = Sum(less, M)
    BY <1>3, <2>3, <2>4, <2>5, SumForOrders
  <2>11. Sum(total, T) = Sum(gross, T) - Sum(off, T)
    <3>1. \A o \in T : gross[o] \in Int /\ off[o] \in Int /\ total[o] = gross[o] - off[o]
      BY <1>2, <2>3
    <3> QED BY <2>6, <3>1, SumMinus
  <2>12. Sum(total, T) \in Nat
    <3>1. \A o \in T : total[o] \in Nat
      BY <1>2, <2>3
    <3> QED BY <2>6, <3>1, SumType
  <2>13. Max0(Sum(total, T)) = Sum(total, T)
    BY <2>12, Max0Is
  <2>14. Max0(SumFunction(x) - SumFunction(y)) = Sum(total, T)
    BY <2>6, <2>7, <2>11, <2>13, Zenon
  <2>15. revenue[c] = a[c] - b[c]
    BY <1>5, <2>1, <2>9, <2>14, <2>b, <2>c, Zenon
  <2>16. cogs[c] = d[c] - e[c]
    BY <1>5, <2>2, <2>8, <2>10, <2>b, <2>c, Zenon
  <2> QED BY <2>15, <2>16
<1>9. Sum(revenue, Clients) = Sum(a, Clients) - Sum(b, Clients)
  BY <1>6, <1>8, ClientsFinite, SumMinus
<1>10. Sum(cogs, Clients) = Sum(d, Clients) - Sum(e, Clients)
  BY <1>6, <1>8, ClientsFinite, SumMinus
<1>11. SumFunction(revenue) = Sum(revenue, Clients) /\ SumFunction(cogs) = Sum(cogs, Clients)
  BY <1>a, SumFunctionIs
<1>12. SumFunction(revenue) = RecognizedRevenue(p) - ReturnedRevenue(p)
  BY <1>6, <1>7, <1>9, <1>11, Zenon
<1>13. SumFunction(cogs) = RecognizedCogs(p) - ReturnedCogs(p)
  BY <1>6, <1>7, <1>10, <1>11, Zenon
<1> QED BY <1>12, <1>13 DEF revenue, cogs

-----------------------------------------------------------------------------
(***************************************************************************)
(* Balances of the rows of the ledger, and of parts of them.               *)
(***************************************************************************)
LEMMA BalanceType == ASSUME TablesTyped, NEW S \in SUBSET Rows PROVE Balance(S) \in Int
  BY InRowsType DEF Balance

LEMMA BalanceUnion ==
  ASSUME TablesTyped, NEW S \in SUBSET Rows, NEW T \in SUBSET Rows, S \cap T = {}
  PROVE  Balance(S \cup T) = Balance(S) + Balance(T)
<1>1. ASSUME NEW type PROVE InRows(S \cup T, type) = InRows(S, type) + InRows(T, type)
  <2> DEFINE A == {r \in S : r.type = type}
             B == {r \in T : r.type = type}
  <2>1. A \in SUBSET Rows /\ B \in SUBSET Rows /\ A \cap B = {}
    OBVIOUS
  <2>2. {r \in S \cup T : r.type = type} = A \cup B
    OBVIOUS
  <2>3. InRows(S, type) = RowSum(A) /\ InRows(T, type) = RowSum(B)
    BY DEF InRows
  <2> HIDE DEF A, B
  <2>4. RowSum(A \cup B) = RowSum(A) + RowSum(B)
    BY <2>1, RowSumUnion
  <2>5. InRows(S \cup T, type) = RowSum(A \cup B)
    BY <2>2, Zenon DEF InRows
  <2> QED BY <2>3, <2>4, <2>5
<1>2. S \cup T \in SUBSET Rows
  OBVIOUS
<1>3. /\ InRows(S, "INCOME") \in Int /\ InRows(T, "INCOME") \in Int
      /\ InRows(S, "EXPENSE") \in Int /\ InRows(T, "EXPENSE") \in Int
  BY InRowsType
<1>4. /\ InRows(S \cup T, "INCOME") = InRows(S, "INCOME") + InRows(T, "INCOME")
      /\ InRows(S \cup T, "EXPENSE") = InRows(S, "EXPENSE") + InRows(T, "EXPENSE")
  BY <1>1, Zenon
<1>5. /\ Balance(S) = InRows(S, "INCOME") - InRows(S, "EXPENSE")
      /\ Balance(T) = InRows(T, "INCOME") - InRows(T, "EXPENSE")
      /\ Balance(S \cup T) = InRows(S \cup T, "INCOME") - InRows(S \cup T, "EXPENSE")
  BY DEF Balance
<1> QED BY <1>3, <1>4, <1>5

Divides(P, K, S) ==
  /\ S \in SUBSET Rows /\ \A k \in K : P[k] \in SUBSET S
  /\ \A r \in S : \E k \in K : r \in P[k]
  /\ \A j, k \in K : j # k => P[j] \cap P[k] = {}

LEMMA InRowsParts ==
  ASSUME TablesTyped, NEW K, IsFiniteSet(K), NEW S, NEW P, Divides(P, K, S), NEW type,
         NEW f, \A k \in K : f[k] = InRows(P[k], type)
  PROVE  Sum(f, K) = InRows(S, type) /\ \A k \in K : f[k] \in Int
<1> DEFINE Q == [k \in K |-> {r \in P[k] : r.type = type}]
           T == {r \in S : r.type = type}
<1>1. \A k \in K : Q[k] = {r \in P[k] : r.type = type}
  OBVIOUS
<1>2. T \in SUBSET Rows /\ \A k \in K : Q[k] \in SUBSET Rows
  BY DEF Divides
<1>3. \A j, k \in K : j # k => Q[j] \cap Q[k] = {}
  BY DEF Divides
<1>4. UNION {Q[k] : k \in K} = T
  <2>1. \A k \in K : Q[k] \subseteq T
    BY DEF Divides
  <2>2. \A r \in T : \E k \in K : r \in Q[k]
    BY DEF Divides
  <2> HIDE DEF Q, T
  <2> QED BY <2>1, <2>2
<1>5. InRows(S, type) = RowSum(T)
  BY DEF InRows
<1> HIDE DEF Q, T
<1>6. \A k \in K : f[k] = RowSum(Q[k])
  BY <1>1, Zenon DEF InRows
<1>7. \A k \in K : IsFiniteSet(Q[k]) /\ f[k] = Sum(Worths(ledger), Q[k]) /\ \A x \in Q[k] : Worths(ledger)[x] \in Int
  <2> SUFFICES ASSUME NEW k \in K
               PROVE  IsFiniteSet(Q[k]) /\ f[k] = Sum(Worths(ledger), Q[k]) /\ \A x \in Q[k] : Worths(ledger)[x] \in Int
    OBVIOUS
  <2>1. IsFiniteSet(Q[k]) /\ RowSum(Q[k]) = Sum(Worths(ledger), Q[k]) /\ \A x \in Q[k] : Worths(ledger)[x] \in Int
    BY <1>2, RowSumIs
  <2> QED BY <1>6, <2>1
<1>8. Parted(Worths(ledger), K, Q, f)
  BY <1>3, <1>7 DEF Parted
<1>9. Sum(Worths(ledger), UNION {Q[k] : k \in K}) = Sum(f, K)
  BY <1>8, SumParts
<1>10. RowSum(T) = Sum(Worths(ledger), T)
  BY <1>2, RowSumIs
<1>11. Sum(f, K) = InRows(S, type)
  BY <1>4, <1>5, <1>9, <1>10, Zenon
<1>12. \A k \in K : f[k] \in Int
  BY <1>7, SumType
<1> QED BY <1>11, <1>12

LEMMA BalanceParts ==
  ASSUME TablesTyped, NEW K, IsFiniteSet(K), NEW S, NEW P, Divides(P, K, S), NEW f, \A k \in K : f[k] = Balance(P[k])
  PROVE  Sum(f, K) = Balance(S) /\ \A k \in K : f[k] \in Int
<1> DEFINE a == [k \in K |-> InRows(P[k], "INCOME")]
           b == [k \in K |-> InRows(P[k], "EXPENSE")]
<1>1. \A k \in K : a[k] = InRows(P[k], "INCOME") /\ b[k] = InRows(P[k], "EXPENSE")
  OBVIOUS
<1> HIDE DEF a, b
<1>2. Sum(a, K) = InRows(S, "INCOME") /\ \A k \in K : a[k] \in Int
  BY <1>1, InRowsParts
<1>3. Sum(b, K) = InRows(S, "EXPENSE") /\ \A k \in K : b[k] \in Int
  BY <1>1, InRowsParts
<1>4. \A k \in K : a[k] \in Int /\ b[k] \in Int /\ f[k] = a[k] - b[k]
  BY <1>1, <1>2, <1>3 DEF Balance
<1>5. Sum(f, K) = Sum(a, K) - Sum(b, K)
  BY <1>4, SumMinus
<1>6. \A k \in K : f[k] \in Int
  BY <1>4
<1> QED BY <1>2, <1>3, <1>5, <1>6 DEF Balance

\* The first and the last month of the reports.
LEMMA ExtremeMonths ==
  /\ Max(ReportMonths) \in Int /\ \A m \in ReportMonths : m <= Max(ReportMonths)
  /\ Min(ReportMonths) \in Int /\ \A m \in ReportMonths : Min(ReportMonths) <= m
<1> DEFINE S == ReportMonths
           f == [at \in DaysAsked |-> MonthOf(at)]
           up == {x \in S \X S : x[1] < x[2]}
           down == {x \in S \X S : x[1] > x[2]}
<1>1. S = {f[at] : at \in DaysAsked}
  BY DEF ReportMonths
<1>2. IsFiniteSet(DaysAsked) /\ DaysAsked # {}
  BY DaysAre
<1>3. S # {} /\ S \subseteq Int
  BY <1>2, ReportMonth DEF ReportMonths
<1> HIDE DEF f
<1>4. IsFiniteSet({f[at] : at \in DaysAsked})
  BY <1>2, ImageFinite
<1>5. IsFiniteSet(S)
  BY <1>1, <1>4, Zenon
<1> HIDE DEF S
<1>6. Ordered(up, S)
  BY <1>3 DEF Ordered
<1>7. Ordered(down, S)
  BY <1>3 DEF Ordered
<1>8. \A x, m \in S : (<<x, m>> \in up => x < m) /\ (<<x, m>> \in down => x > m)
  OBVIOUS
<1> HIDE DEF up, down
<1>a. PICK m \in S : \A x \in S \ {m} : <<x, m>> \in up
  BY <1>3, <1>5, <1>6, LastOne, ZenonT(60)
<1>b. PICK n \in S : \A x \in S \ {n} : <<x, n>> \in down
  BY <1>3, <1>5, <1>7, LastOne, ZenonT(60)
<1>9. m \in S /\ \A x \in S : m >= x
  <2> SUFFICES ASSUME NEW x \in S PROVE m >= x
    OBVIOUS
  <2>1. x # m => x < m
    BY <1>8, <1>a
  <2> QED BY <2>1, <1>3
<1>10. n \in S /\ \A x \in S : n <= x
  <2> SUFFICES ASSUME NEW x \in S PROVE n <= x
    OBVIOUS
  <2>1. x # n => x > n
    BY <1>8, <1>b
  <2> QED BY <2>1, <1>3
<1>11. Max(S) \in S /\ \A x \in S : Max(S) >= x
  BY <1>9 DEF Max
<1>12. Min(S) \in S /\ \A x \in S : Min(S) <= x
  BY <1>10 DEF Min
<1> QED BY <1>3, <1>11, <1>12 DEF S

-----------------------------------------------------------------------------
(***************************************************************************)
(* ReportsAgree: a transfer takes from one account what it brings to       *)
(* another, on the same day.                                               *)
(***************************************************************************)
CameIn(till) == {r \in LedgerRow : r.kind = "TRANSFER_IN" /\ r.at <= till}
WentOut(till) == {r \in LedgerRow : r.kind = "TRANSFER_OUT" /\ r.at <= till}

\* The second invariant of the ledger.
TransfersCancel == \A till \in Int : Weigh(ledger, CameIn(till)) = Weigh(ledger, WentOut(till))

LEMMA SumOfSingle == ASSUME NEW f, NEW x, f[x] \in Int PROVE Sum(f, {x}) = f[x]
<1>1. IsFiniteSet({}) /\ x \notin {} /\ {} \cup {x} = {x} /\ \A y \in {} \cup {x} : f[y] \in Int
  BY FS_EmptySet
<1>2. Sum(f, {} \cup {x}) = f[x] + Sum(f, {})
  BY <1>1, SumPut
<1> QED BY <1>1, <1>2, SumEmpty

LEMMA OneMore ==
  ASSUME TablesTyped, TransfersCancel, NEW r, RowTyped(r), r.kind \notin TransferKinds, Enter({r})
  PROVE  TransfersCancel'
<1> SUFFICES ASSUME NEW till \in Int PROVE Weigh(ledger', CameIn(till)) = Weigh(ledger', WentOut(till))
  BY Zenon DEF TransfersCancel
<1>1. Amount(r, CameIn(till)) = 0 /\ Amount(r, WentOut(till)) = 0
  BY DEF Amount, CameIn, WentOut, TransferKinds
<1>2. ledger' = ledger (+) SetToBag({r})
  BY DEF Enter
<1>3. \A P : Weigh(ledger', P) = Weigh(ledger, P) + Amount(r, P)
  BY <1>2, BagAdds, ZenonT(60) DEF TablesTyped
<1>4. Weigh(ledger, CameIn(till)) = Weigh(ledger, WentOut(till))
  BY DEF TransfersCancel
<1>5. Weigh(ledger', CameIn(till)) = Weigh(ledger, CameIn(till)) + Amount(r, CameIn(till))
  BY <1>3
<1>6. Weigh(ledger', WentOut(till)) = Weigh(ledger, WentOut(till)) + Amount(r, WentOut(till))
  BY <1>3
<1> QED BY <1>1, <1>4, <1>5, <1>6

LEMMA TransferCancels ==
  ASSUME TablesTyped, TransfersCancel, NEW x \in Transfers, CreateTransfer(x[1], x[2], x[3], x[4])
  PROVE  TransfersCancel'
<1>1. x[1] \in Accounts /\ x[2] \in Accounts /\ x[3] \in Int /\ x[4] \in DaysAsked /\ x[4] \in Int /\ Fee \in Int
  BY ReportsAssumption DEF DaysAsked
<1> DEFINE taken == Row(x[4], "EXPENSE", "TRANSFER_OUT", NoCat, x[1], x[3])
           in == Row(x[4], "INCOME", "TRANSFER_IN", NoCat, x[2], x[3])
           fee == Row(x[4], "EXPENSE", "VARIABLE_COST", NoCat, x[1], Fee)
           R == {taken, in, fee}
           f == [r \in R |-> r.amount]
<1>2. RowTyped(taken) /\ RowTyped(in) /\ RowTyped(fee)
  <2>1. "TRANSFER_OUT" \in KindsOf["EXPENSE"] \ OrderKinds /\ "TRANSFER_IN" \in KindsOf["INCOME"] \ OrderKinds
        /\ "VARIABLE_COST" \in KindsOf["EXPENSE"] \ OrderKinds /\ "EXPENSE" \in Types /\ "INCOME" \in Types
    BY DEF KindsOf, ManualKinds, OrderKinds, Types
  <2> QED BY <1>1, <2>1, RowIsOk
<1>3. Enter(R)
  BY DEF CreateTransfer
<1>4. /\ taken.kind = "TRANSFER_OUT" /\ in.kind = "TRANSFER_IN" /\ fee.kind = "VARIABLE_COST"
      /\ taken.at = x[4] /\ in.at = x[4] /\ taken.amount = x[3] /\ in.amount = x[3]
  BY DEF Row
<1>5. taken \in LedgerRow /\ in \in LedgerRow
  BY <1>2 DEF RowTyped
<1> HIDE DEF taken, in, fee
<1>6. f[taken] = x[3] /\ f[in] = x[3] /\ taken \in R /\ in \in R
  BY <1>4
<1>7. IsFiniteSet(R) /\ \A r \in R : RowTyped(r)
  <2>1. R = ({taken} \cup {in}) \cup {fee}
    OBVIOUS
  <2>2. IsFiniteSet({taken}) /\ IsFiniteSet({in}) /\ IsFiniteSet({fee})
    BY FS_Singleton
  <2>3. IsFiniteSet({taken} \cup {in})
    BY <2>2, FS_Union
  <2>4. IsFiniteSet(({taken} \cup {in}) \cup {fee})
    BY <2>2, <2>3, FS_Union
  <2>5. IsFiniteSet(R)
    BY <2>1, <2>4, Zenon
  <2> QED BY <1>2, <2>5
<1> SUFFICES ASSUME NEW till \in Int PROVE Weigh(ledger', CameIn(till)) = Weigh(ledger', WentOut(till))
  BY DEF TransfersCancel
<1>8. x[4] <= till => R \cap CameIn(till) = {in} /\ R \cap WentOut(till) = {taken}
  BY <1>4, <1>5 DEF CameIn, WentOut
<1>9. ~(x[4] <= till) => R \cap CameIn(till) = {} /\ R \cap WentOut(till) = {}
  BY <1>4, <1>5 DEF CameIn, WentOut
<1> HIDE DEF R
<1>10. ledger' = ledger (+) SetToBag(R)
  BY <1>3 DEF Enter
<1>11. \A P : Weigh(ledger', P) = Weigh(ledger, P) + Sum(f, R \cap P)
  <2>1. BagOk(ledger)
    BY DEF TablesTyped
  <2> QED BY <1>7, <1>10, <2>1, WeighPut
<1> HIDE DEF f
<1>12. Weigh(ledger', CameIn(till)) = Weigh(ledger, CameIn(till)) + Sum(f, R \cap CameIn(till))
  BY <1>11
<1>13. Weigh(ledger', WentOut(till)) = Weigh(ledger, WentOut(till)) + Sum(f, R \cap WentOut(till))
  BY <1>11
<1>14. Sum(f, R \cap CameIn(till)) = Sum(f, R \cap WentOut(till))
  <2>1. Sum(f, {in}) = x[3] /\ Sum(f, {taken}) = x[3]
    BY <1>1, <1>6, SumOfSingle
  <2> QED BY <1>8, <1>9, <2>1
<1>15. Weigh(ledger, CameIn(till)) = Weigh(ledger, WentOut(till))
  BY DEF TransfersCancel
<1> QED BY <1>12, <1>13, <1>14, <1>15, Zenon

LEMMA DeletionCancels ==
  ASSUME TablesTyped, TransfersCancel, NEW r \in Rows, DeleteEntry(r) \/ DeletePayment(r) PROVE TransfersCancel'
<1>1. BagOk(ledger) /\ r \in DOMAIN ledger
  BY RowsAre DEF TablesTyped
<1>2. Without(ledger', ledger, r) /\ r.kind \notin TransferKinds
  BY DEF DeleteEntry, DeletePayment, Without, GenericEditable, TransferKinds
<1>3. \A P : Weigh(ledger', P) = Weigh(ledger, P) - Amount(r, P)
  BY <1>1, <1>2, BagRemoves
<1> SUFFICES ASSUME NEW till \in Int PROVE Weigh(ledger', CameIn(till)) = Weigh(ledger', WentOut(till))
  BY DEF TransfersCancel
<1>4. Amount(r, CameIn(till)) = 0 /\ Amount(r, WentOut(till)) = 0
  BY <1>2 DEF Amount, CameIn, WentOut, TransferKinds
<1>5. Weigh(ledger, CameIn(till)) = Weigh(ledger, WentOut(till))
  BY DEF TransfersCancel
<1>6. Weigh(ledger', CameIn(till)) = Weigh(ledger, CameIn(till)) - Amount(r, CameIn(till))
  BY <1>3
<1>7. Weigh(ledger', WentOut(till)) = Weigh(ledger, WentOut(till)) - Amount(r, WentOut(till))
  BY <1>3
<1> QED BY <1>4, <1>5, <1>6, <1>7

LEMMA MarkCancels ==
  ASSUME TablesTyped, TransfersCancel, NEW r \in Rows, NEW mark \in Marks, SetAusnMark(r, mark) PROVE TransfersCancel'
<1> DEFINE s == [r EXCEPT !.mark = mark]
<1>1. BagOk(ledger) /\ r \in DOMAIN ledger /\ RowTyped(r)
  BY RowsAre DEF TablesTyped, BagOk
<1>2. RowTyped(s) /\ s.kind = r.kind /\ s.at = r.at /\ s.amount = r.amount
  BY <1>1 DEF RowTyped, LedgerRow
<1>3. PICK M : Without(M, ledger, r) /\ ledger' = M (+) SetToBag({s})
  BY DEF SetAusnMark, Without
<1> HIDE DEF s
<1>4. BagOk(M) /\ \A P : Weigh(M, P) = Weigh(ledger, P) - Amount(r, P)
  BY <1>1, <1>3, BagRemoves
<1>5. \A P : Weigh(ledger', P) = Weigh(M, P) + Amount(s, P)
  <2>1. RowTyped(s) /\ BagOk(M)
    BY <1>2, <1>4
  <2>2. \A P : Weigh(M (+) SetToBag({s}), P) = Weigh(M, P) + Amount(s, P)
    BY <2>1, BagAdds
  <2> QED BY <1>3, <2>2, Zenon
<1> SUFFICES ASSUME NEW till \in Int PROVE Weigh(ledger', CameIn(till)) = Weigh(ledger', WentOut(till))
  BY DEF TransfersCancel
<1>6. ASSUME NEW P \in {CameIn(till), WentOut(till)} PROVE Weigh(ledger', P) = Weigh(ledger, P)
  <2>1. r \in P <=> s \in P
    BY <1>1, <1>2 DEF RowTyped, CameIn, WentOut
  <2>2. Amount(r, P) = Amount(s, P) /\ Amount(r, P) \in Int
    BY <1>1, <1>2, <2>1, RowAmount DEF Amount
  <2>3. Weigh(ledger, P) \in Int
    BY <1>1, WeighType
  <2>4. Weigh(M, P) = Weigh(ledger, P) - Amount(r, P) /\ Weigh(ledger', P) = Weigh(M, P) + Amount(s, P)
    BY <1>4, <1>5
  <2> QED BY <2>2, <2>3, <2>4
<1>7. Weigh(ledger, CameIn(till)) = Weigh(ledger, WentOut(till))
  BY DEF TransfersCancel
<1>8. Weigh(ledger', CameIn(till)) = Weigh(ledger, CameIn(till)) /\ Weigh(ledger', WentOut(till)) = Weigh(ledger, WentOut(till))
  BY <1>6
<1> QED BY <1>7, <1>8, Zenon

LEMMA InitCancels == ASSUME ReportsInit PROVE TransfersCancel
<1> SUFFICES ASSUME NEW till \in Int PROVE Weigh(ledger, CameIn(till)) = Weigh(ledger, WentOut(till))
  BY DEF TransfersCancel
<1>1. DOMAIN ledger = {}
  BY DEF ReportsInit, EmptyBag, SetToBag
<1>2. DOMAIN ledger \cap CameIn(till) = {} /\ DOMAIN ledger \cap WentOut(till) = {}
  BY <1>1
<1> QED BY <1>2, Zenon DEF Weigh

LEMMA OneComesCancels == ASSUME TablesTyped, TransfersCancel, EntersOne PROVE TransfersCancel'
  BY OneMore DEF EntersOne

LEMMA StillCancels == ASSUME TransfersCancel, UNCHANGED ledger PROVE TransfersCancel'
  BY DEF TransfersCancel, Weigh, Worths, CameIn, WentOut

LEMMA NextCancels == ASSUME TablesTyped, TransfersCancel, [ReportsNext]_reportsVars PROVE TransfersCancel'
<1>1. CASE \E e \in Entries : CreateEntry(e)
  BY <1>1, EntryTyped, OneComesCancels
<1>2. CASE \E x \in Transfers : CreateTransfer(x[1], x[2], x[3], x[4])
  BY <1>2, TransferCancels
<1>3. CASE \E x \in TaxButtons : MarkPaid(x[1], x[2], x[3], x[4])
  BY <1>3, TaxTyped, OneComesCancels
<1>4. CASE \E a \in Accounts \ Cash, at \in PurchaseDays : CreatePurchase(a, at)
  BY <1>4, PurchaseTyped, OneComesCancels
<1>5. CASE \E a \in Accounts \ Cash, at \in WriteOffDays : LoseUnit(a, at)
  BY <1>5, LossTyped, OneComesCancels
<1>6. CASE \E o \in OrderIds, at \in OrderDays : OrderStep(o, at)
  <2>1. PICK o \in OrderIds, at \in OrderDays : OrderStep(o, at)
    BY <1>6
  <2>2. CASE \E x \in Payments : AddPayment(o, x[1], x[2], at)
    BY <2>2, PaymentTyped, OneComesCancels
  <2>3. CASE Finalize(o, at)
    BY <2>3, StillCancels DEF Finalize
  <2>4. CASE \E q \in 1..Qty[o], x \in Payments, refunded \in BOOLEAN :
               ReturnItem(o, q, IF refunded THEN x[2] ELSE 0, x[1], at)
    <3>1. PICK q \in 1..Qty[o], x \in Payments, refunded \in BOOLEAN :
                 ReturnItem(o, q, IF refunded THEN x[2] ELSE 0, x[1], at)
      BY <2>4
    <3> DEFINE refund == IF refunded THEN x[2] ELSE 0
    <3>2. q \in Nat /\ refund \in Int
      BY ReportsAssumption
    <3>3. ReturnItem(o, q, refund, x[1], at)
      BY <3>1
    <3> HIDE DEF refund
    <3>4. EntersOne \/ UNCHANGED ledger
      BY <3>2, <3>3, RefundTyped
    <3> QED BY <3>4, OneComesCancels, StillCancels
  <2> QED BY <2>1, <2>2, <2>3, <2>4 DEF OrderStep
<1>7. CASE \E r \in Rows : DeleteEntry(r) \/ DeletePayment(r)
  BY <1>7, DeletionCancels
<1>8. CASE \E r \in Rows, mark \in Marks : SetAusnMark(r, mark)
  BY <1>8, MarkCancels
<1>9. CASE UNCHANGED ledger
  BY <1>9, StillCancels
<1>10. CASE \/ \E o \in OrderIds, q \in 1..MaxShipped : Ship(o, q)
            \/ \E o \in OrderIds : Cancel(o) \/ Reopen(o)
            \/ \E c \in Removals : BeginRemoveCategory(c) \/ RemoveCategory(c)
            \/ \E x \in Rebuckets : UpdateBucket(x[1], x[2])
  <2>1. UNCHANGED ledger
    BY <1>10 DEF Ship, Cancel, Reopen, ReverseFinalization, BeginRemoveCategory, RemoveCategory, UpdateBucket
  <2> QED BY <2>1, StillCancels
<1> QED
  BY <1>1, <1>2, <1>3, <1>4, <1>5, <1>6, <1>7, <1>8, <1>9, <1>10 DEF ReportsNext, reportsVars

\* What the cash reports rest on.
LEMMA CancelAlways == ReportsSpec => [](TablesTyped /\ TransfersCancel)
<1>1. ReportsInit => TablesTyped /\ TransfersCancel
  BY InitTyped, InitCancels
<1>2. TablesTyped /\ TransfersCancel /\ [ReportsNext]_reportsVars => (TablesTyped /\ TransfersCancel)'
  BY NextTyped, NextCancels
<1> QED BY <1>1, <1>2, PTL DEF ReportsSpec

\* Transfers change no balance of all accounts together.
LEMMA TransfersBalance ==
  ASSUME TablesTyped, TransfersCancel, NEW till \in Int
  PROVE  Balance({r \in Rows : r.at <= till /\ r.kind \in TransferKinds}) = 0
<1> DEFINE S == {r \in Rows : r.at <= till /\ r.kind \in TransferKinds}
<1>1. Rows = DOMAIN ledger /\ \A r \in Rows : RowTyped(r)
  BY RowsAre DEF TablesTyped, BagOk
<1>2. \A r \in Rows : r \in LedgerRow /\ (r.kind = "TRANSFER_IN" => r.type = "INCOME") /\ (r.kind = "TRANSFER_OUT" => r.type = "EXPENSE")
  BY <1>1 DEF RowTyped, LedgerRow, Types, KindsOf, ManualKinds
<1>3. {r \in S : r.type = "INCOME"} = DOMAIN ledger \cap CameIn(till)
  BY <1>1, <1>2 DEF CameIn, TransferKinds
<1>4. {r \in S : r.type = "EXPENSE"} = DOMAIN ledger \cap WentOut(till)
  BY <1>1, <1>2 DEF WentOut, TransferKinds
<1>5. DOMAIN ledger \cap CameIn(till) \in SUBSET Rows /\ DOMAIN ledger \cap WentOut(till) \in SUBSET Rows
  BY <1>1
<1>6. InRows(S, "INCOME") = Weigh(ledger, CameIn(till))
  <2>1. RowSum(DOMAIN ledger \cap CameIn(till)) = Weigh(ledger, CameIn(till))
    BY <1>5, RowSumIs DEF Weigh
  <2> QED BY <1>3, <2>1, Zenon DEF InRows
<1>7. InRows(S, "EXPENSE") = Weigh(ledger, WentOut(till))
  <2>1. RowSum(DOMAIN ledger \cap WentOut(till)) = Weigh(ledger, WentOut(till))
    BY <1>5, RowSumIs DEF Weigh
  <2> QED BY <1>4, <2>1, Zenon DEF InRows
<1>8. Weigh(ledger, CameIn(till)) = Weigh(ledger, WentOut(till))
  BY DEF TransfersCancel
<1>9. InRows(S, "INCOME") \in Int
  BY InRowsType
<1> HIDE DEF S
<1>10. Balance(S) = InRows(S, "INCOME") - InRows(S, "INCOME")
  BY <1>6, <1>7, <1>8, Zenon DEF Balance
<1>11. Balance(S) = 0
  BY <1>9, <1>10
<1> QED BY <1>11, Zenon DEF S

-----------------------------------------------------------------------------
(***************************************************************************)
(* ReportsAgree: the cash reports.                                         *)
(***************************************************************************)
\* The rows up to a day that the accounts count, and those all accounts
\* together count.
CountedBy(till) == {r \in Rows : r.at <= till /\ r.kind \notin NonCashForAccount}
HeldTogether(till) == {r \in Rows : r.at <= till /\ r.kind \notin NonCashConsolidated}
HeldBy(a, till) == {r \in Rows : r.acc = a /\ r.at <= till /\ r.kind \notin NonCashForAccount}

LEMMA RowPlace == ASSUME TablesTyped, NEW r \in Rows PROVE r.acc \in Accounts /\ r.cat \in Categories \cup {NoCat} /\ r.at \in DaysAsked
<1>1. RowTyped(r)
  BY EntryFacts
<1> QED BY <1>1 DEF RowTyped, LedgerRow

LEMMA HeldAgree ==
  ASSUME TablesTyped, TransfersCancel, NEW till \in Int PROVE Balance(CountedBy(till)) = Balance(HeldTogether(till))
<1> DEFINE T == {r \in Rows : r.at <= till /\ r.kind \in TransferKinds}
           N == HeldTogether(till)
<1>1. CountedBy(till) = N \cup T /\ N \cap T = {} /\ N \in SUBSET Rows /\ T \in SUBSET Rows
  BY DEF CountedBy, HeldTogether, NonCashForAccount, NonCashConsolidated, NonCashKinds, TransferKinds
<1>2. Balance(T) = 0
  BY TransfersBalance
<1> HIDE DEF T, N
<1>3. Balance(N \cup T) = Balance(N) + Balance(T) /\ Balance(N) \in Int
  BY <1>1, BalanceUnion, BalanceType
<1>4. Balance(N \cup T) = Balance(N)
  BY <1>2, <1>3
<1> QED BY <1>1, <1>4, Zenon DEF N

\* The sum of the accounts' balances.
LEMMA AccountsSum ==
  ASSUME TablesTyped, NEW till \in Int, NEW g, DOMAIN g = Accounts, \A a \in Accounts : g[a] = Opening[a] + Balance(HeldBy(a, till))
  PROVE  SumFunction(g) = SumFunction(Opening) + Balance(CountedBy(till))
<1> DEFINE P == [a \in Accounts |-> HeldBy(a, till)]
           f == [a \in Accounts |-> Balance(HeldBy(a, till))]
<1>1. Divides(P, Accounts, CountedBy(till))
  <2>1. CountedBy(till) \in SUBSET Rows
    BY DEF CountedBy
  <2>2. \A a \in Accounts : P[a] \in SUBSET CountedBy(till)
    BY DEF CountedBy, HeldBy
  <2>3. \A r \in CountedBy(till) : r.acc \in Accounts /\ r \in P[r.acc]
    <3> SUFFICES ASSUME NEW r \in CountedBy(till) PROVE r.acc \in Accounts /\ r \in P[r.acc]
      OBVIOUS
    <3>1. r \in Rows
      BY DEF CountedBy
    <3>2. r.acc \in Accounts
      BY <3>1, RowPlace
    <3> QED BY <3>2 DEF CountedBy, HeldBy
  <2>4. \A a, b \in Accounts : a # b => P[a] \cap P[b] = {}
    BY DEF HeldBy
  <2> HIDE DEF P
  <2> QED BY <2>1, <2>2, <2>3, <2>4 DEF Divides
<1>2. \A a \in Accounts : f[a] = Balance(P[a])
  OBVIOUS
<1>3. IsFiniteSet(Accounts) /\ DOMAIN Opening = Accounts /\ \A a \in Accounts : Opening[a] \in Int
  BY ReportsAssumption
<1>4. \A a \in Accounts : g[a] = Opening[a] + f[a]
  OBVIOUS
<1> HIDE DEF P, f
<1>5. Sum(f, Accounts) = Balance(CountedBy(till)) /\ \A a \in Accounts : f[a] \in Int
  BY <1>1, <1>2, <1>3, BalanceParts
<1>6. Sum(g, Accounts) = Sum(Opening, Accounts) + Sum(f, Accounts)
  BY <1>3, <1>4, <1>5, SumPlus
<1>7. SumFunction(g) = Sum(g, Accounts) /\ SumFunction(Opening) = Sum(Opening, Accounts)
  BY <1>3, SumFunctionIs
<1> QED BY <1>5, <1>6, <1>7, Zenon

LEMMA ClosingsAgree ==
  ASSUME TablesTyped, TransfersCancel, NEW till \in Int
  PROVE  ConsolidatedClosing(till) = SumFunction([a \in Accounts |-> AccountClosing(a, till)])
<1> DEFINE g == [a \in Accounts |-> AccountClosing(a, till)]
<1>1. \A a \in Accounts : g[a] = Opening[a] + Balance(HeldBy(a, till))
  BY DEF AccountClosing, HeldBy
<1>2. DOMAIN g = Accounts
  OBVIOUS
<1> HIDE DEF g
<1>3. SumFunction(g) = SumFunction(Opening) + Balance(CountedBy(till))
  BY <1>1, <1>2, AccountsSum
<1>4. ConsolidatedClosing(till) = SumFunction(Opening) + Balance(HeldTogether(till))
  BY DEF ConsolidatedClosing, HeldTogether
<1>5. ConsolidatedClosing(till) = SumFunction(g)
  BY <1>3, <1>4, HeldAgree, Zenon
<1> QED BY <1>5, Zenon DEF g

\* The balance sheet has the closing balance of a day after which no row is dated.
LEMMA CashTotalIs ==
  ASSUME TablesTyped, TransfersCancel, NEW till \in Int, \A r \in Rows : r.at <= till
  PROVE  CashTotal = ConsolidatedClosing(till)
<1> DEFINE g == [a \in Accounts |-> Opening[a] + Balance({r \in Rows : r.acc = a /\ r.kind \notin NonCashForAccount})]
<1>1. \A a \in Accounts : {r \in Rows : r.acc = a /\ r.kind \notin NonCashForAccount} = HeldBy(a, till)
  BY DEF HeldBy
<1>2. DOMAIN g = Accounts /\ \A a \in Accounts : g[a] = Opening[a] + Balance(HeldBy(a, till))
  <2>1. \A a \in Accounts : Balance({r \in Rows : r.acc = a /\ r.kind \notin NonCashForAccount}) = Balance(HeldBy(a, till))
    BY <1>1, Zenon
  <2>2. \A a \in Accounts : g[a] = Opening[a] + Balance({r \in Rows : r.acc = a /\ r.kind \notin NonCashForAccount})
    OBVIOUS
  <2> HIDE DEF g
  <2>3. \A a \in Accounts : g[a] = Opening[a] + Balance(HeldBy(a, till))
    BY <2>1, <2>2, Zenon
  <2>4. DOMAIN g = Accounts
    BY DEF g
  <2> QED BY <2>3, <2>4
<1>3. CashTotal = SumFunction(g)
  BY DEF CashTotal
<1> HIDE DEF g
<1>4. SumFunction(g) = SumFunction(Opening) + Balance(CountedBy(till))
  BY <1>2, AccountsSum
<1>5. ConsolidatedClosing(till) = SumFunction(Opening) + Balance(HeldTogether(till))
  BY DEF ConsolidatedClosing, HeldTogether
<1> QED BY <1>3, <1>4, <1>5, HeldAgree, Zenon

\* The change of a period is what the breakdown by category shows.
LEMMA BreakdownIs ==
  ASSUME TablesTyped, NEW p, p.from \in Int, p.to \in Int, p.from - 1 <= p.to
  PROVE  ConsolidatedClosing(p.to) - ConsolidatedClosing(p.from - 1) = BreakdownNet(p)
<1> DEFINE K == Categories \cup {NoCat}
           S == {r \in Rows : During(r.at, p) /\ r.kind \notin NonCashConsolidated}
           P == [c \in K |-> {r \in Rows : During(r.at, p) /\ r.cat = c /\ r.kind \notin NonCashConsolidated}]
           g == [c \in K |-> Balance({r \in Rows : During(r.at, p) /\ r.cat = c /\ r.kind \notin NonCashConsolidated})]
           N == HeldTogether(p.from - 1)
<1>1. Divides(P, K, S)
  <2>1. S \in SUBSET Rows
    OBVIOUS
  <2>2. \A c \in K : P[c] \in SUBSET S
    OBVIOUS
  <2>3. \A r \in S : r.cat \in K /\ r \in P[r.cat]
    BY RowPlace
  <2>4. \A c, d \in K : c # d => P[c] \cap P[d] = {}
    OBVIOUS
  <2> HIDE DEF P, K, S
  <2> QED BY <2>1, <2>2, <2>3, <2>4 DEF Divides
<1>2. \A c \in K : g[c] = Balance(P[c])
  OBVIOUS
<1>3. IsFiniteSet(K)
  BY ReportsAssumption, FS_AddElement
<1>4. BreakdownNet(p) = SumFunction(g) /\ DOMAIN g = K
  BY DEF BreakdownNet
<1>5. N \in SUBSET Rows /\ S \in SUBSET Rows /\ N \cap S = {} /\ HeldTogether(p.to) = N \cup S
  <2>1. \A r \in Rows : r.at \in Int
    BY EntryFacts
  <2> QED BY <2>1 DEF HeldTogether, During
<1>6. ConsolidatedClosing(p.to) = SumFunction(Opening) + Balance(HeldTogether(p.to))
      /\ ConsolidatedClosing(p.from - 1) = SumFunction(Opening) + Balance(N)
  BY DEF ConsolidatedClosing, HeldTogether
<1> HIDE DEF P, K, S, g, N
<1>7. Sum(g, K) = Balance(S)
  BY <1>1, <1>2, <1>3, BalanceParts
<1>8. SumFunction(g) = Sum(g, K)
  BY <1>4, SumFunctionIs
<1>9. Balance(N \cup S) = Balance(N) + Balance(S) /\ Balance(N) \in Int /\ Balance(S) \in Int
  BY <1>5, BalanceUnion, BalanceType
<1>10. Balance(HeldTogether(p.to)) = Balance(N) + Balance(S)
  BY <1>5, <1>9, Zenon
<1>11. SumFunction(Opening) \in Int
  <2>1. IsFiniteSet(Accounts) /\ DOMAIN Opening = Accounts /\ \A a \in Accounts : Opening[a] \in Int
    BY ReportsAssumption
  <2> QED BY <2>1, SumFunctionIs, SumType
<1>12. ConsolidatedClosing(p.to) - ConsolidatedClosing(p.from - 1) = Balance(S)
  BY <1>6, <1>9, <1>10, <1>11
<1> QED BY <1>4, <1>7, <1>8, <1>12, Zenon

LEMMA CashReports ==
  ASSUME TablesTyped, TransfersCancel PROVE CashAgrees
<1>1. ASSUME NEW m \in ReportMonths
      PROVE  /\ ConsolidatedClosing(MonthEnd(m)) = SumFunction([a \in Accounts |-> AccountClosing(a, MonthEnd(m))])
             /\ ConsolidatedClosing(MonthEnd(m)) - ConsolidatedClosing(MonthStart(m) - 1) = BreakdownNet(MonthPeriod(m))
  <2>1. m \in Int
    BY <1>1, ReportMonth
  <2>2. MonthPeriod(m).from = MonthStart(m) /\ MonthPeriod(m).to = MonthEnd(m)
    BY <2>1, MonthsOfMonth
  <2>3. MonthStart(m) \in Int /\ MonthEnd(m) \in Int /\ MonthStart(m) - 1 <= MonthEnd(m)
    BY <2>1, MonthBounds
  <2>4. ConsolidatedClosing(MonthPeriod(m).to) - ConsolidatedClosing(MonthPeriod(m).from - 1) = BreakdownNet(MonthPeriod(m))
    BY <2>2, <2>3, BreakdownIs
  <2>5. ConsolidatedClosing(MonthEnd(m)) - ConsolidatedClosing(MonthStart(m) - 1) = BreakdownNet(MonthPeriod(m))
    BY <2>2, <2>4, Zenon
  <2> QED BY <2>3, <2>5, ClosingsAgree
<1>2. CashTotal = ConsolidatedClosing(MonthEnd(Max(ReportMonths)))
  <2> DEFINE last == Max(ReportMonths)
  <2>1. last \in Int /\ MonthEnd(last) \in Int /\ \A m \in ReportMonths : m <= last
    BY ExtremeMonths, MonthLength
  <2> HIDE DEF last
  <2>2. ASSUME NEW r \in Rows PROVE r.at <= MonthEnd(last)
    <3>1. r.at \in DaysAsked /\ r.at \in Int
      BY RowPlace, EntryFacts
    <3>2. MonthOf(r.at) \in ReportMonths /\ MonthOf(r.at) \in Int /\ r.at <= MonthEnd(MonthOf(r.at))
      BY <3>1, MonthHasDay DEF ReportMonths
    <3>3. MonthEnd(MonthOf(r.at)) <= MonthEnd(last) /\ MonthEnd(MonthOf(r.at)) \in Int
      BY <2>1, <3>2, MonthsGrow, MonthLength
    <3> QED BY <2>1, <3>1, <3>2, <3>3
  <2>3. CashTotal = ConsolidatedClosing(MonthEnd(last))
    BY <2>1, <2>2, CashTotalIs
  <2> QED BY <2>3 DEF last
<1> QED BY <1>1, <1>2 DEF CashAgrees

-----------------------------------------------------------------------------
(***************************************************************************)
(* ReportsAgree: what comes before tax in a period is what comes in its    *)
(* parts.                                                                  *)
(***************************************************************************)
\* The period u is s and t, one after the other.
Joins(s, t, u) ==
  \A at \in Int : (During(at, u) <=> During(at, s) \/ During(at, t)) /\ ~(During(at, s) /\ During(at, t))

\* A function that is g on the set S and h on the set T.
Glues(f, g, h, S, T) ==
  /\ DOMAIN f = S \cup T /\ DOMAIN g = S /\ DOMAIN h = T
  /\ \A x \in S : g[x] \in Int /\ f[x] = g[x]
  /\ \A x \in T : h[x] \in Int /\ f[x] = h[x]

LEMMA SumGlued ==
  ASSUME NEW S, NEW T, IsFiniteSet(S), IsFiniteSet(T), S \cap T = {}, NEW f, NEW g, NEW h, Glues(f, g, h, S, T)
  PROVE  SumFunction(f) = SumFunction(g) + SumFunction(h)
<1>1. SumFunction(f) = Sum(f, S \cup T) /\ SumFunction(g) = Sum(g, S) /\ SumFunction(h) = Sum(h, T)
  BY SumFunctionIs DEF Glues
<1>2. \A x \in S \cup T : f[x] \in Int
  BY DEF Glues
<1>3. Sum(f, S \cup T) = Sum(f, S) + Sum(f, T)
  BY <1>2, SumUnion
<1>4. Sum(f, S) = Sum(g, S) /\ Sum(f, T) = Sum(h, T)
  BY SumSame DEF Glues
<1> QED BY <1>1, <1>3, <1>4, Zenon

LEMMA ClosedJoin ==
  ASSUME TablesTyped, NEW s, NEW t, NEW u, Joins(s, t, u)
  PROVE  /\ RecognizedRevenue(u) = RecognizedRevenue(s) + RecognizedRevenue(t)
         /\ RecognizedCogs(u) = RecognizedCogs(s) + RecognizedCogs(t)
<1> DEFINE S == ClosedIn(s)
           T == ClosedIn(t)
           U == ClosedIn(u)
           cost(o) == SoldCost(order[o].out) + EventCost(order[o].events)
           a == [o \in S |-> TotalAmount(o)]
           b == [o \in T |-> TotalAmount(o)]
           c == [o \in U |-> TotalAmount(o)]
           d == [o \in S |-> cost(o)]
           e == [o \in T |-> cost(o)]
           f == [o \in U |-> cost(o)]
<1>1. S \cap T = {} /\ U = S \cup T /\ S \in SUBSET OrderIds /\ T \in SUBSET OrderIds
  <2>1. \A o \in OrderIds : order[o].closed \in Int
    BY OrderFacts
  <2>2. \A o \in OrderIds : (o \in U <=> o \in S \/ o \in T) /\ ~(o \in S /\ o \in T)
    BY <2>1 DEF Joins, ClosedIn
  <2>3. S \in SUBSET OrderIds /\ T \in SUBSET OrderIds /\ U \in SUBSET OrderIds
    BY DEF ClosedIn
  <2> HIDE DEF S, T, U
  <2> QED BY <2>2, <2>3
<1>2. IsFiniteSet(S) /\ IsFiniteSet(T)
  BY <1>1, ReportsAssumption, FS_Subset
<1>3. \A o \in OrderIds : TotalAmount(o) \in Int /\ cost(o) \in Int
  <2> SUFFICES ASSUME NEW o \in OrderIds PROVE TotalAmount(o) \in Int /\ cost(o) \in Int
    OBVIOUS
  <2>1. order[o].events \in SUBSET order[o].events /\ order[o].out \in SUBSET Units /\ TotalAmount(o) \in Int
    BY OrderFacts
  <2>2. SoldCost(order[o].out) \in Nat /\ EventCost(order[o].events) \in Int
    BY <2>1, SoldCostType, EventsSum
  <2> QED BY <2>1, <2>2
<1>4. /\ RecognizedRevenue(s) = SumFunction(a) /\ RecognizedRevenue(t) = SumFunction(b) /\ RecognizedRevenue(u) = SumFunction(c)
      /\ RecognizedCogs(s) = SumFunction(d) /\ RecognizedCogs(t) = SumFunction(e) /\ RecognizedCogs(u) = SumFunction(f)
  BY DEF RecognizedRevenue, RecognizedCogs
<1> HIDE DEF S, T, U, cost
<1>5. Glues(c, a, b, S, T)
  BY <1>1, <1>3 DEF Glues
<1>6. Glues(f, d, e, S, T)
  BY <1>1, <1>3 DEF Glues
<1> HIDE DEF a, b, c, d, e, f
<1>7. SumFunction(c) = SumFunction(a) + SumFunction(b)
  BY <1>1, <1>2, <1>5, SumGlued
<1>8. SumFunction(f) = SumFunction(d) + SumFunction(e)
  BY <1>1, <1>2, <1>6, SumGlued
<1> QED BY <1>4, <1>7, <1>8, Zenon

\* The return events of one order.
LEMMA EventsJoin ==
  ASSUME TablesTyped, NEW s, NEW t, NEW u, Joins(s, t, u), NEW o \in OrderIds
  PROVE  /\ EventRevenue(o, EventsIn(o, u)) = EventRevenue(o, EventsIn(o, s)) + EventRevenue(o, EventsIn(o, t))
         /\ EventCost(EventsIn(o, u)) = EventCost(EventsIn(o, s)) + EventCost(EventsIn(o, t))
<1> DEFINE S == EventsIn(o, s)
           T == EventsIn(o, t)
           U == EventsIn(o, u)
           a == [e \in S |-> e.cost]
           b == [e \in T |-> e.cost]
           c == [e \in U |-> e.cost]
           d == [e \in S |-> Cardinality(e.units) * Price[o]]
           f == [e \in T |-> Cardinality(e.units) * Price[o]]
           g == [e \in U |-> Cardinality(e.units) * Price[o]]
<1>1. S \cap T = {} /\ U = S \cup T /\ S \in SUBSET order[o].events /\ T \in SUBSET order[o].events
  <2>1. \A e \in order[o].events : e.at \in Int
    BY OrderFacts DEF ReturnEvent
  <2>2. \A e \in order[o].events : (e \in U <=> e \in S \/ e \in T) /\ ~(e \in S /\ e \in T)
    BY <2>1 DEF Joins, EventsIn
  <2>3. S \in SUBSET order[o].events /\ T \in SUBSET order[o].events /\ U \in SUBSET order[o].events
    BY DEF EventsIn
  <2> HIDE DEF S, T, U
  <2> QED BY <2>2, <2>3
<1>2. IsFiniteSet(S) /\ IsFiniteSet(T)
  BY <1>1, OrderFacts, FS_Subset
<1>3. \A e \in S \cup T : e.cost \in Int /\ Cardinality(e.units) * Price[o] \in Int
  <2> SUFFICES ASSUME NEW e \in order[o].events PROVE e.cost \in Int /\ Cardinality(e.units) * Price[o] \in Int
    BY <1>1
  <2>1. e.units \in SUBSET Units /\ e.cost \in Int /\ Price[o] \in Nat
    BY OrderFacts DEF ReturnEvent
  <2>2. e.cost \in Int /\ Cardinality(e.units) \in Nat
    BY <2>1, UnitsFinite
  <2>3. Cardinality(e.units) * Price[o] \in Nat
    BY <2>1, <2>2, Products
  <2> QED BY <2>2, <2>3
<1>4. /\ EventCost(S) = SumFunction(a) /\ EventCost(T) = SumFunction(b) /\ EventCost(U) = SumFunction(c)
      /\ EventRevenue(o, S) = SumFunction(d) /\ EventRevenue(o, T) = SumFunction(f) /\ EventRevenue(o, U) = SumFunction(g)
  BY DEF EventCost, EventRevenue
<1> HIDE DEF S, T, U
<1>5. Glues(c, a, b, S, T)
  BY <1>1, <1>3 DEF Glues
<1>6. Glues(g, d, f, S, T)
  BY <1>1, <1>3 DEF Glues
<1> HIDE DEF a, b, c, d, f, g
<1>7. SumFunction(c) = SumFunction(a) + SumFunction(b)
  BY <1>1, <1>2, <1>5, SumGlued
<1>8. SumFunction(g) = SumFunction(d) + SumFunction(f)
  BY <1>1, <1>2, <1>6, SumGlued
<1>9. EventRevenue(o, U) = EventRevenue(o, S) + EventRevenue(o, T) /\ EventCost(U) = EventCost(S) + EventCost(T)
  BY <1>4, <1>7, <1>8, Zenon
<1> QED BY <1>9 DEF S, T, U

LEMMA ReturnsJoin ==
  ASSUME TablesTyped, NEW s, NEW t, NEW u, Joins(s, t, u)
  PROVE  /\ ReturnedRevenue(u) = ReturnedRevenue(s) + ReturnedRevenue(t)
         /\ ReturnedCogs(u) = ReturnedCogs(s) + ReturnedCogs(t)
<1> DEFINE a == [o \in OrderIds |-> EventRevenue(o, EventsIn(o, s))]
           b == [o \in OrderIds |-> EventRevenue(o, EventsIn(o, t))]
           c == [o \in OrderIds |-> EventRevenue(o, EventsIn(o, u))]
           d == [o \in OrderIds |-> EventCost(EventsIn(o, s))]
           e == [o \in OrderIds |-> EventCost(EventsIn(o, t))]
           f == [o \in OrderIds |-> EventCost(EventsIn(o, u))]
<1>1. \A o \in OrderIds : a[o] \in Int /\ b[o] \in Int /\ d[o] \in Int /\ e[o] \in Int
  <2>1. \A o \in OrderIds : \A p : EventsIn(o, p) \in SUBSET order[o].events
    BY DEF EventsIn
  <2>2. \A o \in OrderIds : \A p : EventRevenue(o, EventsIn(o, p)) \in Nat /\ EventCost(EventsIn(o, p)) \in Int
    BY <2>1, EventsSum
  <2> QED BY <2>2
<1>2. \A o \in OrderIds : c[o] = a[o] + b[o] /\ f[o] = d[o] + e[o]
  BY EventsJoin
<1>3. /\ ReturnedRevenue(s) = SumFunction(a) /\ ReturnedRevenue(t) = SumFunction(b) /\ ReturnedRevenue(u) = SumFunction(c)
      /\ ReturnedCogs(s) = SumFunction(d) /\ ReturnedCogs(t) = SumFunction(e) /\ ReturnedCogs(u) = SumFunction(f)
  BY DEF ReturnedRevenue, ReturnedCogs
<1>4. /\ DOMAIN a = OrderIds /\ DOMAIN b = OrderIds /\ DOMAIN c = OrderIds
      /\ DOMAIN d = OrderIds /\ DOMAIN e = OrderIds /\ DOMAIN f = OrderIds
  OBVIOUS
<1> HIDE DEF a, b, c, d, e, f
<1>5. /\ SumFunction(a) = Sum(a, OrderIds) /\ SumFunction(b) = Sum(b, OrderIds) /\ SumFunction(c) = Sum(c, OrderIds)
      /\ SumFunction(d) = Sum(d, OrderIds) /\ SumFunction(e) = Sum(e, OrderIds) /\ SumFunction(f) = Sum(f, OrderIds)
  BY <1>4, SumFunctionIs
<1>6. IsFiniteSet(OrderIds)
  BY ReportsAssumption
<1>7. Sum(c, OrderIds) = Sum(a, OrderIds) + Sum(b, OrderIds)
  BY <1>1, <1>2, <1>6, SumPlus
<1>8. Sum(f, OrderIds) = Sum(d, OrderIds) + Sum(e, OrderIds)
  BY <1>1, <1>2, <1>6, SumPlus
<1> QED BY <1>3, <1>5, <1>7, <1>8, Zenon

\* The profit of a slice before tax.
Gross(slice) ==
  Balance({r \in PnlRows(slice) : BucketOf(r) \notin OffNet})
  + (RecognizedRevenue(slice) - ReturnedRevenue(slice)) - (RecognizedCogs(slice) - ReturnedCogs(slice))

LEMMA GrossJoins ==
  ASSUME TablesTyped, NEW s, NEW t, NEW u, Joins(s, t, u)
  PROVE  Gross(u) = Gross(s) + Gross(t) /\ Gross(s) \in Int /\ Gross(t) \in Int /\ Gross(u) \in Int
<1> DEFINE A(p) == {r \in PnlRows(p) : BucketOf(r) \notin OffNet}
<1>1. A(s) \cap A(t) = {} /\ A(u) = A(s) \cup A(t)
  <2>1. \A r \in Rows : r.at \in Int
    BY EntryFacts
  <2>2. \A r \in Rows : (During(r.at, u) <=> During(r.at, s) \/ During(r.at, t)) /\ ~(During(r.at, s) /\ During(r.at, t))
    BY <2>1 DEF Joins
  <2> QED BY <2>2 DEF PnlRows
<1>2. ASSUME NEW p PROVE A(p) \in SUBSET Rows
  BY DEF PnlRows
<1>3. ASSUME NEW p
      PROVE  Gross(p) = Balance(A(p)) + (RecognizedRevenue(p) - ReturnedRevenue(p)) - (RecognizedCogs(p) - ReturnedCogs(p))
  BY DEF Gross
<1> HIDE DEF A
<1>4. Balance(A(s) \cup A(t)) = Balance(A(s)) + Balance(A(t))
  BY <1>1, <1>2, BalanceUnion
<1>5. Balance(A(u)) = Balance(A(s)) + Balance(A(t))
  BY <1>1, <1>4, Zenon
<1>6. ASSUME NEW p
      PROVE  /\ Balance(A(p)) \in Int /\ RecognizedRevenue(p) \in Int /\ RecognizedCogs(p) \in Int
             /\ ReturnedRevenue(p) \in Int /\ ReturnedCogs(p) \in Int
  <2>1. Balance(A(p)) \in Int
    BY <1>2, BalanceType
  <2> QED BY <2>1, OrderSums
<1>7. ASSUME NEW p PROVE Gross(p) \in Int
  BY <1>3, <1>6
<1>8. Gross(u) = Gross(s) + Gross(t)
  <2>1. /\ Balance(A(s)) \in Int /\ RecognizedRevenue(s) \in Int /\ RecognizedCogs(s) \in Int
        /\ ReturnedRevenue(s) \in Int /\ ReturnedCogs(s) \in Int
    BY <1>6
  <2>2. /\ Balance(A(t)) \in Int /\ RecognizedRevenue(t) \in Int /\ RecognizedCogs(t) \in Int
        /\ ReturnedRevenue(t) \in Int /\ ReturnedCogs(t) \in Int
    BY <1>6
  <2>3. RecognizedRevenue(u) = RecognizedRevenue(s) + RecognizedRevenue(t)
        /\ RecognizedCogs(u) = RecognizedCogs(s) + RecognizedCogs(t)
    BY ClosedJoin
  <2>4. ReturnedRevenue(u) = ReturnedRevenue(s) + ReturnedRevenue(t) /\ ReturnedCogs(u) = ReturnedCogs(s) + ReturnedCogs(t)
    BY ReturnsJoin
  <2> QED BY <1>3, <1>5, <2>1, <2>2, <2>3, <2>4
<1> QED BY <1>7, <1>8

-----------------------------------------------------------------------------
(***************************************************************************)
(* ReportsAgree: a quarter is its months, and the calendar of the reports  *)
(* whole quarters.                                                         *)
(***************************************************************************)
LEMMA SpanIs == ASSUME NEW m, NEW n PROVE Span(m, n).from = MonthStart(m) /\ Span(m, n).to = MonthEnd(n)
  BY DEF Span

LEMMA SpanMonths == ASSUME NEW m \in Int, NEW n \in Int, m <= n PROVE MonthsOf(Span(m, n)) = m..n
<1>1. /\ MonthStart(m) \in Int /\ MonthEnd(m) \in Int /\ MonthStart(m) <= MonthEnd(m)
      /\ MonthStart(n) \in Int /\ MonthEnd(n) \in Int /\ MonthStart(n) <= MonthEnd(n)
  BY MonthBounds
<1>2. MonthOf(MonthStart(m)) = m /\ MonthOf(MonthEnd(n)) = n
  BY <1>1, MonthOfDayIs
<1> QED BY <1>2, SpanIs DEF MonthsOf

LEMMA SpansJoin ==
  ASSUME NEW m \in Int, NEW k \in Int, NEW n \in Int, m <= k, k < n PROVE Joins(Span(m, k), Span(k + 1, n), Span(m, n))
<1>1. /\ MonthStart(m) \in Int /\ MonthEnd(k) \in Int /\ MonthEnd(n) \in Int /\ MonthStart(k + 1) \in Int
      /\ MonthEnd(k) = MonthStart(k + 1) - 1
  <2>1. k + 1 \in Int
    OBVIOUS
  <2> QED BY <2>1, MonthBounds DEF MonthEnd
<1>2. MonthStart(m) <= MonthStart(k + 1) /\ MonthEnd(k) <= MonthEnd(n)
  BY MonthsGrow
<1> QED BY <1>1, <1>2, SpanIs DEF Joins, During

\* Before tax: the three months of a quarter.
LEMMA QuarterGross ==
  ASSUME TablesTyped, NEW q \in Int
  PROVE  /\ Gross(Span(q, q + 2)) = Gross(MonthPeriod(q)) + Gross(MonthPeriod(q + 1)) + Gross(MonthPeriod(q + 2))
         /\ Gross(MonthPeriod(q)) \in Int /\ Gross(MonthPeriod(q + 1)) \in Int /\ Gross(MonthPeriod(q + 2)) \in Int
<1>1. Joins(Span(q, q), Span(q + 1, q + 2), Span(q, q + 2))
  BY SpansJoin
<1>2. Joins(Span(q + 1, q + 1), Span(q + 2, q + 2), Span(q + 1, q + 2))
  <2>1. q + 1 \in Int /\ q + 2 \in Int /\ q + 1 <= q + 1 /\ q + 1 < q + 2 /\ (q + 1) + 1 = q + 2
    OBVIOUS
  <2>2. Joins(Span(q + 1, q + 1), Span((q + 1) + 1, q + 2), Span(q + 1, q + 2))
    BY <2>1, SpansJoin
  <2> QED BY <2>1, <2>2, Zenon
<1>3. Gross(Span(q, q + 2)) = Gross(Span(q, q)) + Gross(Span(q + 1, q + 2)) /\ Gross(Span(q, q)) \in Int
  BY <1>1, GrossJoins
<1>4. /\ Gross(Span(q + 1, q + 2)) = Gross(Span(q + 1, q + 1)) + Gross(Span(q + 2, q + 2))
      /\ Gross(Span(q + 1, q + 1)) \in Int /\ Gross(Span(q + 2, q + 2)) \in Int
  BY <1>2, GrossJoins
<1> QED BY <1>3, <1>4 DEF MonthPeriod

LEMMA NetIs ==
  ASSUME TablesTyped, NEW s, NEW p, AccruedTax(s, p) \in Int PROVE SliceNet(s, p) = Gross(s) - AccruedTax(s, p)
<1> DEFINE A == {r \in PnlRows(s) : BucketOf(r) \notin OffNet}
<1>1. A \in SUBSET Rows
  BY DEF PnlRows
<1>2. SliceNet(s, p) = Balance(A) + (RecognizedRevenue(s) - ReturnedRevenue(s)) - (RecognizedCogs(s) - ReturnedCogs(s))
                       - AccruedTax(s, p)
  BY DEF SliceNet
<1>3. Gross(s) = Balance(A) + (RecognizedRevenue(s) - ReturnedRevenue(s)) - (RecognizedCogs(s) - ReturnedCogs(s))
  BY DEF Gross
<1> HIDE DEF A
<1>4. Balance(A) \in Int
  BY <1>1, BalanceType
<1> QED BY <1>2, <1>3, <1>4, OrderSums

LEMMA SumOfThree ==
  ASSUME NEW f, NEW q \in Int, \A m \in q..(q + 2) : f[m] \in Int
  PROVE  Sum(f, q..(q + 2)) = f[q] + f[q + 1] + f[q + 2]
<1>1. q..(q + 2) = {q, q + 1} \cup {q + 2} /\ {q, q + 1} = {q} \cup {q + 1} /\ q + 2 \notin {q, q + 1} /\ q + 1 \notin {q}
  OBVIOUS
<1>2. f[q] \in Int /\ f[q + 1] \in Int /\ f[q + 2] \in Int
  OBVIOUS
<1>3. IsFiniteSet({q}) /\ IsFiniteSet({q, q + 1})
  <2>1. IsFiniteSet({q}) /\ IsFiniteSet({q + 1})
    BY FS_Singleton
  <2>2. IsFiniteSet({q} \cup {q + 1})
    BY <2>1, FS_Union
  <2> QED BY <1>1, <2>1, <2>2, Zenon
<1>4. Sum(f, {q}) = f[q]
  BY <1>2, SumOfSingle
<1>5. Sum(f, {q} \cup {q + 1}) = f[q + 1] + Sum(f, {q})
  <2>1. \A y \in {q} \cup {q + 1} : f[y] \in Int
    BY <1>2
  <2> QED BY <1>1, <1>3, <2>1, SumPut
<1>6. Sum(f, {q, q + 1} \cup {q + 2}) = f[q + 2] + Sum(f, {q, q + 1})
  <2>1. \A y \in {q, q + 1} \cup {q + 2} : f[y] \in Int
    BY <1>2
  <2> QED BY <1>1, <1>3, <2>1, SumPut
<1>7. Sum(f, q..(q + 2)) = f[q + 2] + (f[q + 1] + f[q])
  BY <1>1, <1>4, <1>5, <1>6, Zenon
<1> QED BY <1>2, <1>7

\* The tax of the months of a slice, which the period holds.
LEMMA AccruedForSpan ==
  ASSUME TablesTyped, NEW m \in Int, NEW n \in Int, m <= n,
         NEW p, p.from \in Int, p.to \in Int, p.from <= MonthStart(m), MonthEnd(n) <= p.to,
         NEW f, \A k \in m..n : f[k] = MonthTax(k)
  PROVE  AccruedTax(Span(m, n), p) = Sum(f, m..n)
<1> DEFINE g == [k \in MonthsOf(Span(m, n)) |->
                   Max({AusnMonthTax({r \in Rows : During(r.at, p) /\ MonthOf(r.at) = k}), PnlTaxPaid(k, p)})]
<1>1. DOMAIN g = m..n
  BY SpanMonths
<1>2. ASSUME NEW k \in m..n PROVE g[k] = f[k]
  <2>1. k \in Int /\ k \in MonthsOf(Span(m, n)) /\ m <= k /\ k <= n
    BY SpanMonths
  <2>2. g[k] = Max({AusnMonthTax({r \in Rows : During(r.at, p) /\ MonthOf(r.at) = k}), PnlTaxPaid(k, p)})
    BY <2>1
  <2>3. MonthStart(m) <= MonthStart(k) /\ MonthEnd(k) <= MonthEnd(n)
    BY <2>1, MonthsGrow
  <2>4. /\ MonthStart(m) \in Int /\ MonthStart(k) \in Int /\ MonthEnd(k) \in Int /\ MonthEnd(n) \in Int
    BY <2>1, MonthLength
  <2>5. p.from <= MonthStart(k) /\ MonthEnd(k) <= p.to
    BY <2>3, <2>4
  <2> HIDE DEF g
  <2>6. g[k] = MonthTax(k)
    BY <2>1, <2>2, <2>5, AccruedInMonth
  <2> QED BY <2>6
<1>3. AccruedTax(Span(m, n), p) = SumFunction(g)
  BY DEF AccruedTax
<1> HIDE DEF g
<1>4. SumFunction(g) = Sum(g, m..n)
  BY <1>1, SumFunctionIs
<1>5. IsFiniteSet(m..n)
  BY FS_Interval
<1>6. Sum(g, m..n) = Sum(f, m..n)
  BY <1>2, <1>5, SumSame
<1> QED BY <1>3, <1>4, <1>6, Zenon

\* A period that holds the months from first to last.
HoldsMonths(p, first, last) == p.from \in Int /\ p.to \in Int /\ p.from <= MonthStart(first) /\ MonthEnd(last) <= p.to

LEMMA MonthNet ==
  ASSUME TablesTyped, NEW m \in Int, NEW p, HoldsMonths(p, m, m)
  PROVE  SliceNet(MonthPeriod(m), p) = Gross(MonthPeriod(m)) - MonthTax(m)
<1>1. AccruedTax(MonthPeriod(m), p) = MonthTax(m)
  BY AccruedForMonth DEF HoldsMonths
<1>2. AccruedTax(MonthPeriod(m), p) \in Int
  BY <1>1, MonthTaxType
<1>3. SliceNet(MonthPeriod(m), p) = Gross(MonthPeriod(m)) - AccruedTax(MonthPeriod(m), p)
  BY <1>2, NetIs
<1> QED BY <1>1, <1>3, Zenon

LEMMA QuarterNet ==
  ASSUME TablesTyped, NEW q \in Int, NEW p, HoldsMonths(p, q, q + 2), NEW f,
         \A m \in q..(q + 2) : f[m] = Gross(MonthPeriod(m)) - MonthTax(m)
  PROVE  SliceNet(Span(q, q + 2), p) = Sum(f, q..(q + 2)) /\ \A m \in q..(q + 2) : f[m] \in Int
<1> DEFINE g == [m \in q..(q + 2) |-> MonthTax(m)]
<1>1. \A m \in q..(q + 2) : g[m] = MonthTax(m) /\ g[m] \in Int
  BY MonthTaxType
<1> HIDE DEF g
<1>2. AccruedTax(Span(q, q + 2), p) = Sum(g, q..(q + 2))
  <2>1. q \in Int /\ q + 2 \in Int /\ q <= q + 2
    OBVIOUS
  <2> QED BY <1>1, <2>1, AccruedForSpan DEF HoldsMonths
<1>3. Sum(g, q..(q + 2)) = g[q] + g[q + 1] + g[q + 2]
  BY <1>1, SumOfThree
<1>4. q \in q..(q + 2) /\ q + 1 \in q..(q + 2) /\ q + 2 \in q..(q + 2)
  OBVIOUS
<1>5. /\ Gross(Span(q, q + 2)) = Gross(MonthPeriod(q)) + Gross(MonthPeriod(q + 1)) + Gross(MonthPeriod(q + 2))
      /\ Gross(MonthPeriod(q)) \in Int /\ Gross(MonthPeriod(q + 1)) \in Int /\ Gross(MonthPeriod(q + 2)) \in Int
  BY QuarterGross
<1>6. g[q] \in Int /\ g[q + 1] \in Int /\ g[q + 2] \in Int /\ f[q] = Gross(MonthPeriod(q)) - g[q]
      /\ f[q + 1] = Gross(MonthPeriod(q + 1)) - g[q + 1] /\ f[q + 2] = Gross(MonthPeriod(q + 2)) - g[q + 2]
  BY <1>1, <1>4
<1>7. f[q] \in Int /\ f[q + 1] \in Int /\ f[q + 2] \in Int
  BY <1>5, <1>6
<1>8. \A m \in q..(q + 2) : f[m] \in Int
  <2>1. \A m \in q..(q + 2) : m = q \/ m = q + 1 \/ m = q + 2
    OBVIOUS
  <2> QED BY <1>7, <2>1
<1>9. Sum(f, q..(q + 2)) = f[q] + f[q + 1] + f[q + 2]
  BY <1>8, SumOfThree
<1>10. SliceNet(Span(q, q + 2), p) = Gross(Span(q, q + 2)) - (g[q] + g[q + 1] + g[q + 2])
  <2>1. AccruedTax(Span(q, q + 2), p) = g[q] + g[q + 1] + g[q + 2]
    BY <1>2, <1>3, Zenon
  <2>2. AccruedTax(Span(q, q + 2), p) \in Int
    BY <1>6, <2>1
  <2>3. SliceNet(Span(q, q + 2), p) = Gross(Span(q, q + 2)) - AccruedTax(Span(q, q + 2), p)
    BY <2>2, NetIs
  <2> QED BY <2>1, <2>3, Zenon
<1>11. SliceNet(Span(q, q + 2), p) = Sum(f, q..(q + 2))
  BY <1>5, <1>6, <1>9, <1>10
<1> QED BY <1>8, <1>11

LEMMA MinOfTwo == ASSUME NEW a \in Int, NEW b \in Int, a <= b PROVE Min({a, b}) = a
<1>1. a \in {a, b} /\ \A x \in {a, b} : a <= x
  OBVIOUS
<1>2. Min({a, b}) \in {a, b} /\ \A x \in {a, b} : Min({a, b}) <= x
  BY <1>1 DEF Min
<1>3. Min({a, b}) = a \/ Min({a, b}) = b
  BY <1>2
<1>4. Min({a, b}) <= a
  BY <1>2
<1> QED BY <1>3, <1>4

\* A slice the period holds is not cut.
LEMMA WholeSlice ==
  ASSUME NEW m \in Int, NEW n \in Int, NEW p, HoldsMonths(p, m, n) PROVE Capped(Span(m, n), p) = Span(m, n)
<1>1. MonthStart(m) \in Int /\ MonthEnd(n) \in Int
  BY MonthLength
<1>2. Max({MonthStart(m), p.from}) = MonthStart(m)
  BY <1>1, MaxOfTwo DEF HoldsMonths
<1>3. Min({MonthEnd(n), p.to}) = MonthEnd(n)
  BY <1>1, MinOfTwo DEF HoldsMonths
<1> QED BY <1>2, <1>3 DEF Capped, Span

LEMMA CalendarIs == \E i, j \in Int : i <= j /\ Calendar = Span(3 * i, 3 * j + 2)
<1> DEFINE lo == Min(ReportMonths)
           hi == Max(ReportMonths)
<1>1. lo \in Int /\ hi \in Int /\ lo <= hi
  <2>1. PICK at \in DaysAsked : TRUE
    BY DaysAre
  <2>2. MonthOf(at) \in ReportMonths
    BY DEF ReportMonths
  <2>3. lo <= MonthOf(at) /\ MonthOf(at) <= hi /\ MonthOf(at) \in Int
    BY <2>2, ExtremeMonths, ReportMonth
  <2> QED BY <2>3, ExtremeMonths
<1>2. Calendar = Span(3 * (lo \div 3), 3 * (hi \div 3) + 2)
  BY DEF Calendar
<1> HIDE DEF lo, hi
<1>3. lo \div 3 \in Int /\ hi \div 3 \in Int /\ lo \div 3 <= hi \div 3
  BY <1>1
<1> QED BY <1>2, <1>3

\* The profits of the months from a on, one for one with the periods.
LEMMA MonthSlices ==
  ASSUME TablesTyped, NEW a \in Int, NEW b \in Int, a <= b, NEW f,
         \A m \in a..b : f[m] = Gross(MonthPeriod(m)) - MonthTax(m) /\ f[m] \in Int
  PROVE  PnlNet(Span(a, b), EnumerateMonths(Span(a, b))) = Sum(f, a..b)
<1> DEFINE p == Span(a, b)
           per == [m \in a..b |-> MonthPeriod(m)]
           E == EnumerateMonths(p)
           g == [s \in E |-> SliceNet(s, p)]
<1>1. ASSUME NEW m \in a..b PROVE m \in Int /\ HoldsMonths(p, m, m) /\ HoldsMonths(MonthPeriod(m), m, m)
  <2>1. m \in Int /\ a <= m /\ m <= b
    OBVIOUS
  <2>2. /\ MonthStart(a) \in Int /\ MonthEnd(b) \in Int /\ MonthStart(m) \in Int /\ MonthEnd(m) \in Int
        /\ MonthStart(a) <= MonthStart(m) /\ MonthEnd(m) <= MonthEnd(b)
    BY <2>1, MonthLength, MonthsGrow
  <2>3. p.from = MonthStart(a) /\ p.to = MonthEnd(b) /\ MonthPeriod(m).from = MonthStart(m) /\ MonthPeriod(m).to = MonthEnd(m)
    BY SpanIs DEF MonthPeriod
  <2> HIDE DEF p
  <2> QED BY <2>1, <2>2, <2>3 DEF HoldsMonths
<1>2. E = {per[m] : m \in a..b}
  <2>1. MonthsOf(p) = a..b
    BY SpanMonths
  <2>2. \A m \in a..b : Capped(MonthPeriod(m), p) = per[m]
    <3> SUFFICES ASSUME NEW m \in a..b PROVE Capped(MonthPeriod(m), p) = per[m]
      OBVIOUS
    <3>1. Capped(Span(m, m), p) = Span(m, m)
      BY <1>1, WholeSlice
    <3> QED BY <3>1 DEF MonthPeriod
  <2>3. E = {Capped(MonthPeriod(m), p) : m \in a..b}
    BY <2>1, Zenon DEF EnumerateMonths
  <2> HIDE DEF E, p, per
  <2> QED BY <2>2, <2>3
<1>3. \A m, n \in a..b : per[m] = per[n] => m = n
  <2> SUFFICES ASSUME NEW m \in a..b, NEW n \in a..b, per[m] = per[n] PROVE m = n
    OBVIOUS
  <2>1. m \in Int /\ n \in Int /\ per[m] = MonthPeriod(m) /\ per[n] = MonthPeriod(n)
    OBVIOUS
  <2>2. MonthsOf(MonthPeriod(m)) = {m} /\ MonthsOf(MonthPeriod(n)) = {n}
    BY <2>1, MonthsOfMonth
  <2>3. {m} = {n}
    BY <2>1, <2>2, Zenon
  <2> QED BY <2>3
<1>4. \A m \in a..b : f[m] \in Int /\ g[per[m]] = f[m]
  <2> SUFFICES ASSUME NEW m \in a..b PROVE g[per[m]] = f[m]
    OBVIOUS
  <2>1. per[m] = MonthPeriod(m) /\ per[m] \in E
    BY <1>2
  <2>2. g[per[m]] = SliceNet(MonthPeriod(m), p)
    BY <2>1
  <2>3. SliceNet(MonthPeriod(m), p) = Gross(MonthPeriod(m)) - MonthTax(m)
    BY <1>1, MonthNet
  <2> QED BY <2>2, <2>3, Zenon
<1>5. PnlNet(p, E) = SumFunction(g) /\ DOMAIN g = E
  BY DEF PnlNet
<1>6. IsFiniteSet(a..b)
  BY FS_Interval
<1> HIDE DEF per, g, E
<1>7. Sum(g, {per[m] : m \in a..b}) = Sum(f, a..b)
  BY <1>3, <1>4, <1>6, SumRenamed
<1>8. SumFunction(g) = Sum(g, E)
  BY <1>5, SumFunctionIs
<1>9. PnlNet(p, E) = Sum(f, a..b)
  BY <1>2, <1>5, <1>7, <1>8, Zenon
<1> QED BY <1>9 DEF E

LEMMA QuarterSlices ==
  ASSUME TablesTyped, NEW i \in Int, NEW j \in Int, i <= j, NEW f,
         \A m \in (3 * i)..(3 * j + 2) : f[m] = Gross(MonthPeriod(m)) - MonthTax(m) /\ f[m] \in Int
  PROVE  LET p == Span(3 * i, 3 * j + 2) IN PnlNet(p, EnumerateQuarters(p)) = Sum(f, (3 * i)..(3 * j + 2))
<1> DEFINE a == 3 * i
           b == 3 * j + 2
           p == Span(a, b)
           K == i..j
           per == [k \in K |-> Span(3 * k, 3 * k + 2)]
           P == [k \in K |-> (3 * k)..(3 * k + 2)]
           E == EnumerateQuarters(p)
           g == [s \in E |-> SliceNet(s, p)]
           h == [k \in K |-> Sum(f, P[k])]
<1>1. ASSUME NEW k \in K PROVE 3 * k \in Int /\ 3 * k + 2 \in Int /\ HoldsMonths(p, 3 * k, 3 * k + 2) /\ P[k] \subseteq a..b
  <2>1. k \in Int /\ 3 * k \in Int /\ 3 * k + 2 \in Int /\ a \in Int /\ b \in Int /\ a <= 3 * k /\ 3 * k + 2 <= b
    OBVIOUS
  <2>2. P[k] = (3 * k)..(3 * k + 2)
    OBVIOUS
  <2>3. p.from = MonthStart(a) /\ p.to = MonthEnd(b)
    BY SpanIs
  <2> HIDE DEF a, b, p, P, K
  <2>4. /\ MonthStart(a) \in Int /\ MonthEnd(b) \in Int
        /\ MonthStart(a) <= MonthStart(3 * k) /\ MonthEnd(3 * k + 2) <= MonthEnd(b)
    BY <2>1, MonthLength, MonthsGrow
  <2>5. HoldsMonths(p, 3 * k, 3 * k + 2)
    BY <2>3, <2>4 DEF HoldsMonths
  <2>6. P[k] \subseteq a..b
    BY <2>1, <2>2
  <2> QED BY <2>1, <2>5, <2>6
<1>2. E = {per[k] : k \in K}
  <2>1. MonthsOf(p) = a..b
    <3>1. a \in Int /\ b \in Int /\ a <= b
      OBVIOUS
    <3> HIDE DEF a, b
    <3> QED BY <3>1, SpanMonths
  <2>2. \A k \in K : Capped(Span(3 * k, 3 * k + 2), p) = per[k]
    <3> SUFFICES ASSUME NEW k \in K PROVE Capped(Span(3 * k, 3 * k + 2), p) = per[k]
      OBVIOUS
    <3>1. per[k] = Span(3 * k, 3 * k + 2)
      OBVIOUS
    <3> HIDE DEF p, per, K, P
    <3> QED BY <1>1, <3>1, WholeSlice
  <2>3. {3 * (m \div 3) : m \in a..b} = {3 * k : k \in K}
    <3>1. ASSUME NEW m \in a..b PROVE m \div 3 \in K
      OBVIOUS
    <3>2. ASSUME NEW k \in K PROVE 3 * k \in a..b /\ (3 * k) \div 3 = k
      OBVIOUS
    <3> HIDE DEF a, b, K
    <3> QED BY <3>1, <3>2
  <2>4. E = {Capped(Span(q, q + 2), p) : q \in {3 * k : k \in K}}
    BY <2>1, <2>3, Zenon DEF EnumerateQuarters
  <2> HIDE DEF E, p, per, K, a, b
  <2> QED BY <2>2, <2>4
<1>3. \A k, l \in K : per[k] = per[l] => k = l
  <2> SUFFICES ASSUME NEW k \in K, NEW l \in K, per[k] = per[l] PROVE k = l
    OBVIOUS
  <2>1. per[k] = Span(3 * k, 3 * k + 2) /\ per[l] = Span(3 * l, 3 * l + 2)
    OBVIOUS
  <2>2. k \in Int /\ l \in Int
    OBVIOUS
  <2>3. MonthStart(3 * k) = MonthStart(3 * l)
    BY <2>1 DEF Span
  <2>4. MonthStart(3 * k) \in Int /\ MonthEnd(3 * k) \in Int /\ MonthStart(3 * k) <= MonthEnd(3 * k)
        /\ MonthStart(3 * l) \in Int /\ MonthEnd(3 * l) \in Int /\ MonthStart(3 * l) <= MonthEnd(3 * l)
    <3>1. 3 * k \in Int /\ 3 * l \in Int
      BY <2>2
    <3> QED BY <3>1, MonthBounds
  <2>5. MonthOf(MonthStart(3 * k)) = 3 * k /\ MonthOf(MonthStart(3 * l)) = 3 * l
    BY <2>2, <2>4, MonthOfDayIs
  <2>6. 3 * k = 3 * l
    BY <2>3, <2>5, Zenon
  <2> QED BY <2>2, <2>6
<1>4. ASSUME NEW k \in K PROVE g[per[k]] = h[k] /\ h[k] = Sum(f, P[k]) /\ h[k] \in Int /\ IsFiniteSet(P[k])
  <2>1. per[k] = Span(3 * k, 3 * k + 2) /\ per[k] \in E /\ P[k] = (3 * k)..(3 * k + 2) /\ h[k] = Sum(f, P[k])
    BY <1>2
  <2>2. g[per[k]] = SliceNet(Span(3 * k, 3 * k + 2), p)
    BY <2>1
  <2>3. \A m \in P[k] : f[m] = Gross(MonthPeriod(m)) - MonthTax(m) /\ f[m] \in Int
    BY <1>1
  <2> HIDE DEF p, per, P, E, g, h, K, a, b
  <2>4. \A m \in (3 * k)..(3 * k + 2) : f[m] = Gross(MonthPeriod(m)) - MonthTax(m)
    BY <2>1, <2>3
  <2>5. SliceNet(Span(3 * k, 3 * k + 2), p) = Sum(f, (3 * k)..(3 * k + 2))
    BY <1>1, <2>4, QuarterNet
  <2>6. IsFiniteSet(P[k])
    BY <1>1, <2>1, FS_Interval
  <2>7. Sum(f, P[k]) \in Int
    BY <2>3, <2>6, SumType
  <2> QED BY <2>1, <2>2, <2>5, <2>6, <2>7
<1>5. PnlNet(p, E) = SumFunction(g) /\ DOMAIN g = E
  BY DEF PnlNet
<1>6. IsFiniteSet(K)
  BY FS_Interval
<1>7. \A k, l \in K : k # l => P[k] \cap P[l] = {}
  OBVIOUS
<1>8. UNION {P[k] : k \in K} = a..b
  <2>1. ASSUME NEW m \in a..b PROVE m \div 3 \in K /\ m \in P[m \div 3]
    OBVIOUS
  <2>2. \A k \in K : P[k] \subseteq a..b
    BY <1>1
  <2> HIDE DEF P, K, a, b
  <2> QED BY <2>1, <2>2
<1>9. \A m \in a..b : f[m] \in Int
  OBVIOUS
<1> HIDE DEF per, P, g, h, E, K, p, a, b
<1>10. Parted(f, K, P, h)
  BY <1>1, <1>4, <1>7, <1>9 DEF Parted
<1>11. Sum(f, a..b) = Sum(h, K)
  <2>1. Sum(f, UNION {P[k] : k \in K}) = Sum(h, K)
    BY <1>6, <1>10, SumParts
  <2> QED BY <1>8, <2>1, Zenon
<1>12. Sum(g, {per[k] : k \in K}) = Sum(h, K)
  BY <1>3, <1>4, <1>6, SumRenamed
<1>13. SumFunction(g) = Sum(g, E)
  BY <1>5, SumFunctionIs
<1>14. PnlNet(p, E) = Sum(f, a..b)
  BY <1>2, <1>5, <1>11, <1>12, <1>13, Zenon
<1> QED BY <1>14 DEF E, p, a, b

LEMMA Splits == ASSUME TablesTyped PROVE SplitsAgree
<1>1. PICK i \in Int, j \in Int : i <= j /\ Calendar = Span(3 * i, 3 * j + 2)
  BY CalendarIs
<1>2. PICK a \in Int, b \in Int : a = 3 * i /\ b = 3 * j + 2 /\ a <= b
  BY <1>1
<1> DEFINE f == [m \in a..b |-> Gross(MonthPeriod(m)) - MonthTax(m)]
           g == [m \in MonthsOf(Calendar) |-> SliceNet(MonthPeriod(m), MonthPeriod(m))]
<1>3. ASSUME NEW m \in a..b
      PROVE  f[m] = Gross(MonthPeriod(m)) - MonthTax(m) /\ f[m] \in Int /\ SliceNet(MonthPeriod(m), MonthPeriod(m)) = f[m]
  <2>1. m \in Int /\ f[m] = Gross(MonthPeriod(m)) - MonthTax(m)
    OBVIOUS
  <2>2. Gross(MonthPeriod(m)) \in Int /\ MonthTax(m) \in Int
    BY <2>1, QuarterGross, MonthTaxType
  <2>3. HoldsMonths(MonthPeriod(m), m, m)
    <3>1. MonthPeriod(m).from = MonthStart(m) /\ MonthPeriod(m).to = MonthEnd(m)
      BY SpanIs DEF MonthPeriod
    <3>2. MonthStart(m) \in Int /\ MonthEnd(m) \in Int
      BY <2>1, MonthLength
    <3> QED BY <3>1, <3>2 DEF HoldsMonths
  <2>4. SliceNet(MonthPeriod(m), MonthPeriod(m)) = Gross(MonthPeriod(m)) - MonthTax(m)
    BY <2>1, <2>3, MonthNet
  <2> HIDE DEF f
  <2> QED BY <2>1, <2>2, <2>4
<1>4. MonthsOf(Calendar) = a..b /\ Calendar = Span(a, b)
  <2>1. Calendar = Span(a, b)
    BY <1>1, <1>2
  <2> QED BY <1>2, <2>1, SpanMonths
<1>5. DOMAIN g = a..b /\ \A m \in a..b : g[m] = SliceNet(MonthPeriod(m), MonthPeriod(m))
  BY <1>4
<1> HIDE DEF f, g
<1>6. PnlNet(Calendar, EnumerateMonths(Calendar)) = Sum(f, a..b)
  <2>1. PnlNet(Span(a, b), EnumerateMonths(Span(a, b))) = Sum(f, a..b)
    BY <1>2, <1>3, MonthSlices
  <2> QED BY <1>4, <2>1, Zenon
<1>7. PnlNet(Calendar, EnumerateQuarters(Calendar)) = Sum(f, a..b)
  <2>1. \A m \in (3 * i)..(3 * j + 2) : f[m] = Gross(MonthPeriod(m)) - MonthTax(m) /\ f[m] \in Int
    BY <1>2, <1>3
  <2>2. PnlNet(Span(3 * i, 3 * j + 2), EnumerateQuarters(Span(3 * i, 3 * j + 2))) = Sum(f, (3 * i)..(3 * j + 2))
    BY <1>1, <2>1, QuarterSlices
  <2> QED BY <1>1, <1>2, <2>2, Zenon
<1>8. IsFiniteSet(a..b)
  BY FS_Interval
<1>9. SumFunction(g) = Sum(f, a..b)
  <2>1. SumFunction(g) = Sum(g, a..b)
    BY <1>5, SumFunctionIs
  <2>2. \A m \in a..b : g[m] = f[m]
    BY <1>3, <1>5
  <2>3. Sum(g, a..b) = Sum(f, a..b)
    BY <1>8, <2>2, SumSame
  <2> QED BY <2>1, <2>3, Zenon
<1> QED BY <1>6, <1>7, <1>9 DEF SplitsAgree, g

(***************************************************************************)
(* One sum whichever way it is asked for: PnlService by months or by       *)
(* quarters, MarginService by client or in total, CashFlowService by       *)
(* account, in all, or by category, and the balance sheet: they agree in   *)
(* every state, for every calendar, ledger and set of orders.              *)
(***************************************************************************)
THEOREM ReportsAlwaysAgree == ReportsSpec => []ReportsAgree
<1>1. ASSUME TablesTyped, TransfersCancel PROVE ReportsAgree
  <2>1. MarginMatchesPnl
    BY <1>1, MarginOfClients DEF MarginMatchesPnl
  <2> QED BY <1>1, <2>1, Splits, CashReports DEF ReportsAgree
<1>2. TablesTyped /\ TransfersCancel => ReportsAgree
  BY <1>1
<1> QED BY <1>2, CancelAlways, PTL
=============================================================================
