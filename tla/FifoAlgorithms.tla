--------------------------- MODULE FifoAlgorithms ---------------------------
(***************************************************************************)
(* consumePlan and reversePlan of common/fifo.ts: the loop over the list   *)
(* of sources the callers hand them, which are the open lots in the order  *)
(* of lockOpenLots (a supplier's own first in supplierReturn), or the      *)
(* reversible consumptions of an order line in the order of                *)
(* reversibleConsumptionsForOrderItem.                                     *)
(*                                                                         *)
(* StockLedger states the outcome of a plan in closed form, lot by lot;    *)
(* MCWarehouse checks that the loops compute it.                           *)
(***************************************************************************)
EXTENDS StockLedger

LOCAL INSTANCE SequencesExt

\* A source as a plan reads it: what it is, what it has left, at which cost.
LotSources(s, i, sup) ==
  LET order == SetToSortSeq(OpenLots(s, i), LAMBDA j, k : LeavesBefore(s, sup, j, k))
  IN [n \in DOMAIN order |-> [from |-> order[n], left |-> s.lots[order[n]].left, cost |-> s.lots[order[n]].cost]]
RowSources(s, line) ==
  LET order == SetToSortSeq(Reversible(s, line), LAMBDA q, r : ReversedBefore(s, q, r))
  IN [n \in DOMAIN order |-> [from |-> order[n], left |-> Remaining(order[n]), cost |-> order[n].cost]]

\* A fault for mutation: a source gives all it has to the last request.
TurnGivingAll(plan, x) ==
  IF plan.need <= 0 THEN plan
  ELSE [need |-> plan.need - x.left, steps |-> Append(plan.steps, [from |-> x.from, qty |-> x.left]),
        cost |-> plan.cost + x.left * x.cost]

\* One turn of the loop: the next source gives what it has, or what is still needed.
Turn(plan, x) ==
  LET take == IF x.left > plan.need THEN plan.need ELSE x.left
  IN IF plan.need <= 0 THEN plan
     ELSE [need |-> plan.need - take, steps |-> Append(plan.steps, [from |-> x.from, qty |-> take]),
           cost |-> plan.cost + take * x.cost]

Sum(seq, f(_)) == SumFunction([n \in DOMAIN seq |-> f(seq[n])])

\* InsufficientStockError, InsufficientReversibleError: refused before planning.
Refused(sources, need) == need > Sum(sources, LAMBDA x : x.left)

Plan(sources, need) == FoldLeft(Turn, [need |-> need, steps |-> <<>>, cost |-> 0], sources)
Given(plan, from) == SumFunction([n \in {n \in DOMAIN plan.steps : plan.steps[n].from = from} |-> plan.steps[n].qty])
Exact(plan, need) == /\ Sum(plan.steps, LAMBDA x : x.qty) = need
                     /\ \A n \in DOMAIN plan.steps : plan.steps[n].qty > 0

-----------------------------------------------------------------------------
(***************************************************************************)
(* A plan is refused exactly when the stock (the sale) is too small;       *)
(* otherwise it covers the request exactly, takes from every lot or gives  *)
(* back to every consumption row what the closed form says, and costs what *)
(* StockLedger books.                                                      *)
(***************************************************************************)
ConsumePlanAgrees(s, i, sup, need) ==
  LET sources == LotSources(s, i, sup)
      plan    == Plan(sources, need)
  IN /\ Refused(sources, need) <=> ~Enough(s, i, need)
     /\ ~Refused(sources, need) =>
          /\ Exact(plan, need)
          /\ plan.cost = PlanCost(s, i, sup, need)
          /\ \A k \in DOMAIN s.lots : Given(plan, k) = Take(s, i, sup, need, k)

ReversePlanAgrees(s, line, need) ==
  LET sources == RowSources(s, line)
      plan    == Plan(sources, need)
  IN /\ Refused(sources, need) <=> need > ReversibleQty(s, line)
     /\ ~Refused(sources, need) =>
          Exact(plan, need) /\ \A r \in s.rows : Given(plan, r) = GiveBack(s, line, need, r)
=============================================================================
