---------------------------- MODULE MCWarehouse ----------------------------
(***************************************************************************)
(* Warehouse on small instances, for TLC: every order line is of item A.   *)
(* The plans of FifoAlgorithms are checked apart, over ledgers of three    *)
(* lots with dates that may coincide, and of three consumption rows of one *)
(* order line in two batches.                                              *)
(***************************************************************************)
EXTENDS Warehouse, FifoAlgorithms

CONSTANTS A, l1, acme

MCItemOf == [l \in Lines |-> A]

Lot(at, left, k, sup) ==
  [item |-> A, initial |-> 2, left |-> left, cost |-> k, at |-> at, purchase |-> 0, supplier |-> sup, live |-> TRUE]
Row(batch, lot, rem) ==
  [batch |-> batch, kind |-> "SALE", lot |-> lot, line |-> l1, qty |-> 2, cost |-> lot, back |-> 2 - rem]

LotLedgers ==
  {[EmptyStock EXCEPT !.lots = [k \in 1..3 |-> Lot(at[k], left[k], k, sup[k])]] :
     at \in [1..3 -> 1..2], left \in [1..3 -> 0..2], sup \in [1..3 -> {Nobody, acme}]}
RowLedgers ==
  {[EmptyStock EXCEPT !.lots = [k \in 1..2 |-> Lot(at[k], 0, k, Nobody)],
                      !.rows = {Row(b[n], 1 + (n % 2), rem[n]) : n \in 1..3}] :
     at \in [1..2 -> 1..2], rem \in [1..3 -> 0..2], b \in {<<1, 1, 2>>, <<2, 1, 1>>, <<1, 2, 2>>}}

BoundedPlansAgree ==
  /\ \A s \in LotLedgers, sup \in {Nobody, acme}, need \in 1..4 : ConsumePlanAgrees(s, A, sup, need)
  /\ \A s \in RowLedgers, need \in 1..4 : ReversePlanAgrees(s, l1, need)

(***************************************************************************)
(* The loops of consumePlan and reversePlan compute the closed forms of    *)
(* StockLedger, for every request of up to four units of these ledgers and *)
(* of the ledgers the warehouse reaches.                                   *)
(***************************************************************************)
PlansAgree ==
  /\ BoundedPlansAgree
  /\ \A i \in Items, sup \in Suppliers \cup {Nobody}, need \in Qtys : ConsumePlanAgrees(stock, i, sup, need)
  /\ \A l \in Lines, need \in Qtys : ReversePlanAgrees(stock, l, need)
=============================================================================
