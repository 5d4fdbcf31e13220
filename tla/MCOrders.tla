------------------------------ MODULE MCOrders ------------------------------
(***************************************************************************)
(* Orders on small instances: lines s1 and s2 of warehouse item A, a       *)
(* manual line m with a cost of its own, a receipt line x; one order has   *)
(* them all, of two the second has s2.                                     *)
(***************************************************************************)
EXTENDS Orders

CONSTANTS A, o1, o2, s1, s2, m, x, h

MCLinesOf ==
  LET all(o) == IF o2 \notin OrderIds THEN <<s1, s2, m, x>> ELSE IF o = o1 THEN <<s1, m, x>> ELSE <<s2>>
  IN [o \in OrderIds |-> SelectSeq(all(o), LAMBDA l : l \in Lines)]
MCItemOf == [l \in Lines |-> IF l \in {s1, s2} THEN A ELSE NoItem]
MCPrice == [l \in Lines |-> IF l = m THEN 1 ELSE 2]
MCUnitCost == [l \in Lines |-> IF l \in {m, x} THEN 1 ELSE -1]
=============================================================================
