--------------------------- MODULE MCIdempotency ---------------------------
(***************************************************************************)
(* Idempotency on small instances: two requests send the same body, the    *)
(* others another one.                                                     *)
(***************************************************************************)
EXTENDS Idempotency

CONSTANTS r1, r2

MCHashOf == [r \in Requests |-> IF r \in {r1, r2} THEN "payment" ELSE "other"]
=============================================================================
