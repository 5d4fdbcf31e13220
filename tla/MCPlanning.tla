----------------------------- MODULE MCPlanning -----------------------------
(***************************************************************************)
(* Plans, accounts and transfers on small instances.                       *)
(***************************************************************************)
EXTENDS Planning, TLC

\* The handlers are alike.
Alike == Permutations(Handlers)
=============================================================================
