----------------------------- MODULE MCAccounts -----------------------------
(***************************************************************************)
(* Accounts, operations and transfers on small instances.                  *)
(***************************************************************************)
EXTENDS Accounts, TLC

\* The handlers are alike.
Alike == Permutations(Handlers)
=============================================================================
