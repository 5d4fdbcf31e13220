------------------------------- MODULE MCSync -------------------------------
(***************************************************************************)
(* Synchronisation on small instances.                                     *)
(***************************************************************************)
EXTENDS Sync
=============================================================================
