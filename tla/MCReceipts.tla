----------------------------- MODULE MCReceipts -----------------------------
(***************************************************************************)
(* Two orders (1, 2) and two items (11, 12); documents that go to both     *)
(* orders against their order, to an order and the warehouse with a line   *)
(* skipped, and to the warehouse.                                          *)
(***************************************************************************)
EXTENDS Receipts, TLC

MCItemsOf == (1 :> <<12, 11>>) @@ (2 :> <<11>>)
MCContents == {<<2, 1>>, <<1, 11, Skipped>>}
MCLineAmount == [l \in Lines |-> 2]
MCSymmetry == Permutations(Requests)
=============================================================================
