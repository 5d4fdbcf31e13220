------------------------------ MODULE MCInbox ------------------------------
(***************************************************************************)
(* The inbox on small instances: credits c1 and c2 of one account, alike   *)
(* to the letter, a debit d of another.                                    *)
(***************************************************************************)
EXTENDS Inbox

CONSTANTS c1, c2, d, A, B

MCAccountOf == [l \in Lines |-> IF l = d THEN B ELSE A]
MCContentOf == [l \in Lines |-> IF l = d THEN "debit" ELSE "credit"]

\* The handlers are alike.
Alike == Permutations(Handlers)

\* A line that went astray stays so, and the invariants say nothing of it: a history is
\* followed as long as one line has not.
OneOnTrack == astray # Lines
=============================================================================
