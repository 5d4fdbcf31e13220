-------------------------- MODULE MCStatementImport --------------------------
(***************************************************************************)
(* Imports on small instances: f1 has one row, f2 has it and another.      *)
(***************************************************************************)
EXTENDS StatementImport, TLC

CONSTANTS f1, f2, shared, extra

MCRowsOf == [f \in Files |-> IF f = f1 THEN {shared} ELSE {shared, extra}]

Symmetry == Permutations(Handlers)
=============================================================================
