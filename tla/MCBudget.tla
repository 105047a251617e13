------------------------------ MODULE MCBudget ------------------------------
(* Small instances of Budget for TLC. *)
EXTENDS Budget

MCChunks == {1, 2}
=============================================================================
