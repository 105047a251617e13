---------------------------- MODULE MCRateLimit ----------------------------
(* A small instance of RateLimit for TLC. *)
EXTENDS RateLimit, TLC

Symm == Permutations(Slots)
=============================================================================
