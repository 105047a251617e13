------------------------------ MODULE MCChaos ------------------------------
(* A small instance of Chaos for TLC. *)
EXTENDS Chaos
=============================================================================
