----------------------------- MODULE MCBreaker ------------------------------
(* Small instances of Breaker for TLC. *)
EXTENDS Breaker

\* Two failures open the circuit, one successful probe closes it.
OneSuccess == [FailureThreshold |-> 2, OpenTimeout |-> 2, HalfOpenSuccessThreshold |-> 1]
\* One failure opens the circuit, one successful probe closes it.
Quick == [FailureThreshold |-> 1, OpenTimeout |-> 1, HalfOpenSuccessThreshold |-> 1]
=============================================================================
