------------------------------ MODULE MCStream ------------------------------
(* Small instances of Stream for TLC. *)
EXTENDS StreamWire, TLC

CONSTANTS r1, r2, r3, r4, k1, k2, k3, NoKey

Two == <<"p1", "p2">>

\* One failure opens a circuit, which stays open for one tick.
Quick == [FailureThreshold |-> 1, OpenTimeout |-> 1, HalfOpenSuccessThreshold |-> 1]
AllQuick == [p \in Providers |-> Quick]

\* Every request of the same key.
SameKey == [r \in Requests |-> k1]
\* A request of each key, one of them of a key nobody issued.
MixedKeys == r1 :> k1 @@ r2 :> k2 @@ r3 :> k3 @@ r4 :> NoKey
AllAllowed == [k \in Keys |-> Providers]
\* k2 may not use the first provider, k3 none that is configured.
Restricted == k1 :> Providers @@ k2 :> Providers \ {"p1"} @@ k3 :> {}
BudgetOfTwo == [k \in Keys |-> 2]
BudgetOfOne == [k \in Keys |-> 1]

Symm == Permutations(Requests)
=============================================================================
