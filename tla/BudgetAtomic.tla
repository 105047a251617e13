---------------------------- MODULE BudgetAtomic ----------------------------
(***************************************************************************)
(* What an API key's token account promises to the stream handlers that    *)
(* share it: a reservation and a release each happen at one instant.  The  *)
(* lock-free code of internal/budget is module Budget, which implements    *)
(* this specification.                                                     *)
(***************************************************************************)
EXTENDS Integers

CONSTANTS Handlers,      \* stream handlers that use the key
          TokenBudget,   \* APIKeyRecord.TokenBudget
          Chunks         \* token counts a handler may ask for

VARIABLES used,     \* APIKeyRecord.TokensUsed
          held      \* what each handler has reserved for its current attempt

vars == <<used, held>>

Init == /\ used = 0
        /\ held = [h \in Handlers |-> 0]

\* A reservation is granted whole, and only when it fits.
Grant(h, n) == /\ used + n <= TokenBudget
               /\ used' = used + n
               /\ held' = [held EXCEPT ![h] = @ + n]

\* A failed attempt gives back everything it reserved.
GiveBack(h) == /\ used' = IF used < held[h] THEN 0 ELSE used - held[h]
               /\ held' = [held EXCEPT ![h] = 0]

\* A finished attempt keeps what it reserved and starts again from nothing.
Settle(h) == /\ held' = [held EXCEPT ![h] = 0]
             /\ UNCHANGED used

\* A new budget period.
Restart == /\ used' = 0
           /\ UNCHANGED held

Next == \/ \E h \in Handlers : \/ \E n \in Chunks : Grant(h, n)
                               \/ GiveBack(h)
                               \/ Settle(h)
        \/ Restart

Spec == Init /\ [][Next]_vars
=============================================================================
