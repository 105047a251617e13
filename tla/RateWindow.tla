----------------------------- MODULE RateWindow -----------------------------
(***************************************************************************)
(* What the rate limiter promises a handler, in the form module Stream     *)
(* uses it: a count of recent tokens, of which nothing above the limit is  *)
(* told apart, that time may lower before any look at it.                  *)
(***************************************************************************)
EXTENDS Integers

CONSTANTS Slots,    \* connections that can stream at the same time
          Limit,    \* tokens per window
          Chunks    \* token counts of one delivery

VARIABLES window,   \* tokens in the window, up to Limit
          admitted  \* connections whose request was admitted

vars == <<window, admitted>>

Capped(n) == IF n > Limit THEN Limit ELSE n

Init == window = 0 /\ admitted = {}

\* A request is admitted exactly when what is left in the window is below the
\* limit.
Decide(r) == /\ r \notin admitted
             /\ window' \in 0 .. window
             /\ admitted' = IF window' < Limit THEN admitted \cup {r} ELSE admitted

\* Tokens delivered by an admitted request enter the window.
Charge(r, n) == /\ r \in admitted
                /\ \E w \in 0 .. window : window' = Capped(w + n)
                /\ UNCHANGED admitted

\* The request ends.
Leave(r) == /\ r \in admitted
            /\ admitted' = admitted \ {r}
            /\ UNCHANGED window

Next == \E r \in Slots : Decide(r) \/ Leave(r) \/ \E n \in Chunks : Charge(r, n)

Spec == Init /\ [][Next]_vars
=============================================================================
