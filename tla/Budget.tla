------------------------------- MODULE Budget -------------------------------
(***************************************************************************)
(* internal/budget: the token account of one API key, shared without a     *)
(* lock by every stream handler that serves the key, and zeroed by the     *)
(* budget resetter of internal/auth.  TryReserve and Release are retry     *)
(* loops around an atomic load and an atomic compare-and-swap: each of the *)
(* two is a step here, so that handlers and the resetter interleave        *)
(* between them.                                                           *)
(***************************************************************************)
EXTENDS Integers, FiniteSets, Functions

CONSTANTS Handlers,      \* stream handlers that use the key
          TokenBudget,   \* APIKeyRecord.TokenBudget
          Chunks,        \* token counts runAttempt passes to TryReserve
          MaxInt,        \* the largest int64
          Period,        \* APIKeyRecord.BudgetPeriod in clock ticks, 0: never reset
          MaxResets      \* bound on the resets that are explored

\* Store.Add refuses a negative budget; runAttempt only asks for a positive
\* number of tokens.  Nothing in the code keeps a budget away from the largest
\* int64 by the size of a chunk, and the account is only right if it is.
ASSUME BudgetAssumption == /\ IsFiniteSet(Handlers)
                           /\ TokenBudget \in Nat
                           /\ Chunks \subseteq Nat \ {0}
                           /\ MaxInt \in Nat
                           /\ \A n \in Chunks : TokenBudget + n <= MaxInt
                           /\ Period \in Nat
                           /\ MaxResets \in Nat

VARIABLES used,      \* APIKeyRecord.TokensUsed
          pc,        \* where each handler is
          arg,       \* the parameter n of the running TryReserve or Release
          seen,      \* the local variable "used": the value last loaded
          held,      \* tokens reserved by the handler's current attempt
          elapsed,   \* time since BudgetPeriodStart, up to Period
          resets,    \* number of resets so far
          fresh,     \* ghost: the part of held reserved in this period
          billed     \* ghost: settled tokens that were reserved in this period

vars == <<used, pc, arg, seen, held, elapsed, resets, fresh, billed>>
account == <<used, held, fresh, billed>>
clock == <<elapsed, resets>>

PCs == {"idle", "loadReserve", "casReserve", "loadRelease", "casRelease"}

Init == /\ used = 0
        /\ pc = [h \in Handlers |-> "idle"]
        /\ arg = [h \in Handlers |-> 0]
        /\ seen = [h \in Handlers |-> 0]
        /\ held = [h \in Handlers |-> 0]
        /\ elapsed = 0
        /\ resets = 0
        /\ fresh = [h \in Handlers |-> 0]
        /\ billed = 0

Goto(h, l) == pc' = [pc EXCEPT ![h] = l]

\* The call returns and its locals are gone.
Return(h) == /\ Goto(h, "idle")
             /\ arg' = [arg EXCEPT ![h] = 0]
             /\ seen' = [seen EXCEPT ![h] = 0]

-----------------------------------------------------------------------------
\* TryReserve(n).

CallTryReserve(h, n) == /\ pc[h] = "idle"
                        /\ Goto(h, "loadReserve")
                        /\ arg' = [arg EXCEPT ![h] = n]
                        /\ UNCHANGED <<seen, account, clock>>

\* The sum of two int64 that are not negative wraps around.
Plus(u, n) == IF u + n > MaxInt THEN u + n - 2 * (MaxInt + 1) ELSE u + n

\* Bug: the limit itself is refused to nobody but the token after it is not.
MutFits(u, n) == Plus(u, n) <= TokenBudget + 1

\* The test of the loop body: the request fits below the budget.
Fits(u, n) == Plus(u, n) <= TokenBudget

\* Bug: the loop retries with the value of its first load.
MutLoadReserve(h) ==
    /\ pc[h] = "loadReserve"
    /\ \/ /\ Fits(used, arg[h])
          /\ Goto(h, "casReserve")
          /\ UNCHANGED <<arg, seen>>
       \/ /\ ~Fits(used, arg[h])
          /\ Return(h)
    /\ UNCHANGED <<account, clock>>

\* Load, and give up when the budget would be exceeded.
LoadReserve(h) ==
    /\ pc[h] = "loadReserve"
    /\ \/ /\ Fits(used, arg[h])
          /\ seen' = [seen EXCEPT ![h] = used]
          /\ Goto(h, "casReserve")
          /\ UNCHANGED arg
       \/ /\ ~Fits(used, arg[h])
          /\ Return(h)
    /\ UNCHANGED <<account, clock>>

\* Bug: the store is not conditional on the value that was checked.
MutCasReserve(h) == /\ pc[h] = "casReserve"
                    /\ used' = Plus(seen[h], arg[h])
                    /\ held' = [held EXCEPT ![h] = @ + arg[h]]
                    /\ fresh' = [fresh EXCEPT ![h] = @ + arg[h]]
                    /\ Return(h)
                    /\ UNCHANGED <<clock, billed>>

\* Compare-and-swap: on success the caller adds n to attemptTokens, on failure
\* the loop starts over.
CasReserve(h) ==
    /\ pc[h] = "casReserve"
    /\ \/ /\ used = seen[h]
          /\ used' = Plus(seen[h], arg[h])
          /\ held' = [held EXCEPT ![h] = @ + arg[h]]
          /\ fresh' = [fresh EXCEPT ![h] = @ + arg[h]]
          /\ Return(h)
          /\ UNCHANGED billed
       \/ /\ used # seen[h]
          /\ Goto(h, "loadReserve")
          /\ UNCHANGED <<arg, seen, account>>
    /\ UNCHANGED clock

-----------------------------------------------------------------------------
\* Release(attemptTokens), called when a failed attempt is superseded.

CallRelease(h) == /\ pc[h] = "idle"
                  /\ held[h] > 0
                  /\ Goto(h, "loadRelease")
                  /\ arg' = [arg EXCEPT ![h] = held[h]]
                  /\ UNCHANGED <<seen, account, clock>>

LoadRelease(h) == /\ pc[h] = "loadRelease"
                  /\ seen' = [seen EXCEPT ![h] = used]
                  /\ Goto(h, "casRelease")
                  /\ UNCHANGED <<arg, account, clock>>

\* used - n, not below zero.
Reduced(u, n) == IF u - n < 0 THEN 0 ELSE u - n

CasRelease(h) ==
    /\ pc[h] = "casRelease"
    /\ \/ /\ used = seen[h]
          /\ used' = Reduced(seen[h], arg[h])
          /\ held' = [held EXCEPT ![h] = 0]
          /\ fresh' = [fresh EXCEPT ![h] = 0]
          /\ Return(h)
          /\ UNCHANGED billed
       \/ /\ used # seen[h]
          /\ Goto(h, "loadRelease")
          /\ UNCHANGED <<arg, seen, account>>
    /\ UNCHANGED clock

-----------------------------------------------------------------------------
\* The attempt ends without a release (success, truncation, cancellation): its
\* tokens stay in TokensUsed.
Keep(h) == /\ pc[h] = "idle"
           /\ held[h] > 0
           /\ held' = [held EXCEPT ![h] = 0]
           /\ fresh' = [fresh EXCEPT ![h] = 0]
           /\ billed' = billed + fresh[h]
           /\ UNCHANGED <<used, pc, arg, seen, clock>>

\* Time passes.
Tick == /\ elapsed < Period
        /\ elapsed' = elapsed + 1
        /\ UNCHANGED <<account, pc, arg, seen, resets>>

\* The resetter finds the period over: an atomic store of zero that takes no
\* notice of the handlers.
ResetExpired == /\ Period > 0
                /\ elapsed >= Period
                /\ resets < MaxResets
                /\ used' = 0
                /\ elapsed' = 0
                /\ resets' = resets + 1
                /\ fresh' = [h \in Handlers |-> 0]
                /\ billed' = 0
                /\ UNCHANGED <<pc, arg, seen, held>>

Handler(h) == \/ \E n \in Chunks : CallTryReserve(h, n)
              \/ LoadReserve(h) \/ CasReserve(h)
              \/ CallRelease(h) \/ LoadRelease(h) \/ CasRelease(h)
              \/ Keep(h)

Next == (\E h \in Handlers : Handler(h)) \/ Tick \/ ResetExpired

Spec == Init /\ [][Next]_vars

-----------------------------------------------------------------------------
\* One handler's own steps inside a call.
InCall(h) == LoadReserve(h) \/ CasReserve(h) \/ LoadRelease(h) \/ CasRelease(h)

\* A goroutine that is inside a call keeps running: Go's scheduler is
\* preemptive, so a runnable goroutine is eventually scheduled.
FairSpec == Spec /\ \A h \in Handlers : WF_vars(InCall(h))

-----------------------------------------------------------------------------
\* Every variable stays in its type; in particular TokensUsed is never negative.
TypeOK == /\ used \in Nat
          /\ pc \in [Handlers -> PCs]
          /\ arg \in [Handlers -> Nat]
          /\ seen \in [Handlers -> Nat]
          /\ held \in [Handlers -> Nat]
          /\ elapsed \in 0 .. Period
          /\ resets \in 0 .. MaxResets
          /\ fresh \in [Handlers -> Nat]
          /\ billed \in Nat

\* However handlers interleave between the check in TryReserve and its
\* compare-and-swap, TokensUsed never passes the key's budget.
UsedWithinBudget == used <= TokenBudget

\* No update is lost: until the first reset TokensUsed is exactly what running
\* attempts hold plus what finished attempts kept, whatever the interleaving of
\* the TryReserve and Release loops.  After it a key is never charged for more
\* than its handlers spent in the period (a late Release may make it less).
UsedIsOutstanding == /\ resets = 0 => used = SumFunction(held) + billed
                     /\ used <= SumFunction(fresh) + billed

\* The lock-free loops behave as atomic operations: every step of the code is a
\* step of BudgetAtomic or changes nothing it can see.
Atomic == INSTANCE BudgetAtomic
ImplementsAtomic == Atomic!Spec

\* The retry loops cannot starve each other: when every handler is inside
\* TryReserve or Release, one of the calls returns, because a compare-and-swap
\* fails only when another one succeeded or the resetter stored zero.
SomeCallReturns == (\A h \in Handlers : pc[h] # "idle") ~> (\E h \in Handlers : pc[h] = "idle")
=============================================================================
