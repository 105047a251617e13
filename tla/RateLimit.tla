------------------------------ MODULE RateLimit ------------------------------
(***************************************************************************)
(* internal/ratelimit: the sliding window of one API key, asked once when  *)
(* a request arrives and charged after every delivery.  Handlers read the  *)
(* clock before they take the limiter's lock, so that the times they pass  *)
(* may be old and out of order when Admit and Add use them.  Keys have     *)
(* separate lists in byKey; this is one of them.  The list is modelled by  *)
(* the tokens it holds for each instant: the code never looks at its order *)
(* or at how many events carry them.                                       *)
(***************************************************************************)
EXTENDS Integers, FiniteSets, Functions

CONSTANTS Slots,       \* connections that can stream at the same time
          Limit,       \* Limiter.limit
          Window,      \* Limiter.window in clock ticks
          Chunks,      \* token counts the handlers pass to Add
          MaxTokens,   \* bound: tokens of one request, over all its attempts
          MaxClock     \* bound on the time that is explored

\* New replaces a window or a limit that is not positive by a default.
ASSUME RateLimitAssumption == /\ IsFiniteSet(Slots)
                              /\ Limit \in Nat \ {0}
                              /\ Window \in Nat \ {0}
                              /\ Chunks \subseteq Nat \ {0}
                              /\ MaxTokens \in Nat
                              /\ MaxClock \in Nat

VARIABLES clock,      \* time.Now()
          events,     \* byKey[key]: the tokens stored for each instant
          pc,         \* where each connection's handler is
          now,        \* the time it read for the call it is about to make
          arg,        \* the tokens it is about to add
          delivered,  \* tokens of its request so far, which MaxTokens bounds
          sold,       \* ghost: tokens ever added, by the time they carry
          since       \* ghost: tokens added since a request was last admitted

vars == <<clock, events, pc, now, arg, delivered, sold, since>>

Instants == 0 .. MaxClock
Nothing == [t \in Instants |-> 0]

\* New
Init == /\ clock = 0
        /\ events = Nothing
        /\ pc = [r \in Slots |-> "idle"]
        /\ now = [r \in Slots |-> 0]
        /\ arg = [r \in Slots |-> 0]
        /\ delivered = [r \in Slots |-> 0]
        /\ sold = Nothing
        /\ since = 0

Goto(r, l) == pc' = [pc EXCEPT ![r] = l]

\* The locals of a call are gone when it returns.
Return(r, l) == Goto(r, l) /\ now' = [now EXCEPT ![r] = 0] /\ arg' = [arg EXCEPT ![r] = 0]

-----------------------------------------------------------------------------
\* e.at.After(cutoff)
AfterCutoff(t, n) == t > n - Window

\* Bug: the window also ends at the caller's time, as if calls came in order.
MutPruned(n) == [t \in Instants |-> IF AfterCutoff(t, n) /\ t <= n THEN events[t] ELSE 0]

\* pruneLocked: what is stored and not yet out of the window at time n.
Pruned(n) == [t \in Instants |-> IF AfterCutoff(t, n) THEN events[t] ELSE 0]

\* Bug: the limit itself admits.
MutBelow(total) == total <= Limit

\* total < l.limit
Below(total) == total < Limit

-----------------------------------------------------------------------------
\* handleStream, before Admit: time.Now().
Arrive(r) == /\ pc[r] = "idle"
             /\ Goto(r, "admit")
             /\ now' = [now EXCEPT ![r] = clock]
             /\ UNCHANGED <<clock, events, arg, delivered, sold, since>>

\* Admit: prune, store, compare.
Admit(r) == /\ pc[r] = "admit"
            /\ events' = Pruned(now[r])
            /\ \/ /\ Below(SumFunction(events'))
                  /\ Return(r, "stream")
                  /\ since' = 0
               \/ /\ ~Below(SumFunction(events'))
                  /\ Return(r, "idle")
                  /\ UNCHANGED since
            /\ UNCHANGED <<clock, delivered, sold>>

\* runAttempt has reserved the tokens of a frame, or the part of a usage count that
\* was not reserved yet, and reads the clock for Add.  The limiter is told nothing of
\* failovers: what an attempt that failed had added stays in the window, though its
\* tokens are released, and the next attempt adds its own.
Deliver(r, n) == /\ pc[r] = "stream"
                 /\ delivered[r] + n <= MaxTokens
                 /\ Goto(r, "add")
                 /\ now' = [now EXCEPT ![r] = clock]
                 /\ arg' = [arg EXCEPT ![r] = n]
                 /\ delivered' = [delivered EXCEPT ![r] = @ + n]
                 /\ UNCHANGED <<clock, events, sold, since>>

\* Add: prune, append.
Add(r) == /\ pc[r] = "add"
          /\ events' = [Pruned(now[r]) EXCEPT ![now[r]] = @ + arg[r]]
          /\ sold' = [sold EXCEPT ![now[r]] = @ + arg[r]]
          /\ since' = since + arg[r]
          /\ Return(r, "stream")
          /\ UNCHANGED <<clock, delivered>>

\* The request ends and its connection takes another.
End(r) == /\ pc[r] = "stream"
          /\ Goto(r, "idle")
          /\ delivered' = [delivered EXCEPT ![r] = 0]
          /\ UNCHANGED <<clock, events, now, arg, sold, since>>

Tick == /\ clock < MaxClock
        /\ clock' = clock + 1
        /\ UNCHANGED <<events, pc, now, arg, delivered, sold, since>>

Handler(r) == \/ Arrive(r) \/ Admit(r)
              \/ \E n \in Chunks : Deliver(r, n)
              \/ Add(r) \/ End(r)

Next == (\E r \in Slots : Handler(r)) \/ Tick

Spec == Init /\ [][Next]_vars

-----------------------------------------------------------------------------
\* Every variable stays in its type; no handler holds a time that is still to come.
TypeOK == /\ clock \in Instants
          /\ events \in [Instants -> Nat]
          /\ pc \in [Slots -> {"idle", "admit", "stream", "add"}]
          /\ now \in [Slots -> 0 .. clock]
          /\ arg \in [Slots -> Nat]
          /\ delivered \in [Slots -> 0 .. MaxTokens]
          /\ sold \in [Instants -> Nat]
          /\ since \in Nat

\* Although handlers prune and append with times that are old and out of order,
\* what the limiter stores for the window that ends now is exactly what was added
\* in it: no event leaves early, none is lost, none counts twice.
WindowIsExact == \A t \in Instants : t > clock - Window => events[t] = sold[t]

\* Tokens that were added in the window that ends now.
Recent == [t \in Instants |-> IF t > clock - Window THEN sold[t] ELSE 0]
InWindow == SumFunction(Recent)

\* The limit is one on admission only, and there it is exact: at each admission the
\* window that ends now is below the limit, although Admit prunes with an old time.
\* So whatever is in it above the limit was added since the last admission, by
\* requests that were admitted before; how much that may be the limiter does not
\* bound (a failover lets a request spend its key's budget again).
OvershootIsLate == InWindow <= Limit - 1 + since

\* The limiter does what module Stream takes it to do.
Rate == INSTANCE RateWindow
        WITH window <- IF SumFunction(events) > Limit THEN Limit ELSE SumFunction(events),
             admitted <- {r \in Slots : pc[r] \in {"stream", "add"}}
ImplementsWindow == Rate!Spec
=============================================================================
