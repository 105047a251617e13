------------------------------ MODULE Shutdown ------------------------------
(***************************************************************************)
(* Graceful shutdown: the main goroutine of cmd/streamguard, the drain     *)
(* timer of Server.BeginShutdown and the sessions of the running handlers. *)
(* What a handler does with its stream is module Stream; here a session is *)
(* admitted, registered, runs, and is released.                            *)
(***************************************************************************)
EXTENDS FiniteSets

CONSTANT Requests

VARIABLES main,       \* where the main goroutine is
          draining,   \* Server.draining
          timer,      \* the drain timer behind Server.forceAt
          expired,    \* whether the context of httpSrv.Shutdown has expired
          pc,         \* where each handler is
          active,     \* Server.active
          doomed,     \* sessions forceCloseActive collected and has yet to cancel
          ctx,        \* the request contexts, with the cause of their cancellation
          due,        \* ghost: sessions that were active when forceCloseActive ran
          late,       \* ghost: sessions that registered with no timer ahead of them
          recorded    \* ghost: sessions whose end is in the ledger

vars == <<main, draining, timer, expired, pc, active, doomed, ctx, due, late, recorded>>
process == <<main, draining, expired>>
force == <<timer, doomed, due>>
handlers == <<pc, active, ctx, late, recorded>>

Init == /\ main = "serving"
        /\ draining = FALSE
        /\ timer = "off"
        /\ expired = FALSE
        /\ pc = [r \in Requests |-> "idle"]
        /\ active = {}
        /\ doomed = {}
        /\ ctx = [r \in Requests |-> "live"]
        /\ due = {}
        /\ late = {}
        /\ recorded = {}

Alive == main # "exited"
Goto(r, l) == pc' = [pc EXCEPT ![r] = l]

-----------------------------------------------------------------------------
\* The main goroutine and its timers.

\* SIGTERM: BeginShutdown sets the flag ...
Signal == /\ main = "serving"
          /\ main' = "arming"
          /\ draining' = TRUE
          /\ UNCHANGED <<expired, force, handlers>>

\* ... and starts the timer, a separate step; then httpSrv.Shutdown waits.
Arm == /\ main = "arming"
       /\ main' = "waiting"
       /\ timer' = "armed"
       /\ UNCHANGED <<draining, expired, doomed, due, handlers>>

\* The drain timeout passes: the runtime starts forceCloseActive.
TimerFires == /\ Alive
              /\ timer = "armed"
              /\ timer' = "firing"
              /\ UNCHANGED <<process, doomed, due, handlers>>

\* The context of Shutdown has the same timeout and was created after the timer.
ContextExpires == /\ main = "waiting"
                  /\ timer # "armed"
                  /\ ~expired
                  /\ expired' = TRUE
                  /\ UNCHANGED <<main, draining, force, handlers>>

\* Bug: one session is forgotten.
MutCollected == IF active = {} THEN {} ELSE active \ {CHOOSE r \in active : TRUE}

\* The sessions forceCloseActive finds under the lock.
Collected == active

\* forceCloseActive takes its list ...
ForceCloseActive == /\ Alive
                    /\ timer = "firing"
                    /\ timer' = "fired"
                    /\ doomed' = Collected
                    /\ due' = active
                    /\ UNCHANGED <<process, handlers>>

\* ... and cancels one session after the other without the lock.
ForceCancel(r) == /\ Alive
                  /\ r \in doomed
                  /\ doomed' = doomed \ {r}
                  /\ ctx' = [ctx EXCEPT ![r] = IF @ = "live" THEN "forced" ELSE @]
                  /\ UNCHANGED <<process, timer, due, pc, active, late, recorded>>

\* Shutdown returns nil when no connection is busy, and main returns.
ShutdownReturns == /\ main = "waiting"
                   /\ \A r \in Requests : pc[r] \in {"idle", "refused", "ended"}
                   /\ main' = "exited"
                   /\ UNCHANGED <<draining, expired, force, handlers>>

\* Bug: main keeps waiting for the handlers.
MutMustClose == FALSE

\* Shutdown gives up when its context has expired.
MustClose == main = "waiting" /\ expired

\* httpSrv.Close breaks the connections that are left.
Close == /\ MustClose
         /\ main' = "closing"
         /\ ctx' = [r \in Requests |-> IF ctx[r] = "live" /\ pc[r] # "idle" THEN "closed" ELSE ctx[r]]
         /\ UNCHANGED <<draining, expired, force, pc, active, late, recorded>>

\* main returns and the process is gone, whatever handlers are doing.
Exit == /\ main = "closing"
        /\ main' = "exited"
        /\ UNCHANGED <<draining, expired, force, handlers>>

-----------------------------------------------------------------------------
\* The handlers.

\* The draining flag is tested first; the listener is closed once main waits.
Arrive(r) == /\ main \in {"serving", "arming"}
             /\ pc[r] = "idle"
             /\ Goto(r, IF draining THEN "refused" ELSE "admitted")
             /\ UNCHANGED <<process, force, active, ctx, late, recorded>>

\* registerSession, later: the flag may have been set in between.
Register(r) == /\ Alive
               /\ pc[r] = "admitted"
               /\ Goto(r, "running")
               /\ active' = active \cup {r}
               /\ late' = IF main \in {"waiting", "closing"} /\ timer \in {"off", "fired"}
                          THEN late \cup {r} ELSE late
               /\ UNCHANGED <<process, force, ctx, recorded>>

\* The stream ends by itself and is recorded in the ledger.
Finish(r) == /\ Alive
             /\ pc[r] = "running"
             /\ Goto(r, "releasing")
             /\ recorded' = recorded \cup {r}
             /\ UNCHANGED <<process, force, active, ctx, late>>

\* The stream is cut: only a forced shutdown is recorded.
Cut(r) == /\ Alive
          /\ pc[r] = "running"
          /\ ctx[r] # "live"
          /\ Goto(r, "releasing")
          /\ recorded' = IF ctx[r] = "forced" THEN recorded \cup {r} ELSE recorded
          /\ UNCHANGED <<process, force, active, ctx, late>>

\* Bug: any released session stops the timer.
MutTimerAfter(rest) == IF timer = "armed" THEN "off" ELSE timer

\* The last session to go stops the timer.
TimerAfter(rest) == IF rest = {} /\ timer = "armed" THEN "off" ELSE timer

\* The sessions left when releaseSession has deleted this one.
Remaining(r) == active \ {r}

\* releaseSession
Release(r) == /\ Alive
              /\ pc[r] = "releasing"
              /\ Goto(r, "ended")
              /\ active' = Remaining(r)
              /\ timer' = TimerAfter(Remaining(r))
              /\ UNCHANGED <<process, doomed, due, ctx, late, recorded>>

-----------------------------------------------------------------------------
Main == Signal \/ Arm \/ ShutdownReturns \/ Close \/ Exit
Timers == TimerFires \/ ContextExpires \/ ForceCloseActive \/ \E r \in Requests : ForceCancel(r)
Handler(r) == Arrive(r) \/ Register(r) \/ Finish(r) \/ Cut(r) \/ Release(r)

Exited == main = "exited" /\ UNCHANGED vars

Next == Main \/ Timers \/ (\E r \in Requests : Handler(r)) \/ Exited

\* The main goroutine and the timers run; of handlers and upstreams nothing is
\* assumed.
Spec == Init /\ [][Next]_vars /\ WF_vars(Arm \/ ShutdownReturns \/ Close \/ Exit) /\ WF_vars(Timers)

-----------------------------------------------------------------------------
\* The types; Server.active holds exactly the sessions registerSession added
\* and releaseSession has not yet deleted.
TypeOK == /\ main \in {"serving", "arming", "waiting", "closing", "exited"}
          /\ draining \in BOOLEAN /\ expired \in BOOLEAN
          /\ timer \in {"off", "armed", "firing", "fired"}
          /\ pc \in [Requests -> {"idle", "refused", "admitted", "running", "releasing", "ended"}]
          /\ active = {r \in Requests : pc[r] \in {"running", "releasing"}}
          /\ doomed \subseteq Requests /\ due \subseteq Requests
          /\ late \subseteq Requests /\ recorded \subseteq Requests
          /\ ctx \in [Requests -> {"live", "forced", "closed"}]

\* forceCloseActive cancels sessions after it gave up the lock, while others
\* register and are released: when it is through, every session that was active
\* when it looked, and still runs, has a cancelled context.  The session table is
\* that of the running handlers all the time (TypeOK).
ForceReachesAll ==
    /\ TypeOK
    /\ timer = "fired" /\ doomed = {} => \A r \in due : pc[r] = "running" => ctx[r] # "live"

\* Stopping the timer in releaseSession spares nobody who was there: a session
\* that is cut by httpSrv.Close instead of forceCloseActive either registered
\* after the timer was stopped or had run, or is one forceCloseActive cancels.
CloseOnlyCutsLateSessions ==
    \A r \in Requests : ctx[r] = "closed" /\ pc[r] = "running" =>
        \/ r \in late
        \/ timer = "firing"
        \/ r \in due

\* A shutdown that was asked for ends the process, even when upstreams hang and
\* handlers do not finish.
ShutdownEnds == draining ~> (main = "exited")
=============================================================================
