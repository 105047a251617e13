------------------------------ MODULE Breaker -------------------------------
(***************************************************************************)
(* One provider's circuit and the stream handlers that consult it, in the  *)
(* order handleStream and nextAttemptableProvider call its methods.  Each  *)
(* method is atomic (it holds the circuit's mutex); what a handler does    *)
(* between two methods is not, so answers go stale.  A request uses the    *)
(* provider at most once, because handleStream walks its list once.        *)
(***************************************************************************)
EXTENDS BreakerOps, FiniteSets

CONSTANTS Requests,   \* requests that may use the provider
          Cfg         \* breaker.Config of the provider

ASSUME CfgAssumption == Cfg \in ConfigType

VARIABLES circuit,   \* ProviderCircuitState
          pc,        \* where each request is
          probe,     \* ghost: the half-open phase a request is the probe of, 0: none
          phase      \* ghost: number of times the circuit became half-open

vars == <<circuit, pc, probe, phase>>

PCs == {"idle", "announced", "mayclaim", "claimed", "streaming", "ended", "gone"}

Init == /\ circuit = NewCircuit
        /\ pc = [r \in Requests |-> "idle"]
        /\ probe = [r \in Requests |-> 0]
        /\ phase = 0

\* The circuit a method leaves, and the phase it leaves it in.
PhaseAfter(c) == IF circuit.state # "half_open" /\ c.state = "half_open" THEN phase + 1 ELSE phase
Set(c) == circuit' = c /\ phase' = PhaseAfter(c)
Goto(r, l) == pc' = [pc EXCEPT ![r] = l]
BecomesProbe(r, c) ==
    probe' = IF c.probing THEN [probe EXCEPT ![r] = PhaseAfter(c)] ELSE probe

-----------------------------------------------------------------------------
\* A failed request looks for its next provider: State() alone decides to
\* announce a closed provider or to try for the probe of a half-open one.
LookAhead(r) ==
    LET c == Refresh(circuit, Cfg) IN
    /\ pc[r] = "idle"
    /\ Set(c)
    /\ Goto(r, CASE c.state = "closed" -> "announced"
                 [] c.state = "half_open" -> "mayclaim"
                 [] OTHER -> "ended")
    /\ UNCHANGED probe

\* ... and claims it, a separate call.
ClaimProbe(r) ==
    LET c == TryClaimProbe(circuit, Cfg) IN
    /\ pc[r] = "mayclaim"
    /\ Set(c)
    /\ \/ /\ Claims(circuit, Cfg)
          /\ Goto(r, "claimed")
          /\ BecomesProbe(r, c)
       \/ /\ ~Claims(circuit, Cfg)
          /\ Goto(r, "ended")
          /\ UNCHANGED probe

\* The head of the provider loop without a claim.
Attempt(r) ==
    LET c == AllowAttempt(circuit, Cfg) IN
    /\ pc[r] \in {"idle", "announced"}
    /\ Set(c)
    /\ \/ /\ Allows(circuit, Cfg)
          /\ Goto(r, "streaming")
          /\ BecomesProbe(r, c)
       \/ /\ ~Allows(circuit, Cfg)
          /\ Goto(r, "ended")
          /\ UNCHANGED probe

\* The head of the provider loop with a claim: the circuit is not asked again.
StartClaimed(r) == /\ pc[r] = "claimed"
                   /\ Goto(r, "streaming")
                   /\ UNCHANGED <<circuit, probe, phase>>

\* The attempt finishes, or is cut by the client's own budget.
Succeed(r) == /\ pc[r] = "streaming"
              /\ Set(RecordSuccess(circuit, Cfg))
              /\ Goto(r, "ended")
              /\ UNCHANGED probe

\* The attempt fails.
Fail(r) == /\ pc[r] = "streaming"
           /\ Set(RecordFailure(circuit, Cfg))
           /\ Goto(r, "ended")
           /\ UNCHANGED probe

\* The client goes away or a shutdown is forced: handleStream returns without
\* telling the circuit.  A claimed request may also finish at a provider before
\* this one in its list.
Abandon(r) == /\ pc[r] \in {"claimed", "streaming"}
              /\ Goto(r, "gone")
              /\ UNCHANGED <<circuit, probe, phase>>

\* /healthz takes a snapshot, which may turn an open circuit half-open.
Snapshot == /\ Set(Refresh(circuit, Cfg))
            /\ UNCHANGED <<pc, probe>>

Tick == /\ Set(Age(circuit, Cfg))
        /\ UNCHANGED <<pc, probe>>

Next == \/ \E r \in Requests :
              \/ LookAhead(r) \/ ClaimProbe(r) \/ Attempt(r) \/ StartClaimed(r)
              \/ Succeed(r) \/ Fail(r) \/ Abandon(r)
        \/ Snapshot
        \/ Tick

Spec == Init /\ [][Next]_vars

\* A handler goroutine keeps running, and its attempt ends: the upstream
\* finishes or breaks, the silent-hang deadline passes, or it is cancelled.
Ends(r) == StartClaimed(r) \/ Succeed(r) \/ Fail(r) \/ Abandon(r)
FairSpec == Spec /\ \A r \in Requests : WF_vars(Ends(r))

-----------------------------------------------------------------------------
\* The types; no report to the circuit makes a counter negative.
TypeOK == /\ circuit \in CircuitType
          /\ pc \in [Requests -> PCs]
          /\ probe \in [Requests -> Nat]
          /\ phase \in Nat

\* After any interleaving of RecordSuccess, RecordFailure, AllowAttempt and
\* TryClaimProbe the circuit's fields agree: see Consistent in BreakerOps.
CircuitConsistent == Consistent(circuit, Cfg)

\* A request that is the probe of the current half-open phase and has not
\* reported to the circuit.
Unreported(r) == probe[r] = phase /\ pc[r] \in {"claimed", "streaming", "gone"}

\* The circuit is never locked by nobody: when it refuses requests because a
\* probe is in flight, some request did become the probe of this half-open phase
\* and has not reported (it may have been abandoned).
ProbeAttributable == circuit.probing => \E r \in Requests : Unreported(r)

\* With half_open_success_threshold 1, each half-open phase admits at most one
\* request, however late the reports of older attempts arrive.
OneProbePerPhase ==
    Cfg.HalfOpenSuccessThreshold = 1 =>
        \A r1, r2 \in Requests : probe[r1] = probe[r2] /\ probe[r1] # 0 => r1 = r2

\* A probe in flight does not lock the provider out for ever: the circuit takes
\* requests again unless the probe was abandoned.
NoLockout == circuit.probing ~> (~circuit.probing \/ \E r \in Requests : pc[r] = "gone" /\ probe[r] = phase)
=============================================================================
