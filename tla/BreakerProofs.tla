---------------------------- MODULE BreakerProofs ---------------------------
(***************************************************************************)
(* For every set of requests and every breaker configuration: the circuit  *)
(* stays consistent, a circuit that waits for a probe has one, and with a   *)
(* success threshold of 1 a half-open phase has at most one probe.         *)
(***************************************************************************)
EXTENDS Breaker, TLAPS

\* Ghost bookkeeping: a probe belongs to a phase that has begun, and a request
\* that has not yet attempted the provider is no probe.
PhaseInv == /\ circuit.state = "half_open" => phase > 0
            /\ \A r \in Requests : /\ probe[r] <= phase
                                   /\ pc[r] \in {"idle", "announced", "mayclaim"} => probe[r] = 0

\* With one success enough to close it, a half-open circuit that is free to be
\* probed has not been probed in this phase.
FreeInv == Cfg.HalfOpenSuccessThreshold = 1 /\ ProbeFree(circuit) =>
               \A r \in Requests : probe[r] # phase

\* The inductive invariant behind the theorems of this module.
IndInv == /\ TypeOK
          /\ CircuitConsistent
          /\ PhaseInv
          /\ FreeInv
          /\ ProbeAttributable
          /\ OneProbePerPhase

-----------------------------------------------------------------------------
\* Lemmas about the methods of ProviderCircuitState.

\* transitionLocked sets the state, ends the probe and clears the counters.
LEMMA TransitionResult ==
    ASSUME NEW c \in CircuitType, NEW s \in {"closed", "open", "half_open"}
    PROVE  LET d == Transition(c, s) IN
           /\ d \in CircuitType
           /\ d.state = s /\ ~d.probing
           /\ d.consecutiveSuccess = 0 /\ d.age = 0
           /\ s = "closed" => d.consecutiveFailures = 0
  <1>1. Transition(c, s) \in CircuitType
    BY DEF CircuitType, Transition
  <1>2. ~Transition(c, s).probing
    BY DEF CircuitType, Transition
  <1> QED BY <1>1, <1>2 DEF CircuitType, Transition

\* refreshLocked keeps a circuit as it is or turns an open one half-open.
LEMMA RefreshResult ==
    ASSUME NEW c \in CircuitType, NEW cfg \in ConfigType, Consistent(c, cfg)
    PROVE  LET d == Refresh(c, cfg) IN
           /\ d \in CircuitType
           /\ Consistent(d, cfg)
           /\ \/ d = c
              \/ c.state = "open" /\ d.state = "half_open" /\ ~d.probing
  <1> DEFINE d == Refresh(c, cfg)
  <1>1. CASE c.state = "open" /\ c.age >= cfg.OpenTimeout
    <2>1. d = Transition(c, "half_open") BY <1>1 DEF Refresh
    <2>2. d \in CircuitType /\ d.state = "half_open" /\ ~d.probing /\ d.consecutiveSuccess = 0
      BY <2>1, TransitionResult
    <2> HIDE DEF d
    <2>3. Consistent(d, cfg) BY <2>2 DEF Consistent, ConfigType
    <2> QED BY <1>1, <2>2, <2>3 DEF d
  <1>2. CASE ~(c.state = "open" /\ c.age >= cfg.OpenTimeout)
    BY <1>2 DEF Refresh
  <1> QED BY <1>1, <1>2

\* Claiming the probe changes nothing else.
LEMMA ClaimResult ==
    ASSUME NEW c \in CircuitType, NEW cfg \in ConfigType, Consistent(c, cfg), ProbeFree(c)
    PROVE  LET d == Claim(c) IN
           /\ d \in CircuitType
           /\ Consistent(d, cfg)
           /\ d.state = "half_open" /\ d.probing
  BY DEF Claim, ProbeFree, Consistent, CircuitType, ConfigType

\* A report of success or failure never leaves a probe in flight, never makes a
\* circuit half-open, and with a threshold of 1 ends a half-open phase.
LEMMA ReportResult ==
    ASSUME NEW c \in CircuitType, NEW cfg \in ConfigType, Consistent(c, cfg),
           NEW d, d = RecordSuccess(c, cfg) \/ d = RecordFailure(c, cfg)
    PROVE  /\ d \in CircuitType
           /\ Consistent(d, cfg)
           /\ ~d.probing
           /\ d.state = "half_open" => /\ c.state = "half_open"
                                       /\ cfg.HalfOpenSuccessThreshold # 1
  <1>1. CASE d = RecordSuccess(c, cfg)
    <2> DEFINE a == [c EXCEPT !.consecutiveFailures = 0, !.probing = FALSE]
               b == [a EXCEPT !.consecutiveSuccess = @ + 1]
    <2>1. /\ a \in CircuitType /\ a.state = c.state
          /\ a.consecutiveFailures = 0 /\ a.consecutiveSuccess = c.consecutiveSuccess
          /\ a.age = c.age
      BY DEF CircuitType
    <2>2. ~a.probing
      BY DEF CircuitType
    <2>3. d = IF a.state # "half_open" THEN a
              ELSE IF b.consecutiveSuccess >= cfg.HalfOpenSuccessThreshold
                   THEN Transition(b, "closed") ELSE b
      BY <1>1 DEF RecordSuccess
    <2> HIDE DEF a
    <2>4. /\ b \in CircuitType /\ b.state = a.state
          /\ b.consecutiveSuccess = a.consecutiveSuccess + 1
      BY <2>1 DEF CircuitType
    <2>5. ~b.probing
      BY <2>1, <2>2 DEF CircuitType
    <2> HIDE DEF b
    <2>6. CASE a.state # "half_open"
      BY <2>1, <2>2, <2>3, <2>6 DEF Consistent, ConfigType
    <2>7. CASE a.state = "half_open" /\ b.consecutiveSuccess >= cfg.HalfOpenSuccessThreshold
      <3>1. d = Transition(b, "closed") BY <2>3, <2>7
      <3>2. /\ d \in CircuitType /\ d.state = "closed" /\ ~d.probing
            /\ d.consecutiveFailures = 0
        BY <2>4, <3>1, TransitionResult
      <3> QED BY <3>2 DEF Consistent, ConfigType
    <2>8. CASE a.state = "half_open" /\ ~(b.consecutiveSuccess >= cfg.HalfOpenSuccessThreshold)
      <3>1. d = b BY <2>3, <2>8
      <3> QED BY <2>1, <2>4, <2>8, <2>5, <3>1 DEF Consistent, ConfigType, CircuitType
    <2> QED BY <2>6, <2>7, <2>8
  <1>2. CASE d = RecordFailure(c, cfg)
    <2> DEFINE a == [c EXCEPT !.probing = FALSE, !.consecutiveSuccess = 0]
               b == [a EXCEPT !.consecutiveFailures = @ + 1]
    <2>1. a \in CircuitType /\ a.state = c.state /\ a.age = c.age
      BY DEF CircuitType
    <2>2. ~a.probing
      BY DEF CircuitType
    <2>3. d = CASE a.state = "half_open" -> Transition(a, "open")
                [] b.consecutiveFailures >= cfg.FailureThreshold -> Transition(b, "open")
                [] OTHER -> b
      BY <1>2 DEF RecordFailure
    <2> HIDE DEF a
    <2>4. b \in CircuitType /\ b.state = a.state /\ b.age = a.age
      BY <2>1 DEF CircuitType
    <2>5. ~b.probing
      BY <2>1, <2>2 DEF CircuitType
    <2> HIDE DEF b
    <2>6. CASE d = Transition(a, "open") \/ d = Transition(b, "open")
      <3>1. /\ d \in CircuitType /\ d.state = "open" /\ ~d.probing /\ d.age = 0
        BY <2>1, <2>4, <2>6, TransitionResult
      <3> QED BY <3>1 DEF Consistent, ConfigType
    <2>7. CASE /\ a.state # "half_open"
               /\ ~(b.consecutiveFailures >= cfg.FailureThreshold)
               /\ d = b
      BY <2>1, <2>4, <2>7, <2>5 DEF Consistent, ConfigType, CircuitType
    <2> QED BY <2>3, <2>6, <2>7
  <1> QED BY <1>1, <1>2

\* The clock moves only the age of the circuit.
LEMMA AgeResult ==
    ASSUME NEW c \in CircuitType, NEW cfg \in ConfigType, Consistent(c, cfg)
    PROVE  LET d == Age(c, cfg) IN
           /\ d \in CircuitType
           /\ Consistent(d, cfg)
           /\ d.state = c.state /\ d.probing = c.probing
  BY DEF Age, Consistent, CircuitType, ConfigType

-----------------------------------------------------------------------------
\* A new circuit satisfies the inductive invariant.
LEMMA InitInv == Init => IndInv
  BY CfgAssumption DEF Init, IndInv, TypeOK, CircuitConsistent, PhaseInv, FreeInv,
     ProbeAttributable, OneProbePerPhase, NewCircuit, CircuitType, ConfigType, Consistent,
     ProbeFree, PCs

\* A step that refreshes the circuit, and moves request r only between places
\* where it is not the probe, preserves the invariant.
LEMMA RefreshStep ==
    ASSUME IndInv,
           Set(Refresh(circuit, Cfg)), UNCHANGED probe,
           pc' \in [Requests -> PCs],
           \A r \in Requests : \/ pc'[r] = pc[r]
                               \/ pc[r] \in {"idle", "announced", "mayclaim"} /\ probe[r] = 0
    PROVE  IndInv'
  <1> DEFINE d == Refresh(circuit, Cfg)
  <1>1. /\ d \in CircuitType
        /\ Consistent(d, Cfg)
        /\ \/ d = circuit
           \/ circuit.state = "open" /\ d.state = "half_open" /\ ~d.probing
    BY RefreshResult, CfgAssumption DEF IndInv, TypeOK, CircuitConsistent
  <1>2. circuit' = d /\ phase' = PhaseAfter(d)
    BY DEF Set
  <1> HIDE DEF d
  <1>3. CASE d = circuit
    <2>1. phase' = phase BY <1>2, <1>3 DEF PhaseAfter
    <2>2. ProbeAttributable'
      BY <1>2, <1>3, <2>1 DEF IndInv, TypeOK, ProbeAttributable, Unreported, PhaseInv, PCs, CircuitConsistent, Consistent
    <2> QED BY <1>1, <1>2, <1>3, <2>1, <2>2
         DEF IndInv, TypeOK, CircuitConsistent, PhaseInv, FreeInv, OneProbePerPhase, ProbeFree
  <1>4. CASE circuit.state = "open" /\ d.state = "half_open" /\ ~d.probing
    <2>1. phase' = phase + 1 BY <1>2, <1>4 DEF PhaseAfter
    <2> QED BY <1>1, <1>2, <1>4, <2>1
         DEF IndInv, TypeOK, CircuitConsistent, PhaseInv, FreeInv, OneProbePerPhase,
             ProbeAttributable, ProbeFree
  <1> QED BY <1>1, <1>3, <1>4

\* A step in which request r becomes the probe preserves the invariant: only a
\* half-open circuit without a probe can be claimed.
LEMMA ClaimStep ==
    ASSUME IndInv, NEW r \in Requests,
           pc[r] \in {"idle", "announced", "mayclaim"},
           ProbeFree(Refresh(circuit, Cfg)),
           Set(Claim(Refresh(circuit, Cfg))),
           probe' = [probe EXCEPT ![r] = PhaseAfter(Claim(Refresh(circuit, Cfg)))],
           pc' \in [Requests -> PCs],
           pc'[r] \in {"claimed", "streaming"},
           \A q \in Requests \ {r} : pc'[q] = pc[q]
    PROVE  IndInv'
  <1> DEFINE d == Refresh(circuit, Cfg)
             e == Claim(d)
  <1>1. /\ d \in CircuitType
        /\ Consistent(d, Cfg)
        /\ \/ d = circuit
           \/ circuit.state = "open" /\ d.state = "half_open" /\ ~d.probing
    BY RefreshResult, CfgAssumption DEF IndInv, TypeOK, CircuitConsistent
  <1>2. ProbeFree(d)
    OBVIOUS
  <1> HIDE DEF d
  <1>3. e \in CircuitType /\ Consistent(e, Cfg) /\ e.state = "half_open" /\ e.probing
    BY <1>1, <1>2, ClaimResult, CfgAssumption
  <1>4. circuit' = e /\ phase' = PhaseAfter(e) /\ probe' = [probe EXCEPT ![r] = phase']
    BY DEF Set, d
  <1> HIDE DEF e
  <1>5. phase' \in Nat /\ phase' > 0 /\ phase' >= phase
    BY <1>3, <1>4 DEF PhaseAfter, IndInv, TypeOK, PhaseInv
  <1>6. TypeOK' /\ CircuitConsistent'
    BY <1>3, <1>4, <1>5 DEF IndInv, TypeOK, CircuitConsistent
  <1>7. PhaseInv'
    BY <1>3, <1>4, <1>5 DEF IndInv, TypeOK, PhaseInv, PCs
  <1>8. FreeInv'
    BY <1>3, <1>4 DEF FreeInv, ProbeFree
  <1>9. ProbeAttributable'
    BY <1>4, <1>5 DEF IndInv, TypeOK, ProbeAttributable, Unreported
  <1>10. OneProbePerPhase'
    <2> SUFFICES ASSUME Cfg.HalfOpenSuccessThreshold = 1
                 PROVE  \A q \in Requests : probe[q] # phase'
      BY <1>4, <1>5 DEF IndInv, TypeOK, OneProbePerPhase
    <2>1. CASE d = circuit
      BY <1>2, <1>3, <1>4, <2>1 DEF IndInv, FreeInv, ProbeFree, PhaseAfter
    <2>2. CASE circuit.state = "open"
      BY <1>3, <1>4, <2>2 DEF IndInv, TypeOK, PhaseInv, PhaseAfter
    <2> QED BY <1>1, <2>1, <2>2
  <1> QED BY <1>6, <1>7, <1>8, <1>9, <1>10 DEF IndInv

\* A report preserves the invariant, whichever phase its attempt belongs to.
LEMMA ReportStep ==
    ASSUME IndInv, NEW r \in Requests, NEW d,
           d = RecordSuccess(circuit, Cfg) \/ d = RecordFailure(circuit, Cfg),
           pc[r] = "streaming", Set(d), Goto(r, "ended"), UNCHANGED probe
    PROVE  IndInv'
  <1>1. /\ d \in CircuitType
        /\ Consistent(d, Cfg)
        /\ ~d.probing
        /\ d.state = "half_open" => /\ circuit.state = "half_open"
                                    /\ Cfg.HalfOpenSuccessThreshold # 1
    BY ReportResult, CfgAssumption DEF IndInv, TypeOK, CircuitConsistent
  <1>2. circuit' = d /\ phase' = phase
    BY <1>1 DEF Set, PhaseAfter
  <1> QED BY <1>1, <1>2
       DEF IndInv, TypeOK, CircuitConsistent, PhaseInv, FreeInv, ProbeAttributable,
           OneProbePerPhase, ProbeFree, Goto, PCs

-----------------------------------------------------------------------------
\* Every step preserves the inductive invariant.
LEMMA NextInv == IndInv /\ [Next]_vars => IndInv'
  <1> SUFFICES ASSUME IndInv, [Next]_vars PROVE IndInv'
    OBVIOUS
  <1>1. ASSUME NEW r \in Requests, LookAhead(r) PROVE IndInv'
    <2>1. pc' \in [Requests -> PCs]
      BY <1>1 DEF LookAhead, Goto, PCs, IndInv, TypeOK
    <2>2. probe[r] = 0
      BY <1>1 DEF LookAhead, IndInv, PhaseInv
    <2> QED BY <1>1, <2>1, <2>2, RefreshStep DEF LookAhead, Goto, IndInv, TypeOK
  <1>2. ASSUME NEW r \in Requests, ClaimProbe(r) PROVE IndInv'
    <2>1. CASE Claims(circuit, Cfg) /\ Goto(r, "claimed")
      <3>1. TryClaimProbe(circuit, Cfg) = Claim(Refresh(circuit, Cfg))
        BY <2>1 DEF Claims, TryClaimProbe
      <3>2. Claim(Refresh(circuit, Cfg)).probing
        BY <2>1, RefreshResult, ClaimResult, CfgAssumption
           DEF Claims, IndInv, TypeOK, CircuitConsistent
      <3>3. BecomesProbe(r, Claim(Refresh(circuit, Cfg)))
        BY <1>2, <2>1, <3>1 DEF ClaimProbe
      <3> QED BY <1>2, <2>1, <3>1, <3>2, <3>3, ClaimStep
           DEF ClaimProbe, Claims, Goto, BecomesProbe, IndInv, TypeOK, PCs
    <2>2. CASE ~Claims(circuit, Cfg)
      <3>1. TryClaimProbe(circuit, Cfg) = Refresh(circuit, Cfg)
        BY <2>2 DEF Claims, TryClaimProbe
      <3>2. probe[r] = 0
        BY <1>2 DEF ClaimProbe, IndInv, PhaseInv
      <3> QED BY <1>2, <2>2, <3>1, <3>2, RefreshStep
           DEF ClaimProbe, Goto, IndInv, TypeOK, PCs
    <2> QED BY <1>2, <2>1, <2>2 DEF ClaimProbe
  <1>3. ASSUME NEW r \in Requests, Attempt(r) PROVE IndInv'
    <2>1. CASE ProbeFree(Refresh(circuit, Cfg))
      <3>1. AllowAttempt(circuit, Cfg) = Claim(Refresh(circuit, Cfg)) /\ Allows(circuit, Cfg)
        BY <2>1 DEF Allows, AllowAttempt
      <3>2. Claim(Refresh(circuit, Cfg)).probing
        BY <2>1, RefreshResult, ClaimResult, CfgAssumption
           DEF IndInv, TypeOK, CircuitConsistent
      <3>3. BecomesProbe(r, Claim(Refresh(circuit, Cfg)))
        BY <1>3, <3>1 DEF Attempt
      <3>4. /\ pc[r] \in {"idle", "announced", "mayclaim"}
            /\ pc' \in [Requests -> PCs]
            /\ pc'[r] = "streaming"
            /\ \A q \in Requests \ {r} : pc'[q] = pc[q]
        BY <1>3, <3>1 DEF Attempt, Goto, IndInv, TypeOK, PCs
      <3>5. Set(Claim(Refresh(circuit, Cfg)))
        BY <1>3, <3>1 DEF Attempt
      <3>6. probe' = [probe EXCEPT ![r] = PhaseAfter(Claim(Refresh(circuit, Cfg)))]
        BY <3>2, <3>3 DEF BecomesProbe
      <3> QED BY <2>1, <3>4, <3>5, <3>6, ClaimStep
    <2>2. CASE ~ProbeFree(Refresh(circuit, Cfg))
      <3>1. AllowAttempt(circuit, Cfg) = Refresh(circuit, Cfg)
        BY <2>2 DEF AllowAttempt
      <3>2. Allows(circuit, Cfg) => Refresh(circuit, Cfg).state = "closed"
        BY <2>2 DEF Allows
      <3>3. Allows(circuit, Cfg) => ~Refresh(circuit, Cfg).probing
        BY <3>2, RefreshResult, CfgAssumption
           DEF IndInv, TypeOK, CircuitConsistent, Consistent
      <3>4. UNCHANGED probe
        BY <1>3, <3>1, <3>3 DEF Attempt, BecomesProbe
      <3>5. probe[r] = 0
        BY <1>3 DEF Attempt, IndInv, PhaseInv
      <3> QED BY <1>3, <3>1, <3>4, <3>5, RefreshStep
           DEF Attempt, Goto, IndInv, TypeOK, PCs
    <2> QED BY <2>1, <2>2
  <1>4. ASSUME NEW r \in Requests, StartClaimed(r) \/ Abandon(r) PROVE IndInv'
    <2>1. UNCHANGED <<circuit, probe, phase>> BY <1>4 DEF StartClaimed, Abandon
    <2>2. /\ pc[r] \in {"claimed", "streaming"}
          /\ pc' \in [Requests -> PCs]
          /\ pc'[r] \in {"streaming", "gone"}
          /\ \A q \in Requests \ {r} : pc'[q] = pc[q]
      BY <1>4 DEF StartClaimed, Abandon, Goto, PCs, IndInv, TypeOK
    <2>3. ProbeAttributable'
      BY <2>1, <2>2 DEF IndInv, ProbeAttributable, Unreported
    <2> QED BY <2>1, <2>2, <2>3
         DEF IndInv, TypeOK, CircuitConsistent, PhaseInv, FreeInv, OneProbePerPhase
  <1>5. ASSUME NEW r \in Requests, Succeed(r) PROVE IndInv'
    BY <1>5, ReportStep DEF Succeed
  <1>6. ASSUME NEW r \in Requests, Fail(r) PROVE IndInv'
    BY <1>6, ReportStep DEF Fail
  <1>7. CASE Snapshot
    BY <1>7, RefreshStep DEF Snapshot, IndInv, TypeOK
  <1>8. CASE Tick
    <2> DEFINE d == Age(circuit, Cfg)
    <2>1. /\ d \in CircuitType
          /\ Consistent(d, Cfg)
          /\ d.state = circuit.state /\ d.probing = circuit.probing
      BY AgeResult, CfgAssumption DEF IndInv, TypeOK, CircuitConsistent
    <2>2. circuit' = d /\ phase' = phase
      BY <1>8, <2>1 DEF Tick, Set, PhaseAfter
    <2> HIDE DEF d
    <2> QED BY <1>8, <2>1, <2>2
         DEF Tick, IndInv, TypeOK, CircuitConsistent, PhaseInv, FreeInv, ProbeAttributable,
             Unreported, OneProbePerPhase, ProbeFree
  <1>9. CASE UNCHANGED vars
    BY <1>9 DEF vars, IndInv, TypeOK, CircuitConsistent, PhaseInv, FreeInv, ProbeAttributable,
       Unreported, OneProbePerPhase, ProbeFree
  <1> QED BY <1>1, <1>2, <1>3, <1>4, <1>5, <1>6, <1>7, <1>8, <1>9 DEF Next

\* The inductive invariant holds in every reachable state.
LEMMA Invariance == Spec => []IndInv
  BY InitInv, NextInv, PTL DEF Spec

\* The circuit and the handlers that use it are well typed.
THEOREM TypeCorrect == Spec => []TypeOK
  <1>1. IndInv => TypeOK BY DEF IndInv
  <1> QED BY <1>1, Invariance, PTL

\* Whatever the order in which handlers report successes and failures, a closed
\* circuit is below its failure threshold and only a half-open one has a probe.
THEOREM CircuitStaysConsistent == Spec => []CircuitConsistent
  <1>1. IndInv => CircuitConsistent BY DEF IndInv
  <1> QED BY <1>1, Invariance, PTL

\* A circuit that refuses requests because of a probe has a request that became
\* the probe in this phase and has not reported.
THEOREM ProbeIsAttributable == Spec => []ProbeAttributable
  <1>1. IndInv => ProbeAttributable BY DEF IndInv
  <1> QED BY <1>1, Invariance, PTL

\* With half_open_success_threshold 1, AllowAttempt and TryClaimProbe together
\* admit at most one request in a half-open phase.
THEOREM ProbesAreExclusive == Spec => []OneProbePerPhase
  <1>1. IndInv => OneProbePerPhase BY DEF IndInv
  <1> QED BY <1>1, Invariance, PTL
=============================================================================
