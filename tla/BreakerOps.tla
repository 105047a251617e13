----------------------------- MODULE BreakerOps -----------------------------
(***************************************************************************)
(* internal/breaker: the circuit of one provider.  Every method of         *)
(* ProviderCircuitState runs under its mutex, so a method is an operator   *)
(* from the circuit before the call to the circuit after it.               *)
(*                                                                         *)
(* Time enters only through now().Sub(lastStateChange) >= OpenTimeout while *)
(* the circuit is open: the field age is that difference in clock ticks,   *)
(* counted up to OpenTimeout.                                              *)
(***************************************************************************)
EXTENDS Integers

\* New: a closed circuit.
NewCircuit == [state |-> "closed", consecutiveFailures |-> 0, consecutiveSuccess |-> 0,
               age |-> 0, probing |-> FALSE]

\* transitionLocked
Transition(c, s) ==
    [c EXCEPT !.state = s,
              !.probing = FALSE,
              !.consecutiveSuccess = 0,
              !.consecutiveFailures = IF s = "closed" THEN 0 ELSE @,
              !.age = 0]

\* refreshLocked; State and Snapshot do this and read the result.
Refresh(c, cfg) ==
    IF c.state = "open" /\ c.age >= cfg.OpenTimeout THEN Transition(c, "half_open") ELSE c

\* Bug: the half-open circuit admits a request without looking at the probe.
MutProbeFree(c) == c.state = "half_open"

\* The half-open circuit has no probe in flight.
ProbeFree(c) == c.state = "half_open" /\ ~c.probing

\* A request becomes the probe.
Claim(c) == [c EXCEPT !.probing = TRUE]

\* Bug: the answer is that of the circuit before it became half-open.
MutAllows(c, cfg) == c.state = "closed" \/ ProbeFree(c)

\* AllowAttempt: its answer and the circuit it leaves.
Allows(c, cfg) == LET d == Refresh(c, cfg) IN d.state = "closed" \/ ProbeFree(d)
AllowAttempt(c, cfg) ==
    LET d == Refresh(c, cfg) IN IF ProbeFree(d) THEN Claim(d) ELSE d

\* TryClaimProbe: its answer and the circuit it leaves.
Claims(c, cfg) == ProbeFree(Refresh(c, cfg))
TryClaimProbe(c, cfg) ==
    LET d == Refresh(c, cfg) IN IF ProbeFree(d) THEN Claim(d) ELSE d

\* RecordSuccess does not refresh: a success reported to an open circuit leaves
\* it open.
RecordSuccess(c, cfg) ==
    LET d == [c EXCEPT !.consecutiveFailures = 0, !.probing = FALSE]
    IN  IF d.state # "half_open" THEN d
        ELSE LET e == [d EXCEPT !.consecutiveSuccess = @ + 1]
             IN  IF e.consecutiveSuccess >= cfg.HalfOpenSuccessThreshold
                 THEN Transition(e, "closed") ELSE e

\* Bug: the circuit opens one failure late.
MutRecordFailure(c, cfg) ==
    LET d == [c EXCEPT !.probing = FALSE, !.consecutiveSuccess = 0]
        e == [d EXCEPT !.consecutiveFailures = @ + 1]
    IN  CASE d.state = "half_open" -> Transition(d, "open")
          [] e.consecutiveFailures > cfg.FailureThreshold -> Transition(e, "open")
          [] OTHER -> e

\* RecordFailure does not refresh either: a failure reported to an open circuit
\* counts, and starts OpenTimeout again when the threshold is reached.
RecordFailure(c, cfg) ==
    LET d == [c EXCEPT !.probing = FALSE, !.consecutiveSuccess = 0]
        e == [d EXCEPT !.consecutiveFailures = @ + 1]
    IN  CASE d.state = "half_open" -> Transition(d, "open")
          [] e.consecutiveFailures >= cfg.FailureThreshold -> Transition(e, "open")
          [] OTHER -> e

\* One clock tick passes.
Age(c, cfg) ==
    IF c.state = "open" /\ c.age < cfg.OpenTimeout THEN [c EXCEPT !.age = @ + 1] ELSE c

-----------------------------------------------------------------------------
\* The values a circuit can have.
CircuitType == [state : {"closed", "open", "half_open"},
                consecutiveFailures : Nat, consecutiveSuccess : Nat,
                age : Nat, probing : BOOLEAN]

\* breaker.Config as New leaves it: a setting that is not positive was replaced
\* by its default.
ConfigType == [FailureThreshold : Nat \ {0}, OpenTimeout : Nat \ {0},
               HalfOpenSuccessThreshold : Nat \ {0}]

\* What the three states mean, as the methods maintain it: a closed circuit has
\* seen fewer consecutive failures than its threshold, only a half-open one has
\* a probe, and a half-open one is short of the successes that close it.
Consistent(c, cfg) ==
    /\ c.state = "closed" => c.consecutiveFailures < cfg.FailureThreshold
    /\ c.probing => c.state = "half_open"
    /\ c.state = "half_open" => c.consecutiveSuccess < cfg.HalfOpenSuccessThreshold
    /\ c.state = "open" => c.age <= cfg.OpenTimeout
=============================================================================
