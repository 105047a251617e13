------------------------------- MODULE Chaos -------------------------------
(***************************************************************************)
(* chaos: the harness that runs concurrent streams through the gateway     *)
(* against two mock providers, reconciles and compares what was billed     *)
(* with what its scenarios should cost.  The gateway is reduced to what    *)
(* module Stream shows of it: providers in order, the last attempt billed. *)
(* The circuits (threshold 1000) and the budget (100000 tokens) are out of *)
(* the harness's reach.  The silent-hang deadline is 15 ms and the mocks   *)
(* pause for 2 to 4 ms between tokens: on a busy machine the deadline may  *)
(* pass although the mock is not hanging, which is a misfire here.         *)
(***************************************************************************)
EXTENDS MockUpstream, LedgerOps, CalibrationOps, Functions

CONSTANTS Streams,       \* concurrent streams
          Runs,          \* ReconciliationRuns
          MaxCuts        \* bound on attempts cut short

ASSUME ChaosAssumption == IsFiniteSet(Streams) /\ Runs \in Nat /\ MaxCuts \in Nat

Upstreams == {"openai", "anthropic"}
Reasons == {"dead_socket", "silent_hang", "malformed"}

\* scenarios: what a stream of the model should cost and how it should go.
Scenario(billed, truncated, failures) ==
    [expectedBilled |-> billed, truncated |-> truncated, failures |-> failures]
Scenarios == [success    |-> Scenario(10, FALSE, {}),
              deadSocket |-> Scenario(6, FALSE, {"dead_socket"}),
              silentHang |-> Scenario(8, FALSE, {"silent_hang"}),
              malformed  |-> Scenario(7, FALSE, {"malformed"}),
              exhausted  |-> Scenario(6, TRUE, {"dead_socket"})]
Models == DOMAIN Scenarios

Options(tokens, failure, failAfter) ==
    [tokens |-> tokens, failure |-> failure, failAfter |-> failAfter]

\* The two mock servers.
Server == [openai |->
             [options |-> Options(10, NoFailure, 0), offsetPct |-> 0,
              perModel |-> [success    |-> Options(10, NoFailure, 0),
                            deadSocket |-> Options(10, "dead_socket", 4),
                            silentHang |-> Options(10, "silent_hang", 5),
                            malformed  |-> Options(10, "malformed", 3),
                            exhausted  |-> Options(10, "dead_socket", 4)]],
           anthropic |->
             [options |-> Options(10, NoFailure, 0), offsetPct |-> 25,
              perModel |-> [success    |-> Options(10, NoFailure, 0),
                            deadSocket |-> Options(6, NoFailure, 0),
                            silentHang |-> Options(8, NoFailure, 0),
                            malformed  |-> Options(7, NoFailure, 0),
                            exhausted  |-> Options(6, "malformed", 6)]]]

VARIABLES pc,        \* where each stream is: at a provider, done or cancelled
          model,     \* its scenario
          mock,      \* per stream and provider: whether the mock still owes its usage
          body,      \* what the client is sent: failover reasons, and gateway_truncated
          cut,       \* ghost: providers whose attempt the gateway gave up before its
                     \* script was over: at a misfire, or when the client was gone
          errs,      \* streams whose invokeStream returned an error
          entry,     \* the ledger entry of the harness's key
          usage,     \* usage of each mock server
          run,       \* runs of the reconciliation left, providers left in this one
          samples,   \* drift samples
          harness    \* how far Run is

chaosVars == <<pc, model, mock, body, cut, errs, entry, usage, run, samples, harness>>

\* The selection of a scenario for every stream.
ChaosInit == /\ model \in [Streams -> Models]
             /\ pc = [s \in Streams |-> "openai"]
             /\ mock = [s \in Streams |-> [p \in Upstreams |-> "none"]]
             /\ body = [s \in Streams |-> [reasons |-> {}, truncated |-> FALSE]]
             /\ cut = [s \in Streams |-> {}]
             /\ errs = {}
             /\ entry = NewEntry(Upstreams)
             /\ usage = [p \in Upstreams |-> 0]
             /\ run = [left |-> Runs, todo |-> {}]
             /\ samples = <<>>
             /\ harness = "streams"

OptionsOf(s, p) == Snapshot(Server[p], model[s])

-----------------------------------------------------------------------------
\* The streams.

\* The mock goes on for itself once the attempt is over for the gateway.
MockGoesOn(s, p) == mock' = [mock EXCEPT ![s][p] = "running"]

\* The attempt at p failed after n tokens: failover to the second provider, or the
\* truncated stream is billed.
Fail(s, p, n, why) ==
    IF p = "openai"
    THEN /\ pc' = [pc EXCEPT ![s] = "anthropic"]
         /\ body' = [body EXCEPT ![s].reasons = @ \cup {why}]
         /\ UNCHANGED entry
    ELSE /\ pc' = [pc EXCEPT ![s] = "done"]
         /\ body' = [body EXCEPT ![s].truncated = TRUE]
         /\ entry' = RecordTerminal(entry, p, n, TRUE)

\* The mock's script runs to its end.
Scripted(s) ==
    LET p == pc[s]
        o == OptionsOf(s, p)
    IN
    /\ p \in Upstreams
    /\ \/ Fails(o) /\ Fail(s, p, Content(o), o.failure)
       \/ /\ ~Fails(o)
          /\ pc' = [pc EXCEPT ![s] = "done"]
          /\ entry' = RecordTerminal(entry, p, Content(o), FALSE)
          /\ UNCHANGED body
    /\ MockGoesOn(s, p)
    /\ UNCHANGED <<model, cut, errs, usage, run, samples, harness>>

\* Bug: a failed-over stream is billed for what the first provider delivered.
MutMisfire(s, n) ==
    LET p == pc[s] IN
    /\ p \in Upstreams
    /\ n \in 0 .. Content(OptionsOf(s, p))
    /\ SumFunctionOnSet([t \in Streams |-> Cardinality(cut[t])], Streams) < MaxCuts
    /\ pc' = [pc EXCEPT ![s] = IF p = "openai" THEN "anthropic" ELSE "done"]
    /\ body' = [body EXCEPT ![s] = [reasons |-> @.reasons \cup {"silent_hang"},
                                    truncated |-> p = "anthropic"]]
    /\ entry' = RecordTerminal(entry, p, n, p = "anthropic")
    /\ MockGoesOn(s, p)
    /\ cut' = [cut EXCEPT ![s] = @ \cup {p}]
    /\ UNCHANGED <<model, errs, usage, run, samples, harness>>

\* The deadline passes between two frames of a mock that does not hang.
Misfire(s, n) ==
    LET p == pc[s] IN
    /\ p \in Upstreams
    /\ n \in 0 .. Content(OptionsOf(s, p))
    /\ SumFunctionOnSet([t \in Streams |-> Cardinality(cut[t])], Streams) < MaxCuts
    /\ Fail(s, p, n, "silent_hang")
    /\ MockGoesOn(s, p)
    /\ cut' = [cut EXCEPT ![s] = @ \cup {p}]
    /\ UNCHANGED <<model, errs, usage, run, samples, harness>>

\* The mock's handler returns; a stream that reached [DONE] is counted only now.
MockEnds(s, p) ==
    /\ mock[s][p] = "running"
    /\ mock' = [mock EXCEPT ![s][p] = "over"]
    /\ usage' = [usage EXCEPT ![p] = @ + Charged(OptionsOf(s, p))]
    /\ UNCHANGED <<pc, model, body, cut, errs, entry, run, samples, harness>>

\* invokeStream fails: the connection breaks, or the answer is not a stream.  A request
\* that is not over is cancelled with its connection and not billed; only a write to
\* the client that fails at the last provider (a dead_socket there) ends it truncated.
\* (At the first provider such a write is a failover, and for all that follows like a
\* misfire: the reason it leaves is in a body nobody reads.)
\* The mock was reached by then, or it was not.
StreamError(s, n) ==
    LET p == pc[s] IN
    /\ harness = "streams" /\ s \notin errs
    /\ errs' = errs \cup {s}
    /\ \/ p = "done" /\ n = 0 /\ UNCHANGED <<pc, mock, body, cut, entry>>
       \/ /\ p \in Upstreams /\ n = 0
          /\ pc' = [pc EXCEPT ![s] = "cancelled"]
          /\ cut' = [cut EXCEPT ![s] = @ \cup {p}]
          /\ MockGoesOn(s, p) \/ UNCHANGED mock
          /\ UNCHANGED <<body, entry>>
       \/ /\ p = "anthropic" /\ n \in 0 .. Content(OptionsOf(s, p))
          /\ Fail(s, p, n, "dead_socket")
          /\ MockGoesOn(s, p)
          /\ cut' = [cut EXCEPT ![s] = @ \cup {p}]
    /\ UNCHANGED <<model, usage, run, samples, harness>>

-----------------------------------------------------------------------------
\* The harness.

\* Bug: the scenario is not asked whether it should have been truncated.
MutMissing(s) == ~body[s].truncated

\* A stream that should have been truncated and was not is an error.
Missing(s) == Scenarios[model[s]].truncated /\ ~body[s].truncated

\* wg.Wait, and the errors of the goroutines.
Wait ==
    /\ harness = "streams"
    /\ \A s \in Streams : pc[s] \in {"done", "cancelled"}
    /\ harness' = IF \E s \in Streams : s \in errs \/ Missing(s) THEN "failed" ELSE "reconcile"
    /\ UNCHANGED <<pc, model, mock, body, cut, errs, entry, usage, run, samples>>

\* RunOnce begins: the providers with tokens in the ledger.
StartRun ==
    /\ harness = "reconcile"
    /\ run.todo = {} /\ run.left > 0
    /\ run' = [left |-> run.left - 1, todo |-> {p \in Upstreams : entry.providerTokens[p] > 0}]
    /\ UNCHANGED <<pc, model, mock, body, cut, errs, entry, usage, samples, harness>>

\* The drift of Job.Apply in hundredths of a percent.
Drift(local, reported) ==
    LET d == IF local > reported THEN local - reported ELSE reported - local
    IN  IF reported > 0 THEN (d * 10000) \div reported ELSE 0

\* A provider is asked for its usage and Apply takes a sample.  (The verdict it
\* writes to the ledger is in module Reconcile.)
Compare(p) ==
    /\ harness = "reconcile"
    /\ p \in run.todo
    /\ run' = [run EXCEPT !.todo = @ \ {p}]
    /\ samples' = Sample(samples, Drift(entry.providerTokens[p], Reported(usage[p], Server[p].offsetPct)))
    /\ UNCHANGED <<pc, model, mock, body, cut, errs, entry, usage, harness>>

\* FetchUsage fails (the client waits for 2 s) and RunOnce ends Run with its error; the
\* samples already taken stay.
RunFails(p) ==
    /\ harness = "reconcile"
    /\ p \in run.todo
    /\ harness' = "failed"
    /\ UNCHANGED <<pc, model, mock, body, cut, errs, entry, usage, run, samples>>

\* All runs are over: Result.
Report ==
    /\ harness = "reconcile"
    /\ run.todo = {} /\ run.left = 0
    /\ harness' = "reported"
    /\ UNCHANGED <<pc, model, mock, body, cut, errs, entry, usage, run, samples>>

Ended == harness \in {"failed", "reported"} /\ UNCHANGED chaosVars

Stream(s) == Scripted(s) \/ \E n \in 0 .. 10 : Misfire(s, n)
Mocks == \E s \in Streams, p \in Upstreams : MockEnds(s, p)
Harness == \/ Wait \/ StartRun \/ Report
           \/ \E p \in Upstreams : Compare(p) \/ RunFails(p)

ChaosNext == \/ \E s \in Streams : Stream(s) \/ \E n \in 0 .. 10 : StreamError(s, n)
             \/ Mocks \/ Harness \/ Ended

\* Streams, mocks and the harness are goroutines that keep running: every attempt
\* ends, by its script or by the deadline.  Nothing promises an error or excludes it.
ChaosSpec == /\ ChaosInit /\ [][ChaosNext]_chaosVars
             /\ \A s \in Streams : WF_chaosVars(Stream(s))
             /\ WF_chaosVars(Mocks) /\ WF_chaosVars(Harness)

-----------------------------------------------------------------------------
SumOver(f(_), S) == SumFunctionOnSet([s \in Streams |-> f(s)], S)

\* Result.ExpectedBilled
ExpectedBilled == SumOver(LAMBDA s : Scenarios[model[s]].expectedBilled, Streams)

\* Types; the counters of the harness stay in their ranges.
ChaosTypeOK ==
    /\ pc \in [Streams -> Upstreams \cup {"done", "cancelled"}]
    /\ errs \subseteq Streams
    /\ \A s \in Streams, p \in Upstreams : mock[s][p] \in {"none", "running", "over"}
    /\ \A s \in Streams : body[s].reasons \subseteq Reasons /\ cut[s] \subseteq Upstreams
    /\ entry.tokensBilled = entry.providerTokens["openai"] + entry.providerTokens["anthropic"]
    /\ run.left \in 0 .. Runs /\ run.todo \subseteq Upstreams
    /\ Len(samples) <= Cardinality(Upstreams) * Runs
    /\ harness \in {"streams", "reconcile", "reported", "failed"}

\* "expected billed != actual billed" is never the gateway's arithmetic: in a report
\* the two differ only when the deadline cut the second provider of a stream, and then
\* too little is billed.  A misfire at the first provider costs nothing.  Without
\* misfires every scenario shows exactly the failures it lists; with them the only
\* reason that can be too many is silent_hang.  A stream whose client broke off, which
\* may be billed for less as well, never enters a report.
MismatchIsMisfire == harness = "reported" =>
    /\ errs = {}
    /\ entry.tokensBilled <= ExpectedBilled
    /\ entry.tokensBilled # ExpectedBilled => \E s \in Streams : "anthropic" \in cut[s]
    /\ \A s \in Streams :
          /\ cut[s] = {} => body[s].reasons = Scenarios[model[s]].failures
          /\ body[s].reasons \subseteq Scenarios[model[s]].failures \cup {"silent_hang"}

\* What separates the ledger from a provider's usage, at any moment: streams billed
\* at the provider that it did not count (truncated, or its count still to come), and
\* streams it counted although the gateway had given up on them.  The ledger entry is
\* the sum of its providers throughout (ChaosTypeOK).
BilledAt(s, p) == pc[s] = "done" /\ (p = "anthropic" <=> mock[s]["anthropic"] # "none")
Counted(s, p) == IF mock[s][p] = "over" THEN Charged(OptionsOf(s, p)) ELSE 0
DriftExplained == ChaosTypeOK /\ \A p \in Upstreams :
    LET complete == {s \in Streams : BilledAt(s, p) /\ ~body[s].truncated /\ mock[s][p] = "over"}
        uncounted == {s \in Streams : BilledAt(s, p) /\ ~body[s].truncated /\ mock[s][p] = "running"}
        truncated == {s \in Streams : BilledAt(s, p) /\ body[s].truncated}
        abandoned == {s \in Streams : p \in cut[s] /\ mock[s][p] = "over"}
    IN  /\ usage[p] = SumOver(LAMBDA s : Counted(s, p), complete \cup abandoned)
        /\ truncated \cup uncounted = {} =>
              usage[p] = entry.providerTokens[p] + SumOver(LAMBDA s : Counted(s, p), abandoned)

\* Percentile is the nearest rank: the least sample that at least pct of a hundred
\* samples do not exceed.
PercentileIsNearestRank == samples # <<>> => \A pct \in {0, 1, 50, 51, 95, 99, 100} :
    LET AtMost(v) == Cardinality({i \in DOMAIN samples : samples[i] <= v})
        enough == {v \in ToSet(samples) : AtMost(v) * 100 >= pct * Len(samples)}
    IN  /\ Percentile(samples, pct) \in enough
        /\ \A v \in enough : Percentile(samples, pct) <= v

\* Run returns: with a report, or with an error it met, of a stream's connection or of a
\* provider's usage.  Whatever the deadline does, no stream that went through is taken
\* for one that lost its gateway_truncated event.
HarnessEnds == <>(\/ harness = "reported"
                  \/ harness = "failed" /\ (errs # {} \/ run.todo # {}))
=============================================================================
