----------------------------- MODULE Reconcile ------------------------------
(***************************************************************************)
(* The billing ledger and the reconciliation job that compares it with     *)
(* what the providers report: internal/ledger Store, internal/reconcile    *)
(* Job and Runner, Registry.Observe of internal/tokenizer and the ticker   *)
(* goroutine of cmd/streamguard.  Handlers go on recording while the job   *)
(* works on the copy Entries gave it.                                      *)
(***************************************************************************)
EXTENDS LedgerOps, FiniteSets, FiniteSetsExt, Functions

CONSTANTS Keys,
          Providers,
          Configured,     \* the providers of the configuration, by name
          LastPeriod,     \* bound: the billing periods are 1 .. LastPeriod
          Counts,         \* what a request may have delivered
          Reports,        \* what a provider may answer to GET /usage
          Threshold,      \* ThresholdPct, in whole percent
          MaxRecords,     \* bound: requests recorded
          MaxRuns         \* bound: ticks of the reconciliation ticker

ASSUME ReconcileAssumption ==
    /\ IsFiniteSet(Keys) /\ IsFiniteSet(Providers) /\ Configured \subseteq Providers
    /\ LastPeriod \in Nat \ {0}
    /\ Counts \subseteq Nat /\ Reports \subseteq Nat
    /\ Threshold \in Nat /\ MaxRecords \in Nat /\ MaxRuns \in Nat

\* The keys of Store.entries.  An entry nobody created yet is an empty one:
\* Run skips it and it adds nothing to a Summary.
Accounts == Keys \X (1 .. LastPeriod)

VARIABLES period,     \* the billing period of the wall clock
          entries,    \* Store.entries
          streak,     \* Registry: ConsecutiveAboveThreshold
          job,        \* the locals of Job.Run and its goroutine
          stopped,    \* runCtx is cancelled
          tick,       \* runs started; the time stamp of a run
          recorded,   \* ghost: per key, the requests and tokens recorded
          audit       \* ghost: per account, what its drift flag rests on

vars == <<period, entries, streak, job, stopped, tick, recorded, audit>>

-----------------------------------------------------------------------------
\* The operations of the job.

\* Job.Apply: the drift, relative to what the provider reports, is above the
\* threshold; a provider that reports nothing has none.
Above(local, reported) ==
    LET d == IF local > reported THEN local - reported ELSE reported - local
    IN  reported > 0 /\ d * 100 > Threshold * reported

\* Registry.Observe: drifts in a row; it reports a suspicion from 3 on.
Observe(n, above) == IF above THEN n + 1 ELSE 0

Idle == [pc |-> "idle", todo |-> {}, left |-> {}, flag |-> FALSE,
         cur |-> <<>>, snap |-> <<>>, answers |-> {}]

\* The providers Run asks for an account: those with local tokens that the
\* configuration still names.
Asked(snapshot, a) == {p \in Configured : snapshot[a].providerTokens[p] > 0}

\* The accounts of a snapshot that have any provider tokens at all.
Open(snapshot) == {a \in Accounts : \E p \in Providers : snapshot[a].providerTokens[p] > 0}

\* Bug: the job writes back its copy of the entry with the verdict.
MutWriteBack(a, flag) == UpsertReconciliation(job.snap[a], tick, flag)

\* What the job makes of an account's entry.
WriteBack(a, flag) == UpsertReconciliation(entries[a], tick, flag)

Init == /\ period = 1
        /\ entries = [a \in Accounts |-> NewEntry(Providers)]
        /\ streak = [p \in Providers |-> 0]
        /\ job = Idle
        /\ stopped = FALSE
        /\ tick = 0
        /\ recorded = [k \in Keys |-> [requests |-> 0, tokens |-> 0, truncated |-> 0]]
        /\ audit = [a \in Accounts |-> [at |-> 0, whole |-> FALSE, answers |-> {}, local |-> <<>>]]

-----------------------------------------------------------------------------
\* The clock enters the next billing period.
Roll == /\ period < LastPeriod
        /\ period' = period + 1
        /\ UNCHANGED <<entries, streak, job, stopped, tick, recorded, audit>>

\* A handler records the end of a request (the provider is None when there was
\* no attempt).
Record(k, p, n, truncated) ==
    /\ SumFunction([j \in Keys |-> recorded[j].requests]) < MaxRecords
    /\ p = None => n = 0
    /\ entries' = [entries EXCEPT ![<<k, period>>] = RecordTerminal(@, p, n, truncated)]
    /\ recorded' = [recorded EXCEPT ![k] = [requests |-> @.requests + 1, tokens |-> @.tokens + n,
                                             truncated |-> @.truncated + IF truncated THEN 1 ELSE 0]]
    /\ UNCHANGED <<period, streak, job, stopped, tick, audit>>

\* Entries: a copy of every entry, taken under the lock.
Entries == entries

\* The ticker: RunOnce takes the time and a copy of the ledger.  With runCtx
\* cancelled as well, select may still choose the tick.
Start == /\ job.pc = "idle"
         /\ tick < MaxRuns
         /\ tick' = tick + 1
         /\ job' = [Idle EXCEPT !.pc = "run", !.todo = Open(Entries), !.snap = Entries]
         /\ UNCHANGED <<period, entries, streak, stopped, recorded, audit>>

\* Run turns to the next entry; Entries returned them in no particular order.
PickEntry(a) == /\ job.pc = "run"
                /\ a \in job.todo
                /\ job' = [job EXCEPT !.pc = "entry", !.cur = a, !.todo = @ \ {a},
                                      !.left = Asked(job.snap, a), !.flag = FALSE,
                                      !.answers = {}]
                /\ UNCHANGED <<period, entries, streak, stopped, tick, recorded, audit>>

\* The ghost entry of the account at hand: the time of the write, whether the pass
\* is complete, the answers the verdict is on and the billing they were compared to.
Basis(whole, answers) == [at |-> tick, whole |-> whole, answers |-> answers,
                          local |-> job.snap[job.cur].providerTokens]

\* A provider answers n tokens: Apply writes the verdict on this provider alone into
\* the entry and counts it for the tokenizer.
Apply(p, n) ==
    /\ job.pc = "entry"
    /\ p \in job.left
    /\ LET above == Above(job.snap[job.cur].providerTokens[p], n)
       IN  /\ entries' = [entries EXCEPT ![job.cur] = WriteBack(job.cur, above)]
           /\ streak' = [streak EXCEPT ![p] = Observe(@, above)]
           /\ job' = [job EXCEPT !.left = @ \ {p}, !.flag = @ \/ above,
                                 !.answers = @ \cup {<<p, n>>}]
    /\ audit' = [audit EXCEPT ![job.cur] = Basis(FALSE, {<<p, n>>})]
    /\ UNCHANGED <<period, stopped, tick, recorded>>

\* Bug: a run that failed is started over until it goes through.
MutAfterError == [job EXCEPT !.pc = "run", !.todo = Open(job.snap)]

\* An error ends the run; entries already written stay as they are.
AfterError == Idle

\* The request fails, times out or is cancelled.
FetchFails == /\ job.pc = "entry"
              /\ job.left # {}
              /\ job' = AfterError
              /\ UNCHANGED <<period, entries, streak, stopped, tick, recorded, audit>>

\* Bug: the verdict on the last provider stands for the entry.
MutVerdict == entries[job.cur].driftFlag

\* The verdict on the entry: any provider drifted.
Verdict == job.flag

\* All providers of the entry were asked.
EntryDone ==
    /\ job.pc = "entry"
    /\ job.left = {}
    /\ entries' = [entries EXCEPT ![job.cur] = WriteBack(job.cur, Verdict)]
    /\ job' = [job EXCEPT !.pc = "run"]
    /\ audit' = [audit EXCEPT ![job.cur] = Basis(TRUE, job.answers)]
    /\ UNCHANGED <<period, streak, stopped, tick, recorded>>

\* Bug: a run is over after its first entry.
MutRunOver == job.pc = "run" /\ Cardinality(job.todo) < Cardinality(Open(job.snap))

\* The loop over the entries is through.
RunOver == job.pc = "run" /\ job.todo = {}

RunDone == /\ RunOver
           /\ job' = [Idle EXCEPT !.snap = job.snap]
           /\ UNCHANGED <<period, entries, streak, stopped, tick, recorded, audit>>

\* The signal handler of main: stopBackground.
Stop == /\ ~stopped
        /\ stopped' = TRUE
        /\ UNCHANGED <<period, entries, streak, job, tick, recorded, audit>>

\* The goroutine returns.
Leave == /\ stopped
         /\ job.pc = "idle"
         /\ job' = [job EXCEPT !.pc = "gone"]
         /\ UNCHANGED <<period, entries, streak, stopped, tick, recorded, audit>>

\* Nothing is left to happen within the bounds.
Gone == job.pc = "gone" /\ UNCHANGED vars

Handler == \E k \in Keys, p \in Providers \cup {None}, n \in Counts \cup {0}, truncated \in BOOLEAN :
              Record(k, p, n, truncated)
Working == \/ \E a \in Accounts : PickEntry(a)
           \/ \E p \in Providers, n \in Reports : Apply(p, n)
           \/ FetchFails
           \/ EntryDone
           \/ RunDone
Next == Roll \/ Handler \/ Start \/ Working \/ Stop \/ Leave \/ Gone

SafeSpec == Init /\ [][Next]_vars

\* A run goes on (the client of the fetcher has a timeout), and select, which
\* chooses at random, finds the cancelled context in the end.
Spec == SafeSpec /\ WF_vars(Working) /\ SF_vars(Leave)

-----------------------------------------------------------------------------
\* Store.Summary, what GET /usage/{key} reports.
Summary(k) ==
    [tokensBilled |-> SumFunction([t \in 1 .. LastPeriod |-> entries[<<k, t>>].tokensBilled]),
     truncatedRequests |-> SumFunction([t \in 1 .. LastPeriod |-> entries[<<k, t>>].truncatedRequests]),
     driftFlag |-> \E t \in 1 .. LastPeriod : entries[<<k, t>>].driftFlag,
     lastReconciledAt |-> Max({entries[<<k, t>>].lastReconciledAt : t \in 1 .. LastPeriod})]

-----------------------------------------------------------------------------
\* The types; the billing of an entry is the sum of what its providers delivered.
TypeOK ==
    /\ period \in 1 .. LastPeriod
    /\ \A a \in Accounts :
          LET e == entries[a]
          IN  /\ e.tokensBilled = SumFunction(e.providerTokens)
              /\ e.lastReconciledAt \in 0 .. MaxRuns
              /\ e.driftFlag \in BOOLEAN
    /\ streak \in [Providers -> Nat]
    /\ job.pc \in {"idle", "run", "entry", "gone"}
    /\ job.todo \subseteq Accounts /\ job.left \subseteq Configured
    /\ stopped \in BOOLEAN /\ tick \in 0 .. MaxRuns

\* Handlers record while the job writes verdicts computed from an older copy:
\* no write of the job loses a token, and the usage endpoint reports every
\* request ever recorded for the key, over all periods.  In every entry the tokens
\* of the providers make up what is billed (TypeOK).
SummaryCountsEverything ==
    /\ TypeOK
    /\ \A k \in Keys : /\ Summary(k).tokensBilled = recorded[k].tokens
                       /\ Summary(k).truncatedRequests = recorded[k].truncated

\* What the drift flag of an account says, at every moment.  After a complete pass it
\* is set exactly when some provider was off by more than the threshold, of all that
\* the billing the pass started from names.  In the middle of a pass, and for good
\* when a failing fetch breaks the pass off, it is the verdict on a single provider,
\* the one that answered last, whatever the others answered before.
FlagIsVerdict ==
    \A a \in Accounts :
        LET x == audit[a] IN
        /\ entries[a].driftFlag <=> \E y \in x.answers : Above(x.local[y[1]], y[2])
        /\ entries[a].lastReconciledAt = x.at
        /\ IF x.whole
           THEN \A p \in Configured : x.local[p] > 0 => \E n \in Reports : <<p, n>> \in x.answers
           ELSE \A y, z \in x.answers : y = z

\* A run that ended without an error has made a complete pass over every account
\* that had provider tokens when it took its copy.
CompleteRunsCoverAll ==
    job.pc = "idle" /\ job.snap # <<>> =>
        \A a \in Open(job.snap) : entries[a].lastReconciledAt = tick /\ audit[a].whole

\* Once the background work is told to stop, the job's goroutine ends, however
\* the providers answer.
JobStops == stopped ~> (job.pc = "gone")
=============================================================================
