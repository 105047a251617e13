# StreamGuard: a TLA+ development

StreamGuard is a Go reverse proxy for streaming LLM requests. It watches the
upstream's stream, fails over to the next provider when the stream breaks, and
accounts for tokens per API key. This directory holds TLA+ modules for its
concurrent core and for what surrounds it (startup, dialing, the chaos harness,
the reference client), TLC runs that check them on small instances, and TLAPS
proofs of every safety property and every refinement that the runs check.

`PROJECT.json` lists the components, the runs, the mutants, the source lines
each definition models, the hazards and the findings.

## 1. The system

| Component | State | Operations | Correct when |
|---|---|---|---|
| stream handler (`server.go` `handleStream`, `runAttempt`, `nextAttemptableProvider`) | locals of each handler: loop index, tokens of the attempt, claimed probes, context | admission, provider loop, forward, usage, failover, truncation, cancellation | only final attempts are billed, the account agrees with the ledger, the wire protocol is kept, the request ends |
| circuit breaker (`breaker.go`) | state, two counters, time of the last change, `probing`; one per provider, shared by all handlers | `State`, `AllowAttempt`, `TryClaimProbe`, `RecordSuccess`, `RecordFailure`, `Snapshot` | fields agree, one probe per half-open phase, a probe in flight belongs to somebody |
| token account (`budget.go`) | `TokensUsed`, shared without a lock | `TryReserve`, `Release`, `Exhausted` | the budget is never passed, no update is lost |
| key store (`auth.go`) | keys, budget periods | `LoadKeysFile`, `Add`, `LookupRaw`, `ResetExpired` (every minute) | every key has the record its entry describes, a reset never leaves a key overcharged |
| rate limiter (`ratelimit.go`) | events of the window per key | `Admit`, `Add` | the current window is exact whatever times callers pass, and every admission finds it below the limit |
| parser (`parser.go`) | read buffer; per call of `Next` a goroutine, a timer and two channels | `Next` | frames in order, a hang is a real silence, every outcome has its cause, no goroutine stays behind |
| ledger (`ledger.go`) | entry per key and billing period | `RecordTerminal`, `UpsertReconciliation`, `Entries`, `Summary` | nothing recorded is lost |
| reconciliation job (`reconcile.go`, `main.go`) | its copy of the ledger, verdicts, drift streaks | `RunOnce`, `Apply`, `Observe` | a flag is a verdict on the answers of one pass, over all providers when the pass was complete |
| shutdown (`main.go`, `server.go`) | `draining`, the drain timer, the session table | `BeginShutdown`, `registerSession`, `releaseSession`, `forceCloseActive` | the process ends, and nobody the timer should cut is missed |
| configuration (`config.go`) | the parser's section, item and override flags; the `Config` | `parseFile`, `Validate`, `BreakerConfigFor`, `Load` | what loads is what the file says or a default, and satisfies what the other components assume |
| upstream dialing (`server.go`; the job's client in `main.go`) | none | `upstreamRequest`, `validatedDialAddress`, `FetchUsage` | the server connects to a real provider only at an address that was checked |
| mock upstream and chaos harness (`mockupstream.go`, `chaos/harness.go`) | scripts, usage counts; the harness's totals | `stream`, `usageHandler`, `Run` | a reported difference has a cause outside the gateway, and a run ends with a report or an error it met |
| calibration (`calibration.go`) | samples | `Sample`, `Percentile` | the nearest rank |
| reference client (`client-ref/main.go`) | what is on the screen | the read loop | the last block is what is billed |
| tokenizer counting | | `Count` | not modelled, see section 7 |

Handlers are goroutines. They interact only through shared objects: breakers
(one mutex each), token accounts (atomics), the limiter and the ledger (a mutex
each) and the session table. Two more goroutines, the budget resetter and the
reconciliation ticker, and the timers of shutdown touch the same objects. What
is hard is what happens between two accesses: an answer of a breaker is stale
when it is used, a report arrives in another half-open phase than its attempt
began in, a reset happens under a running reservation, a session registers
behind a drain that is already over, a verdict is computed from an old copy, a
timer and a byte become ready together, a time is read before a lock and used
after it, a line parser carries a flag from one entry into the next.

## 2. Modules

| Module | Models | Used by |
|---|---|---|
| `BudgetAtomic` | what a token account promises (abstract) | `Budget` |
| `Budget` | `TryReserve` and `Release` step by step, the resetter | `BudgetProofs`, `MCBudget` |
| `BreakerOps` | the methods of a circuit, as operators | `Breaker`, `Stream` |
| `Breaker` | one circuit and the requests that use it | `BreakerProofs`, `MCBreaker` |
| `LedgerOps` | the methods of a ledger entry | `Stream`, `Reconcile` |
| `WireProtocol` | what a client is promised about its stream (abstract) | `StreamWire` |
| `Stream` | the handler with every shared object: the composition | `StreamWire` |
| `StreamWire` | the mapping of the handlers' streams to `WireProtocol` | `StreamProofs`, `MCStream` |
| `Shutdown` | main goroutine, drain timer, session table | `ProcessProofs`, `MCShutdown` |
| `Reconcile` | ledger, job and handlers that record | `ReconcileProofs`, `MCReconcile` |
| `FrameOps` | what a frame of either format means, and `classify` | `Parser` |
| `Parser` | one attempt: `Next`, its goroutine, timer and channels | `ParserProofs`, `MCParser` |
| `RateWindow` | what the limiter promises, in the form `Stream` uses it (abstract) | `RateLimit` |
| `RateLimit` | `Admit`, `Add`, `pruneLocked` with times read before the lock | `RateLimitProofs`, `MCRateLimit` |
| `ClientOps` | what the reference client shows of a stream | `Stream` |
| `UpstreamOps` | the address checks of `config` and `server` | `Config`, `Startup` |
| `Config` | `config.yaml` line by line, validation | `Startup` |
| `KeysFile` | `keys.yaml` line by line into the key store | `Startup` |
| `Startup` | `main` up to serving, then the connections of server and job: composes the three above | `ProcessProofs`, `MCStartup` |
| `MockUpstream` | what a mock does with a request | `Chaos` |
| `CalibrationOps` | samples and percentiles | `Chaos` |
| `Chaos` | `chaos.Run` over two mocks and a reduced gateway | `ReconcileProofs`, `MCChaos` |
| `SumTheorems` | facts about the library's `SumFunctionOnSet` | the `...Proofs` modules |

A module `XProofs` holds the theorems about module `X`, a module `MCX` its
instances for TLC. `ProcessProofs` is about `Startup` and `Shutdown`, the two ends
of the process; `ReconcileProofs` is about `Reconcile` and about `Chaos`, which
compares the same ledger with its mocks.

Definitions keep the code's names (`AllowAttempt`, `RecordTerminal`,
`forceCloseActive` is `ForceCloseActive`). A definition called `Mut...` is a
plausible bug of the definition after it and is used by no specification; each
property is shown to fail when the bug replaces the real definition.

**Steps.** Under a mutex a method is one step. In `Budget` a load and a
compare-and-swap are each a step; `Stream` uses the atomic form, which is what
`Linearizable` justifies. A step of a handler in `Stream` ends with the shared
access whose answer it acts on; a following write to another object that decides
nothing (the limiter's `Add`, the ledger after the breaker) belongs to it.

**Time.** `age` in a circuit, `elapsed` in `Budget` and `timer` in `Parser` are
clock ticks counted up to the only threshold the code compares them with. In
`Parser` time passes only when no goroutine has something to do, so `select`
races are races within one instant. The context of `httpSrv.Shutdown` has the
same timeout as the drain timer and is created after it, so `Shutdown` lets it
expire only when the timer is no longer armed.

**Data.** A content frame is its number of tokens, a usage frame its count, a
gateway event a record of the fields the properties read. In `FrameOps` a frame
is its event line and the kind of its payload. A byte is one in the middle of a
frame or the one that completes it. Drift is compared in whole percent,
`|local - reported| * 100 > Threshold * reported`; the samples of `Chaos` are in
hundredths of a percent. Sums of `TokensUsed` wrap around at `MaxInt`. The
limiter's list is the tokens it holds per instant: the code looks neither at its
order nor at how many events carry them. A line of a file is its kind, its key
and its value, with a flag for text that should be a number and is none. The two
sorts (`sort.Slice` of the providers, `sort.Float64s` of the samples) put an
element at the place that the number of smaller elements gives it.

**Ghosts.** `Config` and `KeysFile` carry, beside what the parser builds, what
YAML takes the same lines to say (`meant`, `described`), so that "loaded" can be
compared with "written". `Config` reads only lines an operator would write at
that place (`Written`): an unknown key or a value given twice is not explored. A
threshold may stand in an item without an override block, or behind its block;
YAML takes the first to mean nothing and the second to belong to the block.
`audit` in `Reconcile` remembers the pass an account's flag comes from, `since` in
`RateLimit` the tokens added since the last admission, `cut` in `Chaos` the attempts
that were given up before their script was over, `client` in `Parser` that the
attempt ended on a failed write.

**External.** Clock, upstream bodies, departing clients and the timers of the
runtime are modelled from how the code uses them.

## 3. Runs that pass

Bounds are in the `.cfg` files; constants named `Max...` and `LastPeriod` bound
exploration, they are no part of the system.

| Run | Checks | Bounds and why they are enough |
|---|---|---|
| `budget` | `UsedWithinBudget`, `UsedIsOutstanding`, `ImplementsAtomic`, `SomeCallReturns` | three handlers, so that two can disturb a third between load and swap; a budget two chunks fill; one reset; the largest integer is the budget plus the largest chunk, the least the assumption allows |
| `breaker` | `CircuitConsistent`, `OneProbePerPhase`, `ProbeAttributable`, `NoLockout` | five requests: two open the circuit, one reports late, two compete for a probe |
| `stream` | `BooksAgree`, `ProbesAccountedFor`, `ClientIsTold`, `ImplementsWireProtocol` | two requests of a key with budget 2, two providers whose circuits open at the first failure, one departing client, a shutdown: every pair of a handler's steps is interleaved with every other handler's |
| `stream_keys` | `BooksAgree` and `AttemptsFollowPriority` over several keys | an unrestricted key, one without the first provider, one without any, one unknown; frames of 2 tokens corrected to 1 by a usage frame; one budget reset in mid-stream |
| `stream_live` | `CancelledRequestsEnd`, `RequestsEnd` | two requests, a forced shutdown (the only cancellation here: clients leave in `stream`), silent upstreams, a limiter that the first delivered frame saturates |
| `shutdown` | `ForceReachesAll`, `CloseOnlyCutsLateSessions`, `ShutdownEnds` | three sessions: one that ends, one that is cut, one that comes late |
| `reconcile` | `SummaryCountsEverything`, `FlagIsVerdict`, `CompleteRunsCoverAll`, `JobStops` | a key, two periods, two providers, three requests, two runs; an answer may be nothing or what was recorded by one request |
| `parser` | `HangIsSilence`, `FramesArriveInOrder`, `OutcomeHasCause`, `OneReader`, `ReaderEnds`, `QuietWaitsEnd` | two frames and the rest of a third, of four kinds in OpenAI's format and of six in Anthropic's; a deadline of two ticks, two bytes in flight; after any frame the budget may be spent or the client gone |
| `ratelimit` | `WindowIsExact`, `OvershootIsLate`, `ImplementsWindow` | three connections, so that two with old times disturb a third; a window of two of four instants, so that events leave it; requests that fill the limit alone (`MaxTokens` only bounds exploration: the limiter does not limit what a request adds) |
| `startup` | `LoadedIsMeant`, `LoadedIsUsable`, `KeysLoadedAreMeant`, `DialsAreChecked` | nine lines hold two complete providers and an override block between them, or a threshold without a block; a URL may name a host or hold an address; six key lines hold two entries with fields missing, repeated or swapped; a resolver that fails, answers a public address, or a mapped private one first |
| `chaos` | `MismatchIsMisfire`, `DriftExplained`, `PercentileIsNearestRank`, `HarnessEnds` | every pair of scenarios, so that two streams share ledger and usage; two attempts cut short (`MaxCuts`), enough for both providers of a stream; any stream may end in an error of its client, any fetch of usage may fail; two reconciliations, up to four samples |

Type invariants: `TypeOK` of `Budget` and `Breaker` is a theorem of its own
(section 6), that of `RateLimit` is part of the proofs there. In the other modules it is a conjunct of the invariant that relies on it:
`BooksAgree`, `ForceReachesAll`, `SummaryCountsEverything`, `OneReader`,
`LoadedIsUsable`, `DriftExplained`.

What the longer statements mean:

- `UsedIsOutstanding`: until a reset no update of `TokensUsed` is lost; after it a
  key is never charged for more than its handlers spent in the period.
- `BooksAgree` has two parts. `LedgerBillsFinalAttempts`: the ledger holds the last
  attempt of every request that succeeded, was truncated or was cut by a shutdown,
  under that attempt's provider, and nothing else. `AccountBalances`: until a reset,
  `TokensUsed` is what is billed, plus what running attempts hold, plus exactly
  what the code is known to leave behind (a departed client's tokens, a frame that
  could not be written, a lowered usage count). A reset only lowers it.
- `ProbesAccountedFor`: apart from cancelled attempts, no end of an attempt
  forgets to tell a breaker about its probe.
- `ClientIsTold`: when a request is in the ledger, the reference client shows
  the billed attempt, and only it, below the last separator, everything else that
  was delivered above it, and a truncation notice unless the stream succeeded or
  was cut by a shutdown. The part about tokens is stated for streams without
  usage frames, which correct the count and not the screen. The one end of a stream that is neither a success nor
  explained is after a failover to a provider that then refused it.
- `OutcomeHasCause`: an attempt is malformed or a success because of the upstream's
  next frame, and a dead socket because the connection to the upstream, or that to
  the client, broke. A client that cannot be written to always makes it a dead
  socket, with the upstream still streaming: that is what `classify` and the
  breaker are told.
- `FlagIsVerdict` has a case for every moment. After a complete pass the flag is the
  verdict over every provider the copy of the ledger named. In the middle of a pass
  it is the verdict on the provider that answered last, and when a fetch fails it
  stays that until the next run, whatever the other providers had answered.
- `WindowIsExact`, `OvershootIsLate`: tokens added in the window that ends now
  are all stored, none twice, although callers prune with old times; so each
  admission is decided by the window that ends now or a larger one, and what passes
  the limit was added since the last admission. There is no bound on how much that
  is: a failover releases the tokens of its attempt to the key, not to the limiter,
  and the request may spend the budget again at the next provider.
- `LoadedIsUsable`: what the other components assume of a `Config`; and `Load` panics
  in one case only, a threshold in a provider without an override block that stands
  below one with a block.
- `DialsAreChecked`: a connection of the server to a real provider goes to a public
  address, whatever the resolver answers and when. The job's client looks a name up
  for itself and checks nothing, so for its connections the property is stated only
  when the URL holds an address, which `Validate` has checked.
- `LoadedIsMeant`: a file whose numbers are numbers and whose override block ends
  the list of providers is read as YAML reads it; any other file
  is refused or loses a type or a priority to its default.
- `KeysLoadedAreMeant`: when every entry begins with its key, nothing of one entry
  reaches another; no key of any file is dropped.
- `MismatchIsMisfire`: expected and billed tokens of the harness differ only when
  the deadline cut the second provider of a stream that was not hanging; too
  little is billed then, never too much. A stream without a misfire reports exactly
  the failures of its scenario. FINDINGS.md has such a run (904 and 884). A stream
  whose client broke off may be billed for less as well, but `Run` then ends with
  an error and no report.
- `DriftExplained`: a mock's usage differs from the ledger by truncated streams,
  streams it has not counted yet, and streams it counted after the gateway
  gave them up.
- `HarnessEnds`: `Run` returns a report, or an error of a stream's connection or of a
  provider's usage; misfires alone never make it miss a `gateway_truncated`.

`SYMMETRY` is used in `stream` and `ratelimit` only, whose properties are
invariants and refinements without fairness. Deadlock is checked
everywhere; specifications whose work can be finished have a final step that
changes nothing (`AllServed`, `Exited`, `Gone`, `Ended`, `Stopped`).

## 4. Fairness

- Goroutines run: weak fairness of a handler's own steps, of the loops in
  `Budget`, of the reading goroutine and of `Next`. Go schedules preemptively.
- A cancelled context is noticed: weak fairness of `Cancelled`, strong fairness
  of the ticker goroutine's exit; `select` chooses at random among ready cases.
- The streams, mocks and main goroutine of `Chaos` run; a stream's attempt ends by
  its mock's script or by the deadline, which the harness sets.
- Time passes: weak fairness of `Tick` in `Parser` and of the timers in
  `Shutdown`.
- Of handlers and upstreams `Shutdown` and `Parser` assume nothing. `RequestsEnd`
  has the premise `UpstreamsEnd`: an upstream answers and ends, breaks, or falls
  silent. The code guarantees the end of an attempt only from the response
  headers on, since `client.Do` has no deadline of its own, and an upstream that
  dribbles bytes for ever keeps its attempt for ever. `CancelledRequestsEnd` does
  without the premise. `NoLockout` assumes that an attempt ends, in whatever way.

## 5. What the code does not do

The run `stream_silent` finds a behaviour that contradicts the documentation
(`findings` in `PROJECT.json` quotes the line): the announced provider refuses,
and the stream just ends, unbilled and without `gateway_truncated`.

Other behaviours of the code that the models have and a reader should know of.
The passing properties are stated around them and say how far they reach:

- A reset forgets running reservations and their release then lowers the new
  period's account, so a period can spend more than the budget
  (`ResetExpired` and `CasRelease` in `Budget`); `UsedIsOutstanding` is one-sided
  after a reset for that reason.
- A failure report from before the circuit opened ends a half-open phase, and a
  second probe may run beside the first, in another phase: `OneProbePerPhase`
  says no more.
- A session that registers behind the drain is cut by `httpSrv.Close` and not
  recorded (`CloseOnlyCutsLateSessions` says which sessions that can be).
- A budget within one chunk of the largest int64 makes `TryReserve` wrap around;
  `Store.Add` accepts it, `BudgetAssumption` excludes it.
- The drift flag of an account whose pass was broken off by a failing fetch is the
  verdict on one provider, and overwrites that of the last complete pass
  (`FlagIsVerdict` says so case by case).
- The reconciliation job connects to providers with a plain client (`FetchDial` in
  `Startup`): a name whose answer changed after startup may lead it to an address
  the server would refuse to connect to.
- `config.yaml`: a list item after an override block goes to the override that is
  not there, so its name is lost and the file is refused, and a threshold in it makes
  `Load` panic; fields after the block
  of the same provider keep their defaults; text that is no number is zero, and
  zero in an override inherits (`meant` reads numbers as the parser does, so
  `LoadedIsMeant` is not about such a setting); `silent_hang_deadline_ms` and
  `drift_threshold_pct` are not validated; on an item's own line `#` does not begin
  a comment.
- `keys.yaml`: the dash means nothing. A field before the `key` of its entry goes
  to the entry before it, and the fields of an entry with an empty key go to the
  next one.
- The reference client cannot tell a silent end from success: both are the end of
  the body. Its faint text covers the notice, not the retained output.
- The harness's deadline of 15 ms can pass between two tokens of a mock on a busy
  machine; its scenarios then bill less than they expect.
- A probe whose client leaves never reports, and the circuit stays half-open and
  refuses everybody (`Abandon` in `Breaker`). So does a probe that was claimed by
  the look-ahead and not used, because a provider before it became half-open and
  served the request. `ProbeAttributable`, `NoLockout` and `ProbesAccountedFor`
  say that there is no other way.
- A frame that cannot be written to the client stays reserved after the failover
  (the `lost` tokens of `AccountBalances`), and the failed write counts against
  the provider as `dead_socket` (`WriteError` in `Stream`, `WriteFails` in `Parser`).
- A provider earlier in the list may become half-open after the look-ahead and is
  then attempted instead of the announced one; `AttemptsFollowPriority` holds
  for what is attempted, not for what is announced.
- An upstream that never sends response headers is waited for until the context
  ends (`Connect` and `ConnectCancelled` in `Parser`).

## 6. Proofs

TLAPS proves, for every value of the constants that satisfies the named
assumptions, every invariant the runs check and the three refinements: the
account, the limiter's window and the wire protocol. Assumptions have two sources. Some are what
the code ensures: positive thresholds and windows (`New`), no provider name
twice (`Validate`, so `Priority` is injective), budgets that are natural numbers
(`Store.Add`). The others say that requests, handlers, connections, streams, keys
and providers are finite in number, without which a sum over them means nothing, and
what a line of a file or an answer of a resolver is (`ConfigAssumption`,
`KeysAssumption`). One is a restriction the code does not ensure: budget plus chunk
fits an int64. The bounds of the runs (`Max...`, `LastPeriod`) stay parameters, so
the theorems hold for executions of every length.

**`StreamProofs`**. The handler with everything it shares.

- `FailoverWalksDown` (`AttemptsFollowPriority`). `AllowedProviders` is a
  recursive function; that it yields the allowed providers in the configured
  order is shown by the least number of turns for which it would not
  (`LoopExists`, `LoopKeepsOrder`, `ListInOrder`). The invariant is
  `HandlersInv`: for each handler `Local`, which says that the loop index is ahead
  of everything attempted, that the attempts lie in the list in its order, which
  outcome an attempt can have at each point of `handleStream`, and when an event
  `truncated` can have been written.
- `ProbesAreAccountedFor` (`ProbesAccountedFor`). `ProbesInv`: a circuit whose
  `probing` is set has a request that answers for it. A step of another request
  keeps that request; a step of its own either keeps it or reports to the circuit,
  which clears `probing`, or is the cancellation the property excepts.
- `BooksAlwaysAgree` (`BooksAgree`). The inductive form is a set of equations
  between the store and sums over the requests of a key: `LedgerInv` (what each
  request owes, to which provider, and which were truncated) and `AccountInv`
  (used is owed plus held plus left behind, or less after a reset). A handler
  moves alone, so each sum changes by what its own summand changes by
  (`SumTheorems`), and a lemma per kind of step says how owed, held and lost
  tokens of that handler change. What makes the equations
  inductive is `HandlersInv`: a request that has not ended owes nothing, and one
  that ends owes the attempt it ends with.
- `ClientIsAlwaysTold` (`ClientIsTold`). `ScreenAppend` says what one more event
  does to the screen of the reference client (`Screen` is a recursive function as
  well). `ShownInv` then follows the wire through the handler: while an attempt
  runs its tokens are the block below the last separator, all that was delivered
  is visible, and a notice is there exactly after `truncated`.
- `StreamKeepsProtocol` (`ImplementsWireProtocol`). The mapping takes a request for
  a client, its wire for the client's stream and `done` for ended. Each step of a
  handler that writes is the action of `WireProtocol` of the same name, any other a
  stutter or `Close`. The counters are where the two specifications differ: the
  protocol counts the content on the wire, the handler adds up as it goes.
  `Agreed` says that the protocol's counts of a wire are the blocks of the client's
  screen, by sums over its places, so that `ShownInv`, which ties the screen to the
  handler's counters, settles them. `SentInv` adds to it when the wire is empty and
  why an attempt ended.

**`ParserProofs`** (assumes a positive deadline and frames of the two formats).
`ControlInv` is the shape of a call: who may read, what is in which channel.
`OneReaderHolds` (`OneReader`) follows from it. `HangsAreSilence`
(`HangIsSilence`) needs `QuietInv`: while `Next` waits, timer and silence make up a
deadline. `OrderIsKept` (`FramesArriveInOrder`) and `OutcomesHaveCauses`
(`OutcomeHasCause`) need `FlowInv`, for which neither property is a substitute:
what was sent is what was delivered, then the frame in hand, then the frames among
the bytes on their way. The last part is said with a function that gives the
number of frames sent up to each byte, so that a byte sent or read changes one
end of it. `EndInv` and `VerdictInv` say where the end of the body is and what an
ended attempt leaves behind.

**`ReconcileProofs`**. `FlagsAreVerdicts` (`FlagIsVerdict`) and
`CompleteRunsCover` (`CompleteRunsCoverAll`) rest on `PassInv`. The flag in an
entry is overwritten provider by provider, so what is invariant is a statement
about the pass that `audit` remembers of each account (`FlagInv`): the flag in the
entry is the verdict on the answers there, which are those of every provider the
pass had to ask or a single one. During a pass the job's own verdict is the one over
all answers so far, and who has not answered is still ahead (`AskedInv`). `NothingRecordedIsLost` (`SummaryCountsEverything`) adds `CountInv`,
sums over periods and providers.

The second half of the module is about the harness. `ChaosInv` says of each stream
where it can be, with which reasons and cut attempts, and what was billed for it (a case
for each place, and one for a stream its client gave up: `StreamInv`), that the ledger is the sum of these amounts, provider by
provider, and a mock's usage the sum of what it counted. The amounts are no variable
of the model: the invariant claims that there are some (`BillInv`), and each step
gives the next ones. `MismatchesAreMisfires` (`MismatchIsMisfire`) compares them with
the scenarios, summand by summand (`ScenarioFacts`, from the tables of `Run`);
`DriftIsExplained` (`DriftExplained`) with the counts (`StreamCounts`).
`PercentilesAreNearestRanks` (`PercentileIsNearestRank`) is about any list of samples:
places are a permutation, since they are different numbers within the list
(`SamplesInOrder`), a sample's place is within the number of samples it is not below
(`PlaceIsRank`), and the rank `Percentile` reads is the least that is enough
(`RankIsLeast`).

**`ProcessProofs`**. Startup, then shutdown.

- `DialsGoToPublicAddresses` (`DialsAreChecked`): what the server dialed last is
  checked; the mapped forms of an address are where it could fail. For the job's
  connections the proof goes back to `Validate`: an address in the URL of a provider
  that was loaded is one the check let through (`HostsInv`).
- `KeysFileIsLoaded` (`KeysLoadedAreMeant`). `KeysInv`: the keys named so far are the
  usable ones of the store and the one in hand; while entries begin with their
  keys, the locals and the store are those of the reading by dashes.
- `ConfigIsMeant` (`LoadedIsMeant`) and `ConfigIsUsable` (`LoadedIsUsable`). The Config
  that is filled in and the one YAML means are changed in step, each at its last
  provider. `FileInv` is their relation, provider by provider (`Agree`, `Loses`):
  what the parser has is what is meant or still the zero value. A lost name or URL is
  one `Validate` refuses. A threshold is never lost in a file that loads: while the
  override flag is up it goes to the block of its own provider, or through a nil
  pointer, which ends `Load` (the panic of `ConfigIsUsable`). The sort is handled as for samples:
  distinct priorities give distinct places, so each is taken once (`PlaceTaken`).
- `ForceIsComplete` (`ForceReachesAll`) and `CloseSparesOthers`
  (`CloseOnlyCutsLateSessions`). `IndInv` says that a session still to be cancelled is
  on the list `forceCloseActive` took (`ListInv`), that once the timer is stopped or
  has fired only late sessions and listed ones are active (`LateInv`), and that
  connections are broken only once the timer is over (`CloseInv`).

**`BudgetProofs`** (`BudgetAssumption`). `TypeCorrect`, `BudgetSafe`
(`UsedWithinBudget`), `Linearizable` (`ImplementsAtomic`) and `NothingIsLost`
(`UsedIsOutstanding`). `UsedWithinBudget` is not inductive: a swap that succeeds
stores `seen + n`, so the proof needs to know that a handler about to swap found
`seen + n` within the budget, and that a handler inside `Release` gives back what
its attempt holds; `PlusExact` says that the sum did not wrap. That is `CallInv`;
`IndInv` is `TypeOK`, `UsedWithinBudget` and `CallInv`. The refinement mapping is
the identity on `used` and `held`: a successful swap is the atomic operation,
every other step is a stutter. `NothingIsLost` needs this for its sums: only a
successful swap or a reset changes an account.

**`BreakerProofs`** (`CfgAssumption`). `TypeCorrect`, `CircuitStaysConsistent`,
`ProbeIsAttributable` and `ProbesAreExclusive`. The invariant relates the
circuit to ghost variables: the number of half-open phases so far and the phase
each request is the probe of. Nobody is the probe of a phase that has not begun;
with a threshold of one success, a half-open circuit without a probe in flight
has had none in this phase. One lemma per method says what it does to the
circuit; the steps of the requests use only those.

**`RateLimitProofs`** (`RateLimitAssumption`). `WindowStaysExact` (`WindowIsExact`),
`OvershootComesLate` (`OvershootIsLate`) and `LimiterIsWindow` (`ImplementsWindow`).
`WindowIsExact` is inductive together with `TypeOK`, which says that no handler holds
a time after the clock, so the cutoff of a call never lies after the current
window's, and pruning (`PrunedKeepsWindow`) takes nothing from it. The overshoot is
about sums: an admission compares the limit with all that is stored, which is at
least what the current window holds; afterwards the two sides grow together. The
mapping of the refinement is the sum of all that is stored, cut off at the limit.

**`SumTheorems`**. The library defines `SumFunctionOnSet` by a recursion that
chooses a member. The module shows by the least size of a counterexample that the
recursion has a solution on a finite set, that the choice does not matter, and
what a sum does when a summand changes or a member is added.

**Two remarks on the prover.** tlapm 1.4.5 cannot hand the SMT solver an obligation
with the string `""`. `None`, `NoText` and `NoFailure` are that string and are kept
opaque: the proofs use only that it is none of the other values (`NoneIsNoOutcome`,
`NoReason`). It also hands the solver an axiom that takes `Len(f) = n` for
`DOMAIN f = 1 .. n` and a length for every value, which is contradictory for a
function on `0 .. n`. The recursive functions here have such domains, so every
obligation that contains the axiom was also solved with one of its two halves
restricted to what is true; none depends on the contradiction.

**Only model-checked.** Liveness (`SomeCallReturns`, `NoLockout`,
`CancelledRequestsEnd`, `RequestsEnd`, `ShutdownEnds`, `JobStops`, `ReaderEnds`,
`QuietWaitsEnd`, `HarnessEnds`): the prover has no fairness and no `ENABLED`. That
`NoSilentEnd` fails is shown by TLC's counterexample.

## 7. Not modelled

- Token counting (`tiktoken`, counting fields): a number from a small set. Its
  encoding cache is loaded under the counter's lock, which delays handlers and
  decides nothing.
- SSE and JSON formatting, splitting a line into key and value, request headers,
  hashing, redaction, colours: conversions no property is about.
- `net/http`: reuse of idle connections (a connection is checked when it is
  dialed, not when it is used again), redirects that the job's client follows, TLS,
  request parsing.
- `SilentHangDeadline`, gap samples and detection times: measurements of the wall
  clock; nothing on the serving path reads them.
- `RandomFailurePct` and `SetOptions` of the mock, used by tests and the demo; a
  harness run across a clock hour, at which the mock's usage starts again.
- Recovery: state is in process only. `ForceState` of the breaker is called by
  tests only.

## 8. State of the plan

Every module of section 2 is written, run and, where it has an invariant or a
refinement, proved. What could be added: a harness run across a clock hour, and a
`meant` that knows which settings are no numbers.
