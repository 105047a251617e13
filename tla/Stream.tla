------------------------------- MODULE Stream -------------------------------
(***************************************************************************)
(* internal/server: the handler of POST /v1/stream, composed with the      *)
(* circuit breakers, the key accounts, the rate limiter and the ledger it  *)
(* shares with every other handler.                                        *)
(*                                                                         *)
(* A handler is a goroutine.  One step of it is what it does up to and     *)
(* including an access to an object it shares whose answer it acts on: a   *)
(* breaker method, a token reservation, the limiter.  A write that follows *)
(* and that nothing else decides on in between (the limiter's Add after a  *)
(* reservation, the ledger after the breaker) is part of the same step.    *)
(* The two loops of internal/budget are atomic here (module Budget shows   *)
(* that they behave so).  Bytes, SSE formatting and HTTP are abstracted:   *)
(* an upstream frame is a number of tokens, a gateway event is a record.   *)
(***************************************************************************)
EXTENDS BreakerOps, LedgerOps, ClientOps, Sequences, SequencesExt, FiniteSets, Functions

CONSTANTS Requests,      \* requests to /v1/stream
          Priority,      \* the configured providers in priority order
          Keys,          \* API keys in the key store
          KeyOf,         \* the key each request presents; may be outside Keys
          Allowlist,     \* key -> providers it may use
          TokenBudget,   \* key -> token budget
          CfgOf,         \* provider -> breaker configuration
          RateMax,       \* tokens per rate limit window, 0: unlimited
          Counts,        \* token counts of upstream content frames
          Reports,       \* output_tokens values of upstream usage frames
          Failures,      \* the ways upstreams may fail
          MaxResets,     \* bound: budget resets explored
          MaxLeaves,     \* bound: clients that go away
          MayShutdown    \* whether a shutdown is explored

Providers == ToSet(Priority)
FailureReasons == {"dead_socket", "silent_hang", "malformed"}

\* The configuration is validated: a provider is configured once.
ASSUME StreamAssumption ==
    /\ IsFiniteSet(Requests)
    /\ Priority \in Seq(Providers) /\ IsInjective(Priority)
    /\ Counts \subseteq Nat \ {0}
    /\ Reports \subseteq Nat \ {0}
    /\ Failures \subseteq FailureReasons
    /\ \A p \in Providers : CfgOf[p] \in ConfigType
    /\ \A k \in Keys : TokenBudget[k] \in Nat /\ Allowlist[k] \subseteq Providers
    /\ RateMax \in Nat /\ MaxResets \in Nat /\ MaxLeaves \in Nat
    /\ MayShutdown \in BOOLEAN

VARIABLES s,          \* the local state of each handler
          brk,        \* Server.breakers
          used,       \* TokensUsed of each key
          window,     \* tokens in each key's rate limit window, up to RateMax
          ledger,     \* the ledger entry of each key in the billing period
          draining,   \* Server.draining
          resets,     \* number of budget resets so far
          lost        \* ghost: tokens a handler left reserved and unbilled

account == <<used, window>>
env == <<draining, resets>>
shared == <<brk, account, ledger, env, lost>>
vars == <<s, brk, used, window, ledger, draining, resets, lost>>

-----------------------------------------------------------------------------
\* The local state of a handler: pc, the loop index i, the look-ahead index j,
\* tokens of the current attempt (attemptTokens, then finalAttemptTokens),
\* totalDelivered, claimedProbes, the state of the request context with the
\* cause of its cancellation, whether the client's connection is gone, the reason
\* of the last failure or truncation, Session.ProviderAttempts, and the gateway
\* events and content written to the client.
NewHandler == [pc |-> "idle", i |-> 1, j |-> 1, tokens |-> 0, total |-> 0,
               claimed |-> {}, ctx |-> "live", gone |-> FALSE, reason |-> None,
               attempts |-> <<>>, wire |-> <<>>]

Init == /\ s = [r \in Requests |-> NewHandler]
        /\ brk = [p \in Providers |-> NewCircuit]
        /\ used = [k \in Keys |-> 0]
        /\ window = [k \in Keys |-> 0]
        /\ ledger = [k \in Keys |-> NewEntry(Providers)]
        /\ draining = FALSE
        /\ resets = 0
        /\ lost = [r \in Requests |-> 0]

\* Bug: the allowlist decides the order.
MutAllowedProviders(k) ==
    Reverse(SelectSeq(Priority, LAMBDA p : p \in Allowlist[k]))

\* allowedProviders: the configured order, restricted to the key's allowlist.
AllowedProviders(k) ==
    LET out[n \in 0 .. Len(Priority)] ==      \* after n turns of the loop
            IF n = 0 THEN <<>>
            ELSE IF Priority[n] \in Allowlist[k] THEN Append(out[n - 1], Priority[n]) ELSE out[n - 1]
    IN  out[Len(Priority)]

List(r) == AllowedProviders(KeyOf[r])
Cur(r) == List(r)[s[r].i]
Set(r, rec) == s' = [s EXCEPT ![r] = rec]
Event(e, p, to, n, why) == [event |-> e, provider |-> p, to |-> to, n |-> n, reason |-> why]
Status(p) == Event("status", p, None, 0, None)
Content(n) == Event("content", None, None, n, None)
Regenerating == Event("regenerating", None, None, 0, None)

\* Session.FinishAttempt; the tokens are those delivered before a failure.
FinishAttempt(rec, outcome, n) ==
    [rec EXCEPT !.attempts[Len(rec.attempts)] = [@ EXCEPT !.outcome = outcome, !.tokens = n]]

\* Bug: what the client got from every attempt.
MutFinalTokens(r) == s[r].total

\* The tokens of the last attempt (finalAttemptTokens).
FinalTokens(r) == s[r].tokens

\* The provider of the last attempt (Session.FinalProvider).
FinalProvider(r) == IF s[r].attempts = <<>> THEN None ELSE Last(s[r].attempts).provider

-----------------------------------------------------------------------------
\* Admission.

Reject(r, why) == Set(r, [s[r] EXCEPT !.pc = "rejected", !.reason = why])

\* auth.LookupRaw finds the key.
LookupRaw(r) == KeyOf[r] \in Keys

\* key.Exhausted
Exhausted(k) == used[k] >= TokenBudget[k]

\* limit.Admit: tokens delivered in the window, not those still to come, decide.
Admits(k) == RateMax > 0 => window[k] < RateMax

\* The draining flag, the request and its key.  A request refused for its form
\* touches nothing and is one with an unknown key here.
Arrive(r) ==
    /\ s[r].pc = "idle"
    /\ \/ draining /\ Reject(r, "server_shutting_down")
       \/ ~draining /\ ~LookupRaw(r) /\ Reject(r, "invalid_api_key")
       \/ ~draining /\ LookupRaw(r) /\ List(r) = <<>> /\ Reject(r, "provider_not_allowed")
       \/ /\ ~draining
          /\ LookupRaw(r)
          /\ List(r) # <<>>
          /\ Set(r, [s[r] EXCEPT !.pc = "budget"])
    /\ UNCHANGED shared

\* A key that has used its budget is refused.
CheckBudget(r) ==
    /\ s[r].pc = "budget"
    /\ IF Exhausted(KeyOf[r])
       THEN Reject(r, "budget_exhausted")
       ELSE Set(r, [s[r] EXCEPT !.pc = "limit"])
    /\ UNCHANGED shared

\* One whose rate limit window is full too; then registerSession.
Admit(r) ==
    /\ s[r].pc = "limit"
    /\ IF Admits(KeyOf[r])
       THEN Set(r, [s[r] EXCEPT !.pc = "loop"])
       ELSE Reject(r, "rate_limited")
    /\ UNCHANGED shared

-----------------------------------------------------------------------------
\* The provider loop.

\* Bug: every attempt announces itself.
MutStatusDue(rec) == TRUE

\* statusSent is still false.
StatusDue(rec) == rec.attempts = <<>>

\* Session.StartAttempt
StartAttempt(rec, p) ==
    [rec EXCEPT !.attempts = Append(@, [provider |-> p, outcome |-> None, tokens |-> 0])]

\* StartAttempt and, the first time, gateway_status.
Begin(rec, p) ==
    [StartAttempt(rec, p) EXCEPT !.pc = "attempt",
                                 !.tokens = 0,
                                 !.claimed = @ \ {p},
                                 !.wire = IF StatusDue(rec) THEN Append(@, Status(p)) ELSE @]

\* A provider whose probe was claimed when it was announced is not asked again.
UseClaim(r) ==
    /\ s[r].pc = "loop"
    /\ s[r].i <= Len(List(r))
    /\ Cur(r) \in s[r].claimed
    /\ Set(r, Begin(s[r], Cur(r)))
    /\ UNCHANGED shared

\* Any other is: a refusal moves on to the next provider.
AskBreaker(r) ==
    /\ s[r].pc = "loop"
    /\ s[r].i <= Len(List(r))
    /\ Cur(r) \notin s[r].claimed
    /\ LET p == Cur(r) IN
       /\ brk' = [brk EXCEPT ![p] = AllowAttempt(@, CfgOf[p])]
       /\ Set(r, IF Allows(brk[p], CfgOf[p]) THEN Begin(s[r], p)
                                             ELSE [s[r] EXCEPT !.i = @ + 1])
    /\ UNCHANGED <<account, ledger, env, lost>>

\* After the loop: a request that attempted nothing is truncated.
AfterList(rec) == IF rec.attempts = <<>>
                  THEN [rec EXCEPT !.pc = "truncate", !.reason = "all_providers_exhausted"]
                  ELSE [rec EXCEPT !.pc = "release"]

\* The list is finished.  A request that attempted no provider is truncated; one
\* whose announced provider was refused by its breaker just ends.
ListEnds(r) ==
    /\ s[r].pc = "loop"
    /\ s[r].i > Len(List(r))
    /\ Set(r, AfterList(s[r]))
    /\ UNCHANGED shared

-----------------------------------------------------------------------------
\* runAttempt: frames from the upstream.

\* Bug: the superseded attempt keeps its tokens.
MutReduced(u, n) == u

\* budget.Release and budget.TryReserve, as module Budget shows they behave.
Reduced(u, n) == IF u < n THEN 0 ELSE u - n
Fits(k, n) == used[k] + n <= TokenBudget[k]
Reserve(k, n) == used' = [used EXCEPT ![k] = @ + n]

\* limit.Add: the window counts up to the limit, which is all Admit asks.
Charge(k, n) ==
    window' = [window EXCEPT ![k] = IF @ + n > RateMax THEN RateMax ELSE @ + n]

\* A content frame that fits the budget is forwarded.
Forward(r, n) ==
    LET k == KeyOf[r] IN
    /\ s[r].pc = "attempt"
    /\ Fits(k, n)
    /\ Reserve(k, n)
    /\ Charge(k, n)
    /\ Set(r, [s[r] EXCEPT !.tokens = @ + n, !.total = @ + n, !.wire = Append(@, Content(n))])
    /\ UNCHANGED <<brk, ledger, env, lost>>

\* A usage frame replaces the count of the attempt; only an increase is reserved
\* (one that repeats the count changes nothing).
Usage(r, u) ==
    LET k == KeyOf[r]
        delta == u - s[r].tokens
    IN
    /\ s[r].pc = "attempt"
    /\ \/ /\ delta > 0
          /\ Fits(k, delta)
          /\ Reserve(k, delta)
          /\ Charge(k, delta)
          /\ UNCHANGED lost
       \/ /\ delta < 0
          /\ lost' = [lost EXCEPT ![r] = @ - delta]
          /\ UNCHANGED account
    /\ Set(r, [s[r] EXCEPT !.tokens = u, !.total = @ + delta])
    /\ UNCHANGED <<brk, ledger, env>>

\* Bug: the breaker is not told.
MutOverBudget(r) ==
    LET k == KeyOf[r] IN
    /\ s[r].pc = "attempt"
    /\ \E n \in Counts : ~Fits(k, n)
    /\ Set(r, [FinishAttempt(s[r], "budget_exceeded", s[r].tokens)
                  EXCEPT !.pc = "truncate", !.reason = "budget_exceeded"])
    /\ UNCHANGED shared

\* A frame that does not fit ends the attempt, which is no fault of the upstream.
OverBudget(r) ==
    LET k == KeyOf[r]
        p == Cur(r)
    IN
    /\ s[r].pc = "attempt"
    /\ \/ \E n \in Counts : ~Fits(k, n)
       \/ \E u \in Reports : u > s[r].tokens /\ ~Fits(k, u - s[r].tokens)
    /\ brk' = [brk EXCEPT ![p] = RecordSuccess(@, CfgOf[p])]
    /\ Set(r, [FinishAttempt(s[r], "budget_exceeded", s[r].tokens)
                  EXCEPT !.pc = "truncate", !.reason = "budget_exceeded"])
    /\ UNCHANGED <<account, ledger, env, lost>>

\* The upstream finishes: the attempt is billed.
Finish(r) ==
    LET k == KeyOf[r]
        p == Cur(r)
    IN
    /\ s[r].pc = "attempt"
    /\ brk' = [brk EXCEPT ![p] = RecordSuccess(@, CfgOf[p])]
    /\ ledger' = [ledger EXCEPT ![k] = RecordTerminal(@, p, FinalTokens(r), FALSE)]
    /\ Set(r, [FinishAttempt(s[r], "success", 0) EXCEPT !.pc = "release"])
    /\ UNCHANGED <<account, env, lost>>

\* The attempt failed for a reason that counts against the provider.
Failed(r, why) ==
    LET p == Cur(r) IN
    /\ brk' = [brk EXCEPT ![p] = RecordFailure(@, CfgOf[p])]
    /\ Set(r, [FinishAttempt(s[r], why, s[r].tokens)
                  EXCEPT !.pc = "scan", !.j = s[r].i + 1, !.reason = why])

\* The upstream cannot be reached or answers an error, its connection breaks, it
\* is silent past the deadline, or it sends a frame that does not parse.
Break(r, why) ==
    /\ s[r].pc = "attempt"
    /\ Failed(r, why)
    /\ UNCHANGED <<account, ledger, env, lost>>

\* The write of a content frame to a client that is gone fails after its tokens
\* were reserved; the error is taken for one of the upstream.
WriteError(r, n) ==
    LET k == KeyOf[r] IN
    /\ s[r].pc = "attempt"
    /\ s[r].gone
    /\ Fits(k, n)
    /\ Reserve(k, n)
    /\ Charge(k, n)
    /\ Failed(r, "dead_socket")
    /\ lost' = [lost EXCEPT ![r] = @ + n]
    /\ UNCHANGED <<ledger, env>>

\* The context is cancelled: a forced shutdown bills what was delivered, a
\* departed client is not billed.  The breaker is told in neither case.
Cancelled(r) ==
    /\ s[r].pc = "attempt"
    /\ \/ /\ s[r].ctx = "forced"
          /\ ledger' = [ledger EXCEPT ![KeyOf[r]] = RecordTerminal(@, Cur(r), FinalTokens(r), TRUE)]
          /\ Set(r, [FinishAttempt(s[r], "shutdown", s[r].tokens) EXCEPT !.pc = "release"])
          /\ UNCHANGED lost
       \/ /\ s[r].ctx = "client"
          /\ Set(r, [FinishAttempt(s[r], "client_cancelled", s[r].tokens) EXCEPT !.pc = "release"])
          /\ lost' = [lost EXCEPT ![r] = @ + s[r].tokens]
          /\ UNCHANGED ledger
    /\ UNCHANGED <<brk, account, env>>

-----------------------------------------------------------------------------
\* After a failure: nextAttemptableProvider, then failover or truncation.

\* Bug: the look-ahead asks a provider whose probe it lost again.
MutSkip(rec) == [rec EXCEPT !.pc = "scan"]

\* The look-ahead moves on.
Skip(rec) == [rec EXCEPT !.pc = "scan", !.j = @ + 1]

\* State() of the next provider in the list.
Scan(r) ==
    /\ s[r].pc = "scan"
    /\ s[r].j <= Len(List(r))
    /\ LET p == List(r)[s[r].j]
           c == Refresh(brk[p], CfgOf[p])
       IN  /\ brk' = [brk EXCEPT ![p] = c]
           /\ Set(r, CASE c.state = "closed" -> [s[r] EXCEPT !.pc = "failover"]
                       [] c.state = "half_open" -> [s[r] EXCEPT !.pc = "claim"]
                       [] OTHER -> Skip(s[r]))
    /\ UNCHANGED <<account, ledger, env, lost>>

\* TryClaimProbe of a provider that was half-open a moment ago.
ClaimNext(r) ==
    /\ s[r].pc = "claim"
    /\ LET p == List(r)[s[r].j] IN
       /\ brk' = [brk EXCEPT ![p] = TryClaimProbe(@, CfgOf[p])]
       /\ Set(r, IF Claims(brk[p], CfgOf[p])
                 THEN [s[r] EXCEPT !.pc = "failover", !.claimed = @ \cup {p}]
                 ELSE Skip(s[r]))
    /\ UNCHANGED <<account, ledger, env, lost>>

\* No provider is left to try.
ScanEnds(r) ==
    /\ s[r].pc = "scan"
    /\ s[r].j > Len(List(r))
    /\ Set(r, [s[r] EXCEPT !.pc = "truncate", !.reason = "all_providers_exhausted"])
    /\ UNCHANGED shared

FailoverEvent(r) == Event("failover", FinalProvider(r), List(r)[s[r].j], s[r].tokens, s[r].reason)

\* The failed attempt is superseded: its tokens are released and the client is
\* told.  The loop goes on at i + 1, not at the provider that was announced.
Failover(r) ==
    LET k == KeyOf[r] IN
    /\ s[r].pc = "failover"
    /\ used' = [used EXCEPT ![k] = Reduced(@, FinalTokens(r))]
    /\ Set(r, [s[r] EXCEPT !.pc = "loop", !.i = @ + 1,
                           !.wire = @ \o <<FailoverEvent(r), Regenerating>>])
    /\ UNCHANGED <<brk, window, ledger, env, lost>>

\* gateway_truncated, and the last attempt is billed.
Truncate(r) ==
    LET k == KeyOf[r] IN
    /\ s[r].pc = "truncate"
    /\ ledger' = [ledger EXCEPT ![k] = RecordTerminal(@, FinalProvider(r), FinalTokens(r), TRUE)]
    /\ Set(r, [s[r] EXCEPT !.pc = "release",
                           !.wire = Append(@, Event("truncated", None, None, s[r].total, s[r].reason))])
    /\ UNCHANGED <<brk, account, env, lost>>

\* releaseSession
Release(r) ==
    /\ s[r].pc = "release"
    /\ Set(r, [s[r] EXCEPT !.pc = "done"])
    /\ UNCHANGED shared

-----------------------------------------------------------------------------
\* The environment.

Registered(r) == s[r].pc \notin {"idle", "budget", "limit", "rejected", "done"}

\* The client closes its connection: net/http cancels the request context.
\* The first cause of a cancellation stays.
ClientLeaves(r) ==
    /\ s[r].pc \notin {"idle", "rejected", "done"}
    /\ ~s[r].gone
    /\ Cardinality({q \in Requests : s[q].gone}) < MaxLeaves
    /\ Set(r, [s[r] EXCEPT !.gone = TRUE, !.ctx = IF @ = "live" THEN "client" ELSE @])
    /\ UNCHANGED shared

\* BeginShutdown: new requests are refused.
BeginShutdown ==
    /\ MayShutdown
    /\ ~draining
    /\ draining' = TRUE
    /\ UNCHANGED <<s, brk, account, ledger, resets, lost>>

\* The drain timeout passed: forceCloseActive cancels a registered session.
ForceClose(r) ==
    /\ draining
    /\ Registered(r)
    /\ s[r].ctx = "live"
    /\ Set(r, [s[r] EXCEPT !.ctx = "forced"])
    /\ UNCHANGED shared

\* The budget period of key k ends.
ResetExpired(k) ==
    /\ resets < MaxResets
    /\ resets' = resets + 1
    /\ used' = [used EXCEPT ![k] = 0]
    /\ UNCHANGED <<s, brk, window, ledger, draining, lost>>

\* Time passes for the rate limiter: entries leave the window.
Slide(k) ==
    /\ \E n \in 0 .. window[k] - 1 : window' = [window EXCEPT ![k] = n]
    /\ UNCHANGED <<s, brk, used, ledger, env, lost>>

\* Time passes for the breakers.
Tick ==
    /\ brk' = [p \in Providers |-> Age(brk[p], CfgOf[p])]
    /\ brk' # brk
    /\ UNCHANGED <<s, account, ledger, env, lost>>

-----------------------------------------------------------------------------
AttemptStep(r) == \/ \E n \in Counts : Forward(r, n) \/ WriteError(r, n)
                  \/ \E u \in Reports : Usage(r, u)
                  \/ OverBudget(r) \/ Finish(r) \/ Cancelled(r)
                  \/ \E why \in Failures : Break(r, why)

Handler(r) == \/ Arrive(r) \/ CheckBudget(r) \/ Admit(r)
              \/ UseClaim(r) \/ AskBreaker(r) \/ ListEnds(r)
              \/ AttemptStep(r)
              \/ Scan(r) \/ ClaimNext(r) \/ ScanEnds(r) \/ Failover(r)
              \/ Truncate(r) \/ Release(r)

Environment == \/ \E r \in Requests : ClientLeaves(r) \/ ForceClose(r)
               \/ BeginShutdown
               \/ \E k \in Keys : ResetExpired(k) \/ Slide(k)
               \/ Tick

\* Every request has been answered.
AllServed == (\A r \in Requests : s[r].pc \in {"done", "rejected"}) /\ UNCHANGED vars

Next == (\E r \in Requests : Handler(r)) \/ Environment \/ AllServed

Spec == Init /\ [][Next]_vars

\* What a handler does by itself: Go runs every runnable goroutine, and a
\* cancelled context wakes the parser's select.  Nothing is assumed of upstreams.
Internal(r) == \/ CheckBudget(r) \/ Admit(r) \/ UseClaim(r) \/ AskBreaker(r) \/ ListEnds(r)
               \/ Scan(r) \/ ClaimNext(r) \/ ScanEnds(r) \/ Failover(r)
               \/ Truncate(r) \/ Release(r)
HandlersRun == \A r \in Requests : WF_vars(Internal(r)) /\ WF_vars(Cancelled(r))

\* What RequestsEnd assumes of upstreams: they answer a request (nothing in the code
\* bounds that wait, see module Parser) and end the stream, break it, or fall
\* silent and are caught by the deadline.
UpstreamsEnd == \A r \in Requests : WF_vars(Finish(r) \/ \E why \in Failures : Break(r, why))

FairSpec == Spec /\ HandlersRun

-----------------------------------------------------------------------------
LastOutcome(r) == IF s[r].attempts = <<>> THEN None ELSE Last(s[r].attempts).outcome
Truncated(r) == s[r].wire # <<>> /\ Last(s[r].wire).event = "truncated"
Over(r) == s[r].pc \in {"release", "done"}

\* Requests whose outcome is in the ledger, and what they owe.
Recorded(r) == Over(r) /\ (Truncated(r) \/ LastOutcome(r) \in {"success", "shutdown"})
Owes(r) == IF Recorded(r) THEN s[r].tokens ELSE 0

\* Tokens a running attempt, or one about to be released or billed, has reserved.
InFlight(r) == IF s[r].pc \in {"attempt", "scan", "claim", "failover", "truncate"}
               THEN s[r].tokens ELSE 0

SumOver(f(_), S) == SumFunctionOnSet([r \in Requests |-> f(r)], S)
OfKey(k) == {r \in Requests : KeyOf[r] = k}

PCs == {"idle", "budget", "limit", "rejected", "loop", "attempt", "scan", "claim", "failover",
        "truncate", "release", "done"}
Outcomes == FailureReasons \cup {None, "success", "shutdown", "client_cancelled", "budget_exceeded"}

\* Types, and the indices a handler uses stay inside its provider list.
TypeOK ==
    /\ \A r \in Requests :
          /\ s[r].pc \in PCs
          /\ s[r].pc \in {"attempt", "scan", "claim", "failover"} => s[r].i \in DOMAIN List(r)
          /\ s[r].pc \in {"claim", "failover"} => s[r].j \in s[r].i + 1 .. Len(List(r))
          /\ s[r].tokens \in Nat /\ s[r].total \in Nat /\ lost[r] \in Nat
          /\ s[r].claimed \subseteq Providers
          /\ s[r].ctx \in {"live", "client", "forced"}
          /\ s[r].attempts \in Seq([provider : Providers, outcome : Outcomes, tokens : Nat])
    /\ brk \in [Providers -> CircuitType]
    /\ used \in [Keys -> Nat]
    /\ window \in [Keys -> 0 .. RateMax]
    /\ draining \in BOOLEAN
    /\ resets \in 0 .. MaxResets

\* tokens_billed is "only the final non-superseded attempt's tokens": whatever
\* order handlers finish in, the ledger holds exactly the last attempt of every
\* request that succeeded, was truncated or was cut by a forced shutdown, under
\* the provider of that attempt, and counts every truncation once.
LedgerBillsFinalAttempts == \A k \in Keys :
    /\ ledger[k].tokensBilled = SumOver(Owes, OfKey(k))
    /\ \A p \in Providers :
          ledger[k].providerTokens[p] = SumOver(Owes, {r \in OfKey(k) : FinalProvider(r) = p})
    /\ ledger[k].truncatedRequests =
          Cardinality({r \in OfKey(k) : Over(r) /\ (Truncated(r) \/ LastOutcome(r) = "shutdown")})

\* The key's account and the ledger agree: until the first budget reset,
\* TokensUsed is what is billed, what running attempts hold and what was left
\* reserved when clients went away; a reset only ever lowers it.
AccountBalances == \A k \in Keys :
    LET sum == ledger[k].tokensBilled + SumOver(InFlight, OfKey(k))
                 + SumFunctionOnSet(lost, OfKey(k))
    IN  used[k] <= sum /\ (resets = 0 => used[k] = sum)

\* The books of the gateway: well-typed, every final attempt billed once, and each
\* key's account in step with the ledger.
BooksAgree == TypeOK /\ LedgerBillsFinalAttempts /\ AccountBalances

\* Failover walks the configured priority order: the providers a request
\* attempted are allowed to its key and strictly descend the priority list,
\* whatever breakers opened and closed meanwhile.
AttemptsFollowPriority == \A r \in Requests :
    LET a == s[r].attempts
        Rank(p) == CHOOSE n \in DOMAIN Priority : Priority[n] = p
    IN  /\ \A n \in DOMAIN a : a[n].provider \in Allowlist[KeyOf[r]]
        /\ \A m, n \in DOMAIN a : m < n => Rank(a[m].provider) < Rank(a[n].provider)

\* A provider that refuses requests because of a probe owes it to a request that
\* attempts it, has claimed it, or was cancelled while attempting it: no other
\* end of an attempt forgets to tell the breaker.
ProbesAccountedFor == \A p \in Providers : brk[p].probing =>
    \E r \in Requests :
        \/ p \in s[r].claimed
        \/ /\ FinalProvider(r) = p
           /\ \/ s[r].pc = "attempt"
              \/ LastOutcome(r) \in {"shutdown", "client_cancelled"}

\* What the reference client shows is what the key pays for: when a request is in
\* the ledger, the output below the last separator is exactly the billed attempt,
\* everything else that was delivered is still visible above it, and the notice of
\* a truncation appears unless the stream succeeded or a forced shutdown cut it.
\* A stream can end without a notice in one more way than that and than its client
\* leaving: right after "regenerated output", when the announced provider's
\* breaker refused.
ClientIsTold == \A r \in Requests : Over(r) =>
    LET v == Screen(s[r].wire)
        quiet == LastOutcome(r) \in {"success", "shutdown", "client_cancelled"}
    IN
    /\ Recorded(r) /\ Reports = {} => v.block = Owes(r) /\ v.above + v.block = s[r].total
    /\ Recorded(r) => (v.notice <=> ~quiet)
    /\ ~quiet /\ ~v.notice => s[r].wire # <<>> /\ Last(s[r].wire).event = "regenerating"

\* A request whose client left or which a shutdown cancelled ends, even if the
\* upstream never says another word.
CancelledRequestsEnd == \A r \in Requests :
    (Registered(r) /\ s[r].ctx # "live") ~> (s[r].pc = "done")

\* Every registered request ends, through any number of failovers, when its
\* upstreams end their streams or are caught hanging.
RequestsEnd == UpstreamsEnd => \A r \in Requests : Registered(r) ~> (s[r].pc = "done")

-----------------------------------------------------------------------------
\* A statement of the documentation that the code does not satisfy.

\* "FailoverPending --> Truncated: provider list exhausted": a failover that
\* finds no provider ends in gateway_truncated.
NoSilentEnd == \A r \in Requests : Over(r) =>
    \/ LastOutcome(r) \in {"success", "shutdown", "client_cancelled"}
    \/ Truncated(r)

=============================================================================
