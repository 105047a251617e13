---------------------------- MODULE StreamProofs ----------------------------
(***************************************************************************)
(* Proofs about module Stream, for any number of requests, keys and        *)
(* providers.  HandlersInv says what each handler knows; on it rest the    *)
(* order of attempts, the probes (ProbesInv), the books (LedgerInv and     *)
(* AccountInv, which are sums over requests), the client's screen          *)
(* (ShownInv) and the wire protocol (SentInv).                             *)
(***************************************************************************)
EXTENDS StreamWire, SumTheorems

\* None is none of the outcomes that the handler tells apart.
LEMMA NoneIsNoOutcome ==
    None \notin FailureReasons \cup {"success", "shutdown", "client_cancelled", "budget_exceeded"}
  BY Zenon DEF None, FailureReasons

-----------------------------------------------------------------------------
\* The list of a key.

\* The place of a provider in the configured order.
Rank(p) == CHOOSE n \in DOMAIN Priority : Priority[n] = p

\* A provider is configured once, so its place is the one it is found at.
LEMMA RankIsPlace ==
    ASSUME NEW n \in 1 .. Len(Priority)
    PROVE  Rank(Priority[n]) = n /\ Priority[n] \in Providers
  <1>1. Priority \in Seq(Providers) /\ IsInjective(Priority)
    BY StreamAssumption
  <1>2. DOMAIN Priority = 1 .. Len(Priority)
    BY <1>1
  <1>3. \A a, b \in DOMAIN Priority : Priority[a] = Priority[b] => a = b
    BY <1>1 DEF IsInjective
  <1> QED BY <1>1, <1>2, <1>3 DEF Rank

\* The loop of allowedProviders as a function: the list after n turns.
IsLoop(f, A, m) ==
    f = [n \in 0 .. m |->
            IF n = 0 THEN <<>>
            ELSE IF Priority[n] \in A THEN Append(f[n - 1], Priority[n]) ELSE f[n - 1]]

\* What a list of providers allowed to a key is: allowed ones, in the configured order,
\* taken from the first n.
InOrder(L, A, n) ==
    /\ L \in Seq(Providers)
    /\ \A x \in 1 .. Len(L) : L[x] \in A /\ Rank(L[x]) \in 1 .. n
    /\ \A x, y \in 1 .. Len(L) : x < y => Rank(L[x]) < Rank(L[y])

\* The recursion has a solution: it is built turn by turn.
LEMMA LoopExists ==
    ASSUME NEW A, NEW m \in 0 .. Len(Priority)
    PROVE  \E f \in [0 .. m -> Seq(Providers)] : IsLoop(f, A, m)
  <1> DEFINE Bad == {n \in 0 .. Len(Priority) :
                        ~ \E f \in [0 .. n -> Seq(Providers)] : IsLoop(f, A, n)}
  <1>0. Len(Priority) \in Nat
    BY StreamAssumption
  <1> SUFFICES ASSUME Bad # {} PROVE FALSE
    OBVIOUS
  <1>1. PICK n \in Bad : \A k \in Bad : n <= k
    <2>1. Bad \subseteq Nat BY <1>0
    <2> HIDE DEF Bad
    <2> QED BY <2>1, LeastNat, Zenon
  <1>2. CASE n = 0
    <2> DEFINE f == [x \in 0 .. 0 |-> <<>>]
    <2>1. f \in [0 .. 0 -> Seq(Providers)] /\ IsLoop(f, A, 0)
      BY DEF IsLoop
    <2> QED BY <1>1, <1>2, <2>1
  <1>3. CASE n # 0
    <2>1. n \in Nat /\ n - 1 \in 0 .. Len(Priority) /\ n - 1 \notin Bad /\ n \in 1 .. Len(Priority)
      BY <1>0, <1>1, <1>3
    <2>2. PICK g \in [0 .. n - 1 -> Seq(Providers)] : IsLoop(g, A, n - 1)
      BY <2>1
    <2> DEFINE new == IF Priority[n] \in A THEN Append(g[n - 1], Priority[n]) ELSE g[n - 1]
               f == [x \in 0 .. n |-> IF x = n THEN new ELSE g[x]]
    <2>3. new \in Seq(Providers)
      BY <2>1, RankIsPlace
    <2> HIDE DEF new
    <2>4. f \in [0 .. n -> Seq(Providers)]
      BY <2>1, <2>3
    <2>5. ASSUME NEW x \in 0 .. n
          PROVE  f[x] = IF x = 0 THEN <<>>
                        ELSE IF Priority[x] \in A THEN Append(f[x - 1], Priority[x]) ELSE f[x - 1]
      <3>1. CASE x = n
        BY <2>1, <3>1 DEF new
      <3>2. CASE x # n
        <4>1. x \in 0 .. n - 1 /\ (x # 0 => x - 1 \in 0 .. n - 1 /\ x - 1 # n)
          BY <2>1, <3>2
        <4>2. g[x] = IF x = 0 THEN <<>>
                     ELSE IF Priority[x] \in A THEN Append(g[x - 1], Priority[x]) ELSE g[x - 1]
          BY <2>2, <4>1 DEF IsLoop
        <4>3. f[x] = g[x] /\ (x # 0 => f[x - 1] = g[x - 1])
          BY <2>1, <3>2, <4>1
        <4> HIDE DEF f
        <4> QED BY <4>2, <4>3
      <3> QED BY <3>1, <3>2
    <2>6. IsLoop(f, A, n)
      BY <2>5 DEF IsLoop
    <2> QED BY <1>1, <2>4, <2>6
  <1> QED BY <1>2, <1>3

\* Every solution keeps the configured order.
LEMMA LoopKeepsOrder ==
    ASSUME NEW A, NEW f, IsLoop(f, A, Len(Priority)), NEW m \in 0 .. Len(Priority)
    PROVE  InOrder(f[m], A, m)
  <1> DEFINE Bad == {n \in 0 .. Len(Priority) : ~InOrder(f[n], A, n)}
  <1>0. Len(Priority) \in Nat
    BY StreamAssumption
  <1> SUFFICES ASSUME Bad # {} PROVE FALSE
    OBVIOUS
  <1>1. PICK n \in Bad : \A k \in Bad : n <= k
    <2>1. Bad \subseteq Nat BY <1>0
    <2> HIDE DEF Bad
    <2> QED BY <2>1, LeastNat, Zenon
  <1>2. f[n] = IF n = 0 THEN <<>>
               ELSE IF Priority[n] \in A THEN Append(f[n - 1], Priority[n]) ELSE f[n - 1]
    BY <1>1 DEF IsLoop
  <1>3. CASE n = 0
    <2>1. f[n] = <<>> /\ ~InOrder(f[n], A, n)
      BY <1>1, <1>2, <1>3
    <2>2. InOrder(<<>>, A, 0)
      BY DEF InOrder
    <2> QED BY <1>3, <2>1, <2>2
  <1>4. CASE n # 0
    <2>1. n \in Nat /\ n \in 1 .. Len(Priority) /\ n - 1 \in 0 .. Len(Priority) /\ n - 1 \notin Bad
      BY <1>0, <1>1, <1>4
    <2>2. InOrder(f[n - 1], A, n - 1)
      BY <2>1
    <2>3. Rank(Priority[n]) = n /\ Priority[n] \in Providers
      BY <2>1, RankIsPlace
    <2>4. PICK L \in Seq(Providers) : L = f[n - 1]
      BY <2>2 DEF InOrder
    <2>5. CASE Priority[n] \notin A
      BY SMTT(40), <1>1, <1>2, <1>4, <2>1, <2>2, <2>4, <2>5 DEF InOrder
    <2>6. CASE Priority[n] \in A
      <3> DEFINE M == Append(L, Priority[n])
      <3>1. f[n] = M
        BY <1>2, <1>4, <2>4, <2>6
      <3>2. /\ M \in Seq(Providers) /\ Len(M) = Len(L) + 1 /\ Len(L) \in Nat
            /\ M[Len(L) + 1] = Priority[n]
            /\ \A x \in 1 .. Len(L) : M[x] = L[x]
        BY <2>3
      <3> HIDE DEF M
      <3>3. \A x \in 1 .. Len(M) : x \in 1 .. Len(L) \/ x = Len(L) + 1
        BY <3>2
      <3>4. \A x \in 1 .. Len(L) : L[x] \in A /\ Rank(L[x]) \in 1 .. n - 1
        BY <2>2, <2>4 DEF InOrder
      <3>5. \A x \in 1 .. Len(M) : M[x] \in A /\ Rank(M[x]) \in 1 .. n
        <4> TAKE x \in 1 .. Len(M)
        <4>1. CASE x \in 1 .. Len(L)
          <5>1. Rank(L[x]) \in 1 .. n - 1 /\ L[x] \in A /\ M[x] = L[x]
            BY <3>2, <3>4, <4>1
          <5> QED BY <2>1, <5>1
        <4>2. CASE x = Len(L) + 1
          BY <2>1, <2>3, <2>6, <3>2, <4>2
        <4> QED BY <3>3, <4>1, <4>2
      <3>6. \A x, y \in 1 .. Len(M) : x < y => Rank(M[x]) < Rank(M[y])
        <4> TAKE x, y \in 1 .. Len(M)
        <4> HAVE x < y
        <4>1. x \in 1 .. Len(L)
          BY <3>2, <3>3
        <4>2. CASE y \in 1 .. Len(L)
          <5>1. \A a, b \in 1 .. Len(L) : a < b => Rank(L[a]) < Rank(L[b])
            BY <2>2, <2>4 DEF InOrder
          <5> QED BY <3>2, <4>1, <4>2, <5>1
        <4>3. CASE y = Len(L) + 1
          BY <2>1, <2>3, <3>2, <3>4, <4>1, <4>3
        <4> QED BY <3>3, <4>2, <4>3
      <3>7. InOrder(M, A, n)
        BY <3>2, <3>5, <3>6 DEF InOrder
      <3> QED BY <1>1, <3>1, <3>7
    <2> QED BY <2>5, <2>6
  <1> QED BY <1>3, <1>4

\* allowedProviders returns providers allowed to the key, in the configured order.
LEMMA ListInOrder ==
    ASSUME NEW k
    PROVE  InOrder(AllowedProviders(k), Allowlist[k], Len(Priority))
  <1> DEFINE c == CHOOSE f : IsLoop(f, Allowlist[k], Len(Priority))
  <1>0. Len(Priority) \in Nat /\ Len(Priority) \in 0 .. Len(Priority)
    BY StreamAssumption
  <1>1. \E f : IsLoop(f, Allowlist[k], Len(Priority))
    BY <1>0, LoopExists
  <1>2. IsLoop(c, Allowlist[k], Len(Priority))
    BY <1>1
  <1>3. AllowedProviders(k) = c[Len(Priority)]
    BY DEF AllowedProviders, IsLoop
  <1> QED BY <1>0, <1>2, <1>3, LoopKeepsOrder

-----------------------------------------------------------------------------
\* Circuits.

\* State: the circuit stays one and has no probe it did not have.
LEMMA RefreshProbe ==
    ASSUME NEW c \in CircuitType, NEW cfg
    PROVE  Refresh(c, cfg) \in CircuitType /\ (Refresh(c, cfg).probing => c.probing)
  <1>1. Transition(c, "half_open") \in CircuitType /\ ~Transition(c, "half_open").probing
    BY DEF Transition, CircuitType
  <1> QED BY <1>1 DEF Refresh

\* AllowAttempt: only an attempt that is let through can become the probe.
LEMMA AllowProbe ==
    ASSUME NEW c \in CircuitType, NEW cfg
    PROVE  /\ AllowAttempt(c, cfg) \in CircuitType
           /\ AllowAttempt(c, cfg).probing => c.probing \/ Allows(c, cfg)
  <1>1. PICK d \in CircuitType : d = Refresh(c, cfg) /\ (d.probing => c.probing)
    BY RefreshProbe
  <1>2. Claim(d) \in CircuitType
    BY DEF Claim, CircuitType
  <1> QED BY <1>1, <1>2 DEF AllowAttempt, Allows, ProbeFree

\* TryClaimProbe: only a claim that is granted makes a probe.
LEMMA ClaimProbe ==
    ASSUME NEW c \in CircuitType, NEW cfg
    PROVE  /\ TryClaimProbe(c, cfg) \in CircuitType
           /\ TryClaimProbe(c, cfg).probing => c.probing \/ Claims(c, cfg)
  <1>1. PICK d \in CircuitType : d = Refresh(c, cfg) /\ (d.probing => c.probing)
    BY RefreshProbe
  <1>2. Claim(d) \in CircuitType
    BY DEF Claim, CircuitType
  <1> QED BY <1>1, <1>2 DEF TryClaimProbe, Claims, ProbeFree

\* RecordSuccess and RecordFailure end the probe.
LEMMA RecordEndsProbe ==
    ASSUME NEW c \in CircuitType, NEW cfg
    PROVE  /\ RecordSuccess(c, cfg) \in CircuitType /\ ~RecordSuccess(c, cfg).probing
           /\ RecordFailure(c, cfg) \in CircuitType /\ ~RecordFailure(c, cfg).probing
  <1>1. ASSUME NEW d \in CircuitType, NEW st \in {"closed", "open"}
        PROVE  Transition(d, st) \in CircuitType /\ ~Transition(d, st).probing
    BY DEF Transition, CircuitType
  <1>2. RecordSuccess(c, cfg) \in CircuitType /\ ~RecordSuccess(c, cfg).probing
    <2> DEFINE d == [c EXCEPT !.consecutiveFailures = 0, !.probing = FALSE]
    <2>1. d \in CircuitType /\ ~d.probing BY DEF CircuitType
    <2> HIDE DEF d
    <2> DEFINE e == [d EXCEPT !.consecutiveSuccess = @ + 1]
    <2>2. e \in CircuitType /\ ~e.probing BY <2>1 DEF CircuitType
    <2>3. RecordSuccess(c, cfg) \in {d, e, Transition(e, "closed")} BY DEF RecordSuccess, d
    <2> HIDE DEF e
    <2> QED BY <1>1, <2>1, <2>2, <2>3
  <1>3. RecordFailure(c, cfg) \in CircuitType /\ ~RecordFailure(c, cfg).probing
    <2> DEFINE d == [c EXCEPT !.probing = FALSE, !.consecutiveSuccess = 0]
    <2>1. d \in CircuitType /\ ~d.probing BY DEF CircuitType
    <2> HIDE DEF d
    <2> DEFINE e == [d EXCEPT !.consecutiveFailures = @ + 1]
    <2>2. e \in CircuitType /\ ~e.probing BY <2>1 DEF CircuitType
    <2>3. RecordFailure(c, cfg) \in {Transition(d, "open"), Transition(e, "open"), e} BY DEF RecordFailure, d
    <2> HIDE DEF e
    <2> QED BY <1>1, <2>1, <2>2, <2>3
  <1> QED BY <1>2, <1>3

\* Time does not touch the probe.
LEMMA AgeKeepsProbe ==
    ASSUME NEW c \in CircuitType, NEW cfg
    PROVE  Age(c, cfg) \in CircuitType /\ (Age(c, cfg).probing => c.probing)
  BY DEF Age, CircuitType

-----------------------------------------------------------------------------
\* The local state of a handler.

Reasons == Outcomes \cup {"all_providers_exhausted", "server_shutting_down", "invalid_api_key",
                          "provider_not_allowed", "rate_limited", "budget_exhausted"}
AttemptType == [provider : Providers, outcome : Outcomes, tokens : Nat]
EventType == [event : {"status", "content", "failover", "regenerating", "truncated"},
              provider : Providers \cup {None}, to : Providers \cup {None},
              n : Nat, reason : Reasons]
HandlerType == [pc : PCs, i : Nat \ {0}, j : Nat, tokens : Nat, total : Nat,
                claimed : SUBSET Providers, ctx : {"live", "client", "forced"},
                gone : BOOLEAN, reason : Reasons,
                attempts : Seq(AttemptType), wire : Seq(EventType)]

\* Before the session is registered nothing was attempted or written, and the tokens
\* counted are those of an attempt.
Counted(h) ==
    /\ h.pc \in {"idle", "budget", "limit", "rejected"} => h.attempts = <<>> /\ h.wire = <<>>
    /\ h.pc \in {"attempt", "scan", "claim", "failover"} => h.attempts # <<>>
    /\ h.attempts = <<>> => h.tokens = 0
    /\ h.tokens <= h.total

\* The loop index and the look-ahead index stay inside the list L.
Indexed(h, L) ==
    /\ h.pc \in {"attempt", "scan", "claim", "failover"} => h.i \in 1 .. Len(L)
    /\ h.pc = "scan" => h.j >= h.i + 1
    /\ h.pc \in {"claim", "failover"} => h.j \in h.i + 1 .. Len(L)

\* The last attempt is the running one, or has the outcome that sent the handler on.
Judged(h, L) ==
    /\ h.pc = "attempt" => /\ h.attempts[Len(h.attempts)].provider = L[h.i]
                           /\ h.attempts[Len(h.attempts)].outcome = None
    /\ h.pc \in {"loop", "scan", "claim", "failover"} /\ h.attempts # <<>>
          => h.attempts[Len(h.attempts)].outcome \in FailureReasons
    /\ h.pc = "truncate" /\ h.attempts # <<>>
          => h.attempts[Len(h.attempts)].outcome \in FailureReasons \cup {"budget_exceeded"}

\* gateway_truncated is written on the way out only.
Untruncated(h) ==
    h.pc \notin {"release", "done"} => h.wire = <<>> \/ h.wire[Len(h.wire)].event # "truncated"

\* The first index of the list whose provider may still be attempted.
Open(h) == IF h.pc \in {"idle", "budget", "limit", "loop"} THEN h.i ELSE h.i + 1

\* Attempts are of allowed providers, in the configured order, and below all that
\* may still be attempted.
Ordered(h, A, L) ==
    /\ \A n \in 1 .. Len(h.attempts) : h.attempts[n].provider \in A
    /\ \A m, n \in 1 .. Len(h.attempts) :
          m < n => Rank(h.attempts[m].provider) < Rank(h.attempts[n].provider)
    /\ \A n \in 1 .. Len(h.attempts), x \in 1 .. Len(L) :
          Open(h) <= x => Rank(h.attempts[n].provider) < Rank(L[x])

Local(h, A, L) ==
    /\ h \in HandlerType
    /\ Counted(h) /\ Indexed(h, L) /\ Judged(h, L) /\ Untruncated(h) /\ Ordered(h, A, L)

\* A change that leaves the place in the list, the attempts and the events alone.
LEMMA QuietLocal ==
    ASSUME NEW A, NEW L \in Seq(Providers), NEW h, Local(h, A, L), NEW g \in HandlerType,
           g.pc = h.pc, g.i = h.i, g.j = h.j, g.attempts = h.attempts, g.tokens = h.tokens,
           g.total = h.total, g.wire = h.wire
    PROVE  Local(g, A, L)
  BY DEF Local, Counted, Indexed, Judged, Untruncated, Ordered, Open

\* The handler before its session is registered, and the refusals.
LEMMA EarlyLocal ==
    ASSUME NEW A, NEW L \in Seq(Providers), NEW h, Local(h, A, L), NEW g \in HandlerType,
           h.pc \in {"idle", "budget", "limit"}, g.pc \in {"budget", "limit", "rejected", "loop"},
           g.i = h.i, g.attempts = h.attempts, g.tokens = h.tokens,
           g.total = h.total, g.wire = h.wire
    PROVE  Local(g, A, L)
  BY DEF Local, Counted, Indexed, Judged, Untruncated, Ordered, Open

\* The loop moves past a provider.
LEMMA AdvanceLocal ==
    ASSUME NEW A, NEW L \in Seq(Providers), NEW h, Local(h, A, L), NEW g \in HandlerType,
           h.pc = "loop", g.pc = "loop", g.i = h.i + 1,
           g.attempts = h.attempts, g.tokens = h.tokens, g.total = h.total, g.wire = h.wire
    PROVE  Local(g, A, L)
  <1>1. Ordered(g, A, L)
    BY DEF Local, HandlerType, Ordered, Open
  <1> QED BY <1>1 DEF Local, Counted, Indexed, Judged, Untruncated

\* The handler leaves the loop, the look-ahead moves or ends.
LEMMA MoveLocal ==
    ASSUME NEW A, NEW L \in Seq(Providers), NEW h, Local(h, A, L), NEW g \in HandlerType,
           \/ h.pc = "loop" /\ g.pc \in {"truncate", "release"}
           \/ h.pc \in {"scan", "claim"} /\ g.pc = "scan" /\ g.j = h.j + 1
           \/ h.pc = "scan" /\ g.pc \in {"claim", "failover"} /\ g.j = h.j /\ h.j <= Len(L)
           \/ h.pc = "claim" /\ g.pc = "failover" /\ g.j = h.j
           \/ h.pc = "scan" /\ g.pc = "truncate"
           \/ h.pc = "release" /\ g.pc = "done",
           g.i = h.i, g.attempts = h.attempts, g.tokens = h.tokens, g.total = h.total,
           g.wire = h.wire
    PROVE  Local(g, A, L)
  <1>0. h \in HandlerType /\ Len(L) \in Nat
    BY DEF Local
  <1>1. Ordered(g, A, L)
    <2>1. Open(h) \in Nat /\ Open(g) \in Nat /\ Open(h) <= Open(g)
      BY <1>0 DEF HandlerType, Open
    <2> QED BY <2>1 DEF Local, Ordered
  <1>2. Indexed(g, L)
    BY <1>0 DEF Local, HandlerType, Indexed
  <1>3. Judged(g, L)
    BY <1>0 DEF Local, Judged, Indexed
  <1> QED BY <1>1, <1>2, <1>3 DEF Local, Counted, Untruncated

\* The fields an attempt begins with.
LEMMA BeginFields ==
    ASSUME NEW h \in HandlerType, NEW p \in Providers
    PROVE  /\ Begin(h, p) \in HandlerType
           /\ Begin(h, p).pc = "attempt" /\ Begin(h, p).i = h.i /\ Begin(h, p).tokens = 0
           /\ Begin(h, p).total = h.total /\ Begin(h, p).claimed = h.claimed \ {p}
           /\ Begin(h, p).attempts = Append(h.attempts, [provider |-> p, outcome |-> None, tokens |-> 0])
           /\ Begin(h, p).wire = IF StatusDue(h) THEN Append(h.wire, Status(p)) ELSE h.wire
  <1>1. PICK b \in Seq(AttemptType) :
           b = Append(h.attempts, [provider |-> p, outcome |-> None, tokens |-> 0])
    <2>1. [provider |-> p, outcome |-> None, tokens |-> 0] \in AttemptType
      BY DEF AttemptType, Outcomes
    <2>2. h.attempts \in Seq(AttemptType)
      BY DEF HandlerType
    <2>3. Append(h.attempts, [provider |-> p, outcome |-> None, tokens |-> 0]) \in Seq(AttemptType)
      BY <2>1, <2>2
    <2> QED BY <2>3
  <1>2. Status(p) \in EventType
    BY DEF Status, Event, EventType, Reasons, Outcomes
  <1>3. PICK w \in Seq(EventType) : w = IF StatusDue(h) THEN Append(h.wire, Status(p)) ELSE h.wire
    <2>1. h.wire \in Seq(EventType)
      BY DEF HandlerType
    <2>2. Append(h.wire, Status(p)) \in Seq(EventType)
      BY <1>2, <2>1
    <2> QED BY <2>1, <2>2
  <1>4. PICK c \in SUBSET Providers : c = h.claimed \ {p}
    BY DEF HandlerType
  <1>5. Begin(h, p) = [h EXCEPT !.attempts = b, !.pc = "attempt", !.tokens = 0, !.claimed = c, !.wire = w]
    BY <1>1, <1>3, <1>4 DEF Begin, StartAttempt, HandlerType
  <1>6. [h EXCEPT !.attempts = b, !.pc = "attempt", !.tokens = 0, !.claimed = c, !.wire = w] \in HandlerType
    BY DEF HandlerType, PCs
  <1>7. \A g : g = [h EXCEPT !.attempts = b, !.pc = "attempt", !.tokens = 0, !.claimed = c, !.wire = w]
               => /\ g.pc = "attempt" /\ g.i = h.i /\ g.tokens = 0 /\ g.total = h.total
                  /\ g.attempts = b /\ g.wire = w /\ g.claimed = c
    BY DEF HandlerType
  <1>8. Begin(h, p) \in HandlerType
    BY <1>5, <1>6, Zenon
  <1>9. /\ Begin(h, p).pc = "attempt" /\ Begin(h, p).i = h.i /\ Begin(h, p).tokens = 0
        /\ Begin(h, p).total = h.total
        /\ Begin(h, p).attempts = b /\ Begin(h, p).wire = w /\ Begin(h, p).claimed = c
    BY <1>5, <1>7, Zenon
  <1> QED BY <1>1, <1>3, <1>4, <1>8, <1>9

\* A provider of the list becomes the next attempt.
LEMMA BeginLocal ==
    ASSUME NEW A, NEW L, InOrder(L, A, Len(Priority)), NEW h, Local(h, A, L),
           h.pc = "loop", h.i <= Len(L), NEW g, g = Begin(h, L[h.i])
    PROVE  /\ Local(g, A, L)
           /\ g.attempts # <<>> /\ Last(g.attempts).provider = L[h.i]
           /\ g.pc = "attempt" /\ g.claimed = h.claimed \ {L[h.i]}
           /\ g.tokens = 0 /\ g.total = h.total
           /\ g.wire = h.wire \/ g.wire = Append(h.wire, Status(L[h.i]))
  <1> DEFINE p == L[h.i]
             new == [provider |-> p, outcome |-> None, tokens |-> 0]
             a == h.attempts
             w == IF StatusDue(h) THEN Append(h.wire, Status(p)) ELSE h.wire
  <1>1. h \in HandlerType /\ L \in Seq(Providers) /\ h.i \in 1 .. Len(L) /\ p \in Providers /\ p \in A
    <2>1. h \in HandlerType /\ L \in Seq(Providers) BY DEF Local, InOrder
    <2>2. h.i \in 1 .. Len(L) BY <2>1 DEF HandlerType
    <2> QED BY <2>1, <2>2 DEF InOrder
  <1>2. new \in AttemptType /\ a \in Seq(AttemptType)
    BY <1>1 DEF AttemptType, Outcomes, HandlerType
  <1>3. w \in Seq(EventType) /\ (w = <<>> \/ w[Len(w)].event # "truncated")
    <2>1. Status(p) \in EventType /\ Status(p).event = "status"
      BY <1>1 DEF Status, Event, EventType, Reasons, Outcomes
    <2>2. h.wire \in Seq(EventType) /\ (h.wire = <<>> \/ h.wire[Len(h.wire)].event # "truncated")
      BY <1>1 DEF Local, HandlerType, Untruncated
    <2> HIDE DEF p
    <2> QED BY <2>1, <2>2
  <1> DEFINE b == Append(a, new)
  <1>4. /\ b \in Seq(AttemptType) /\ Len(b) = Len(a) + 1 /\ Len(a) \in Nat /\ b[Len(b)] = new
        /\ b # <<>> /\ \A n \in 1 .. Len(a) : b[n] = a[n]
    BY <1>2
  <1>5. /\ g \in HandlerType
        /\ g.pc = "attempt" /\ g.i = h.i /\ g.tokens = 0 /\ g.total = h.total /\ g.attempts = b
        /\ g.wire = w /\ g.claimed = h.claimed \ {p}
    BY <1>1, BeginFields
  <1>6. Ordered(g, A, L)
    <2>1. \A n \in 1 .. Len(b) : n \in 1 .. Len(a) \/ n = Len(b)
      BY <1>4
    <2>2. \A n \in 1 .. Len(a) : a[n].provider \in A /\ Rank(a[n].provider) < Rank(p)
      BY <1>1 DEF Local, HandlerType, Ordered, Open
    <2>3. \A n \in 1 .. Len(a), x \in 1 .. Len(L) :
             h.i + 1 <= x => Rank(a[n].provider) < Rank(L[x])
      BY <1>1 DEF Local, HandlerType, Ordered, Open
    <2>4. \A x \in 1 .. Len(L) : h.i + 1 <= x => Rank(p) < Rank(L[x])
      BY <1>1 DEF InOrder
    <2>5. \A m, n \in 1 .. Len(a) : m < n => Rank(a[m].provider) < Rank(a[n].provider)
      BY DEF Local, Ordered
    <2>6. b[Len(b)].provider = p /\ \A n \in 1 .. Len(a) : b[n].provider = a[n].provider
      BY <1>4
    <2>7. Open(g) = h.i + 1
      BY <1>5 DEF Open
    <2> HIDE DEF p, new, w, a, b
    <2>8. \A n \in 1 .. Len(b) : b[n].provider \in A
      BY <1>1, <2>1, <2>2, <2>6
    <2>9. \A m, n \in 1 .. Len(b) : m < n => Rank(b[m].provider) < Rank(b[n].provider)
      BY <1>4, <2>1, <2>2, <2>5, <2>6
    <2>10. \A n \in 1 .. Len(b), x \in 1 .. Len(L) : h.i + 1 <= x => Rank(b[n].provider) < Rank(L[x])
      BY <2>1, <2>3, <2>4, <2>6
    <2> QED BY <1>5, <2>7, <2>8, <2>9, <2>10 DEF Ordered
  <1>7. Counted(g)
    BY SMTT(40), <1>1, <1>4, <1>5 DEF Counted, HandlerType
  <1>8. Indexed(g, L) /\ Untruncated(g)
    BY <1>1, <1>3, <1>5 DEF Indexed, Untruncated
  <1>9. Judged(g, L)
    BY <1>4, <1>5 DEF Judged
  <1>10. Last(g.attempts).provider = p
    BY <1>4, <1>5 DEF Last
  <1>11. g.wire = h.wire \/ g.wire = Append(h.wire, Status(p))
    BY <1>5
  <1> QED BY <1>4, <1>5, <1>6, <1>7, <1>8, <1>9, <1>10, <1>11 DEF Local

\* Session.FinishAttempt changes the outcome of the last attempt and no provider.
LEMMA FinishChanges ==
    ASSUME NEW h \in HandlerType, h.attempts # <<>>, NEW o \in Outcomes, NEW n \in Nat,
           NEW g, g = FinishAttempt(h, o, n)
    PROVE  /\ g \in HandlerType
           /\ g.pc = h.pc /\ g.i = h.i /\ g.j = h.j /\ g.tokens = h.tokens /\ g.total = h.total
           /\ g.claimed = h.claimed /\ g.wire = h.wire /\ g.ctx = h.ctx /\ g.gone = h.gone
           /\ Len(g.attempts) = Len(h.attempts) /\ g.attempts # <<>>
           /\ g.attempts[Len(g.attempts)].outcome = o
           /\ \A x \in 1 .. Len(h.attempts) : g.attempts[x].provider = h.attempts[x].provider
  <1> DEFINE a == h.attempts
             last == [a[Len(a)] EXCEPT !.outcome = o, !.tokens = n]
  <1>1. a \in Seq(AttemptType) /\ Len(a) \in Nat /\ Len(a) >= 1
    BY DEF HandlerType
  <1>2. a[Len(a)] \in AttemptType
    BY <1>1
  <1>3. last \in AttemptType /\ last.outcome = o /\ last.provider = a[Len(a)].provider
    <2> DEFINE z == a[Len(a)]
    <2>1. z \in AttemptType BY <1>2
    <2> HIDE DEF z
    <2>2. LET l == [z EXCEPT !.outcome = o, !.tokens = n]
          IN  l \in AttemptType /\ l.outcome = o /\ l.provider = z.provider
      BY <2>1 DEF AttemptType
    <2> QED BY <2>2 DEF z
  <1> DEFINE b == [a EXCEPT ![Len(a)] = last]
  <1>4. g = [h EXCEPT !.attempts = b]
    BY DEF FinishAttempt
  <1> HIDE DEF a, last
  <1>5. /\ b \in Seq(AttemptType) /\ Len(b) = Len(a) /\ b # <<>> /\ b[Len(b)] = last
        /\ \A x \in 1 .. Len(a) : x # Len(a) => b[x] = a[x]
    BY <1>1, <1>3
  <1> HIDE DEF b
  <1>6. /\ g \in HandlerType /\ g.attempts = b
        /\ g.pc = h.pc /\ g.i = h.i /\ g.j = h.j /\ g.tokens = h.tokens /\ g.total = h.total
        /\ g.claimed = h.claimed /\ g.wire = h.wire /\ g.ctx = h.ctx /\ g.gone = h.gone
    BY <1>4, <1>5 DEF HandlerType
  <1>7. \A x \in 1 .. Len(a) : b[x].provider = a[x].provider
    BY <1>3, <1>5
  <1> QED BY <1>3, <1>5, <1>6, <1>7 DEF a

\* An attempt ends.
LEMMA EndLocal ==
    ASSUME NEW A, NEW L \in Seq(Providers), NEW h, Local(h, A, L), h.pc = "attempt",
           NEW o \in Outcomes, NEW n \in Nat, NEW g \in HandlerType,
           \/ g.pc = "release"
           \/ g.pc = "truncate" /\ o = "budget_exceeded"
           \/ g.pc = "scan" /\ g.j = h.i + 1 /\ o \in FailureReasons,
           g.i = h.i, g.attempts = FinishAttempt(h, o, n).attempts,
           g.tokens = h.tokens, g.total = h.total, g.wire = h.wire
    PROVE  Local(g, A, L)
  <1>1. h \in HandlerType /\ h.attempts # <<>>
    BY DEF Local, Counted
  <1> DEFINE f == FinishAttempt(h, o, n)
  <1>2. /\ Len(f.attempts) = Len(h.attempts) /\ f.attempts # <<>>
        /\ f.attempts[Len(f.attempts)].outcome = o
        /\ \A x \in 1 .. Len(h.attempts) : f.attempts[x].provider = h.attempts[x].provider
    BY <1>1, FinishChanges
  <1> HIDE DEF f
  <1>a. g.attempts = f.attempts
    BY DEF f
  <1>3. Ordered(g, A, L)
    <2>1. Open(h) = h.i + 1 /\ Open(g) = h.i + 1
      BY <1>a, <1>2 DEF Open
    <2> QED BY <1>a, <1>2, <2>1 DEF Local, Ordered
  <1>4. Counted(g)
    BY <1>a, <1>2 DEF Local, Counted
  <1>5. Indexed(g, L)
    BY <1>1, <1>a, <1>2 DEF Local, Indexed, HandlerType
  <1>6. Judged(g, L) /\ Untruncated(g)
    BY <1>a, <1>2 DEF Local, Judged, Untruncated
  <1> QED BY <1>3, <1>4, <1>5, <1>6 DEF Local

\* The counters and the content of a running attempt.
LEMMA CountLocal ==
    ASSUME NEW A, NEW L \in Seq(Providers), NEW h, Local(h, A, L), h.pc = "attempt",
           NEW g \in HandlerType, g.pc = h.pc, g.i = h.i, g.attempts = h.attempts,
           g.tokens <= g.total, g.wire = h.wire \/ g.wire[Len(g.wire)].event = "content"
    PROVE  Local(g, A, L)
  <1>1. Ordered(g, A, L)
    BY DEF Local, Ordered, Open
  <1> QED BY <1>1 DEF Local, Counted, Indexed, Judged, Untruncated

\* The loop goes on after a failover.
LEMMA FailoverLocal ==
    ASSUME NEW A, NEW L \in Seq(Providers), NEW h, Local(h, A, L), h.pc = "failover",
           NEW g \in HandlerType, g.pc = "loop", g.i = h.i + 1, g.attempts = h.attempts,
           g.tokens = h.tokens, g.total = h.total, g.wire[Len(g.wire)].event = "regenerating"
    PROVE  Local(g, A, L)
  <1>1. Ordered(g, A, L)
    BY DEF Local, Ordered, Open
  <1> QED BY <1>1 DEF Local, Counted, Indexed, Judged, Untruncated

\* gateway_truncated is written.
LEMMA TruncateLocal ==
    ASSUME NEW A, NEW L \in Seq(Providers), NEW h, Local(h, A, L), h.pc = "truncate",
           NEW g \in HandlerType, g.pc = "release", g.i = h.i, g.attempts = h.attempts,
           g.tokens = h.tokens, g.total = h.total
    PROVE  Local(g, A, L)
  <1>1. Ordered(g, A, L)
    BY DEF Local, Ordered, Open
  <1> QED BY <1>1 DEF Local, Counted, Indexed, Judged, Untruncated

-----------------------------------------------------------------------------
\* The handlers of all requests.

\* Every handler is in one of these states, and only a request that presented a key of
\* the store gets past the admission.
HandlersInv ==
    /\ s \in [Requests -> HandlerType]
    /\ \A r \in Requests : /\ Local(s[r], Allowlist[KeyOf[r]], List(r))
                           /\ s[r].pc \notin {"idle", "rejected"} => KeyOf[r] \in Keys

\* A step of handler r leaves it in one of these states too, and touches no other.
Moves(r) ==
    /\ s' \in [Requests -> HandlerType]
    /\ \A q \in Requests \ {r} : s'[q] = s[q]
    /\ Local(s'[r], Allowlist[KeyOf[r]], List(r))
    /\ s'[r].pc \notin {"idle", "rejected"} => KeyOf[r] \in Keys

\* The state r is in and its list.
LEMMA HandlerFacts ==
    ASSUME HandlersInv, NEW r \in Requests
    PROVE  /\ s[r] \in HandlerType /\ Local(s[r], Allowlist[KeyOf[r]], List(r))
           /\ s[r].pc \notin {"idle", "rejected"} => KeyOf[r] \in Keys
           /\ InOrder(List(r), Allowlist[KeyOf[r]], Len(Priority)) /\ List(r) \in Seq(Providers)
  <1>1. InOrder(List(r), Allowlist[KeyOf[r]], Len(Priority))
    BY ListInOrder DEF List
  <1> QED BY <1>1 DEF HandlersInv, InOrder

\* A record set for r is the state of r, and no other handler moves.
LEMMA SetMoves ==
    ASSUME HandlersInv, NEW r \in Requests, NEW g, Set(r, g)
    PROVE  /\ s'[r] = g
           /\ Local(g, Allowlist[KeyOf[r]], List(r))
                 /\ (g.pc \notin {"idle", "rejected"} => KeyOf[r] \in Keys) => Moves(r)
  <1>1. s'[r] = g /\ \A q \in Requests \ {r} : s'[q] = s[q]
    BY DEF HandlersInv, Set
  <1>2. g \in HandlerType => s' \in [Requests -> HandlerType]
    BY DEF HandlersInv, Set
  <1> QED BY <1>1, <1>2 DEF Moves, Local

\* A step of r that attempts nothing, ends no attempt and writes nothing.
Still(r) == /\ s'[r].claimed = s[r].claimed /\ s'[r].attempts = s[r].attempts
            /\ s'[r].wire = s[r].wire /\ s'[r].tokens = s[r].tokens /\ s'[r].total = s[r].total

\* One that attempts the provider at the loop index.
Begins(r) == /\ s[r].pc = "loop" /\ s'[r].pc = "attempt"
             /\ s'[r].attempts # <<>> /\ Last(s'[r].attempts).provider = Cur(r)
             /\ s'[r].claimed = s[r].claimed \ {Cur(r)}
             /\ s'[r].tokens = 0 /\ s'[r].total = s[r].total
             /\ s'[r].wire = s[r].wire \/ s'[r].wire = Append(s[r].wire, Status(Cur(r)))

\* One that ends the running attempt with outcome o and leaves r at pc.
Ends(r, o, pc) == /\ s[r].pc = "attempt" /\ s'[r].pc = pc
                  /\ s[r].attempts # <<>> /\ Last(s[r].attempts).provider = Cur(r)
                  /\ s'[r].attempts # <<>> /\ Last(s'[r].attempts).provider = Cur(r)
                  /\ Last(s'[r].attempts).outcome = o
                  /\ s'[r].claimed = s[r].claimed /\ s'[r].wire = s[r].wire
                  /\ s'[r].tokens = s[r].tokens /\ s'[r].total = s[r].total

\* A record with another place, or another place and reason.
At(h, pc) == [h EXCEPT !.pc = pc]
AtFor(h, pc, why) == [h EXCEPT !.pc = pc, !.reason = why]

\* The fields they, and the look-ahead that moves on, leave alone.
LEMMA AtFields ==
    ASSUME NEW h \in HandlerType, NEW pc
    PROVE  /\ pc \in PCs => At(h, pc) \in HandlerType
           /\ At(h, pc).pc = pc /\ At(h, pc).i = h.i /\ At(h, pc).j = h.j
           /\ At(h, pc).total = h.total /\ At(h, pc).tokens = h.tokens /\ At(h, pc).claimed = h.claimed
           /\ At(h, pc).attempts = h.attempts /\ At(h, pc).wire = h.wire
  BY DEF At, HandlerType

\* A record with another place and reason keeps every other field.
LEMMA AtForFields ==
    ASSUME NEW h \in HandlerType, NEW pc, NEW why
    PROVE  /\ pc \in PCs /\ why \in Reasons => AtFor(h, pc, why) \in HandlerType
           /\ AtFor(h, pc, why).pc = pc /\ AtFor(h, pc, why).i = h.i /\ AtFor(h, pc, why).j = h.j
           /\ AtFor(h, pc, why).total = h.total /\ AtFor(h, pc, why).tokens = h.tokens
           /\ AtFor(h, pc, why).claimed = h.claimed
           /\ AtFor(h, pc, why).attempts = h.attempts /\ AtFor(h, pc, why).wire = h.wire
  BY DEF AtFor, HandlerType

\* The look-ahead that moves on changes its index only.
LEMMA SkipFields ==
    ASSUME NEW h \in HandlerType
    PROVE  /\ Skip(h) \in HandlerType
           /\ Skip(h).pc = "scan" /\ Skip(h).i = h.i /\ Skip(h).j = h.j + 1
           /\ Skip(h).total = h.total /\ Skip(h).tokens = h.tokens /\ Skip(h).claimed = h.claimed
           /\ Skip(h).attempts = h.attempts /\ Skip(h).wire = h.wire
  <1>1. PICK j \in Nat : j = h.j + 1
    BY DEF HandlerType
  <1>2. Skip(h) = [h EXCEPT !.pc = "scan", !.j = j]
    BY <1>1 DEF Skip, HandlerType
  <1>3. \A g : g = [h EXCEPT !.pc = "scan", !.j = j]
               => /\ g \in HandlerType /\ g.pc = "scan" /\ g.i = h.i /\ g.j = j
                  /\ g.total = h.total /\ g.tokens = h.tokens /\ g.claimed = h.claimed
                  /\ g.attempts = h.attempts /\ g.wire = h.wire
    BY ZenonT(60) DEF HandlerType, PCs
  <1> QED BY <1>1, <1>2, <1>3, Zenon

\* Admission keeps everything but the place and the reason.
LEMMA AdmissionMoves ==
    ASSUME HandlersInv, NEW r \in Requests, Arrive(r) \/ CheckBudget(r) \/ Admit(r)
    PROVE  /\ Moves(r) /\ UNCHANGED shared
           /\ s[r].pc \in {"idle", "budget", "limit"}
           /\ s'[r].pc \in {"budget", "limit", "rejected", "loop"}
           /\ Still(r)
  <1>1. PICK h \in HandlerType : h = s[r]
    BY HandlerFacts
  <1>2. /\ UNCHANGED shared
        /\ h.pc \in {"idle", "budget", "limit"}
        /\ \E pc \in {"budget", "limit", "rejected", "loop"}, why \in Reasons :
              /\ \/ Set(r, [h EXCEPT !.pc = pc, !.reason = why])
                 \/ Set(r, [h EXCEPT !.pc = pc])
              /\ pc # "rejected" => KeyOf[r] \in Keys
    <2>1. None \in Reasons
      BY DEF Reasons, Outcomes
    <2>2. CASE Arrive(r)
      BY <1>1, <2>1, <2>2 DEF Arrive, Reject, LookupRaw, Reasons
    <2>3. CASE CheckBudget(r)
      <3>1. KeyOf[r] \in Keys BY <2>3, HandlerFacts DEF CheckBudget
      <3> QED BY <1>1, <2>1, <2>3, <3>1 DEF CheckBudget, Reject, Reasons
    <2>4. CASE Admit(r)
      <3>1. KeyOf[r] \in Keys BY <2>4, HandlerFacts DEF Admit
      <3> QED BY <1>1, <2>1, <2>4, <3>1 DEF Admit, Reject, Reasons
    <2> QED BY <2>2, <2>3, <2>4
  <1>a. PICK pc \in {"budget", "limit", "rejected", "loop"}, why \in Reasons :
           /\ \/ Set(r, [h EXCEPT !.pc = pc, !.reason = why])
              \/ Set(r, [h EXCEPT !.pc = pc])
           /\ pc # "rejected" => KeyOf[r] \in Keys
    BY <1>2
  <1>3. PICK g : /\ g = [h EXCEPT !.pc = pc, !.reason = why] \/ g = [h EXCEPT !.pc = pc]
                 /\ Set(r, g)
    BY <1>a
  <1>4. /\ g \in HandlerType /\ g.pc = pc /\ g.i = h.i /\ g.total = h.total
        /\ g.claimed = h.claimed /\ g.attempts = h.attempts
        /\ g.wire = h.wire /\ g.tokens = h.tokens
    <2>1. pc \in PCs BY DEF PCs
    <2> QED BY ZenonT(60), <1>3, <2>1 DEF HandlerType
  <1>5. Local(g, Allowlist[KeyOf[r]], List(r))
    BY <1>1, <1>2, <1>4, HandlerFacts, EarlyLocal
  <1>6. Moves(r) /\ s'[r] = g
    BY <1>a, <1>3, <1>4, <1>5, SetMoves
  <1> QED BY <1>1, <1>2, <1>4, <1>6 DEF Still

\* An attempt begins when it was claimed, or when the breaker allows it.
LEMMA LoopMoves ==
    ASSUME HandlersInv, NEW r \in Requests, UseClaim(r) \/ AskBreaker(r)
    PROVE  /\ Moves(r) /\ Cur(r) \in Providers
           /\ \/ Begins(r)
              \/ AskBreaker(r) /\ ~Allows(brk[Cur(r)], CfgOf[Cur(r)])
                 /\ s[r].pc = "loop" /\ s'[r].pc = "loop" /\ Still(r)
  <1>1. PICK h \in HandlerType : h = s[r]
    BY HandlerFacts
  <1>2. h.pc = "loop" /\ h.i <= Len(List(r)) /\ Cur(r) = List(r)[h.i] /\ KeyOf[r] \in Keys
    BY <1>1, HandlerFacts DEF UseClaim, AskBreaker, Cur
  <1>3. Cur(r) \in Providers
    <2>1. h.i \in 1 .. Len(List(r)) BY <1>2, HandlerFacts DEF HandlerType
    <2> QED BY <1>2, <2>1, HandlerFacts
  <1>4. CASE Set(r, Begin(h, Cur(r)))
    <2>1. PICK g : g = Begin(h, Cur(r))
      OBVIOUS
    <2>2. /\ Local(g, Allowlist[KeyOf[r]], List(r))
          /\ g.attempts # <<>> /\ Last(g.attempts).provider = Cur(r)
          /\ g.pc = "attempt" /\ g.claimed = h.claimed \ {Cur(r)}
          /\ g.tokens = 0 /\ g.total = h.total
          /\ g.wire = h.wire \/ g.wire = Append(h.wire, Status(Cur(r)))
      <3>1. /\ InOrder(List(r), Allowlist[KeyOf[r]], Len(Priority))
            /\ Local(h, Allowlist[KeyOf[r]], List(r)) /\ g = Begin(h, List(r)[h.i])
        BY <1>1, <1>2, <2>1, HandlerFacts
      <3>2. /\ Local(g, Allowlist[KeyOf[r]], List(r))
            /\ g.attempts # <<>> /\ Last(g.attempts).provider = List(r)[h.i]
            /\ g.pc = "attempt" /\ g.claimed = h.claimed \ {List(r)[h.i]}
            /\ g.tokens = 0 /\ g.total = h.total
            /\ g.wire = h.wire \/ g.wire = Append(h.wire, Status(List(r)[h.i]))
        BY <1>2, <3>1, BeginLocal
      <3> QED BY <1>2, <3>2
    <2>3. Moves(r) /\ s'[r] = g
      BY <1>2, <1>4, <2>1, <2>2, SetMoves
    <2> QED BY <1>1, <1>2, <1>3, <2>2, <2>3 DEF Begins
  <1>5. CASE AskBreaker(r) /\ ~Allows(brk[Cur(r)], CfgOf[Cur(r)]) /\ Set(r, [h EXCEPT !.i = @ + 1])
    <2>1. PICK g : g = [h EXCEPT !.i = @ + 1]
      OBVIOUS
    <2>2. /\ g \in HandlerType /\ g.pc = h.pc /\ g.i = h.i + 1 /\ g.total = h.total
          /\ g.claimed = h.claimed /\ g.attempts = h.attempts /\ g.wire = h.wire /\ g.tokens = h.tokens
      BY SMTT(40), <2>1 DEF HandlerType
    <2>3. Local(g, Allowlist[KeyOf[r]], List(r))
      BY <1>1, <1>2, <2>2, HandlerFacts, AdvanceLocal
    <2>4. Moves(r) /\ s'[r] = g
      BY <1>2, <1>5, <2>1, <2>3, SetMoves
    <2> QED BY <1>1, <1>2, <1>3, <1>5, <2>2, <2>4 DEF Still
  <1> QED BY <1>1, <1>4, <1>5 DEF UseClaim, AskBreaker

\* The list ends, the look-ahead moves on or ends, and the session is released.
LEMMA PassMoves ==
    ASSUME HandlersInv, NEW r \in Requests, ListEnds(r) \/ Scan(r) \/ ScanEnds(r) \/ Release(r)
    PROVE  /\ Moves(r) /\ Still(r)
           /\ \/ s[r].pc = "loop" /\ s'[r].pc = "truncate" /\ s[r].attempts = <<>>
              \/ s[r].pc = "loop" /\ s'[r].pc = "release" /\ s[r].attempts # <<>>
              \/ s[r].pc = "scan" /\ s'[r].pc \in {"scan", "claim", "failover", "truncate"}
              \/ s[r].pc = "release" /\ s'[r].pc = "done"
  <1> DEFINE L == List(r)
  <1>1. PICK h \in HandlerType : h = s[r]
    BY HandlerFacts
  <1>2. PICK g : g = s'[r]
    OBVIOUS
  <1>3. \/ h.pc = "loop" /\ h.attempts = <<>> /\ g = AtFor(h, "truncate", "all_providers_exhausted")
        \/ h.pc = "loop" /\ h.attempts # <<>> /\ g = At(h, "release")
        \/ h.pc = "scan" /\ g = Skip(h)
        \/ h.pc = "scan" /\ h.j <= Len(L) /\ (g = At(h, "claim") \/ g = At(h, "failover"))
        \/ h.pc = "scan" /\ g = AtFor(h, "truncate", "all_providers_exhausted")
        \/ h.pc = "release" /\ g = At(h, "done")
    <2>1. CASE ListEnds(r)
      <3>1. Set(r, AfterList(h)) /\ h.pc = "loop" BY <1>1, <2>1 DEF ListEnds
      <3>2. g = AfterList(h) BY <1>2, <3>1, SetMoves
      <3>3. AfterList(h) = IF h.attempts = <<>> THEN AtFor(h, "truncate", "all_providers_exhausted")
                                                ELSE At(h, "release")
        BY DEF AfterList, AtFor, At
      <3> QED BY <3>1, <3>2, <3>3
    <2>2. CASE Scan(r)
      <3>1. /\ h.pc = "scan" /\ h.j <= Len(L)
            /\ Set(r, At(h, "failover")) \/ Set(r, At(h, "claim")) \/ Set(r, Skip(h))
        BY <1>1, <2>2 DEF Scan, At
      <3> QED BY SMTT(40), <1>2, <3>1, SetMoves
    <2>3. CASE ScanEnds(r)
      <3>1. Set(r, AtFor(h, "truncate", "all_providers_exhausted")) /\ h.pc = "scan"
        BY <1>1, <2>3 DEF ScanEnds, AtFor
      <3> QED BY <1>2, <3>1, SetMoves
    <2>4. CASE Release(r)
      <3>1. Set(r, At(h, "done")) /\ h.pc = "release"
        BY <1>1, <2>4 DEF Release, At
      <3> QED BY <1>2, <3>1, SetMoves
    <2> QED BY <2>1, <2>2, <2>3, <2>4
  <1>4. /\ g \in HandlerType /\ g.i = h.i /\ g.total = h.total
        /\ g.claimed = h.claimed /\ g.attempts = h.attempts /\ g.wire = h.wire /\ g.tokens = h.tokens
    <2>1. CASE \E pc \in {"release", "claim", "failover", "done"} : g = At(h, pc)
      <3>1. PICK pc \in PCs : g = At(h, pc)
        BY <2>1 DEF PCs
      <3> QED BY <3>1, AtFields
    <2>2. CASE g = AtFor(h, "truncate", "all_providers_exhausted")
      <3>1. "truncate" \in PCs /\ "all_providers_exhausted" \in Reasons
        BY DEF Reasons, PCs
      <3> QED BY <2>2, <3>1, AtForFields
    <2>3. CASE g = Skip(h)
      BY <2>3, SkipFields
    <2> QED BY <1>3, <2>1, <2>2, <2>3
  <1>5. \/ h.pc = "loop" /\ g.pc = "truncate" /\ h.attempts = <<>>
        \/ h.pc = "loop" /\ g.pc = "release" /\ h.attempts # <<>>
        \/ h.pc = "scan" /\ g.pc = "scan" /\ g.j = h.j + 1
        \/ h.pc = "scan" /\ g.pc \in {"claim", "failover"} /\ g.j = h.j /\ h.j <= Len(L)
        \/ h.pc = "scan" /\ g.pc = "truncate"
        \/ h.pc = "release" /\ g.pc = "done"
    BY <1>3, AtFields, AtForFields, SkipFields
  <1>6. Local(g, Allowlist[KeyOf[r]], L)
    BY <1>1, <1>4, <1>5, HandlerFacts, MoveLocal
  <1>7. KeyOf[r] \in Keys
    BY SMTT(40), <1>1, <1>5, HandlerFacts
  <1>8. Set(r, g)
    BY <1>1, <1>2, SetMoves DEF ListEnds, Scan, ScanEnds, Release
  <1>9. Moves(r)
    BY <1>6, <1>7, <1>8, SetMoves
  <1> QED BY <1>1, <1>2, <1>4, <1>5, <1>9 DEF Still

-----------------------------------------------------------------------------
\* A running attempt.

\* The records of the actions: content forwarded, usage reported, a claim granted, a
\* failure, a failover announced, a truncation written, a client gone.
Forwarded(h, n) == [h EXCEPT !.tokens = @ + n, !.total = @ + n, !.wire = Append(@, Content(n))]
Reported(h, u) == [h EXCEPT !.tokens = u, !.total = @ + (u - h.tokens)]
Granted(h, p) == [h EXCEPT !.pc = "failover", !.claimed = @ \cup {p}]
Gone(f, j, why) == [f EXCEPT !.pc = "scan", !.j = j, !.reason = why]
Announced(h, e) == [h EXCEPT !.pc = "loop", !.i = @ + 1, !.wire = @ \o <<e, Regenerating>>]
Written(h, e) == [h EXCEPT !.pc = "release", !.wire = Append(@, e)]
Left(h) == [h EXCEPT !.gone = TRUE, !.ctx = IF @ = "live" THEN "client" ELSE @]
Forced(h) == [h EXCEPT !.ctx = "forced"]

\* A content frame forwarded: the counters grow and the content is the last event.
LEMMA ForwardedFields ==
    ASSUME NEW h \in HandlerType, NEW n \in Nat
    PROVE  /\ Forwarded(h, n) \in HandlerType
           /\ Forwarded(h, n).pc = h.pc /\ Forwarded(h, n).i = h.i /\ Forwarded(h, n).j = h.j
           /\ Forwarded(h, n).total = h.total + n /\ Forwarded(h, n).tokens = h.tokens + n
           /\ Forwarded(h, n).claimed = h.claimed /\ Forwarded(h, n).attempts = h.attempts
           /\ Forwarded(h, n).wire = Append(h.wire, Content(n))
           /\ Forwarded(h, n).wire[Len(Forwarded(h, n).wire)].event = "content"
  <1>1. PICK a \in Nat, b \in Nat : a = h.tokens + n /\ b = h.total + n
    BY DEF HandlerType
  <1>2. Content(n) \in EventType /\ Content(n).event = "content"
    BY DEF Content, Event, EventType, Reasons, Outcomes
  <1>3. h.wire \in Seq(EventType)
    BY DEF HandlerType
  <1>4. PICK w \in Seq(EventType) : w = Append(h.wire, Content(n)) /\ w[Len(w)].event = "content"
    <2>1. PICK c \in EventType : c = Content(n) /\ c.event = "content" BY <1>2
    <2>2. Append(h.wire, c) \in Seq(EventType) BY <1>3, <2>1
    <2>3. Append(h.wire, c)[Len(Append(h.wire, c))] = c BY <1>3, <2>1
    <2> QED BY <2>1, <2>2, <2>3
  <1>5. Forwarded(h, n) = [h EXCEPT !.tokens = a, !.total = b, !.wire = w]
    BY <1>1, <1>4 DEF Forwarded, HandlerType
  <1>6. \A g : g = [h EXCEPT !.tokens = a, !.total = b, !.wire = w]
               => /\ g \in HandlerType /\ g.pc = h.pc /\ g.i = h.i /\ g.j = h.j
                  /\ g.total = b /\ g.tokens = a /\ g.claimed = h.claimed
                  /\ g.attempts = h.attempts /\ g.wire = w
    BY ZenonT(60) DEF HandlerType
  <1>7. /\ Forwarded(h, n) \in HandlerType
        /\ Forwarded(h, n).pc = h.pc /\ Forwarded(h, n).i = h.i /\ Forwarded(h, n).j = h.j
        /\ Forwarded(h, n).total = b /\ Forwarded(h, n).tokens = a
        /\ Forwarded(h, n).claimed = h.claimed /\ Forwarded(h, n).attempts = h.attempts
        /\ Forwarded(h, n).wire = w
    BY <1>5, <1>6, Zenon
  <1> QED BY <1>1, <1>4, <1>7

\* A usage frame: the count of the attempt is replaced, the total follows, nothing is written.
LEMMA ReportedFields ==
    ASSUME NEW h \in HandlerType, NEW u \in Nat, h.tokens <= h.total
    PROVE  /\ Reported(h, u) \in HandlerType
           /\ Reported(h, u).pc = h.pc /\ Reported(h, u).i = h.i /\ Reported(h, u).j = h.j
           /\ Reported(h, u).total = h.total + (u - h.tokens) /\ Reported(h, u).tokens = u
           /\ Reported(h, u).claimed = h.claimed /\ Reported(h, u).attempts = h.attempts
           /\ Reported(h, u).wire = h.wire
  <1>1. PICK b \in Nat : b = h.total + (u - h.tokens)
    BY DEF HandlerType
  <1>2. Reported(h, u) = [h EXCEPT !.tokens = u, !.total = b]
    BY <1>1 DEF Reported, HandlerType
  <1>3. \A g : g = [h EXCEPT !.tokens = u, !.total = b]
               => /\ g \in HandlerType /\ g.pc = h.pc /\ g.i = h.i /\ g.j = h.j
                  /\ g.total = b /\ g.tokens = u /\ g.claimed = h.claimed
                  /\ g.attempts = h.attempts /\ g.wire = h.wire
    BY ZenonT(60) DEF HandlerType
  <1> QED BY <1>1, <1>2, <1>3, Zenon

\* A claim granted: the provider joins the claimed ones.
LEMMA GrantedFields ==
    ASSUME NEW h \in HandlerType, NEW p \in Providers
    PROVE  /\ Granted(h, p) \in HandlerType
           /\ Granted(h, p).pc = "failover" /\ Granted(h, p).i = h.i /\ Granted(h, p).j = h.j
           /\ Granted(h, p).total = h.total /\ Granted(h, p).tokens = h.tokens
           /\ Granted(h, p).claimed = h.claimed \cup {p} /\ Granted(h, p).attempts = h.attempts
           /\ Granted(h, p).wire = h.wire
  <1>1. PICK c \in SUBSET Providers : c = h.claimed \cup {p}
    BY DEF HandlerType
  <1>2. Granted(h, p) = [h EXCEPT !.pc = "failover", !.claimed = c]
    BY <1>1 DEF Granted, HandlerType
  <1>3. \A g : g = [h EXCEPT !.pc = "failover", !.claimed = c]
               => /\ g \in HandlerType /\ g.pc = "failover" /\ g.i = h.i /\ g.j = h.j
                  /\ g.total = h.total /\ g.tokens = h.tokens /\ g.claimed = c
                  /\ g.attempts = h.attempts /\ g.wire = h.wire
    BY ZenonT(60) DEF HandlerType, PCs
  <1> QED BY <1>1, <1>2, <1>3, Zenon

\* A failure: the look-ahead starts at j for the given reason.
LEMMA GoneFields ==
    ASSUME NEW f \in HandlerType, NEW j \in Nat, NEW why \in Reasons
    PROVE  /\ Gone(f, j, why) \in HandlerType
           /\ Gone(f, j, why).pc = "scan" /\ Gone(f, j, why).i = f.i /\ Gone(f, j, why).j = j
           /\ Gone(f, j, why).total = f.total /\ Gone(f, j, why).tokens = f.tokens
           /\ Gone(f, j, why).claimed = f.claimed /\ Gone(f, j, why).attempts = f.attempts
           /\ Gone(f, j, why).wire = f.wire
  <1>1. \A g : g = [f EXCEPT !.pc = "scan", !.j = j, !.reason = why]
               => /\ g \in HandlerType /\ g.pc = "scan" /\ g.i = f.i /\ g.j = j
                  /\ g.total = f.total /\ g.tokens = f.tokens /\ g.claimed = f.claimed
                  /\ g.attempts = f.attempts /\ g.wire = f.wire
    BY ZenonT(60) DEF HandlerType, PCs
  <1> QED BY <1>1, Zenon DEF Gone

\* A failover announced: the loop index moves on and two events are written, gateway_regenerating last.
LEMMA AnnouncedFields ==
    ASSUME NEW h \in HandlerType, NEW e \in EventType
    PROVE  /\ Announced(h, e) \in HandlerType
           /\ Announced(h, e).pc = "loop" /\ Announced(h, e).i = h.i + 1 /\ Announced(h, e).j = h.j
           /\ Announced(h, e).total = h.total /\ Announced(h, e).tokens = h.tokens
           /\ Announced(h, e).claimed = h.claimed /\ Announced(h, e).attempts = h.attempts
           /\ Announced(h, e).wire = Append(Append(h.wire, e), Regenerating)
           /\ Announced(h, e).wire[Len(Announced(h, e).wire)].event = "regenerating"
  <1>1. PICK c \in EventType : c = Regenerating /\ c.event = "regenerating"
    <2>1. Regenerating \in EventType /\ Regenerating.event = "regenerating"
      BY DEF Regenerating, Event, EventType, Reasons, Outcomes
    <2> QED BY <2>1
  <1>2. h.wire \in Seq(EventType)
    BY DEF HandlerType
  <1>3. PICK w \in Seq(EventType) : /\ w = h.wire \o <<e, Regenerating>> /\ w[Len(w)].event = "regenerating"
                                    /\ w = Append(Append(h.wire, e), Regenerating)
    <2>1. <<e, c>> \in Seq(EventType) /\ Len(<<e, c>>) = 2
      OBVIOUS
    <2>2. PICK v \in Seq(EventType) : v = <<e, c>> /\ Len(v) = 2 /\ v[2] = c
      BY <2>1
    <2>3. h.wire \o v \in Seq(EventType) /\ Len(h.wire \o v) = Len(h.wire) + 2 /\ Len(h.wire) \in Nat
      BY <1>2, <2>2
    <2>4. (h.wire \o v)[Len(h.wire) + 2] = c
      BY <1>2, <2>2, <2>3
    <2>5. h.wire \o v = Append(Append(h.wire, e), c)
      BY <1>2, <2>2
    <2> QED BY <1>1, <2>2, <2>3, <2>4, <2>5
  <1>4. PICK i \in Nat \ {0} : i = h.i + 1
    BY DEF HandlerType
  <1>5. Announced(h, e) = [h EXCEPT !.pc = "loop", !.i = i, !.wire = w]
    BY <1>3, <1>4 DEF Announced, HandlerType
  <1>6. \A g : g = [h EXCEPT !.pc = "loop", !.i = i, !.wire = w]
               => /\ g \in HandlerType /\ g.pc = "loop" /\ g.i = i /\ g.j = h.j
                  /\ g.total = h.total /\ g.tokens = h.tokens /\ g.claimed = h.claimed
                  /\ g.attempts = h.attempts /\ g.wire = w
    BY ZenonT(60) DEF HandlerType, PCs
  <1>7. /\ Announced(h, e) \in HandlerType
        /\ Announced(h, e).pc = "loop" /\ Announced(h, e).i = i /\ Announced(h, e).j = h.j
        /\ Announced(h, e).total = h.total /\ Announced(h, e).tokens = h.tokens
        /\ Announced(h, e).claimed = h.claimed /\ Announced(h, e).attempts = h.attempts
        /\ Announced(h, e).wire = w
    BY <1>5, <1>6, Zenon
  <1> QED BY <1>3, <1>4, <1>7

\* A truncation: the event is the last one written and the handler goes on to the release.
LEMMA WrittenFields ==
    ASSUME NEW h \in HandlerType, NEW e \in EventType
    PROVE  /\ Written(h, e) \in HandlerType
           /\ Written(h, e).pc = "release" /\ Written(h, e).i = h.i /\ Written(h, e).j = h.j
           /\ Written(h, e).total = h.total /\ Written(h, e).tokens = h.tokens
           /\ Written(h, e).claimed = h.claimed /\ Written(h, e).attempts = h.attempts
           /\ Written(h, e).wire = Append(h.wire, e)
           /\ Written(h, e).wire # <<>> /\ Written(h, e).wire[Len(Written(h, e).wire)] = e
  <1>1. h.wire \in Seq(EventType)
    BY DEF HandlerType
  <1>2. PICK w \in Seq(EventType) : w = Append(h.wire, e) /\ w[Len(w)] = e /\ w # <<>>
    <2>1. Append(h.wire, e) \in Seq(EventType) BY <1>1
    <2>2. Append(h.wire, e)[Len(Append(h.wire, e))] = e /\ Append(h.wire, e) # <<>> BY <1>1
    <2> QED BY <2>1, <2>2
  <1>3. Written(h, e) = [h EXCEPT !.pc = "release", !.wire = w]
    BY <1>2 DEF Written, HandlerType
  <1>4. \A g : g = [h EXCEPT !.pc = "release", !.wire = w]
               => /\ g \in HandlerType /\ g.pc = "release" /\ g.i = h.i /\ g.j = h.j
                  /\ g.total = h.total /\ g.tokens = h.tokens /\ g.claimed = h.claimed
                  /\ g.attempts = h.attempts /\ g.wire = w
    BY ZenonT(60) DEF HandlerType, PCs
  <1>5. /\ Written(h, e) \in HandlerType
        /\ Written(h, e).pc = "release" /\ Written(h, e).i = h.i /\ Written(h, e).j = h.j
        /\ Written(h, e).total = h.total /\ Written(h, e).tokens = h.tokens
        /\ Written(h, e).claimed = h.claimed /\ Written(h, e).attempts = h.attempts
        /\ Written(h, e).wire = w
    BY <1>3, <1>4, Zenon
  <1> QED BY <1>2, <1>5

\* A cancellation changes the context and the connection only.
LEMMA CancelFields ==
    ASSUME NEW h \in HandlerType, NEW g, g = Left(h) \/ g = Forced(h)
    PROVE  /\ g \in HandlerType
           /\ g.pc = h.pc /\ g.i = h.i /\ g.j = h.j /\ g.total = h.total /\ g.tokens = h.tokens
           /\ g.claimed = h.claimed /\ g.attempts = h.attempts /\ g.wire = h.wire
  <1>1. PICK c \in {"live", "client", "forced"} : c = IF h.ctx = "live" THEN "client" ELSE h.ctx
    BY DEF HandlerType
  <1>2. Left(h) = [h EXCEPT !.gone = TRUE, !.ctx = c]
    BY <1>1 DEF Left, HandlerType
  <1>3. \A f : f = [h EXCEPT !.gone = TRUE, !.ctx = c] \/ f = [h EXCEPT !.ctx = "forced"]
               => /\ f \in HandlerType
                  /\ f.pc = h.pc /\ f.i = h.i /\ f.j = h.j /\ f.total = h.total /\ f.tokens = h.tokens
                  /\ f.claimed = h.claimed /\ f.attempts = h.attempts /\ f.wire = h.wire
    BY ZenonT(60) DEF HandlerType
  <1> QED BY <1>2, <1>3, Zenon DEF Forced

\* A content frame or a usage frame is counted.
LEMMA CountMoves ==
    ASSUME HandlersInv, NEW r \in Requests, NEW n \in Nat,
           \/ s[r].pc = "attempt" /\ Set(r, Forwarded(s[r], n))
           \/ s[r].pc = "attempt" /\ Set(r, Reported(s[r], n))
    PROVE  /\ Moves(r) /\ s[r].pc = "attempt" /\ s'[r].pc = "attempt"
           /\ s'[r].claimed = s[r].claimed /\ s'[r].attempts = s[r].attempts
           /\ Set(r, Forwarded(s[r], n)) =>
                 /\ s'[r].tokens = s[r].tokens + n /\ s'[r].total = s[r].total + n
                 /\ s'[r].wire = Append(s[r].wire, Content(n))
           /\ Set(r, Reported(s[r], n)) => s'[r].tokens = n /\ s'[r].wire = s[r].wire
  <1>1. PICK h \in HandlerType : h = s[r]
    BY HandlerFacts
  <1>2. h.pc = "attempt" /\ h.tokens <= h.total /\ h.tokens \in Nat /\ h.total \in Nat /\ KeyOf[r] \in Keys
    BY <1>1, HandlerFacts DEF Local, Counted, HandlerType
  <1>3. ASSUME NEW g \in HandlerType, Set(r, g), g.pc = h.pc, g.i = h.i, g.attempts = h.attempts,
               g.tokens <= g.total, g.wire = h.wire \/ g.wire[Len(g.wire)].event = "content"
        PROVE  Moves(r) /\ s'[r] = g
    <2>1. Local(g, Allowlist[KeyOf[r]], List(r))
      BY <1>1, <1>2, <1>3, HandlerFacts, CountLocal
    <2> QED BY <1>2, <1>3, <2>1, SetMoves
  <1>4. CASE Set(r, Forwarded(h, n))
    <2>1. PICK g \in HandlerType :
             /\ g = Forwarded(h, n)
             /\ g.pc = h.pc /\ g.i = h.i /\ g.attempts = h.attempts /\ g.claimed = h.claimed
             /\ g.tokens = h.tokens + n /\ g.total = h.total + n
             /\ g.wire = Append(h.wire, Content(n))
             /\ g.wire[Len(g.wire)].event = "content"
      BY ForwardedFields
    <2>2. g.tokens <= g.total /\ Set(r, g)
      BY <1>2, <1>4, <2>1
    <2>3. Moves(r) /\ s'[r] = g
      BY <1>3, <2>1, <2>2
    <2>4. Set(r, Reported(h, n)) => s'[r].tokens = n /\ s'[r].wire = h.wire
      BY <1>1, <1>2, ReportedFields, SetMoves
    <2> QED BY <1>1, <1>2, <2>1, <2>3, <2>4
  <1>5. CASE Set(r, Reported(h, n))
    <2>1. PICK g \in HandlerType :
             /\ g = Reported(h, n)
             /\ g.pc = h.pc /\ g.i = h.i /\ g.attempts = h.attempts /\ g.claimed = h.claimed
             /\ g.tokens = n /\ g.total = h.total + (n - h.tokens) /\ g.wire = h.wire
      BY <1>2, ReportedFields
    <2>2. g.tokens <= g.total /\ Set(r, g)
      BY <1>2, <1>5, <2>1
    <2>3. Moves(r) /\ s'[r] = g
      BY <1>3, <2>1, <2>2
    <2>4. ASSUME Set(r, Forwarded(h, n))
          PROVE  /\ s'[r].tokens = h.tokens + n /\ s'[r].total = h.total + n
                 /\ s'[r].wire = Append(h.wire, Content(n))
      <3>1. PICK f : f = Forwarded(h, n)
        OBVIOUS
      <3>2. s'[r] = f
        BY <2>4, <3>1, SetMoves
      <3>3. f.tokens = h.tokens + n /\ f.total = h.total + n /\ f.wire = Append(h.wire, Content(n))
        BY <3>1, ForwardedFields
      <3> QED BY <3>2, <3>3
    <2> QED BY <1>1, <1>2, <2>1, <2>3, <2>4
  <1> QED BY <1>1, <1>4, <1>5

\* The running attempt ends, in one of the four ways it can.
LEMMA EndMoves ==
    ASSUME HandlersInv, NEW r \in Requests, NEW o \in Outcomes, NEW n \in Nat, NEW pc,
           s[r].pc = "attempt",
           \/ pc = "release" /\ Set(r, At(FinishAttempt(s[r], o, n), "release"))
           \/ pc = "truncate" /\ o = "budget_exceeded"
              /\ Set(r, AtFor(FinishAttempt(s[r], o, n), "truncate", o))
           \/ pc = "scan" /\ o \in FailureReasons
              /\ Set(r, Gone(FinishAttempt(s[r], o, n), s[r].i + 1, o))
    PROVE  Moves(r) /\ Ends(r, o, pc) /\ Cur(r) \in Providers
  <1>1. PICK h \in HandlerType : h = s[r]
    BY HandlerFacts
  <1>2. /\ Local(h, Allowlist[KeyOf[r]], List(r)) /\ h.pc = "attempt" /\ h.attempts # <<>>
        /\ KeyOf[r] \in Keys /\ h.i \in 1 .. Len(List(r)) /\ List(r) \in Seq(Providers)
    BY <1>1, HandlerFacts DEF Local, Counted, Indexed
  <1>3. Cur(r) = List(r)[h.i] /\ Cur(r) \in Providers
    BY <1>1, <1>2 DEF Cur
  <1>4. PICK f \in HandlerType : f = FinishAttempt(h, o, n) /\ f.claimed = h.claimed /\ f.i = h.i
                                 /\ f.tokens = h.tokens /\ f.total = h.total /\ f.wire = h.wire
    BY <1>2, FinishChanges
  <1>5. PICK g : g = s'[r]
    OBVIOUS
  <1>6. /\ Set(r, g)
        /\ \/ pc = "release" /\ g = At(f, "release")
           \/ pc = "truncate" /\ o = "budget_exceeded" /\ g = AtFor(f, "truncate", o)
           \/ pc = "scan" /\ o \in FailureReasons /\ g = Gone(f, h.i + 1, o)
    BY <1>1, <1>4, <1>5, SetMoves
  <1>7. /\ g \in HandlerType /\ g.pc = pc /\ g.i = f.i /\ g.attempts = f.attempts
        /\ g.tokens = f.tokens /\ g.total = f.total /\ g.wire = f.wire /\ g.claimed = f.claimed
        /\ pc = "scan" => g.j = h.i + 1
    <2>1. h.i + 1 \in Nat /\ o \in Reasons /\ "release" \in PCs /\ "truncate" \in PCs
      BY DEF HandlerType, Reasons, PCs
    <2>2. CASE pc = "release" /\ g = At(f, "release")
      BY <2>1, <2>2, AtFields
    <2>3. CASE pc = "truncate" /\ g = AtFor(f, "truncate", o)
      BY <2>1, <2>3, AtForFields
    <2>4. CASE pc = "scan" /\ g = Gone(f, h.i + 1, o)
      BY SMTT(40), <2>1, <2>4, GoneFields
    <2> QED BY <1>6, <2>2, <2>3, <2>4
  <1>8. /\ \/ g.pc = "release"
           \/ g.pc = "truncate" /\ o = "budget_exceeded"
           \/ g.pc = "scan" /\ g.j = h.i + 1 /\ o \in FailureReasons
    BY <1>6, <1>7
  <1>9. /\ Local(g, Allowlist[KeyOf[r]], List(r))
        /\ g.attempts # <<>> /\ Last(g.attempts).provider = List(r)[h.i] /\ Last(g.attempts).outcome = o
    <2>1. /\ g \in HandlerType /\ g.i = h.i /\ g.attempts = FinishAttempt(h, o, n).attempts
          /\ g.tokens = h.tokens /\ g.total = h.total /\ g.wire = h.wire
      BY <1>4, <1>7
    <2>2. Local(g, Allowlist[KeyOf[r]], List(r))
      BY <1>2, <1>8, <2>1, EndLocal
    <2>3. /\ f.attempts # <<>> /\ Len(f.attempts) = Len(h.attempts)
          /\ f.attempts[Len(f.attempts)].outcome = o
          /\ \A x \in 1 .. Len(h.attempts) : f.attempts[x].provider = h.attempts[x].provider
      BY <1>2, <1>4, FinishChanges
    <2>4. Len(h.attempts) \in 1 .. Len(h.attempts) /\ h.attempts[Len(h.attempts)].provider = List(r)[h.i]
      BY <1>2 DEF HandlerType, Local, Judged
    <2>5. f.attempts # <<>> /\ Last(f.attempts).provider = List(r)[h.i] /\ Last(f.attempts).outcome = o
      BY <2>3, <2>4 DEF Last
    <2> QED BY <1>7, <2>2, <2>5
  <1>10. Moves(r)
    BY <1>2, <1>6, <1>9, SetMoves
  <1>11. Last(h.attempts).provider = List(r)[h.i]
    BY <1>2 DEF Local, Judged, Last
  <1> QED BY <1>1, <1>2, <1>3, <1>4, <1>5, <1>7, <1>9, <1>10, <1>11 DEF Ends

\* The probe of the announced provider is claimed, or the look-ahead moves on.
LEMMA ClaimMoves ==
    ASSUME HandlersInv, NEW r \in Requests, ClaimNext(r), NEW p, p = List(r)[s[r].j]
    PROVE  /\ Moves(r) /\ p \in Providers
           /\ s[r].pc = "claim" /\ s'[r].pc \in {"scan", "failover"}
           /\ s'[r].claimed = IF Claims(brk[p], CfgOf[p]) THEN s[r].claimed \cup {p} ELSE s[r].claimed
           /\ s'[r].attempts = s[r].attempts /\ s'[r].wire = s[r].wire
           /\ s'[r].tokens = s[r].tokens /\ s'[r].total = s[r].total
  <1>1. PICK h \in HandlerType : h = s[r]
    BY HandlerFacts
  <1>2. /\ Local(h, Allowlist[KeyOf[r]], List(r)) /\ h.pc = "claim"
        /\ KeyOf[r] \in Keys /\ List(r) \in Seq(Providers)
    BY <1>1, HandlerFacts DEF ClaimNext
  <1>3. p \in Providers
    <2>1. h.j \in 1 .. Len(List(r))
      BY <1>2 DEF Local, Indexed, HandlerType
    <2> QED BY <1>1, <1>2, <2>1
  <1>4. PICK g : g = s'[r]
    OBVIOUS
  <1>5. Set(r, g) /\ g = IF Claims(brk[p], CfgOf[p]) THEN Granted(h, p) ELSE Skip(h)
    BY <1>1, <1>4, SetMoves DEF ClaimNext, Granted
  <1>6. /\ g \in HandlerType /\ g.i = h.i /\ g.total = h.total
        /\ g.attempts = h.attempts /\ g.wire = h.wire /\ g.tokens = h.tokens
        /\ g.claimed = IF Claims(brk[p], CfgOf[p]) THEN h.claimed \cup {p} ELSE h.claimed
        /\ \/ g.pc = "scan" /\ g.j = h.j + 1
           \/ g.pc = "failover" /\ g.j = h.j
    <2>1. CASE Claims(brk[p], CfgOf[p])
      BY <1>3, <1>5, <2>1, GrantedFields
    <2>2. CASE ~Claims(brk[p], CfgOf[p])
      BY <1>5, <2>2, SkipFields
    <2> QED BY <2>1, <2>2
  <1>7. Local(g, Allowlist[KeyOf[r]], List(r))
    BY <1>2, <1>6, MoveLocal
  <1>8. Moves(r)
    BY <1>2, <1>5, <1>7, SetMoves
  <1> QED BY <1>1, <1>2, <1>3, <1>4, <1>6, <1>8

\* The failover is announced and the loop goes on.
LEMMA FailoverMoves ==
    ASSUME HandlersInv, NEW r \in Requests, Failover(r)
    PROVE  /\ Moves(r) /\ s[r].pc = "failover" /\ s'[r].pc = "loop" /\ s[r].attempts # <<>>
           /\ s'[r].claimed = s[r].claimed /\ s'[r].attempts = s[r].attempts
           /\ s'[r].tokens = s[r].tokens /\ s'[r].total = s[r].total
           /\ \E e \in EventType : /\ e = FailoverEvent(r) /\ e.event = "failover"
                                 /\ s'[r].wire = Append(Append(s[r].wire, e), Regenerating)
  <1>1. PICK h \in HandlerType : h = s[r]
    BY HandlerFacts
  <1>2. /\ Local(h, Allowlist[KeyOf[r]], List(r)) /\ h.pc = "failover" /\ h.attempts # <<>>
        /\ KeyOf[r] \in Keys /\ List(r) \in Seq(Providers)
    BY <1>1, HandlerFacts DEF Failover, Local, Counted
  <1>3. PICK e \in EventType : e = FailoverEvent(r) /\ e.event = "failover"
    <2>1. List(r)[h.j] \in Providers
      <3>1. h.j \in 1 .. Len(List(r)) BY <1>2 DEF Local, Indexed, HandlerType
      <3> QED BY <1>2, <3>1
    <2>2. Last(h.attempts).provider \in Providers
      <3>1. h.attempts \in Seq(AttemptType) BY DEF HandlerType
      <3>2. Last(h.attempts) \in AttemptType BY <1>2, <3>1 DEF Last
      <3> QED BY <3>2 DEF AttemptType
    <2>3. FinalProvider(r) = Last(h.attempts).provider
      BY <1>1, <1>2 DEF FinalProvider
    <2>4. h.tokens \in Nat /\ h.reason \in Reasons
      BY DEF HandlerType
    <2>5. FailoverEvent(r) = [event |-> "failover", provider |-> Last(h.attempts).provider,
                              to |-> List(r)[h.j], n |-> h.tokens, reason |-> h.reason]
      BY <1>1, <2>3 DEF FailoverEvent, Event
    <2>6. FailoverEvent(r) \in EventType /\ FailoverEvent(r).event = "failover"
      BY <2>1, <2>2, <2>4, <2>5 DEF EventType
    <2> QED BY <2>6
  <1>4. Set(r, Announced(h, e))
    BY <1>1, <1>3 DEF Failover, Announced
  <1>5. PICK g \in HandlerType :
           /\ g = Announced(h, e)
           /\ g.pc = "loop" /\ g.i = h.i + 1 /\ g.total = h.total /\ g.tokens = h.tokens
           /\ g.claimed = h.claimed /\ g.attempts = h.attempts
           /\ g.wire = Append(Append(h.wire, e), Regenerating)
           /\ g.wire[Len(g.wire)].event = "regenerating"
    BY AnnouncedFields
  <1>6. Local(g, Allowlist[KeyOf[r]], List(r))
    BY <1>2, <1>5, FailoverLocal
  <1>7. Moves(r) /\ s'[r] = g
    BY SMTT(40), <1>2, <1>4, <1>5, <1>6, SetMoves
  <1> QED BY <1>1, <1>2, <1>3, <1>5, <1>7

\* gateway_truncated is written and the handler goes on to the release.
LEMMA TruncateMoves ==
    ASSUME HandlersInv, NEW r \in Requests, Truncate(r)
    PROVE  /\ Moves(r) /\ s[r].pc = "truncate" /\ s'[r].pc = "release"
           /\ s'[r].claimed = s[r].claimed /\ s'[r].attempts = s[r].attempts
           /\ s'[r].tokens = s[r].tokens /\ s'[r].total = s[r].total
           /\ \E e \in EventType : /\ e = Event("truncated", None, None, s[r].total, s[r].reason)
                                 /\ e.event = "truncated" /\ s'[r].wire = Append(s[r].wire, e)
           /\ s'[r].wire # <<>> /\ Last(s'[r].wire).event = "truncated"
  <1>1. PICK h \in HandlerType : h = s[r]
    BY HandlerFacts
  <1>2. /\ Local(h, Allowlist[KeyOf[r]], List(r)) /\ h.pc = "truncate"
        /\ KeyOf[r] \in Keys /\ List(r) \in Seq(Providers)
    BY <1>1, HandlerFacts DEF Truncate
  <1>3. PICK e \in EventType : e = Event("truncated", None, None, h.total, h.reason) /\ e.event = "truncated"
    <2>1. h.total \in Nat /\ h.reason \in Reasons
      BY DEF HandlerType
    <2>2. Event("truncated", None, None, h.total, h.reason) \in EventType
      BY <2>1 DEF Event, EventType
    <2>3. Event("truncated", None, None, h.total, h.reason).event = "truncated"
      BY DEF Event
    <2> QED BY <2>2, <2>3
  <1>4. Set(r, Written(h, e))
    BY <1>1, <1>3 DEF Truncate, Written
  <1>5. PICK g \in HandlerType :
           /\ g = Written(h, e)
           /\ g.pc = "release" /\ g.i = h.i /\ g.total = h.total /\ g.tokens = h.tokens
           /\ g.claimed = h.claimed /\ g.attempts = h.attempts
           /\ g.wire = Append(h.wire, e) /\ g.wire # <<>> /\ g.wire[Len(g.wire)] = e
    BY WrittenFields
  <1>6. Local(g, Allowlist[KeyOf[r]], List(r))
    BY <1>2, <1>5, TruncateLocal
  <1>7. Moves(r) /\ s'[r] = g
    BY <1>2, <1>4, <1>5, <1>6, SetMoves
  <1> QED BY <1>1, <1>2, <1>3, <1>5, <1>7 DEF Last

\* A client that leaves and a forced shutdown only cancel the context.
LEMMA CancelMoves ==
    ASSUME HandlersInv, NEW r \in Requests, ClientLeaves(r) \/ ForceClose(r)
    PROVE  Moves(r) /\ Still(r) /\ s'[r].pc = s[r].pc
  <1>1. PICK h \in HandlerType : h = s[r]
    BY HandlerFacts
  <1>2. PICK g : g = s'[r]
    OBVIOUS
  <1>3. Set(r, g) /\ (g = Left(h) \/ g = Forced(h))
    BY <1>1, <1>2, SetMoves DEF ClientLeaves, ForceClose, Left, Forced
  <1>4. /\ g \in HandlerType
        /\ g.pc = h.pc /\ g.i = h.i /\ g.j = h.j /\ g.total = h.total /\ g.tokens = h.tokens
        /\ g.claimed = h.claimed /\ g.attempts = h.attempts /\ g.wire = h.wire
    BY <1>3, CancelFields
  <1>5. Local(g, Allowlist[KeyOf[r]], List(r))
    BY <1>1, <1>4, HandlerFacts, QuietLocal
  <1>6. Moves(r)
    BY <1>1, <1>3, <1>4, <1>5, HandlerFacts, SetMoves
  <1> QED BY <1>1, <1>2, <1>4, <1>6 DEF Still

\* What each action of a running attempt does to its handler.
LEMMA FrameMoves ==
    ASSUME HandlersInv, NEW r \in Requests, NEW n \in Nat, Forward(r, n) \/ Usage(r, n)
    PROVE  /\ Moves(r) /\ s[r].pc = "attempt" /\ s'[r].pc = "attempt"
           /\ s'[r].claimed = s[r].claimed /\ s'[r].attempts = s[r].attempts
           /\ Forward(r, n) => /\ s'[r].tokens = s[r].tokens + n /\ s'[r].total = s[r].total + n
                               /\ s'[r].wire = Append(s[r].wire, Content(n))
           /\ Usage(r, n) => s'[r].tokens = n /\ s'[r].wire = s[r].wire
  <1>1. Forward(r, n) => s[r].pc = "attempt" /\ Set(r, Forwarded(s[r], n))
    BY DEF Forward, Forwarded
  <1>2. Usage(r, n) => s[r].pc = "attempt" /\ Set(r, Reported(s[r], n))
    BY DEF Usage, Reported
  <1> QED BY <1>1, <1>2, CountMoves

\* What each end of an attempt does to its handler.
LEMMA OutcomeMoves ==
    ASSUME HandlersInv, NEW r \in Requests
    PROVE  /\ OverBudget(r) => Moves(r) /\ Ends(r, "budget_exceeded", "truncate") /\ Cur(r) \in Providers
           /\ Finish(r) => Moves(r) /\ Ends(r, "success", "release") /\ Cur(r) \in Providers
           /\ \A why \in FailureReasons : s[r].pc = "attempt" /\ Failed(r, why)
                 => Moves(r) /\ Ends(r, why, "scan") /\ Cur(r) \in Providers
           /\ Cancelled(r) /\ s[r].ctx = "forced"
                 => Moves(r) /\ Ends(r, "shutdown", "release") /\ Cur(r) \in Providers
           /\ Cancelled(r) /\ s[r].ctx = "client"
                 => Moves(r) /\ Ends(r, "client_cancelled", "release") /\ Cur(r) \in Providers
  <1>0. s[r].tokens \in Nat /\ 0 \in Nat
    BY HandlerFacts DEF HandlerType
  <1>1. ASSUME OverBudget(r)
        PROVE  Moves(r) /\ Ends(r, "budget_exceeded", "truncate") /\ Cur(r) \in Providers
    <2>1. s[r].pc = "attempt" /\ Set(r, AtFor(FinishAttempt(s[r], "budget_exceeded", s[r].tokens),
                                               "truncate", "budget_exceeded"))
      BY <1>1 DEF OverBudget, AtFor
    <2>2. "budget_exceeded" \in Outcomes BY DEF Outcomes
    <2> QED BY <1>0, <2>1, <2>2, EndMoves
  <1>2. ASSUME Finish(r)
        PROVE  Moves(r) /\ Ends(r, "success", "release") /\ Cur(r) \in Providers
    <2>1. s[r].pc = "attempt" /\ Set(r, At(FinishAttempt(s[r], "success", 0), "release"))
      BY <1>2 DEF Finish, At
    <2>2. "success" \in Outcomes BY DEF Outcomes
    <2> QED BY <1>0, <2>1, <2>2, EndMoves
  <1>3. ASSUME NEW why \in FailureReasons, s[r].pc = "attempt", Failed(r, why)
        PROVE  Moves(r) /\ Ends(r, why, "scan") /\ Cur(r) \in Providers
    <2>1. Set(r, Gone(FinishAttempt(s[r], why, s[r].tokens), s[r].i + 1, why))
      BY <1>3 DEF Failed, Gone
    <2>2. why \in Outcomes BY DEF Outcomes
    <2> QED BY <1>0, <1>3, <2>1, <2>2, EndMoves
  <1>4. ASSUME Cancelled(r), s[r].ctx = "forced"
        PROVE  Moves(r) /\ Ends(r, "shutdown", "release") /\ Cur(r) \in Providers
    <2>1. s[r].pc = "attempt" /\ Set(r, At(FinishAttempt(s[r], "shutdown", s[r].tokens), "release"))
      BY <1>4 DEF Cancelled, At
    <2>2. "shutdown" \in Outcomes BY DEF Outcomes
    <2> QED BY <1>0, <2>1, <2>2, EndMoves
  <1>5. ASSUME Cancelled(r), s[r].ctx = "client"
        PROVE  Moves(r) /\ Ends(r, "client_cancelled", "release") /\ Cur(r) \in Providers
    <2>1. s[r].pc = "attempt" /\ Set(r, At(FinishAttempt(s[r], "client_cancelled", s[r].tokens), "release"))
      BY <1>5 DEF Cancelled, At
    <2>2. "client_cancelled" \in Outcomes BY DEF Outcomes
    <2> QED BY <1>0, <2>1, <2>2, EndMoves
  <1> QED BY <1>1, <1>2, <1>3, <1>4, <1>5

\* Every step of a handler leaves it in such a state.
LEMMA HandlerMoves ==
    ASSUME HandlersInv, NEW r \in Requests, Handler(r)
    PROVE  Moves(r)
  <1>1. CASE Arrive(r) \/ CheckBudget(r) \/ Admit(r)
    BY <1>1, AdmissionMoves
  <1>2. CASE UseClaim(r) \/ AskBreaker(r)
    BY <1>2, LoopMoves
  <1>3. CASE ListEnds(r) \/ Scan(r) \/ ScanEnds(r) \/ Release(r)
    BY <1>3, PassMoves
  <1>4. CASE AttemptStep(r)
    <2>1. CASE \E n \in Counts : Forward(r, n)
      BY <2>1, FrameMoves, StreamAssumption
    <2>2. CASE \E u \in Reports : Usage(r, u)
      BY <2>2, FrameMoves, StreamAssumption
    <2>3. CASE \E n \in Counts : WriteError(r, n)
      <3>1. s[r].pc = "attempt" /\ Failed(r, "dead_socket") /\ "dead_socket" \in FailureReasons
        BY <2>3 DEF WriteError, FailureReasons
      <3> QED BY <3>1, OutcomeMoves
    <2>4. CASE \E why \in Failures : Break(r, why)
      <3>1. PICK why \in FailureReasons : s[r].pc = "attempt" /\ Failed(r, why)
        BY <2>4, StreamAssumption DEF Break
      <3> QED BY <3>1, OutcomeMoves
    <2>5. CASE OverBudget(r) \/ Finish(r)
      BY <2>5, OutcomeMoves
    <2>6. CASE Cancelled(r)
      <3>1. s[r].ctx = "forced" \/ s[r].ctx = "client"
        BY <2>6 DEF Cancelled
      <3> QED BY <2>6, <3>1, OutcomeMoves
    <2> QED BY <1>4, <2>1, <2>2, <2>3, <2>4, <2>5, <2>6 DEF AttemptStep
  <1>5. CASE ClaimNext(r)
    BY <1>5, ClaimMoves
  <1>6. CASE Failover(r)
    BY <1>6, FailoverMoves
  <1>7. CASE Truncate(r)
    BY <1>7, TruncateMoves
  <1> QED BY <1>1, <1>2, <1>3, <1>4, <1>5, <1>6, <1>7 DEF Handler

\* The initial state.
LEMMA InitHandlers == Init => HandlersInv
  <1> SUFFICES ASSUME Init PROVE HandlersInv
    OBVIOUS
  <1>1. NewHandler \in HandlerType
    BY DEF NewHandler, HandlerType, PCs, Reasons, Outcomes
  <1>2. /\ NewHandler.pc = "idle" /\ NewHandler.attempts = <<>> /\ NewHandler.wire = <<>>
        /\ NewHandler.tokens = 0 /\ NewHandler.total = 0
    BY DEF NewHandler
  <1>3. ASSUME NEW A, NEW L PROVE Local(NewHandler, A, L)
    BY <1>1, <1>2 DEF Local, Counted, Indexed, Judged, Untruncated, Ordered
  <1> QED BY <1>1, <1>2, <1>3 DEF Init, HandlersInv

\* A step preserves the handlers' invariant.
LEMMA NextHandlers == HandlersInv /\ [Next]_vars => HandlersInv'
  <1> SUFFICES ASSUME HandlersInv, [Next]_vars PROVE HandlersInv'
    OBVIOUS
  <1>1. ASSUME NEW r \in Requests, Moves(r) PROVE HandlersInv'
    <2>1. ASSUME NEW q \in Requests
          PROVE  /\ Local(s'[q], Allowlist[KeyOf[q]], List(q))
                 /\ s'[q].pc \notin {"idle", "rejected"} => KeyOf[q] \in Keys
      <3>1. CASE q = r
        BY <1>1, <3>1 DEF Moves
      <3>2. CASE q # r
        BY <1>1, <3>2, HandlerFacts DEF Moves
      <3> QED BY <3>1, <3>2
    <2>2. s' \in [Requests -> HandlerType]
      BY <1>1 DEF Moves
    <2> QED BY <2>1, <2>2 DEF HandlersInv
  <1>2. CASE UNCHANGED s
    BY <1>2 DEF HandlersInv
  <1>3. CASE \E r \in Requests : Handler(r)
    BY <1>1, <1>3, HandlerMoves
  <1>4. CASE \E r \in Requests : ClientLeaves(r) \/ ForceClose(r)
    BY <1>1, <1>4, CancelMoves
  <1>5. \/ UNCHANGED s
        \/ \E r \in Requests : Handler(r)
        \/ \E r \in Requests : ClientLeaves(r) \/ ForceClose(r)
    BY DEF Next, Environment, AllServed, BeginShutdown, ResetExpired, Slide, Tick, vars
  <1> QED BY <1>2, <1>3, <1>4, <1>5

\* The handlers' invariant holds throughout.
LEMMA HandlersAlways == Spec => []HandlersInv
  BY InitHandlers, NextHandlers, PTL DEF Spec

-----------------------------------------------------------------------------
\* Failover walks the configured priority order, whatever the breakers, the budget and
\* the other requests do: the providers handleStream attempts for a request are allowed
\* to its key and strictly descend the list.
THEOREM FailoverWalksDown == Spec => []AttemptsFollowPriority
  <1>1. HandlersInv => AttemptsFollowPriority
    <2> SUFFICES ASSUME HandlersInv, NEW r \in Requests
                 PROVE  /\ \A n \in DOMAIN s[r].attempts : s[r].attempts[n].provider \in Allowlist[KeyOf[r]]
                        /\ \A m, n \in DOMAIN s[r].attempts :
                              m < n => Rank(s[r].attempts[m].provider) < Rank(s[r].attempts[n].provider)
      BY DEF AttemptsFollowPriority, Rank
    <2>1. Ordered(s[r], Allowlist[KeyOf[r]], List(r))
      BY HandlerFacts DEF Local
    <2>2. DOMAIN s[r].attempts = 1 .. Len(s[r].attempts)
      BY HandlerFacts DEF HandlerType
    <2> QED BY <2>1, <2>2 DEF Ordered
  <1> QED BY <1>1, HandlersAlways, PTL

-----------------------------------------------------------------------------
\* Probes.

\* A handler in state h answers for the probe of provider p.
AnswersFor(h, p) ==
    \/ p \in h.claimed
    \/ /\ h.attempts # <<>> /\ Last(h.attempts).provider = p
       /\ h.pc = "attempt" \/ Last(h.attempts).outcome \in {"shutdown", "client_cancelled"}

BreakersInv == brk \in [Providers -> CircuitType]
ProbesInv == \A p \in Providers : brk[p].probing => \E r \in Requests : AnswersFor(s[r], p)

\* A step of r keeps every probe answered for when each probe it leaves is one r answers
\* for, or was there before and r still answers for it if it did.
LEMMA ProbesKept ==
    ASSUME HandlersInv, ProbesInv, NEW r \in Requests, Moves(r),
           \A p \in Providers : brk'[p].probing =>
              \/ AnswersFor(s'[r], p)
              \/ brk[p].probing /\ (AnswersFor(s[r], p) => AnswersFor(s'[r], p))
    PROVE  ProbesInv'
  <1> SUFFICES ASSUME NEW p \in Providers, brk'[p].probing
               PROVE  \E q \in Requests : AnswersFor(s'[q], p)
    BY DEF ProbesInv
  <1>1. CASE AnswersFor(s'[r], p)
    BY <1>1
  <1>2. CASE brk[p].probing /\ (AnswersFor(s[r], p) => AnswersFor(s'[r], p))
    <2>1. PICK q \in Requests : AnswersFor(s[q], p)
      BY <1>2 DEF ProbesInv
    <2>2. q # r => s'[q] = s[q]
      BY DEF Moves
    <2> QED BY <1>2, <2>1, <2>2
  <1> QED BY <1>1, <1>2

\* A step that neither begins nor ends an attempt keeps the probes r answers for.
LEMMA StillAnswers ==
    ASSUME NEW r, NEW p, s[r].claimed \subseteq s'[r].claimed, s'[r].attempts = s[r].attempts,
           s[r].pc # "attempt" \/ s'[r].pc = "attempt"
    PROVE  AnswersFor(s[r], p) => AnswersFor(s'[r], p)
  BY DEF AnswersFor

\* An attempt that begins answers for its provider, and gives up no other.
LEMMA BeginAnswers ==
    ASSUME HandlersInv, NEW r \in Requests, Begins(r), NEW p
    PROVE  /\ AnswersFor(s'[r], Cur(r))
           /\ AnswersFor(s[r], p) => AnswersFor(s'[r], p)
  <1>1. AnswersFor(s'[r], Cur(r))
    BY DEF AnswersFor, Begins
  <1>2. ASSUME AnswersFor(s[r], p), p # Cur(r) PROVE AnswersFor(s'[r], p)
    <2>1. s[r].attempts # <<>> => Last(s[r].attempts).outcome \in FailureReasons
      BY HandlerFacts DEF Begins, Local, Judged, Last
    <2>2. p \in s[r].claimed
      BY <1>2, <2>1 DEF AnswersFor, Begins, FailureReasons
    <2> QED BY <1>2, <2>2 DEF AnswersFor, Begins
  <1> QED BY <1>1, <1>2

\* One that ends answers for no provider but its own.
LEMMA EndAnswers ==
    ASSUME NEW r \in Requests, NEW o, NEW pc, Ends(r, o, pc), NEW p
    PROVE  /\ p # Cur(r) /\ AnswersFor(s[r], p) => AnswersFor(s'[r], p)
           /\ o \in {"shutdown", "client_cancelled"} => AnswersFor(s'[r], Cur(r))
  BY DEF AnswersFor, Ends

\* The breakers of the initial state.
LEMMA InitProbes == Init => BreakersInv /\ ProbesInv
  <1>1. NewCircuit \in CircuitType /\ ~NewCircuit.probing
    BY DEF NewCircuit, CircuitType
  <1> QED BY <1>1 DEF Init, BreakersInv, ProbesInv

\* What a step does to the breaker of p alone.
LEMMA BreakerStep ==
    ASSUME BreakersInv, NEW p \in Providers, NEW c \in CircuitType, brk' = [brk EXCEPT ![p] = c]
    PROVE  BreakersInv' /\ brk'[p] = c /\ \A q \in Providers \ {p} : brk'[q] = brk[q]
  BY DEF BreakersInv

\* A step of a handler keeps every probe answered for.
LEMMA HandlerProbes ==
    ASSUME HandlersInv, BreakersInv, ProbesInv, NEW r \in Requests, Handler(r)
    PROVE  BreakersInv' /\ ProbesInv'
  <1>0. Moves(r)
    BY HandlerMoves
  <1>q. ASSUME UNCHANGED brk, \A p \in Providers : AnswersFor(s[r], p) => AnswersFor(s'[r], p)
        PROVE  BreakersInv' /\ ProbesInv'
    BY <1>0, <1>q, ProbesKept DEF BreakersInv
  <1>1. CASE Arrive(r) \/ CheckBudget(r) \/ Admit(r)
    <2>1. Still(r) /\ UNCHANGED brk /\ s[r].pc # "attempt"
      BY <1>1, AdmissionMoves DEF shared
    <2> QED BY <2>1, <1>q, StillAnswers DEF Still
  <1>2. CASE UseClaim(r)
    <2>1. Begins(r) /\ UNCHANGED brk
      BY <1>2, LoopMoves DEF UseClaim, AskBreaker, shared
    <2> QED BY <2>1, <1>q, BeginAnswers
  <1>3. CASE AskBreaker(r)
    <2>1. PICK p \in Providers : p = Cur(r)
      BY <1>3, LoopMoves
    <2>2. PICK c \in CircuitType : /\ c = AllowAttempt(brk[p], CfgOf[p])
                                   /\ c.probing => brk[p].probing \/ Allows(brk[p], CfgOf[p])
      BY AllowProbe DEF BreakersInv
    <2>3. brk' = [brk EXCEPT ![p] = c]
      BY <1>3, <2>1, <2>2 DEF AskBreaker, BreakersInv
    <2>4. BreakersInv' /\ brk'[p] = c /\ \A q \in Providers \ {p} : brk'[q] = brk[q]
      BY <2>3, BreakerStep
    <2>5. CASE Begins(r)
      BY <1>0, <2>1, <2>4, <2>5, BeginAnswers, ProbesKept
    <2>6. CASE ~Allows(brk[p], CfgOf[p]) /\ s[r].pc = "loop" /\ Still(r)
      <3>1. \A q : AnswersFor(s[r], q) => AnswersFor(s'[r], q)
        BY SMTT(40), <2>6, StillAnswers DEF Still
      <3> QED BY <1>0, <2>2, <2>4, <2>6, <3>1, ProbesKept
    <2> QED BY <1>3, <2>1, <2>5, <2>6, LoopMoves
  <1>4. CASE ListEnds(r) \/ ScanEnds(r) \/ Release(r)
    <2>1. Still(r) /\ UNCHANGED brk /\ s[r].pc # "attempt"
      BY <1>4, PassMoves DEF ListEnds, ScanEnds, Release, shared
    <2> QED BY <2>1, <1>q, StillAnswers DEF Still
  <1>5. CASE Scan(r)
    <2>1. Still(r) /\ s[r].pc = "scan"
      BY <1>5, PassMoves DEF Scan
    <2>2. PICK p \in Providers : p = List(r)[s[r].j]
      <3>1. s[r].j \in 1 .. Len(List(r))
        BY SMTT(40), <1>5, HandlerFacts DEF Scan, Local, Indexed, HandlerType
      <3> QED BY SMTT(40), <3>1, HandlerFacts
    <2>3. PICK c \in CircuitType : c = Refresh(brk[p], CfgOf[p]) /\ (c.probing => brk[p].probing)
      BY RefreshProbe DEF BreakersInv
    <2>4. brk' = [brk EXCEPT ![p] = c]
      BY <1>5, <2>2, <2>3 DEF Scan
    <2>5. BreakersInv' /\ brk'[p] = c /\ \A q \in Providers \ {p} : brk'[q] = brk[q]
      BY <2>4, BreakerStep
    <2>6. \A q : AnswersFor(s[r], q) => AnswersFor(s'[r], q)
      BY <2>1, StillAnswers DEF Still
    <2> QED BY SMTT(40), <1>0, <2>3, <2>5, <2>6, ProbesKept
  <1>6. CASE ClaimNext(r)
    <2>1. PICK p \in Providers :
             /\ p = List(r)[s[r].j] /\ s[r].pc = "claim"
             /\ s'[r].claimed = IF Claims(brk[p], CfgOf[p]) THEN s[r].claimed \cup {p} ELSE s[r].claimed
             /\ s'[r].attempts = s[r].attempts
      BY <1>6, ClaimMoves
    <2>2. PICK c \in CircuitType : /\ c = TryClaimProbe(brk[p], CfgOf[p])
                                   /\ c.probing => brk[p].probing \/ Claims(brk[p], CfgOf[p])
      BY ClaimProbe DEF BreakersInv
    <2>3. brk' = [brk EXCEPT ![p] = c]
      BY <1>6, <2>1, <2>2 DEF ClaimNext, BreakersInv
    <2>4. BreakersInv' /\ brk'[p] = c /\ \A q \in Providers \ {p} : brk'[q] = brk[q]
      BY <2>3, BreakerStep
    <2>5. s[r].claimed \subseteq s'[r].claimed
      BY <2>1
    <2>6. \A q : AnswersFor(s[r], q) => AnswersFor(s'[r], q)
      BY <2>1, <2>5, StillAnswers
    <2>7. Claims(brk[p], CfgOf[p]) => AnswersFor(s'[r], p)
      BY <2>1 DEF AnswersFor
    <2> QED BY <1>0, <2>2, <2>4, <2>6, <2>7, ProbesKept
  <1>7. CASE AttemptStep(r)
    <2>r. ASSUME NEW o, NEW pc, Ends(r, o, pc), NEW c \in CircuitType, ~c.probing, Cur(r) \in Providers,
                 brk' = [brk EXCEPT ![Cur(r)] = c]
          PROVE  BreakersInv' /\ ProbesInv'
      <3>1. PICK p \in Providers : p = Cur(r)
        BY <2>r
      <3>2. BreakersInv' /\ brk'[p] = c /\ \A q \in Providers \ {p} : brk'[q] = brk[q]
        BY <2>r, <3>1, BreakerStep
      <3>3. \A q : q # p /\ AnswersFor(s[r], q) => AnswersFor(s'[r], q)
        BY <2>r, <3>1, EndAnswers
      <3> QED BY <1>0, <2>r, <3>2, <3>3, ProbesKept
    <2>f. ASSUME NEW why \in FailureReasons, s[r].pc = "attempt", Failed(r, why)
          PROVE  BreakersInv' /\ ProbesInv'
      <3>1. Ends(r, why, "scan") /\ Cur(r) \in Providers
        BY <2>f, OutcomeMoves
      <3>2. PICK c \in CircuitType : c = RecordFailure(brk[Cur(r)], CfgOf[Cur(r)]) /\ ~c.probing
        BY <3>1, RecordEndsProbe DEF BreakersInv
      <3>3. brk' = [brk EXCEPT ![Cur(r)] = c]
        BY <2>f, <3>1, <3>2 DEF Failed, BreakersInv
      <3> QED BY <2>r, <3>1, <3>2, <3>3
    <2>1. CASE \E n \in Counts : Forward(r, n)
      <3>1. /\ s'[r].claimed = s[r].claimed /\ s'[r].attempts = s[r].attempts /\ s'[r].pc = "attempt"
            /\ UNCHANGED brk
        BY ZenonT(60), <2>1, FrameMoves, StreamAssumption DEF Forward
      <3> QED BY SMTT(40), <1>q, <3>1, StillAnswers
    <2>2. CASE \E u \in Reports : Usage(r, u)
      <3>1. /\ s'[r].claimed = s[r].claimed /\ s'[r].attempts = s[r].attempts /\ s'[r].pc = "attempt"
            /\ UNCHANGED brk
        BY <2>2, FrameMoves, StreamAssumption DEF Usage
      <3> QED BY <1>q, <3>1, StillAnswers
    <2>3. CASE \E n \in Counts : WriteError(r, n)
      <3>1. s[r].pc = "attempt" /\ Failed(r, "dead_socket") /\ "dead_socket" \in FailureReasons
        BY <2>3 DEF WriteError, FailureReasons
      <3> QED BY <2>f, <3>1
    <2>4. CASE \E why \in Failures : Break(r, why)
      <3>1. PICK why \in FailureReasons : s[r].pc = "attempt" /\ Failed(r, why)
        BY <2>4, StreamAssumption DEF Break
      <3> QED BY <2>f, <3>1
    <2>5. CASE OverBudget(r) \/ Finish(r)
      <3>1. (\E o, pc : Ends(r, o, pc)) /\ Cur(r) \in Providers
        BY <2>5, OutcomeMoves
      <3>2. PICK c \in CircuitType : c = RecordSuccess(brk[Cur(r)], CfgOf[Cur(r)]) /\ ~c.probing
        BY <3>1, RecordEndsProbe DEF BreakersInv
      <3>3. brk' = [brk EXCEPT ![Cur(r)] = c]
        BY <2>5, <3>1, <3>2 DEF OverBudget, Finish, BreakersInv
      <3> QED BY <2>r, <3>1, <3>2, <3>3
    <2>6. CASE Cancelled(r)
      <3>1. PICK o \in {"shutdown", "client_cancelled"} : Ends(r, o, "release")
        BY <2>6, OutcomeMoves DEF Cancelled
      <3>2. UNCHANGED brk
        BY <2>6 DEF Cancelled
      <3> QED BY <1>q, <3>1, <3>2, EndAnswers
    <2> QED BY <1>7, <2>1, <2>2, <2>3, <2>4, <2>5, <2>6 DEF AttemptStep
  <1>8. CASE Failover(r)
    <2>1. /\ s'[r].claimed = s[r].claimed /\ s'[r].attempts = s[r].attempts /\ s[r].pc = "failover"
          /\ UNCHANGED brk
      BY <1>8, FailoverMoves DEF Failover
    <2> QED BY <1>q, <2>1, StillAnswers
  <1>9. CASE Truncate(r)
    <2>1. /\ s'[r].claimed = s[r].claimed /\ s'[r].attempts = s[r].attempts /\ s[r].pc = "truncate"
          /\ UNCHANGED brk
      BY <1>9, TruncateMoves DEF Truncate
    <2> QED BY <1>q, <2>1, StillAnswers
  <1> QED BY <1>1, <1>2, <1>3, <1>4, <1>5, <1>6, <1>7, <1>8, <1>9 DEF Handler

\* So does every step.
LEMMA NextProbes ==
    HandlersInv /\ BreakersInv /\ ProbesInv /\ [Next]_vars => BreakersInv' /\ ProbesInv'
  <1> SUFFICES ASSUME HandlersInv, BreakersInv, ProbesInv, [Next]_vars
               PROVE  BreakersInv' /\ ProbesInv'
    OBVIOUS
  <1>1. CASE \E r \in Requests : Handler(r)
    BY <1>1, HandlerProbes
  <1>2. CASE \E r \in Requests : ClientLeaves(r) \/ ForceClose(r)
    <2>1. PICK r \in Requests : ClientLeaves(r) \/ ForceClose(r)
      BY <1>2
    <2>2. Moves(r) /\ Still(r) /\ s'[r].pc = s[r].pc
      BY <2>1, CancelMoves
    <2>3. UNCHANGED brk
      BY <2>1 DEF ClientLeaves, ForceClose, shared
    <2>4. \A p : AnswersFor(s[r], p) => AnswersFor(s'[r], p)
      BY <2>2, StillAnswers DEF Still
    <2>5. ProbesInv'
      BY <2>2, <2>3, <2>4, ProbesKept
    <2> QED BY <2>3, <2>5 DEF BreakersInv
  <1>3. CASE Tick
    <2>1. \A p \in Providers : brk'[p] \in CircuitType /\ (brk'[p].probing => brk[p].probing)
      BY <1>3, AgeKeepsProbe DEF Tick, BreakersInv
    <2>2. UNCHANGED s /\ BreakersInv'
      BY <1>3, <2>1 DEF Tick, BreakersInv
    <2>3. ProbesInv'
      BY <2>1, <2>2 DEF ProbesInv
    <2> QED BY <2>2, <2>3
  <1>4. CASE UNCHANGED <<s, brk>>
    BY <1>4 DEF BreakersInv, ProbesInv
  <1>5. \/ UNCHANGED <<s, brk>> \/ Tick
        \/ \E r \in Requests : Handler(r)
        \/ \E r \in Requests : ClientLeaves(r) \/ ForceClose(r)
    BY DEF Next, Environment, AllServed, BeginShutdown, ResetExpired, Slide, vars
  <1> QED BY <1>1, <1>2, <1>3, <1>4, <1>5

\* A provider that refuses requests because a probe is in flight owes it to a request
\* that attempts it, has claimed it, or was cancelled while it attempted it: every other
\* way out of runAttempt and of nextAttemptableProvider tells the breaker.
THEOREM ProbesAreAccountedFor == Spec => []ProbesAccountedFor
  <1>1. HandlersInv /\ ProbesInv => ProbesAccountedFor
    <2> SUFFICES ASSUME HandlersInv, ProbesInv, NEW p \in Providers, brk[p].probing
                 PROVE  \E r \in Requests :
                            \/ p \in s[r].claimed
                            \/ /\ FinalProvider(r) = p
                               /\ \/ s[r].pc = "attempt"
                                  \/ LastOutcome(r) \in {"shutdown", "client_cancelled"}
      BY DEF ProbesAccountedFor
    <2>1. PICK r \in Requests : AnswersFor(s[r], p)
      BY DEF ProbesInv
    <2> QED BY <2>1 DEF AnswersFor, FinalProvider, LastOutcome
  <1>2. Init => BreakersInv /\ ProbesInv
    BY InitProbes
  <1> QED BY <1>1, <1>2, NextProbes, HandlersAlways, PTL DEF Spec

-----------------------------------------------------------------------------
\* The books.

\* What a handler in state h owes, to which provider, whether it counts as truncated,
\* and what it holds reserved: Owes, FinalProvider, the truncations and InFlight of
\* module Stream as functions of its state.
OutcomeOf(h) == IF h.attempts = <<>> THEN None ELSE Last(h.attempts).outcome
ProviderOf(h) == IF h.attempts = <<>> THEN None ELSE Last(h.attempts).provider
IsOver(h) == h.pc \in {"release", "done"}
IsTruncated(h) == h.wire # <<>> /\ Last(h.wire).event = "truncated"
OwesOf(h) == IF IsOver(h) /\ (IsTruncated(h) \/ OutcomeOf(h) \in {"success", "shutdown"})
             THEN h.tokens ELSE 0
PaysOf(h, p) == IF ProviderOf(h) = p THEN OwesOf(h) ELSE 0
CutOf(h) == IF IsOver(h) /\ (IsTruncated(h) \/ OutcomeOf(h) = "shutdown") THEN 1 ELSE 0
HoldsOf(h) == IF h.pc \in {"attempt", "scan", "claim", "failover", "truncate"} THEN h.tokens ELSE 0

\* The same as functions of the request, to be summed over the requests of a key.
OwesMap == [r \in Requests |-> OwesOf(s[r])]
PaysMap(p) == [r \in Requests |-> PaysOf(s[r], p)]
CutMap == [r \in Requests |-> CutOf(s[r])]
HoldsMap == [r \in Requests |-> HoldsOf(s[r])]

\* The types of the shared objects.
EntryType == [tokensBilled : Nat, truncatedRequests : Nat, lastReconciledAt : Nat,
              driftFlag : BOOLEAN, providerTokens : [Providers -> Nat]]

StoreInv == /\ used \in [Keys -> Nat]
            /\ window \in [Keys -> 0 .. RateMax]
            /\ ledger \in [Keys -> EntryType]
            /\ draining \in BOOLEAN
            /\ resets \in 0 .. MaxResets
            /\ lost \in [Requests -> Nat]

\* The ledger entry of a key is the sum over its requests.
LedgerInv == \A k \in Keys :
    /\ ledger[k].tokensBilled = SumFunctionOnSet(OwesMap, OfKey(k))
    /\ \A p \in Providers : ledger[k].providerTokens[p] = SumFunctionOnSet(PaysMap(p), OfKey(k))
    /\ ledger[k].truncatedRequests = SumFunctionOnSet(CutMap, OfKey(k))

\* What key k has been charged for: billed, held by running attempts, and left behind.
ChargedTo(k) == SumFunctionOnSet(OwesMap, OfKey(k)) + SumFunctionOnSet(HoldsMap, OfKey(k))
                  + SumFunctionOnSet(lost, OfKey(k))

\* TokensUsed is what was charged, or less after a reset.
AccountInv == \A k \in Keys :
    used[k] <= ChargedTo(k) /\ (resets = 0 => used[k] = ChargedTo(k))

\* The values of the maps are natural numbers.
LEMMA ValueTypes ==
    ASSUME NEW h \in HandlerType
    PROVE  /\ OwesOf(h) \in Nat /\ CutOf(h) \in Nat /\ HoldsOf(h) \in Nat
           /\ \A p : PaysOf(h, p) \in Nat
  <1>1. h.tokens \in Nat
    BY DEF HandlerType
  <1>2. OwesOf(h) \in Nat /\ CutOf(h) \in Nat /\ HoldsOf(h) \in Nat
    BY <1>1 DEF OwesOf, CutOf, HoldsOf
  <1> QED BY <1>2 DEF PaysOf

\* So they are before and after a step.
LEMMA MapTypes ==
    ASSUME HandlersInv, NEW r \in Requests, Moves(r)
    PROVE  /\ OwesMap \in [Requests -> Nat] /\ CutMap \in [Requests -> Nat]
           /\ HoldsMap \in [Requests -> Nat] /\ \A p : PaysMap(p) \in [Requests -> Nat]
           /\ OwesMap' \in [Requests -> Nat] /\ CutMap' \in [Requests -> Nat]
           /\ HoldsMap' \in [Requests -> Nat] /\ \A p : PaysMap(p)' \in [Requests -> Nat]
  <1>1. \A q \in Requests : s[q] \in HandlerType /\ s'[q] \in HandlerType
    BY DEF HandlersInv, Moves
  <1>2. /\ OwesMap \in [Requests -> Nat] /\ CutMap \in [Requests -> Nat]
        /\ HoldsMap \in [Requests -> Nat] /\ \A p : PaysMap(p) \in [Requests -> Nat]
    BY <1>1, ValueTypes DEF OwesMap, CutMap, HoldsMap, PaysMap
  <1>3. /\ OwesMap' \in [Requests -> Nat] /\ CutMap' \in [Requests -> Nat]
        /\ HoldsMap' \in [Requests -> Nat] /\ \A p : PaysMap(p)' \in [Requests -> Nat]
    BY <1>1, ValueTypes DEF OwesMap, CutMap, HoldsMap, PaysMap
  <1> QED BY <1>2, <1>3

\* When the value of one request changes, the sum over its key changes by as much, and
\* the sums over the other keys do not.
LEMMA KeySum ==
    ASSUME NEW f \in [Requests -> Nat], NEW e \in [Requests -> Nat], NEW r \in Requests,
           \A q \in Requests \ {r} : e[q] = f[q], NEW k
    PROVE  /\ SumFunctionOnSet(f, OfKey(k)) \in Nat
           /\ KeyOf[r] # k => SumFunctionOnSet(e, OfKey(k)) = SumFunctionOnSet(f, OfKey(k))
           /\ KeyOf[r] = k => /\ SumFunctionOnSet(e, OfKey(k)) = SumFunctionOnSet(f, OfKey(k)) + (e[r] - f[r])
                              /\ f[r] <= SumFunctionOnSet(f, OfKey(k))
  <1>1. IsFiniteSet(OfKey(k)) /\ OfKey(k) \subseteq Requests
    BY StreamAssumption, FS_Subset DEF OfKey
  <1>2. \A q \in OfKey(k) : f[q] \in Nat /\ f[q] \in Int /\ e[q] \in Int
    BY <1>1
  <1>3. SumFunctionOnSet(f, OfKey(k)) \in Nat /\ \A q \in OfKey(k) : f[q] <= SumFunctionOnSet(f, OfKey(k))
    BY <1>1, <1>2, SumNat
  <1>4. ASSUME KeyOf[r] # k PROVE SumFunctionOnSet(e, OfKey(k)) = SumFunctionOnSet(f, OfKey(k))
    <2>1. \A q \in OfKey(k) : e[q] = f[q]
      BY <1>1, <1>4 DEF OfKey
    <2> QED BY <1>1, <1>2, <2>1, SumSame
  <1>5. ASSUME KeyOf[r] = k
        PROVE  /\ SumFunctionOnSet(e, OfKey(k)) = SumFunctionOnSet(f, OfKey(k)) + (e[r] - f[r])
               /\ f[r] <= SumFunctionOnSet(f, OfKey(k))
    <2>1. r \in OfKey(k) /\ \A q \in OfKey(k) \ {r} : e[q] = f[q]
      BY <1>1, <1>5 DEF OfKey
    <2>2. SumFunctionOnSet(e, OfKey(k)) = SumFunctionOnSet(f, OfKey(k)) + (e[r] - f[r])
      BY <1>1, <1>2, <2>1, SumUpdate
    <2> QED BY <1>3, <2>1, <2>2
  <1> QED BY <1>3, <1>4, <1>5

\* The ledger stays right when the entry of r's key moves by what r's part moves.
LEMMA LedgerKept ==
    ASSUME HandlersInv, StoreInv, StoreInv', LedgerInv, NEW r \in Requests, Moves(r),
           \A k \in Keys : KeyOf[r] # k => ledger'[k] = ledger[k],
           \A k \in Keys : KeyOf[r] = k =>
              /\ ledger'[k].tokensBilled = ledger[k].tokensBilled + (OwesOf(s'[r]) - OwesOf(s[r]))
              /\ \A p \in Providers : ledger'[k].providerTokens[p]
                    = ledger[k].providerTokens[p] + (PaysOf(s'[r], p) - PaysOf(s[r], p))
              /\ ledger'[k].truncatedRequests = ledger[k].truncatedRequests + (CutOf(s'[r]) - CutOf(s[r]))
    PROVE  LedgerInv'
  <1>1. /\ OwesMap \in [Requests -> Nat] /\ CutMap \in [Requests -> Nat]
        /\ \A p : PaysMap(p) \in [Requests -> Nat]
    BY MapTypes
  <1>2. PICK e \in [Requests -> Nat], c \in [Requests -> Nat] : e = OwesMap' /\ c = CutMap'
    <2>1. OwesMap' \in [Requests -> Nat] /\ CutMap' \in [Requests -> Nat]
      BY MapTypes
    <2> QED BY <2>1
  <1>3. /\ e[r] = OwesOf(s'[r]) /\ OwesMap[r] = OwesOf(s[r])
        /\ c[r] = CutOf(s'[r]) /\ CutMap[r] = CutOf(s[r])
        /\ \A q \in Requests \ {r} : e[q] = OwesMap[q] /\ c[q] = CutMap[q]
    BY <1>2 DEF OwesMap, CutMap, Moves
  <1> SUFFICES ASSUME NEW k \in Keys
               PROVE  /\ ledger'[k].tokensBilled = SumFunctionOnSet(e, OfKey(k))
                      /\ \A p \in Providers :
                            ledger'[k].providerTokens[p] = SumFunctionOnSet(PaysMap(p)', OfKey(k))
                      /\ ledger'[k].truncatedRequests = SumFunctionOnSet(c, OfKey(k))
    BY <1>2 DEF LedgerInv, OfKey
  <1>4. /\ ledger[k].tokensBilled = SumFunctionOnSet(OwesMap, OfKey(k))
        /\ \A p \in Providers : ledger[k].providerTokens[p] = SumFunctionOnSet(PaysMap(p), OfKey(k))
        /\ ledger[k].truncatedRequests = SumFunctionOnSet(CutMap, OfKey(k))
    BY DEF LedgerInv
  <1>5. ledger'[k].tokensBilled = SumFunctionOnSet(e, OfKey(k))
    BY <1>1, <1>3, <1>4, KeySum
  <1>6. ledger'[k].truncatedRequests = SumFunctionOnSet(c, OfKey(k))
    BY <1>1, <1>3, <1>4, KeySum
  <1>7. ASSUME NEW p \in Providers
        PROVE  ledger'[k].providerTokens[p] = SumFunctionOnSet(PaysMap(p)', OfKey(k))
    <2>1. PICK d \in [Requests -> Nat] : d = PaysMap(p)'
      <3>1. \A x : PaysMap(x)' \in [Requests -> Nat]
        BY MapTypes
      <3> QED BY <3>1
    <2>2. /\ d[r] = PaysOf(s'[r], p) /\ PaysMap(p)[r] = PaysOf(s[r], p)
          /\ \A q \in Requests \ {r} : d[q] = PaysMap(p)[q]
      BY <2>1 DEF PaysMap, Moves
    <2> QED BY SMTT(40), <1>1, <1>4, <2>1, <2>2, KeySum
  <1> QED BY <1>5, <1>6, <1>7

\* A key's account stays in step when it moves by what r's part moves, or when it gives
\* back what r held as far as a reset left it there.
LEMMA AccountKept ==
    ASSUME HandlersInv, StoreInv, StoreInv', AccountInv, NEW r \in Requests, Moves(r),
           UNCHANGED resets, \A q \in Requests \ {r} : lost'[q] = lost[q],
           \A k \in Keys : KeyOf[r] # k => used'[k] = used[k],
           NEW n \in Int,
           n = (OwesOf(s'[r]) - OwesOf(s[r])) + (HoldsOf(s'[r]) - HoldsOf(s[r])) + (lost'[r] - lost[r]),
           \A k \in Keys : KeyOf[r] = k => \/ used'[k] = used[k] + n
                                           \/ n = 0 - HoldsOf(s[r]) /\ used'[k] = Reduced(used[k], HoldsOf(s[r]))
    PROVE  AccountInv'
  <1>1. OwesMap \in [Requests -> Nat] /\ HoldsMap \in [Requests -> Nat] /\ lost \in [Requests -> Nat]
    BY MapTypes DEF StoreInv
  <1>2. PICK e \in [Requests -> Nat], h \in [Requests -> Nat], l \in [Requests -> Nat] :
           e = OwesMap' /\ h = HoldsMap' /\ l = lost'
    <2>1. OwesMap' \in [Requests -> Nat] /\ HoldsMap' \in [Requests -> Nat] /\ lost' \in [Requests -> Nat]
      BY MapTypes DEF StoreInv
    <2> QED BY <2>1
  <1>3. /\ e[r] = OwesOf(s'[r]) /\ OwesMap[r] = OwesOf(s[r])
        /\ h[r] = HoldsOf(s'[r]) /\ HoldsMap[r] = HoldsOf(s[r])
        /\ \A q \in Requests \ {r} : e[q] = OwesMap[q] /\ h[q] = HoldsMap[q] /\ l[q] = lost[q]
    BY <1>2 DEF OwesMap, HoldsMap, Moves
  <1> SUFFICES ASSUME NEW k \in Keys, NEW a, NEW b, NEW c, NEW x, NEW y, NEW z,
                      a = SumFunctionOnSet(OwesMap, OfKey(k)), x = SumFunctionOnSet(e, OfKey(k)),
                      b = SumFunctionOnSet(HoldsMap, OfKey(k)), y = SumFunctionOnSet(h, OfKey(k)),
                      c = SumFunctionOnSet(lost, OfKey(k)), z = SumFunctionOnSet(l, OfKey(k))
               PROVE  used'[k] <= x + y + z /\ (resets = 0 => used'[k] = x + y + z)
    BY <1>2 DEF AccountInv, ChargedTo, OfKey
  <1>4. used[k] <= a + b + c /\ (resets = 0 => used[k] = a + b + c)
    BY DEF AccountInv, ChargedTo
  <1>5. /\ a \in Nat
        /\ KeyOf[r] # k => x = a
        /\ KeyOf[r] = k => x = a + (e[r] - OwesMap[r])
    BY SMTT(40), <1>1, <1>3, KeySum
  <1>6. /\ b \in Nat
        /\ KeyOf[r] # k => y = b
        /\ KeyOf[r] = k => y = b + (h[r] - HoldsMap[r]) /\ HoldsMap[r] <= b
    BY <1>1, <1>3, KeySum
  <1>7. /\ c \in Nat
        /\ KeyOf[r] # k => z = c
        /\ KeyOf[r] = k => z = c + (l[r] - lost[r])
    BY <1>1, <1>3, KeySum
  <1>8. used[k] \in Nat /\ used'[k] \in Nat
    BY DEF StoreInv
  <1>9. e[r] \in Nat /\ OwesMap[r] \in Nat /\ h[r] \in Nat /\ HoldsMap[r] \in Nat /\ l[r] \in Nat /\ lost[r] \in Nat
    BY <1>1
  <1>10. CASE KeyOf[r] # k
    BY <1>4, <1>5, <1>6, <1>7, <1>10
  <1>11. CASE KeyOf[r] = k
    <2>1. n = (e[r] - OwesMap[r]) + (h[r] - HoldsMap[r]) + (l[r] - lost[r])
      BY <1>2, <1>3
    <2>2. x + y + z = a + b + c + n
      BY <1>5, <1>6, <1>7, <1>9, <1>11, <2>1
    <2>3. CASE used'[k] = used[k] + n
      BY <1>4, <1>5, <1>6, <1>7, <1>8, <2>2, <2>3
    <2>4. CASE n = 0 - HoldsMap[r] /\ used'[k] = Reduced(used[k], HoldsMap[r])
      BY <1>4, <1>5, <1>6, <1>7, <1>8, <1>9, <1>11, <2>2, <2>4 DEF Reduced
    <2> QED BY <1>3, <1>11, <2>3, <2>4
  <1> QED BY <1>10, <1>11

\* RecordTerminal on an entry.
LEMMA RecordFacts ==
    ASSUME NEW e \in EntryType, NEW p, NEW n \in Nat, NEW cut \in BOOLEAN,
           NEW d, d = RecordTerminal(e, p, n, cut)
    PROVE  /\ d \in EntryType
           /\ d.tokensBilled = e.tokensBilled + n
           /\ d.truncatedRequests = e.truncatedRequests + (IF cut THEN 1 ELSE 0)
           /\ \A q \in Providers : d.providerTokens[q] = e.providerTokens[q] + (IF q = p THEN n ELSE 0)
  <1>1. PICK f \in [Providers -> Nat] : f = e.providerTokens
    BY DEF EntryType
  <1>2. PICK g \in [Providers -> Nat] : g = [q \in DOMAIN f |-> IF q = p THEN f[q] + n ELSE f[q]]
    <2>1. [q \in DOMAIN f |-> IF q = p THEN f[q] + n ELSE f[q]] \in [Providers -> Nat]
      OBVIOUS
    <2> QED BY <2>1
  <1>3. PICK b \in Nat, t \in Nat : /\ b = e.tokensBilled + n
                                    /\ t = IF cut THEN e.truncatedRequests + 1 ELSE e.truncatedRequests
    BY DEF EntryType
  <1>4. RecordTerminal(e, p, n, cut) = [e EXCEPT !.tokensBilled = b, !.truncatedRequests = t, !.providerTokens = g]
    <2>1. ~(n < 0)
      OBVIOUS
    <2> QED BY <1>1, <1>2, <1>3, <2>1 DEF RecordTerminal, EntryType
  <1>5. \A c : c = [e EXCEPT !.tokensBilled = b, !.truncatedRequests = t, !.providerTokens = g]
               => c \in EntryType /\ c.tokensBilled = b /\ c.truncatedRequests = t /\ c.providerTokens = g
    BY DEF EntryType
  <1>6. d \in EntryType /\ d.tokensBilled = b /\ d.truncatedRequests = t /\ d.providerTokens = g
    BY <1>4, <1>5, Zenon
  <1>7. e.truncatedRequests \in Nat
    BY DEF EntryType
  <1> QED BY <1>1, <1>2, <1>3, <1>6, <1>7

\* A handler that is not over owes nothing.
LEMMA OwesNothing ==
    ASSUME NEW h, h.pc \notin {"release", "done"}
    PROVE  OwesOf(h) = 0 /\ CutOf(h) = 0 /\ \A p : PaysOf(h, p) = 0
  BY DEF OwesOf, CutOf, PaysOf, IsOver

\* A step of r that bills nothing.
LEMMA NothingBilled ==
    ASSUME HandlersInv, StoreInv, StoreInv', LedgerInv, NEW r \in Requests, Moves(r), UNCHANGED ledger,
           OwesOf(s'[r]) = OwesOf(s[r]), CutOf(s'[r]) = CutOf(s[r]),
           \A p : PaysOf(s'[r], p) = PaysOf(s[r], p)
    PROVE  LedgerInv'
  <1>1. \A k \in Keys : /\ ledger[k].tokensBilled \in Nat /\ ledger[k].truncatedRequests \in Nat
                        /\ \A p \in Providers : ledger[k].providerTokens[p] \in Nat
    BY DEF StoreInv, EntryType
  <1>2. OwesOf(s[r]) \in Nat /\ CutOf(s[r]) \in Nat /\ \A p : PaysOf(s[r], p) \in Nat
    BY HandlerFacts, ValueTypes
  <1>3. \A x \in Nat, y \in Nat : x = x + (y - y)
    OBVIOUS
  <1>4. /\ \A k \in Keys : ledger'[k] = ledger[k]
        /\ \A k \in Keys :
              /\ ledger'[k].tokensBilled = ledger[k].tokensBilled + (OwesOf(s'[r]) - OwesOf(s[r]))
              /\ \A p \in Providers : ledger'[k].providerTokens[p]
                    = ledger[k].providerTokens[p] + (PaysOf(s'[r], p) - PaysOf(s[r], p))
              /\ ledger'[k].truncatedRequests = ledger[k].truncatedRequests + (CutOf(s'[r]) - CutOf(s[r]))
    BY <1>1, <1>2, <1>3
  <1> QED BY <1>4, LedgerKept

\* A step of r that bills its last attempt.
LEMMA AttemptBilled ==
    ASSUME HandlersInv, StoreInv, NEW r \in Requests, KeyOf[r] \in Keys,
           NEW p, NEW n \in Nat, NEW cut \in BOOLEAN,
           ledger' = [ledger EXCEPT ![KeyOf[r]] = RecordTerminal(@, p, n, cut)]
    PROVE  /\ ledger' \in [Keys -> EntryType]
           /\ LedgerInv /\ StoreInv' /\ Moves(r) /\ s[r].pc \notin {"release", "done"}
              /\ OwesOf(s'[r]) = n /\ ProviderOf(s'[r]) = p /\ CutOf(s'[r]) = (IF cut THEN 1 ELSE 0)
                 => LedgerInv'
  <1>1. PICK k \in Keys : k = KeyOf[r]
    OBVIOUS
  <1>2. PICK e \in EntryType : e = ledger[k]
    BY DEF StoreInv
  <1>3. PICK d \in EntryType :
           /\ d = RecordTerminal(e, p, n, cut)
           /\ d.tokensBilled = e.tokensBilled + n
           /\ d.truncatedRequests = e.truncatedRequests + (IF cut THEN 1 ELSE 0)
           /\ \A q \in Providers : d.providerTokens[q] = e.providerTokens[q] + (IF q = p THEN n ELSE 0)
    BY RecordFacts
  <1>4. ledger' = [ledger EXCEPT ![k] = d]
    BY <1>1, <1>2, <1>3 DEF StoreInv
  <1>5. ledger' \in [Keys -> EntryType] /\ ledger'[k] = d /\ \A j \in Keys : j # k => ledger'[j] = ledger[j]
    BY <1>4 DEF StoreInv
  <1>6. ASSUME LedgerInv, StoreInv', Moves(r), s[r].pc \notin {"release", "done"},
               OwesOf(s'[r]) = n, ProviderOf(s'[r]) = p, CutOf(s'[r]) = IF cut THEN 1 ELSE 0
        PROVE  LedgerInv'
    <2>1. OwesOf(s[r]) = 0 /\ CutOf(s[r]) = 0 /\ \A q : PaysOf(s[r], q) = 0
      BY <1>6, OwesNothing
    <2>2. \A q : PaysOf(s'[r], q) = IF q = p THEN n ELSE 0
      BY <1>6 DEF PaysOf
    <2>3. ledger'[k].tokensBilled = ledger[k].tokensBilled + (OwesOf(s'[r]) - OwesOf(s[r]))
      BY <1>2, <1>3, <1>5, <1>6, <2>1
    <2>4. ledger'[k].truncatedRequests = ledger[k].truncatedRequests + (CutOf(s'[r]) - CutOf(s[r]))
      BY <1>2, <1>3, <1>5, <1>6, <2>1
    <2>5. \A q \in Providers : ledger'[k].providerTokens[q]
             = ledger[k].providerTokens[q] + (PaysOf(s'[r], q) - PaysOf(s[r], q))
      BY <1>2, <1>3, <1>5, <2>1, <2>2
    <2>6. \A j \in Keys : KeyOf[r] # j => ledger'[j] = ledger[j]
      BY <1>1, <1>5
    <2> QED BY <1>1, <1>6, <2>3, <2>4, <2>5, <2>6, LedgerKept
  <1> QED BY <1>5, <1>6

\* A reservation and the limiter's count.
LEMMA ReserveFacts ==
    ASSUME StoreInv, NEW k \in Keys, NEW n \in Nat, Reserve(k, n), Charge(k, n)
    PROVE  /\ used' \in [Keys -> Nat] /\ window' \in [Keys -> 0 .. RateMax]
           /\ used'[k] = used[k] + n /\ \A j \in Keys : j # k => used'[j] = used[j]
  <1>1. used' \in [Keys -> Nat] /\ used'[k] = used[k] + n /\ \A j \in Keys : j # k => used'[j] = used[j]
    BY DEF StoreInv, Reserve
  <1>2. RateMax \in Nat
    BY StreamAssumption
  <1>3. PICK w \in 0 .. RateMax : w = IF window[k] + n > RateMax THEN RateMax ELSE window[k] + n
    <2>1. window[k] \in 0 .. RateMax BY DEF StoreInv
    <2>2. (IF window[k] + n > RateMax THEN RateMax ELSE window[k] + n) \in 0 .. RateMax BY <1>2, <2>1
    <2> QED BY <2>2
  <1>4. window' = [window EXCEPT ![k] = w]
    BY <1>3 DEF Charge
  <1>5. window' \in [Keys -> 0 .. RateMax]
    BY <1>4 DEF StoreInv
  <1> QED BY <1>1, <1>5

\* A step of r that moves no tokens.
LEMMA NothingMoved ==
    ASSUME HandlersInv, StoreInv, LedgerInv, AccountInv, NEW r \in Requests, Moves(r),
           UNCHANGED <<used, window, ledger, draining, resets, lost>>,
           OwesOf(s'[r]) = OwesOf(s[r]), CutOf(s'[r]) = CutOf(s[r]), HoldsOf(s'[r]) = HoldsOf(s[r]),
           \A p : PaysOf(s'[r], p) = PaysOf(s[r], p)
    PROVE  StoreInv' /\ LedgerInv' /\ AccountInv'
  <1>1. StoreInv'
    BY DEF StoreInv
  <1>2. LedgerInv'
    BY <1>1, NothingBilled
  <1>3. /\ OwesOf(s[r]) \in Nat /\ HoldsOf(s[r]) \in Nat /\ lost[r] \in Nat
        /\ \A k \in Keys : used[k] \in Nat
    BY HandlerFacts, ValueTypes DEF StoreInv
  <1>4. 0 = (OwesOf(s'[r]) - OwesOf(s[r])) + (HoldsOf(s'[r]) - HoldsOf(s[r])) + (lost'[r] - lost[r])
    BY <1>3
  <1>5. \A k \in Keys : used'[k] = used[k] + 0
    BY <1>3
  <1>6. AccountInv'
    BY <1>1, <1>4, <1>5, AccountKept
  <1> QED BY <1>1, <1>2, <1>6

\* A handler on its way out that has written no gateway_truncated: only its last outcome
\* decides what it owes.
LEMMA UntruncatedOwes ==
    ASSUME NEW A, NEW L, NEW h, Local(h, A, L), h.pc \notin {"release", "done"},
           NEW g, g.wire = h.wire, g.pc = "release"
    PROVE  /\ OutcomeOf(g) \in FailureReasons \cup {"client_cancelled"}
                 => OwesOf(g) = 0 /\ CutOf(g) = 0 /\ \A p : PaysOf(g, p) = 0
           /\ OutcomeOf(g) = "success" => OwesOf(g) = g.tokens /\ CutOf(g) = 0
           /\ OutcomeOf(g) = "shutdown" => OwesOf(g) = g.tokens /\ CutOf(g) = 1
           /\ HoldsOf(g) = 0
  <1>1. ~IsTruncated(g)
    BY DEF Local, Untruncated, IsTruncated, Last
  <1>2. IsOver(g) /\ HoldsOf(g) = 0
    BY DEF IsOver, HoldsOf
  <1>3. OutcomeOf(g) \in FailureReasons \cup {"client_cancelled"}
           => OutcomeOf(g) # "success" /\ OutcomeOf(g) # "shutdown"
    BY DEF FailureReasons
  <1>4. "success" # "shutdown"
    OBVIOUS
  <1> QED BY <1>1, <1>2, <1>3, <1>4 DEF OwesOf, CutOf, PaysOf

\* Admission, the loop, the look-ahead and the ends of attempts that bill nothing and
\* hold on to what they counted move no tokens.
LEMMA QuietBooks ==
    ASSUME HandlersInv, StoreInv, LedgerInv, AccountInv, NEW r \in Requests, Moves(r),
           UNCHANGED <<used, window, ledger, draining, resets, lost>>,
           s[r].pc \notin {"release", "done"}, s'[r].pc \notin {"release", "done"},
           HoldsOf(s'[r]) = HoldsOf(s[r])
    PROVE  StoreInv' /\ LedgerInv' /\ AccountInv'
  <1>1. /\ OwesOf(s[r]) = 0 /\ CutOf(s[r]) = 0 /\ \A p : PaysOf(s[r], p) = 0
        /\ OwesOf(s'[r]) = 0 /\ CutOf(s'[r]) = 0 /\ \A p : PaysOf(s'[r], p) = 0
    BY OwesNothing
  <1>2. OwesOf(s'[r]) = OwesOf(s[r]) /\ CutOf(s'[r]) = CutOf(s[r])
        /\ \A p : PaysOf(s'[r], p) = PaysOf(s[r], p)
    BY <1>1, Zenon
  <1> QED BY <1>2, NothingMoved

\* The steps that only move a handler on.
LEMMA PassBooks ==
    ASSUME HandlersInv, StoreInv, LedgerInv, AccountInv, NEW r \in Requests,
           \/ Arrive(r) \/ CheckBudget(r) \/ Admit(r) \/ UseClaim(r) \/ AskBreaker(r) \/ ListEnds(r)
           \/ Scan(r) \/ ClaimNext(r) \/ ScanEnds(r) \/ Release(r)
    PROVE  StoreInv' /\ LedgerInv' /\ AccountInv'
  <1>1. UNCHANGED <<used, window, ledger, draining, resets, lost>>
    BY DEF Arrive, CheckBudget, Admit, UseClaim, AskBreaker, ListEnds, Scan, ClaimNext, ScanEnds,
           Release, shared, account, env
  <1>2. CASE Arrive(r) \/ CheckBudget(r) \/ Admit(r)
    <2>1. /\ Moves(r) /\ s[r].pc \in {"idle", "budget", "limit"}
          /\ s'[r].pc \in {"budget", "limit", "rejected", "loop"}
      BY <1>2, AdmissionMoves
    <2>2. HoldsOf(s'[r]) = HoldsOf(s[r])
      BY <2>1 DEF HoldsOf
    <2> QED BY <1>1, <2>1, <2>2, QuietBooks
  <1>3. CASE UseClaim(r) \/ AskBreaker(r)
    <2>1. /\ Moves(r) /\ s[r].pc = "loop"
          /\ \/ s'[r].pc = "loop"
             \/ s'[r].pc = "attempt" /\ s'[r].tokens = 0
      BY <1>3, LoopMoves DEF Begins
    <2>2. HoldsOf(s'[r]) = HoldsOf(s[r])
      BY <2>1 DEF HoldsOf
    <2> QED BY <1>1, <2>1, <2>2, QuietBooks
  <1>4. CASE ClaimNext(r)
    <2>1. /\ Moves(r) /\ s[r].pc = "claim" /\ s'[r].pc \in {"scan", "failover"}
          /\ s'[r].tokens = s[r].tokens
      BY <1>4, ClaimMoves
    <2>2. HoldsOf(s'[r]) = HoldsOf(s[r])
      BY <2>1 DEF HoldsOf
    <2> QED BY <1>1, <2>1, <2>2, QuietBooks
  <1>5. CASE ListEnds(r) \/ Scan(r) \/ ScanEnds(r) \/ Release(r)
    <2>1. /\ Moves(r) /\ s'[r].tokens = s[r].tokens /\ s'[r].attempts = s[r].attempts
          /\ s'[r].wire = s[r].wire
          /\ \/ s[r].pc = "loop" /\ s'[r].pc = "truncate" /\ s[r].attempts = <<>>
             \/ s[r].pc = "loop" /\ s'[r].pc = "release" /\ s[r].attempts # <<>>
             \/ s[r].pc = "scan" /\ s'[r].pc \in {"scan", "claim", "failover", "truncate"}
             \/ s[r].pc = "release" /\ s'[r].pc = "done"
      BY <1>5, PassMoves DEF Still
    <2>2. CASE s[r].pc = "loop" /\ s'[r].pc = "truncate" /\ s[r].attempts = <<>>
      <3>1. s[r].tokens = 0
        BY <2>2, HandlerFacts DEF Local, Counted
      <3>2. HoldsOf(s'[r]) = HoldsOf(s[r])
        BY <2>1, <2>2, <3>1 DEF HoldsOf
      <3> QED BY <1>1, <2>1, <2>2, <3>2, QuietBooks
    <2>3. CASE s[r].pc = "loop" /\ s'[r].pc = "release" /\ s[r].attempts # <<>>
      <3>1. Local(s[r], Allowlist[KeyOf[r]], List(r))
        BY HandlerFacts
      <3>2. OutcomeOf(s'[r]) \in FailureReasons
        BY <2>1, <2>3, <3>1 DEF Local, Judged, OutcomeOf, Last
      <3>3. OwesOf(s'[r]) = 0 /\ CutOf(s'[r]) = 0 /\ HoldsOf(s'[r]) = 0 /\ \A p : PaysOf(s'[r], p) = 0
        BY <2>1, <2>3, <3>1, <3>2, UntruncatedOwes
      <3>4. OwesOf(s[r]) = 0 /\ CutOf(s[r]) = 0 /\ \A p : PaysOf(s[r], p) = 0
        BY <2>3, OwesNothing
      <3>5. HoldsOf(s[r]) = 0
        BY <2>3 DEF HoldsOf
      <3>6. /\ OwesOf(s'[r]) = OwesOf(s[r]) /\ CutOf(s'[r]) = CutOf(s[r]) /\ HoldsOf(s'[r]) = HoldsOf(s[r])
            /\ \A p : PaysOf(s'[r], p) = PaysOf(s[r], p)
        BY <3>3, <3>4, <3>5, Zenon
      <3> QED BY <1>1, <2>1, <3>6, NothingMoved
    <2>4. CASE s[r].pc = "scan" /\ s'[r].pc \in {"scan", "claim", "failover", "truncate"}
      <3>1. HoldsOf(s'[r]) = HoldsOf(s[r])
        BY <2>1, <2>4 DEF HoldsOf
      <3> QED BY <1>1, <2>1, <2>4, <3>1, QuietBooks
    <2>5. CASE s[r].pc = "release" /\ s'[r].pc = "done"
      <3>1. /\ OwesOf(s'[r]) = OwesOf(s[r]) /\ CutOf(s'[r]) = CutOf(s[r])
            /\ \A p : PaysOf(s'[r], p) = PaysOf(s[r], p)
        BY <2>1, <2>5 DEF OwesOf, CutOf, PaysOf, IsOver, IsTruncated, OutcomeOf, ProviderOf
      <3>2. HoldsOf(s'[r]) = HoldsOf(s[r])
        BY <2>5 DEF HoldsOf
      <3> QED BY <1>1, <2>1, <3>1, <3>2, NothingMoved
    <2> QED BY <2>1, <2>2, <2>3, <2>4, <2>5
  <1> QED BY SMTT(40), <1>2, <1>3, <1>4, <1>5

\* A step of r that bills nothing: the account moves by what r holds or left behind.
LEMMA UnbilledBooks ==
    ASSUME HandlersInv, StoreInv, StoreInv', LedgerInv, AccountInv, NEW r \in Requests, Moves(r),
           UNCHANGED <<ledger, resets>>, s[r].pc \notin {"release", "done"},
           OwesOf(s'[r]) = 0, CutOf(s'[r]) = 0, \A p : PaysOf(s'[r], p) = 0,
           \A q \in Requests \ {r} : lost'[q] = lost[q],
           \A k \in Keys : KeyOf[r] # k => used'[k] = used[k],
           NEW n \in Int, n = (HoldsOf(s'[r]) - HoldsOf(s[r])) + (lost'[r] - lost[r]),
           \A k \in Keys : KeyOf[r] = k => \/ used'[k] = used[k] + n
                                           \/ n = 0 - HoldsOf(s[r]) /\ used'[k] = Reduced(used[k], HoldsOf(s[r]))
    PROVE  LedgerInv' /\ AccountInv'
  <1>1. OwesOf(s[r]) = 0 /\ CutOf(s[r]) = 0 /\ \A p : PaysOf(s[r], p) = 0
    BY OwesNothing
  <1>2. /\ OwesOf(s'[r]) = OwesOf(s[r]) /\ CutOf(s'[r]) = CutOf(s[r])
        /\ \A p : PaysOf(s'[r], p) = PaysOf(s[r], p)
    BY <1>1, Zenon
  <1>3. LedgerInv'
    BY <1>2, NothingBilled
  <1>4. /\ HoldsOf(s[r]) \in Nat /\ HoldsOf(s'[r]) \in Nat /\ lost[r] \in Nat /\ lost'[r] \in Nat
    <2>1. s[r] \in HandlerType /\ s'[r] \in HandlerType
      BY HandlerFacts DEF Moves
    <2> QED BY <2>1, ValueTypes DEF StoreInv
  <1>5. n = (OwesOf(s'[r]) - OwesOf(s[r])) + (HoldsOf(s'[r]) - HoldsOf(s[r])) + (lost'[r] - lost[r])
    BY <1>1, <1>4
  <1>6. AccountInv'
    BY <1>5, AccountKept
  <1> QED BY <1>3, <1>6

\* Content and usage that are counted are reserved; a usage frame that lowers the count
\* leaves the difference behind.
LEMMA FrameBooks ==
    ASSUME HandlersInv, StoreInv, LedgerInv, AccountInv, NEW r \in Requests, NEW n \in Nat,
           Forward(r, n) \/ Usage(r, n)
    PROVE  StoreInv' /\ LedgerInv' /\ AccountInv'
  <1>1. PICK k \in Keys : k = KeyOf[r]
    BY HandlerFacts DEF Forward, Usage
  <1>2. /\ Moves(r) /\ s[r].pc = "attempt" /\ s'[r].pc = "attempt"
        /\ Forward(r, n) => s'[r].tokens = s[r].tokens + n
        /\ Usage(r, n) => s'[r].tokens = n
    BY FrameMoves
  <1>3. OwesOf(s'[r]) = 0 /\ CutOf(s'[r]) = 0 /\ \A p : PaysOf(s'[r], p) = 0
    BY <1>2, OwesNothing
  <1>4. HoldsOf(s[r]) = s[r].tokens /\ HoldsOf(s'[r]) = s'[r].tokens
    BY <1>2 DEF HoldsOf
  <1>5. UNCHANGED <<ledger, draining, resets>>
    BY DEF Forward, Usage, env
  <1>6. s[r].tokens \in Nat /\ lost[r] \in Nat
    BY HandlerFacts DEF HandlerType, StoreInv
  <1>7. ASSUME NEW m \in Nat, Reserve(k, m), Charge(k, m), UNCHANGED lost, s'[r].tokens = s[r].tokens + m
        PROVE  StoreInv' /\ LedgerInv' /\ AccountInv'
    <2>1. /\ used' \in [Keys -> Nat] /\ window' \in [Keys -> 0 .. RateMax]
          /\ used'[k] = used[k] + m /\ \A j \in Keys : j # k => used'[j] = used[j]
      BY <1>7, ReserveFacts
    <2>2. StoreInv'
      BY <1>5, <1>7, <2>1 DEF StoreInv
    <2>3. m = (HoldsOf(s'[r]) - HoldsOf(s[r])) + (lost'[r] - lost[r])
      BY <1>4, <1>6, <1>7
    <2>4. /\ \A q \in Requests \ {r} : lost'[q] = lost[q]
          /\ \A j \in Keys : KeyOf[r] # j => used'[j] = used[j]
          /\ \A j \in Keys : KeyOf[r] = j => used'[j] = used[j] + m
          /\ UNCHANGED <<ledger, resets>> /\ s[r].pc \notin {"release", "done"} /\ m \in Int
      BY <1>1, <1>2, <1>5, <1>7, <2>1
    <2> QED BY <1>2, <1>3, <2>2, <2>3, <2>4, UnbilledBooks
  <1>8. CASE Forward(r, n)
    BY <1>1, <1>2, <1>7, <1>8 DEF Forward
  <1>9. CASE Usage(r, n) /\ n - s[r].tokens > 0 /\ Reserve(k, n - s[r].tokens)
             /\ Charge(k, n - s[r].tokens) /\ UNCHANGED lost
    <2>1. PICK m \in Nat : m = n - s[r].tokens
      BY <1>6, <1>9
    <2>2. s'[r].tokens = s[r].tokens + m
      BY <1>2, <1>6, <1>9, <2>1
    <2> QED BY <1>7, <1>9, <2>1, <2>2
  <1>10. CASE Usage(r, n) /\ n - s[r].tokens < 0 /\ UNCHANGED <<used, window>>
              /\ lost' = [lost EXCEPT ![r] = @ - (n - s[r].tokens)]
    <2>1. PICK m \in Nat : m = s[r].tokens - n
      BY <1>6, <1>10
    <2>2. lost' \in [Requests -> Nat] /\ lost'[r] = lost[r] + m /\ \A q \in Requests \ {r} : lost'[q] = lost[q]
      <3>1. lost[r] - (n - s[r].tokens) = lost[r] + m /\ lost[r] + m \in Nat
        BY <1>6, <2>1
      <3>2. lost' = [lost EXCEPT ![r] = lost[r] + m]
        BY <1>10, <3>1
      <3> QED BY <3>1, <3>2 DEF StoreInv
    <2>3. StoreInv'
      BY <1>5, <1>10, <2>2 DEF StoreInv
    <2>4. 0 = (HoldsOf(s'[r]) - HoldsOf(s[r])) + (lost'[r] - lost[r])
      BY <1>2, <1>4, <1>6, <1>10, <2>1, <2>2
    <2>5. /\ \A j \in Keys : KeyOf[r] # j => used'[j] = used[j]
          /\ \A j \in Keys : KeyOf[r] = j => used'[j] = used[j] + 0
          /\ UNCHANGED <<ledger, resets>> /\ s[r].pc \notin {"release", "done"} /\ 0 \in Int
      BY <1>2, <1>5, <1>10 DEF StoreInv
    <2> QED BY <1>2, <1>3, <2>2, <2>3, <2>4, <2>5, UnbilledBooks
  <1> QED BY <1>1, <1>8, <1>9, <1>10 DEF Usage, account

\* Attempts that fail or exceed the budget hold their tokens until the failover or the
\* truncation; those of a frame that could not be written are left behind.
LEMMA FailureBooks ==
    ASSUME HandlersInv, StoreInv, LedgerInv, AccountInv, NEW r \in Requests,
           \/ OverBudget(r)
           \/ \E why \in Failures : Break(r, why)
           \/ \E n \in Counts : WriteError(r, n)
    PROVE  StoreInv' /\ LedgerInv' /\ AccountInv'
  <1>1. \E o, pc : Moves(r) /\ Ends(r, o, pc) /\ pc \in {"truncate", "scan"}
    <2>1. CASE OverBudget(r)
      BY <2>1, OutcomeMoves
    <2>2. CASE \E why \in Failures : Break(r, why)
      <3>1. PICK why \in FailureReasons : s[r].pc = "attempt" /\ Failed(r, why)
        BY <2>2, StreamAssumption DEF Break
      <3> QED BY <3>1, OutcomeMoves
    <2>3. CASE \E n \in Counts : WriteError(r, n)
      <3>1. s[r].pc = "attempt" /\ Failed(r, "dead_socket") /\ "dead_socket" \in FailureReasons
        BY <2>3 DEF WriteError, FailureReasons
      <3> QED BY <3>1, OutcomeMoves
    <2> QED BY <2>1, <2>2, <2>3
  <1>2. /\ Moves(r) /\ s[r].pc = "attempt" /\ s'[r].pc \in {"truncate", "scan"}
        /\ s'[r].tokens = s[r].tokens
    BY <1>1 DEF Ends
  <1>3. HoldsOf(s'[r]) = HoldsOf(s[r])
    BY <1>2 DEF HoldsOf
  <1>4. CASE OverBudget(r) \/ \E why \in Failures : Break(r, why)
    <2>1. UNCHANGED <<used, window, ledger, draining, resets, lost>>
      BY <1>4 DEF OverBudget, Break, account, env
    <2> QED BY <1>2, <1>3, <2>1, QuietBooks
  <1>5. ASSUME NEW n \in Counts, WriteError(r, n)
        PROVE  StoreInv' /\ LedgerInv' /\ AccountInv'
    <2>1. n \in Nat /\ n \in Int
      BY StreamAssumption
    <2>2. PICK k \in Keys : k = KeyOf[r]
      BY <1>2, HandlerFacts
    <2>3. /\ used' \in [Keys -> Nat] /\ window' \in [Keys -> 0 .. RateMax]
          /\ used'[k] = used[k] + n /\ \A j \in Keys : j # k => used'[j] = used[j]
      BY <1>5, <2>1, <2>2, ReserveFacts DEF WriteError
    <2>4. lost' = [lost EXCEPT ![r] = @ + n] /\ UNCHANGED <<ledger, draining, resets>>
      BY <1>5 DEF WriteError, env
    <2>5. /\ lost' \in [Requests -> Nat] /\ lost[r] \in Nat /\ lost'[r] = lost[r] + n
          /\ \A q \in Requests \ {r} : lost'[q] = lost[q]
      BY <2>1, <2>4 DEF StoreInv
    <2>6. StoreInv'
      BY <2>3, <2>4, <2>5 DEF StoreInv
    <2>7. HoldsOf(s[r]) \in Nat
      BY HandlerFacts, ValueTypes
    <2>8. n = (HoldsOf(s'[r]) - HoldsOf(s[r])) + (lost'[r] - lost[r])
      BY <1>3, <2>1, <2>5, <2>7
    <2>9. /\ OwesOf(s'[r]) = 0 /\ CutOf(s'[r]) = 0 /\ \A p : PaysOf(s'[r], p) = 0
      BY <1>2, OwesNothing
    <2>10. /\ \A j \in Keys : KeyOf[r] # j => used'[j] = used[j]
           /\ \A j \in Keys : KeyOf[r] = j => used'[j] = used[j] + n
           /\ UNCHANGED <<ledger, resets>> /\ s[r].pc \notin {"release", "done"}
      BY <1>2, <2>2, <2>3, <2>4
    <2> QED BY <1>2, <2>1, <2>5, <2>6, <2>8, <2>9, <2>10, UnbilledBooks
  <1> QED BY <1>4, <1>5

\* The last attempt is billed: what the handler held is now in the ledger.
LEMMA BilledBooks ==
    ASSUME HandlersInv, StoreInv, LedgerInv, AccountInv, NEW r \in Requests, Moves(r),
           s[r].pc \in {"attempt", "truncate"}, s'[r].pc = "release", NEW p, NEW cut \in BOOLEAN,
           ledger' = [ledger EXCEPT ![KeyOf[r]] = RecordTerminal(@, p, FinalTokens(r), cut)],
           UNCHANGED <<used, window, draining, resets, lost>>,
           OwesOf(s'[r]) = s[r].tokens, ProviderOf(s'[r]) = p, CutOf(s'[r]) = IF cut THEN 1 ELSE 0
    PROVE  StoreInv' /\ LedgerInv' /\ AccountInv'
  <1>1. PICK n \in Nat : n = s[r].tokens /\ n = FinalTokens(r)
    BY HandlerFacts DEF HandlerType, FinalTokens
  <1>2. KeyOf[r] \in Keys
    BY HandlerFacts
  <1>3. ledger' = [ledger EXCEPT ![KeyOf[r]] = RecordTerminal(@, p, n, cut)]
    BY <1>1
  <1>4. ledger' \in [Keys -> EntryType]
    <2>1. PICK k \in Keys : k = KeyOf[r]
      BY <1>2
    <2>2. PICK e \in EntryType : e = ledger[k]
      BY DEF StoreInv
    <2>3. PICK d \in EntryType : d = RecordTerminal(e, p, n, cut)
      BY RecordFacts
    <2>4. ledger' = [ledger EXCEPT ![k] = d]
      BY <1>3, <2>1, <2>2, <2>3 DEF StoreInv
    <2> QED BY <2>4 DEF StoreInv
  <1>5. StoreInv'
    BY <1>4 DEF StoreInv
  <1>6. s[r].pc \notin {"release", "done"} /\ OwesOf(s'[r]) = n
    BY <1>1
  <1>7. LedgerInv'
    BY <1>2, <1>3, <1>5, <1>6, AttemptBilled
  <1>8. HoldsOf(s[r]) = n /\ HoldsOf(s'[r]) = 0
    BY <1>1 DEF HoldsOf
  <1>9. OwesOf(s[r]) = 0
    BY <1>6, OwesNothing
  <1>10. lost[r] \in Nat /\ \A k \in Keys : used[k] \in Nat
    BY DEF StoreInv
  <1>11. 0 = (OwesOf(s'[r]) - OwesOf(s[r])) + (HoldsOf(s'[r]) - HoldsOf(s[r])) + (lost'[r] - lost[r])
    BY <1>6, <1>8, <1>9, <1>10
  <1>12. /\ \A q \in Requests \ {r} : lost'[q] = lost[q]
         /\ \A k \in Keys : used'[k] = used[k] /\ used'[k] = used[k] + 0
         /\ UNCHANGED resets /\ 0 \in Int
    BY <1>10
  <1>13. AccountInv'
    BY <1>5, <1>11, <1>12, AccountKept
  <1> QED BY <1>5, <1>7, <1>13

\* A stream that succeeds, one a forced shutdown cuts and one that is truncated are
\* billed to the provider of the last attempt.
LEMMA TerminalBooks ==
    ASSUME HandlersInv, StoreInv, LedgerInv, AccountInv, NEW r \in Requests,
           Finish(r) \/ (Cancelled(r) /\ s[r].ctx = "forced") \/ Truncate(r)
    PROVE  StoreInv' /\ LedgerInv' /\ AccountInv'
  <1>1. Local(s[r], Allowlist[KeyOf[r]], List(r))
    BY HandlerFacts
  <1>2. ASSUME NEW o \in {"success", "shutdown"}, NEW cut \in BOOLEAN, cut <=> o = "shutdown",
               Moves(r), Ends(r, o, "release"),
               ledger' = [ledger EXCEPT ![KeyOf[r]] = RecordTerminal(@, Cur(r), FinalTokens(r), cut)],
               UNCHANGED <<used, window, draining, resets, lost>>
        PROVE  StoreInv' /\ LedgerInv' /\ AccountInv'
    <2>1. /\ s[r].pc = "attempt" /\ s'[r].pc = "release" /\ s'[r].tokens = s[r].tokens
          /\ s'[r].wire = s[r].wire
      BY <1>2 DEF Ends
    <2>2. OutcomeOf(s'[r]) = o /\ ProviderOf(s'[r]) = Cur(r)
      BY <1>2 DEF Ends, OutcomeOf, ProviderOf
    <2>3. OwesOf(s'[r]) = s[r].tokens /\ CutOf(s'[r]) = IF cut THEN 1 ELSE 0
      BY <1>1, <1>2, <2>1, <2>2, UntruncatedOwes
    <2> QED BY <1>2, <2>1, <2>2, <2>3, BilledBooks
  <1>3. CASE Finish(r)
    <2>1. Moves(r) /\ Ends(r, "success", "release")
      BY <1>3, OutcomeMoves
    <2>2. /\ ledger' = [ledger EXCEPT ![KeyOf[r]] = RecordTerminal(@, Cur(r), FinalTokens(r), FALSE)]
          /\ UNCHANGED <<used, window, draining, resets, lost>>
      BY <1>3 DEF Finish, account, env
    <2> QED BY <1>2, <2>1, <2>2
  <1>4. CASE Cancelled(r) /\ s[r].ctx = "forced"
    <2>1. Moves(r) /\ Ends(r, "shutdown", "release")
      BY <1>4, OutcomeMoves
    <2>2. /\ ledger' = [ledger EXCEPT ![KeyOf[r]] = RecordTerminal(@, Cur(r), FinalTokens(r), TRUE)]
          /\ UNCHANGED <<used, window, draining, resets, lost>>
      BY <1>4 DEF Cancelled, account, env
    <2> QED BY <1>2, <2>1, <2>2
  <1>5. CASE Truncate(r)
    <2>1. /\ Moves(r) /\ s[r].pc = "truncate" /\ s'[r].pc = "release"
          /\ s'[r].attempts = s[r].attempts /\ s'[r].tokens = s[r].tokens
          /\ s'[r].wire # <<>> /\ Last(s'[r].wire).event = "truncated"
      BY <1>5, TruncateMoves
    <2>2. IsOver(s'[r]) /\ IsTruncated(s'[r])
      BY <2>1 DEF IsOver, IsTruncated
    <2>3. OwesOf(s'[r]) = s[r].tokens /\ CutOf(s'[r]) = 1
      BY <2>1, <2>2 DEF OwesOf, CutOf
    <2>4. ProviderOf(s'[r]) = FinalProvider(r)
      BY <2>1 DEF ProviderOf, FinalProvider
    <2>5. /\ ledger' = [ledger EXCEPT ![KeyOf[r]] = RecordTerminal(@, FinalProvider(r), FinalTokens(r), TRUE)]
          /\ UNCHANGED <<used, window, draining, resets, lost>>
      BY <1>5 DEF Truncate, account, env
    <2> QED BY <2>1, <2>3, <2>4, <2>5, BilledBooks
  <1> QED BY <1>3, <1>4, <1>5

\* The attempt of a client that left is not billed: its tokens are left behind.
LEMMA DepartureBooks ==
    ASSUME HandlersInv, StoreInv, LedgerInv, AccountInv, NEW r \in Requests,
           Cancelled(r), s[r].ctx = "client"
    PROVE  StoreInv' /\ LedgerInv' /\ AccountInv'
  <1>1. Moves(r) /\ Ends(r, "client_cancelled", "release")
    BY OutcomeMoves
  <1>2. /\ s[r].pc = "attempt" /\ s'[r].pc = "release" /\ s'[r].tokens = s[r].tokens
        /\ s'[r].wire = s[r].wire /\ OutcomeOf(s'[r]) = "client_cancelled"
    BY <1>1 DEF Ends, OutcomeOf
  <1>3. Local(s[r], Allowlist[KeyOf[r]], List(r))
    BY HandlerFacts
  <1>4. OwesOf(s'[r]) = 0 /\ CutOf(s'[r]) = 0 /\ HoldsOf(s'[r]) = 0 /\ \A p : PaysOf(s'[r], p) = 0
    BY <1>2, <1>3, UntruncatedOwes
  <1>5. PICK n \in Nat : n = s[r].tokens /\ HoldsOf(s[r]) = n
    BY <1>2, HandlerFacts DEF HandlerType, HoldsOf
  <1>6. lost' = [lost EXCEPT ![r] = @ + n] /\ UNCHANGED <<used, window, ledger, draining, resets>>
    BY <1>5 DEF Cancelled, account, env
  <1>7. /\ lost' \in [Requests -> Nat] /\ lost[r] \in Nat /\ lost'[r] = lost[r] + n
        /\ \A q \in Requests \ {r} : lost'[q] = lost[q] /\ \A k \in Keys : used[k] \in Nat
    BY <1>6 DEF StoreInv
  <1>8. StoreInv'
    BY <1>6, <1>7 DEF StoreInv
  <1>9. 0 = (HoldsOf(s'[r]) - HoldsOf(s[r])) + (lost'[r] - lost[r])
    BY <1>4, <1>5, <1>7
  <1>10. \A k \in Keys : used[k] \in Nat
    BY DEF StoreInv
  <1>11. /\ \A k \in Keys : used'[k] = used[k] /\ used'[k] = used[k] + 0
         /\ UNCHANGED <<ledger, resets>> /\ s[r].pc \notin {"release", "done"} /\ 0 \in Int
         /\ \A q \in Requests \ {r} : lost'[q] = lost[q]
    BY <1>2, <1>6, <1>7, <1>10
  <1> QED BY <1>1, <1>4, <1>8, <1>9, <1>11, UnbilledBooks

\* A failover gives back what the superseded attempt held.
LEMMA FailoverBooks ==
    ASSUME HandlersInv, StoreInv, LedgerInv, AccountInv, NEW r \in Requests, Failover(r)
    PROVE  StoreInv' /\ LedgerInv' /\ AccountInv'
  <1>1. Moves(r) /\ s[r].pc = "failover" /\ s'[r].pc = "loop"
    BY FailoverMoves
  <1>2. PICK k \in Keys : k = KeyOf[r]
    BY <1>1, HandlerFacts
  <1>3. PICK n \in Nat : n = FinalTokens(r) /\ HoldsOf(s[r]) = n
    BY <1>1, HandlerFacts DEF HandlerType, HoldsOf, FinalTokens
  <1>4. HoldsOf(s'[r]) = 0 /\ OwesOf(s'[r]) = 0 /\ CutOf(s'[r]) = 0 /\ \A p : PaysOf(s'[r], p) = 0
    <2>1. HoldsOf(s'[r]) = 0
      BY <1>1 DEF HoldsOf
    <2> QED BY <1>1, <2>1, OwesNothing
  <1>5. used' = [used EXCEPT ![k] = Reduced(used[k], n)] /\ UNCHANGED <<window, ledger, draining, resets, lost>>
    BY <1>2, <1>3 DEF Failover, env
  <1>6. Reduced(used[k], n) \in Nat
    BY DEF StoreInv, Reduced
  <1>7. /\ used' \in [Keys -> Nat] /\ used'[k] = Reduced(used[k], n)
        /\ \A j \in Keys : j # k => used'[j] = used[j]
    BY <1>5, <1>6 DEF StoreInv
  <1>8. StoreInv'
    BY <1>5, <1>7 DEF StoreInv
  <1>9. PICK m \in Int : m = 0 - n
    OBVIOUS
  <1>10. lost[r] \in Nat
    BY DEF StoreInv
  <1>11. m = (HoldsOf(s'[r]) - HoldsOf(s[r])) + (lost'[r] - lost[r])
    BY <1>3, <1>4, <1>5, <1>9, <1>10
  <1>12. /\ \A q \in Requests \ {r} : lost'[q] = lost[q]
         /\ \A j \in Keys : KeyOf[r] # j => used'[j] = used[j]
         /\ \A j \in Keys : KeyOf[r] = j => m = 0 - HoldsOf(s[r]) /\ used'[j] = Reduced(used[j], HoldsOf(s[r]))
         /\ UNCHANGED <<ledger, resets>> /\ s[r].pc \notin {"release", "done"}
    BY <1>1, <1>2, <1>3, <1>5, <1>7, <1>9
  <1> QED BY <1>1, <1>4, <1>8, <1>11, <1>12, UnbilledBooks

\* Every step of a handler keeps the books.
LEMMA HandlerBooks ==
    ASSUME HandlersInv, StoreInv, LedgerInv, AccountInv, NEW r \in Requests, Handler(r)
    PROVE  StoreInv' /\ LedgerInv' /\ AccountInv'
  <1>1. CASE \/ Arrive(r) \/ CheckBudget(r) \/ Admit(r) \/ UseClaim(r) \/ AskBreaker(r) \/ ListEnds(r)
             \/ Scan(r) \/ ClaimNext(r) \/ ScanEnds(r) \/ Release(r)
    BY <1>1, PassBooks
  <1>2. CASE AttemptStep(r)
    <2>1. CASE \E n \in Counts : Forward(r, n)
      BY <2>1, FrameBooks, StreamAssumption
    <2>2. CASE \E u \in Reports : Usage(r, u)
      BY <2>2, FrameBooks, StreamAssumption
    <2>3. CASE \/ OverBudget(r)
               \/ \E why \in Failures : Break(r, why)
               \/ \E n \in Counts : WriteError(r, n)
      BY <2>3, FailureBooks
    <2>4. CASE Finish(r)
      BY <2>4, TerminalBooks
    <2>5. CASE Cancelled(r)
      <3>1. s[r].ctx = "forced" \/ s[r].ctx = "client"
        BY <2>5 DEF Cancelled
      <3> QED BY <2>5, <3>1, TerminalBooks, DepartureBooks
    <2> QED BY <1>2, <2>1, <2>2, <2>3, <2>4, <2>5 DEF AttemptStep
  <1>3. CASE Failover(r)
    BY <1>3, FailoverBooks
  <1>4. CASE Truncate(r)
    BY <1>4, TerminalBooks
  <1> QED BY <1>1, <1>2, <1>3, <1>4 DEF Handler

\* The initial state.
LEMMA InitBooks == Init => StoreInv /\ LedgerInv /\ AccountInv
  <1> SUFFICES ASSUME Init PROVE StoreInv /\ LedgerInv /\ AccountInv
    OBVIOUS
  <1>1. PICK e \in EntryType : /\ e = NewEntry(Providers)
                               /\ e.tokensBilled = 0 /\ e.truncatedRequests = 0
                               /\ \A p \in Providers : e.providerTokens[p] = 0
    <2>1. NewEntry(Providers) \in EntryType
      BY DEF NewEntry, EntryType
    <2>2. /\ NewEntry(Providers).tokensBilled = 0 /\ NewEntry(Providers).truncatedRequests = 0
          /\ \A p \in Providers : NewEntry(Providers).providerTokens[p] = 0
      BY DEF NewEntry
    <2> QED BY <2>1, <2>2
  <1>2. ledger = [k \in Keys |-> e]
    BY <1>1 DEF Init
  <1>3. StoreInv
    <2>1. RateMax \in Nat /\ MaxResets \in Nat
      BY StreamAssumption
    <2>2. 0 \in 0 .. RateMax /\ 0 \in 0 .. MaxResets
      BY <2>1
    <2> QED BY <1>2, <2>2 DEF Init, StoreInv
  <1>4. \A r \in Requests : s[r].pc = "idle" /\ s[r].tokens = 0
    BY DEF Init, NewHandler
  <1>5. \A r \in Requests : /\ OwesMap[r] = 0 /\ CutMap[r] = 0 /\ HoldsMap[r] = 0 /\ lost[r] = 0
                            /\ \A p : PaysMap(p)[r] = 0
    <2>1. \A r \in Requests : /\ OwesOf(s[r]) = 0 /\ CutOf(s[r]) = 0 /\ HoldsOf(s[r]) = 0
                              /\ \A p : PaysOf(s[r], p) = 0
      BY <1>4 DEF OwesOf, CutOf, HoldsOf, PaysOf, IsOver
    <2> QED BY <2>1 DEF OwesMap, CutMap, HoldsMap, PaysMap, Init
  <1>6. \A k : IsFiniteSet(OfKey(k)) /\ OfKey(k) \subseteq Requests
    BY StreamAssumption, FS_Subset DEF OfKey
  <1>7. \A k : /\ SumFunctionOnSet(OwesMap, OfKey(k)) = 0 /\ SumFunctionOnSet(CutMap, OfKey(k)) = 0
               /\ SumFunctionOnSet(HoldsMap, OfKey(k)) = 0 /\ SumFunctionOnSet(lost, OfKey(k)) = 0
               /\ \A p : SumFunctionOnSet(PaysMap(p), OfKey(k)) = 0
    <2> SUFFICES ASSUME NEW k, NEW p
                 PROVE  /\ SumFunctionOnSet(OwesMap, OfKey(k)) = 0 /\ SumFunctionOnSet(CutMap, OfKey(k)) = 0
                        /\ SumFunctionOnSet(HoldsMap, OfKey(k)) = 0 /\ SumFunctionOnSet(lost, OfKey(k)) = 0
                        /\ SumFunctionOnSet(PaysMap(p), OfKey(k)) = 0
      BY Zenon
    <2>1. /\ IsFiniteSet(OfKey(k))
          /\ \A r \in OfKey(k) : OwesMap[r] = 0 /\ CutMap[r] = 0 /\ HoldsMap[r] = 0 /\ lost[r] = 0
                                 /\ PaysMap(p)[r] = 0
      BY <1>5, <1>6
    <2> QED BY <2>1, SumZero
  <1>8. LedgerInv
    BY <1>1, <1>2, <1>7 DEF LedgerInv
  <1>9. AccountInv
    <2>1. \A k \in Keys : used[k] = 0
      BY DEF Init
    <2>2. \A k : ChargedTo(k) = 0
      BY <1>7 DEF ChargedTo
    <2> QED BY <2>1, <2>2 DEF AccountInv
  <1> QED BY <1>3, <1>8, <1>9

\* What a key has been charged for is a natural number.
LEMMA ChargedType ==
    ASSUME HandlersInv, StoreInv, NEW k
    PROVE  ChargedTo(k) \in Nat
  <1>1. IsFiniteSet(OfKey(k)) /\ OfKey(k) \subseteq Requests
    BY StreamAssumption, FS_Subset DEF OfKey
  <1>2. \A r \in Requests : s[r] \in HandlerType
    BY DEF HandlersInv
  <1>3. \A r \in Requests : OwesMap[r] \in Nat /\ HoldsMap[r] \in Nat /\ lost[r] \in Nat
    BY <1>2, ValueTypes DEF OwesMap, HoldsMap, StoreInv
  <1>4. \A r \in OfKey(k) : OwesMap[r] \in Nat /\ HoldsMap[r] \in Nat /\ lost[r] \in Nat
    BY <1>1, <1>3
  <1>5. /\ SumFunctionOnSet(OwesMap, OfKey(k)) \in Nat /\ SumFunctionOnSet(HoldsMap, OfKey(k)) \in Nat
        /\ SumFunctionOnSet(lost, OfKey(k)) \in Nat
    BY <1>1, <1>4, SumNat
  <1> QED BY <1>5 DEF ChargedTo

\* Every step keeps the books.
LEMMA NextBooks ==
    HandlersInv /\ StoreInv /\ LedgerInv /\ AccountInv /\ [Next]_vars
        => StoreInv' /\ LedgerInv' /\ AccountInv'
  <1> SUFFICES ASSUME HandlersInv, StoreInv, LedgerInv, AccountInv, [Next]_vars
               PROVE  StoreInv' /\ LedgerInv' /\ AccountInv'
    OBVIOUS
  <1>1. CASE \E r \in Requests : Handler(r)
    BY <1>1, HandlerBooks
  <1>2. CASE \E r \in Requests : ClientLeaves(r) \/ ForceClose(r)
    <2>1. PICK r \in Requests : ClientLeaves(r) \/ ForceClose(r)
      BY <1>2
    <2>2. /\ Moves(r) /\ s'[r].pc = s[r].pc /\ s'[r].attempts = s[r].attempts
          /\ s'[r].wire = s[r].wire /\ s'[r].tokens = s[r].tokens
      BY <2>1, CancelMoves DEF Still
    <2>3. UNCHANGED <<used, window, ledger, draining, resets, lost>>
      BY <2>1 DEF ClientLeaves, ForceClose, shared, account, env
    <2>4. /\ OwesOf(s'[r]) = OwesOf(s[r]) /\ CutOf(s'[r]) = CutOf(s[r]) /\ HoldsOf(s'[r]) = HoldsOf(s[r])
          /\ \A p : PaysOf(s'[r], p) = PaysOf(s[r], p)
      BY <2>2 DEF OwesOf, CutOf, PaysOf, HoldsOf, IsOver, IsTruncated, OutcomeOf, ProviderOf
    <2> QED BY <2>2, <2>3, <2>4, NothingMoved
  <1>3. ASSUME UNCHANGED <<s, ledger, lost>> PROVE LedgerInv' /\ \A k : ChargedTo(k)' = ChargedTo(k)
    <2>1. OwesMap' = OwesMap /\ CutMap' = CutMap /\ HoldsMap' = HoldsMap /\ \A p : PaysMap(p)' = PaysMap(p)
      BY <1>3 DEF OwesMap, CutMap, HoldsMap, PaysMap
    <2>2. LedgerInv'
      BY <1>3, <2>1 DEF LedgerInv, OfKey
    <2> QED BY <1>3, <2>1, <2>2 DEF ChargedTo, OfKey
  <1>4. ASSUME UNCHANGED <<s, used, ledger, resets, lost>>, window' \in [Keys -> 0 .. RateMax],
               draining' \in BOOLEAN
        PROVE  StoreInv' /\ LedgerInv' /\ AccountInv'
    <2>1. StoreInv'
      BY <1>4 DEF StoreInv
    <2>2. LedgerInv' /\ \A k : ChargedTo(k)' = ChargedTo(k)
      BY <1>3, <1>4
    <2>3. AccountInv'
      BY <1>4, <2>2 DEF AccountInv
    <2> QED BY <2>1, <2>2, <2>3
  <1>5. CASE BeginShutdown \/ Tick \/ AllServed \/ UNCHANGED vars
    <2>1. UNCHANGED <<s, used, window, ledger, resets, lost>> /\ draining' \in BOOLEAN
      BY <1>5 DEF BeginShutdown, Tick, AllServed, vars, account, env, StoreInv
    <2> QED BY <1>4, <2>1 DEF StoreInv
  <1>6. CASE \E k \in Keys : Slide(k)
    <2>1. PICK k \in Keys : Slide(k)
      BY <1>6
    <2>2. PICK n \in 0 .. window[k] - 1 : window' = [window EXCEPT ![k] = n]
      BY <2>1 DEF Slide
    <2>3. n \in 0 .. RateMax
      <3>1. window[k] \in 0 .. RateMax /\ RateMax \in Nat
        BY StreamAssumption DEF StoreInv
      <3> QED BY <3>1
    <2>4. window' \in [Keys -> 0 .. RateMax]
      BY <2>2, <2>3 DEF StoreInv
    <2>5. UNCHANGED <<s, used, ledger, resets, lost>> /\ draining' \in BOOLEAN
      BY <2>1 DEF Slide, env, StoreInv
    <2> QED BY <1>4, <2>4, <2>5
  <1>7. CASE \E k \in Keys : ResetExpired(k)
    <2>1. PICK k \in Keys : ResetExpired(k)
      BY <1>7
    <2>2. /\ used' = [used EXCEPT ![k] = 0] /\ resets' = resets + 1 /\ resets < MaxResets
          /\ UNCHANGED <<s, window, ledger, draining, lost>>
      BY <2>1 DEF ResetExpired
    <2>3. resets' \in 0 .. MaxResets /\ resets' # 0
      BY <2>2, StreamAssumption DEF StoreInv
    <2>4. used' \in [Keys -> Nat] /\ used'[k] = 0 /\ \A j \in Keys : j # k => used'[j] = used[j]
      BY <2>2 DEF StoreInv
    <2>5. StoreInv'
      BY <2>2, <2>3, <2>4 DEF StoreInv
    <2>6. LedgerInv' /\ \A j : ChargedTo(j)' = ChargedTo(j)
      BY <1>3, <2>2
    <2>7. \A j \in Keys : used'[j] <= ChargedTo(j)
      <3> SUFFICES ASSUME NEW j \in Keys PROVE used'[j] <= ChargedTo(j)
        OBVIOUS
      <3>1. ChargedTo(j) \in Nat /\ used[j] <= ChargedTo(j)
        BY ChargedType DEF AccountInv
      <3> QED BY <2>4, <3>1
    <2>8. AccountInv'
      BY <2>3, <2>6, <2>7 DEF AccountInv
    <2> QED BY <2>5, <2>6, <2>8
  <1> QED BY <1>1, <1>2, <1>5, <1>6, <1>7 DEF Next, Environment

\* The invariants give the types of the model.
LEMMA TypesHold ==
    ASSUME HandlersInv, BreakersInv, StoreInv
    PROVE  TypeOK
  <1>1. ASSUME NEW r \in Requests
        PROVE  /\ s[r].pc \in PCs
               /\ s[r].pc \in {"attempt", "scan", "claim", "failover"} => s[r].i \in DOMAIN List(r)
               /\ s[r].pc \in {"claim", "failover"} => s[r].j \in s[r].i + 1 .. Len(List(r))
               /\ s[r].tokens \in Nat /\ s[r].total \in Nat /\ lost[r] \in Nat
               /\ s[r].claimed \subseteq Providers
               /\ s[r].ctx \in {"live", "client", "forced"}
               /\ s[r].attempts \in Seq([provider : Providers, outcome : Outcomes, tokens : Nat])
    <2>1. s[r] \in HandlerType /\ Indexed(s[r], List(r)) /\ List(r) \in Seq(Providers)
      BY HandlerFacts DEF Local
    <2>2. DOMAIN List(r) = 1 .. Len(List(r))
      BY <2>1
    <2>3. lost[r] \in Nat
      BY DEF StoreInv
    <2>4. /\ s[r].pc \in PCs /\ s[r].tokens \in Nat /\ s[r].total \in Nat
          /\ s[r].claimed \subseteq Providers /\ s[r].ctx \in {"live", "client", "forced"}
          /\ s[r].attempts \in Seq([provider : Providers, outcome : Outcomes, tokens : Nat])
      BY <2>1 DEF HandlerType, AttemptType
    <2> QED BY <2>1, <2>2, <2>3, <2>4 DEF Indexed
  <1>2. /\ brk \in [Providers -> CircuitType] /\ used \in [Keys -> Nat]
        /\ window \in [Keys -> 0 .. RateMax] /\ draining \in BOOLEAN /\ resets \in 0 .. MaxResets
    BY DEF BreakersInv, StoreInv
  <1> QED BY <1>1, <1>2, Zenon DEF TypeOK

\* What the ledger holds of a key is what module Stream says it bills.
LEMMA LedgerIsBill ==
    ASSUME HandlersInv, StoreInv, LedgerInv
    PROVE  LedgerBillsFinalAttempts
  <1>1. [r \in Requests |-> Owes(r)] = OwesMap
    BY DEF OwesMap, Owes, OwesOf, Recorded, Over, IsOver, Truncated, IsTruncated, LastOutcome, OutcomeOf
  <1>2. OwesMap \in [Requests -> Nat] /\ \A p : PaysMap(p) \in [Requests -> Nat]
    <2>1. \A r \in Requests : s[r] \in HandlerType
      BY DEF HandlersInv
    <2> QED BY <2>1, ValueTypes DEF OwesMap, PaysMap
  <1> SUFFICES ASSUME NEW k \in Keys
               PROVE  /\ ledger[k].tokensBilled = SumFunctionOnSet(OwesMap, OfKey(k))
                      /\ \A p \in Providers : ledger[k].providerTokens[p]
                            = SumFunctionOnSet(OwesMap, {r \in OfKey(k) : FinalProvider(r) = p})
                      /\ ledger[k].truncatedRequests
                            = Cardinality({r \in OfKey(k) : Over(r) /\ (Truncated(r) \/ LastOutcome(r) = "shutdown")})
    BY <1>1 DEF LedgerBillsFinalAttempts, SumOver
  <1>3. IsFiniteSet(OfKey(k)) /\ OfKey(k) \subseteq Requests
    BY StreamAssumption, FS_Subset DEF OfKey
  <1>4. ledger[k].tokensBilled = SumFunctionOnSet(OwesMap, OfKey(k))
    BY DEF LedgerInv
  <1>5. ASSUME NEW p \in Providers
        PROVE  ledger[k].providerTokens[p] = SumFunctionOnSet(OwesMap, {r \in OfKey(k) : FinalProvider(r) = p})
    <2>1. PICK T : T = {r \in OfKey(k) : FinalProvider(r) = p}
      OBVIOUS
    <2>2. \A r \in OfKey(k) : OwesMap[r] \in Int
      BY <1>2, <1>3
    <2>3. \A r \in OfKey(k) : PaysMap(p)[r] = IF r \in T THEN OwesMap[r] ELSE 0
      BY <1>3, <2>1 DEF PaysMap, OwesMap, PaysOf, FinalProvider, ProviderOf
    <2>4. SumFunctionOnSet(OwesMap, T) = SumFunctionOnSet(PaysMap(p), OfKey(k))
      <3>1. T \subseteq OfKey(k)
        BY <2>1
      <3> QED BY <1>3, <2>2, <2>3, <3>1, SumRestrict
    <2> QED BY <2>1, <2>4 DEF LedgerInv
  <1>6. ledger[k].truncatedRequests
           = Cardinality({r \in OfKey(k) : Over(r) /\ (Truncated(r) \/ LastOutcome(r) = "shutdown")})
    <2>1. PICK T : T = {r \in OfKey(k) : Over(r) /\ (Truncated(r) \/ LastOutcome(r) = "shutdown")}
      OBVIOUS
    <2>2. \A r \in OfKey(k) : CutMap[r] = IF r \in T THEN 1 ELSE 0
      BY <1>3, <2>1 DEF CutMap, CutOf, Over, IsOver, Truncated, IsTruncated, LastOutcome, OutcomeOf
    <2>3. Cardinality(T) = SumFunctionOnSet(CutMap, OfKey(k))
      <3>1. T \subseteq OfKey(k)
        BY <2>1
      <3> QED BY <1>3, <2>2, <3>1, SumCount
    <2> QED BY <2>1, <2>3 DEF LedgerInv
  <1> QED BY <1>4, <1>5, <1>6

\* The books always agree, for any number of requests, keys and providers, however the
\* handlers interleave: tokens_billed, the per-provider totals and the truncations of
\* the ledger are exactly those of the final attempts, and a key's TokensUsed is what is
\* billed, what running attempts hold and what departed clients left behind, or less
\* after a reset.
THEOREM BooksAlwaysAgree == Spec => []BooksAgree
  <1>1. HandlersInv /\ BreakersInv /\ StoreInv /\ LedgerInv /\ AccountInv => BooksAgree
    <2> SUFFICES ASSUME HandlersInv, BreakersInv, StoreInv, LedgerInv, AccountInv
                 PROVE  BooksAgree
      OBVIOUS
    <2>1. TypeOK
      BY TypesHold
    <2>2. LedgerBillsFinalAttempts
      BY LedgerIsBill
    <2>3. [r \in Requests |-> InFlight(r)] = HoldsMap
      BY DEF HoldsMap, InFlight, HoldsOf
    <2>4. AccountBalances
      BY <2>3 DEF AccountBalances, AccountInv, LedgerInv, ChargedTo, SumOver
    <2> QED BY <2>1, <2>2, <2>4 DEF BooksAgree
  <1>2. Init => BreakersInv /\ ProbesInv
    BY InitProbes
  <1> QED BY <1>1, <1>2, InitBooks, NextBooks, NextProbes, HandlersAlways, PTL DEF Spec

-----------------------------------------------------------------------------
\* What the client is shown.

ViewType == [block : Nat, above : Nat, notice : BOOLEAN]

\* The client's loop as a function: the screen after n events.
IsView(f, w, m) == f = [n \in 0 .. m |-> IF n = 0 THEN Blank ELSE Show(f[n - 1], w[n])]

\* One turn of the client's loop, by event.
LEMMA ShowFacts ==
    ASSUME NEW v \in ViewType, NEW e \in EventType, NEW u, u = Show(v, e)
    PROVE  /\ u \in ViewType
           /\ v.notice => u = v
           /\ ~v.notice /\ e.event \in {"status", "failover"} => u = v
           /\ ~v.notice /\ e.event = "content" =>
                 u.block = v.block + e.n /\ u.above = v.above /\ ~u.notice
           /\ ~v.notice /\ e.event = "regenerating" =>
                 u.block = 0 /\ u.above = v.above + v.block /\ ~u.notice
           /\ ~v.notice /\ e.event = "truncated" =>
                 u.block = v.block /\ u.above = v.above /\ u.notice
  <1>1. PICK n \in Nat, b \in Nat, a \in Nat :
           n = e.n /\ b = v.block + n /\ a = v.above + v.block
    BY DEF ViewType, EventType
  <1>2. /\ e.event \in {"status", "content", "failover", "regenerating", "truncated"}
        /\ v.notice \in BOOLEAN
    BY DEF ViewType, EventType
  <1>3. CASE v.notice
    BY <1>2, <1>3 DEF Show
  <1>4. CASE ~v.notice /\ e.event \in {"status", "failover"}
    BY <1>2, <1>4 DEF Show
  <1>5. CASE ~v.notice /\ e.event = "content"
    <2>1. u = [v EXCEPT !.block = b]
      BY <1>1, <1>2, <1>5 DEF Show, ViewType
    <2> QED BY <1>1, <1>5, <2>1 DEF ViewType
  <1>6. CASE ~v.notice /\ e.event = "regenerating"
    <2>1. u = [v EXCEPT !.above = a, !.block = 0]
      BY <1>1, <1>2, <1>6 DEF Show, ViewType
    <2>2. u = [block |-> 0, above |-> a, notice |-> v.notice]
      BY <2>1 DEF ViewType
    <2>3. u \in ViewType /\ u.block = 0 /\ u.above = a /\ ~u.notice
      BY <1>2, <1>6, <2>2 DEF ViewType
    <2> QED BY <1>1, <1>6, <2>3
  <1>7. CASE ~v.notice /\ e.event = "truncated"
    <2>1. u = [v EXCEPT !.notice = TRUE]
      BY <1>1, <1>2, <1>7 DEF Show, ViewType
    <2> QED BY <1>1, <1>7, <2>1 DEF ViewType
  <1> QED BY <1>2, <1>3, <1>4, <1>5, <1>6, <1>7

\* What it shows after the first l events of w.
ViewOf(w, l) == (CHOOSE f : IsView(f, w, l))[l]

\* The client's loop runs through any number of events.
LEMMA ViewExists ==
    ASSUME NEW w, NEW l \in Nat, \A x \in 1 .. l : w[x] \in EventType
    PROVE  \E f \in [0 .. l -> ViewType] : IsView(f, w, l)
  <1> DEFINE Bad == {n \in 0 .. l : ~ \E f \in [0 .. n -> ViewType] : IsView(f, w, n)}
  <1> SUFFICES ASSUME Bad # {} PROVE FALSE
    <2>1. l \in 0 .. l
      OBVIOUS
    <2> QED BY <2>1
  <1>1. PICK n \in Bad : \A k \in Bad : n <= k
    <2>1. Bad \subseteq Nat OBVIOUS
    <2> HIDE DEF Bad
    <2> QED BY <2>1, LeastNat, Zenon
  <1>2. CASE n = 0
    <2> DEFINE f == [x \in 0 .. 0 |-> Blank]
    <2>1. f \in [0 .. 0 -> ViewType] /\ IsView(f, w, 0)
      BY DEF IsView, ViewType, Blank
    <2> QED BY <1>1, <1>2, <2>1
  <1>3. CASE n # 0
    <2>1. n \in Nat /\ n - 1 \in 0 .. l /\ n - 1 \notin Bad /\ n \in 1 .. l
      BY <1>1, <1>3
    <2>2. PICK g \in [0 .. n - 1 -> ViewType] : IsView(g, w, n - 1)
      BY <2>1
    <2> DEFINE new == Show(g[n - 1], w[n])
               f == [x \in 0 .. n |-> IF x = n THEN new ELSE g[x]]
    <2>3. new \in ViewType
      <3>1. g[n - 1] \in ViewType /\ w[n] \in EventType
        BY <2>1
      <3> QED BY <3>1, ShowFacts
    <2> HIDE DEF new
    <2>4. f \in [0 .. n -> ViewType]
      BY <2>1, <2>3
    <2>5. ASSUME NEW x \in 0 .. n
          PROVE  f[x] = IF x = 0 THEN Blank ELSE Show(f[x - 1], w[x])
      <3>1. CASE x = n
        BY <2>1, <3>1 DEF new
      <3>2. CASE x # n
        <4>1. x \in 0 .. n - 1 /\ (x # 0 => x - 1 \in 0 .. n - 1 /\ x - 1 # n)
          BY <2>1, <3>2
        <4>2. g[x] = IF x = 0 THEN Blank ELSE Show(g[x - 1], w[x])
          BY <2>2, <4>1 DEF IsView
        <4>3. f[x] = g[x] /\ (x # 0 => f[x - 1] = g[x - 1])
          BY <2>1, <3>2, <4>1
        <4> HIDE DEF f
        <4> QED BY <4>2, <4>3
      <3> QED BY <3>1, <3>2
    <2>6. IsView(f, w, n)
      BY <2>5 DEF IsView
    <2> QED BY <1>1, <2>4, <2>6
  <1> QED BY <1>2, <1>3

\* What it shows after l events depends on those events only.
LEMMA ViewSame ==
    ASSUME NEW w, NEW l \in Nat, NEW f, IsView(f, w, l),
           NEW v, NEW m \in Nat, NEW g, IsView(g, v, m), l <= m,
           \A x \in 1 .. l : v[x] = w[x]
    PROVE  g[l] = f[l]
  <1> DEFINE Bad == {n \in 0 .. l : g[n] # f[n]}
  <1> SUFFICES ASSUME Bad # {} PROVE FALSE
    OBVIOUS
  <1>1. PICK n \in Bad : \A k \in Bad : n <= k
    <2>1. Bad \subseteq Nat OBVIOUS
    <2> HIDE DEF Bad
    <2> QED BY <2>1, LeastNat, Zenon
  <1>2. n \in 0 .. l /\ n \in 0 .. m /\ g[n] # f[n]
    BY <1>1
  <1>3. /\ f[n] = IF n = 0 THEN Blank ELSE Show(f[n - 1], w[n])
        /\ g[n] = IF n = 0 THEN Blank ELSE Show(g[n - 1], v[n])
    BY <1>2 DEF IsView
  <1>4. n # 0
    BY <1>2, <1>3
  <1>5. n - 1 \in 0 .. l /\ n - 1 \notin Bad /\ v[n] = w[n]
    BY <1>1, <1>2, <1>4
  <1> QED BY <1>2, <1>3, <1>4, <1>5

\* So any run of the loop gives it.
LEMMA ViewOfIs ==
    ASSUME NEW w, NEW l \in Nat, \A x \in 1 .. l : w[x] \in EventType
    PROVE  \E f \in [0 .. l -> ViewType] : IsView(f, w, l) /\ ViewOf(w, l) = f[l]
  <1>1. PICK f \in [0 .. l -> ViewType] : IsView(f, w, l)
    BY ViewExists
  <1>2. PICK g : IsView(g, w, l) /\ ViewOf(w, l) = g[l]
    BY <1>1 DEF ViewOf
  <1>3. g[l] = f[l]
    BY <1>1, <1>2, ViewSame
  <1> QED BY <1>1, <1>2, <1>3

\* Before the first event the screen is blank; one more event is shown on what was there.
LEMMA ViewOfNext ==
    ASSUME NEW w, NEW l \in Nat, \A x \in 1 .. l : w[x] \in EventType
    PROVE  /\ ViewOf(w, l) \in ViewType
           /\ l = 0 => ViewOf(w, l) = Blank
           /\ \A v : v[l + 1] \in EventType /\ (\A x \in 1 .. l : v[x] = w[x])
                     => ViewOf(v, l + 1) = Show(ViewOf(w, l), v[l + 1])
  <1>1. PICK f \in [0 .. l -> ViewType] : IsView(f, w, l) /\ ViewOf(w, l) = f[l]
    BY ViewOfIs
  <1>2. l = 0 => f[l] = Blank
    BY <1>1 DEF IsView
  <1>3. ASSUME NEW v, v[l + 1] \in EventType, \A x \in 1 .. l : v[x] = w[x]
        PROVE  ViewOf(v, l + 1) = Show(ViewOf(w, l), v[l + 1])
    <2>1. PICK m \in Nat : m = l + 1
      OBVIOUS
    <2>2. \A x \in 1 .. m : v[x] \in EventType
      <3>1. \A x \in 1 .. m : x \in 1 .. l \/ x = m
        BY <2>1
      <3> QED BY <1>3, <2>1, <3>1
    <2>3. PICK g \in [0 .. m -> ViewType] : IsView(g, v, m) /\ ViewOf(v, m) = g[m]
      BY <2>2, ViewOfIs
    <2>4. g[m] = Show(g[l], v[m])
      <3>1. m \in 0 .. m /\ m # 0 /\ m - 1 = l
        BY <2>1
      <3> QED BY <2>3, <3>1 DEF IsView
    <2>5. g[l] = f[l]
      BY <1>1, <1>3, <2>1, <2>3, ViewSame
    <2> QED BY <1>1, <2>1, <2>3, <2>4, <2>5
  <1> QED BY <1>1, <1>2, <1>3

\* The screen before anything is sent, and after one more event.
LEMMA ScreenAppend ==
    ASSUME NEW w \in Seq(EventType)
    PROVE  /\ Screen(<<>>) = Blank
           /\ Screen(w) \in ViewType
           /\ \A e \in EventType : Screen(Append(w, e)) = Show(Screen(w), e)
  <1>1. \A v : Screen(v) = ViewOf(v, Len(v))
    BY DEF Screen, ViewOf, IsView
  <1>2. PICK l \in Nat : l = Len(w) /\ \A x \in 1 .. l : w[x] \in EventType
    OBVIOUS
  <1>3. Screen(w) = ViewOf(w, l)
    BY <1>1, <1>2, Zenon
  <1>4. ASSUME NEW e \in EventType PROVE Screen(Append(w, e)) = Show(Screen(w), e)
    <2>1. PICK v : /\ v = Append(w, e) /\ Len(v) = l + 1
                   /\ v[l + 1] = e /\ \A x \in 1 .. l : v[x] = w[x]
      <3>1. /\ Len(Append(w, e)) = l + 1
            /\ Append(w, e)[l + 1] = e /\ \A x \in 1 .. l : Append(w, e)[x] = w[x]
        BY <1>2
      <3> QED BY <3>1, Zenon
    <2>2. ViewOf(v, l + 1) = Show(ViewOf(w, l), v[l + 1])
      BY <1>2, <2>1, ViewOfNext, Zenon
    <2>3. Screen(v) = ViewOf(v, l + 1)
      BY <1>1, <2>1, Zenon
    <2> QED BY <1>3, <2>1, <2>2, <2>3, Zenon
  <1>5. Screen(<<>>) = Blank
    <2>1. PICK v : v = <<>> /\ Len(v) = 0
      OBVIOUS
    <2>2. 0 \in Nat /\ \A x \in 1 .. 0 : v[x] \in EventType
      OBVIOUS
    <2>3. ViewOf(v, 0) = Blank
      BY <2>2, ViewOfNext, Zenon
    <2> QED BY <1>1, <2>1, <2>3, Zenon
  <1>6. Screen(w) \in ViewType
    BY <1>2, <1>3, ViewOfNext, Zenon
  <1> QED BY <1>4, <1>5, <1>6

\* The outcomes after which a stream may end without a notice.
Quiet == {"success", "shutdown", "client_cancelled"}

\* gateway_truncated, and nothing else, shows the notice, after an outcome that is not
\* quiet; a stream that ends otherwise had such an outcome, or was refused right after
\* "regenerated output".
Told(h) ==
    /\ ~IsOver(h) => ~Screen(h.wire).notice
    /\ IsOver(h) => (Screen(h.wire).notice <=> IsTruncated(h))
    /\ IsOver(h) /\ IsTruncated(h) => OutcomeOf(h) \notin Quiet
    /\ h.pc = "loop" /\ h.attempts # <<>> => h.wire # <<>> /\ Last(h.wire).event = "regenerating"
    /\ IsOver(h) /\ ~IsTruncated(h) /\ OutcomeOf(h) \notin Quiet
          => h.wire # <<>> /\ Last(h.wire).event = "regenerating"

\* Everything delivered is on the screen, and the counted attempt is the block below the
\* last separator.
Visible(h) ==
    /\ Screen(h.wire).above + Screen(h.wire).block = h.total
    /\ h.pc \in {"attempt", "scan", "claim", "failover", "truncate"} => Screen(h.wire).block = h.tokens
    /\ h.pc \in {"idle", "budget", "limit", "loop"} => Screen(h.wire).block = 0
    /\ IsOver(h) /\ (IsTruncated(h) \/ OutcomeOf(h) \in {"success", "shutdown"})
          => Screen(h.wire).block = h.tokens

Shown(h) == Told(h) /\ (Reports = {} => Visible(h))
ShownInv == \A r \in Requests : Shown(s[r])

\* A step inside the session that shows the client nothing new.
LEMMA MoveShown ==
    ASSUME NEW A, NEW L, NEW h, Local(h, A, L), Shown(h), NEW g,
           Screen(g.wire) = Screen(h.wire), g.total = h.total,
           \/ /\ h.pc \in {"idle", "budget", "limit"} /\ g.attempts = h.attempts
              /\ g.pc \in {"budget", "limit", "rejected", "loop"}
           \/ h.pc = "loop" /\ g.pc = "loop" /\ g.attempts = h.attempts /\ g.wire = h.wire
           \/ h.pc = "loop" /\ g.pc = "attempt" /\ g.tokens = 0
           \/ h.pc = "loop" /\ g.pc = "truncate" /\ h.attempts = <<>> /\ g.tokens = h.tokens
           \/ /\ h.pc \in {"attempt", "scan", "claim"} /\ g.tokens = h.tokens
              /\ g.pc \in {"scan", "claim", "failover", "truncate"}
    PROVE  Shown(g)
  <1>1. ~IsOver(h) /\ ~IsOver(g)
    BY DEF IsOver
  <1>2. Told(g)
    <2>1. h.pc \in {"idle", "budget", "limit"} => h.attempts = <<>>
      BY DEF Local, Counted
    <2> QED BY <1>1, <2>1 DEF Shown, Told
  <1>3. ASSUME Reports = {} PROVE Visible(g)
    <2>1. h.attempts = <<>> => h.tokens = 0
      BY DEF Local, Counted
    <2>2. Visible(h)
      BY <1>3 DEF Shown
    <2> QED BY <1>1, <2>1, <2>2 DEF Visible
  <1> QED BY <1>2, <1>3 DEF Shown

\* A step that leaves the place, the outcome, the counters and the events alone, or
\* releases the session.
LEMMA RestShown ==
    ASSUME NEW h, Shown(h), NEW g,
           g.pc = h.pc \/ (h.pc = "release" /\ g.pc = "done"),
           g.wire = h.wire, g.total = h.total, g.tokens = h.tokens, g.attempts = h.attempts
    PROVE  Shown(g)
  <1>1. (IsOver(g) <=> IsOver(h)) /\ (IsTruncated(g) <=> IsTruncated(h)) /\ OutcomeOf(g) = OutcomeOf(h)
    BY DEF IsOver, IsTruncated, OutcomeOf
  <1>2. Told(g)
    BY <1>1 DEF Shown, Told
  <1>3. Reports = {} => Visible(g)
    BY <1>1 DEF Shown, Visible
  <1> QED BY <1>2, <1>3 DEF Shown

\* The handler is on its way out and writes nothing.
LEMMA LeaveShown ==
    ASSUME NEW A, NEW L, NEW h, Local(h, A, L), Shown(h), NEW g,
           g.pc = "release", g.wire = h.wire, g.total = h.total, g.tokens = h.tokens,
           \/ h.pc = "attempt" /\ OutcomeOf(g) \in Quiet
           \/ h.pc = "loop" /\ h.attempts # <<>> /\ g.attempts = h.attempts
    PROVE  Shown(g)
  <1>1. ~IsOver(h) /\ IsOver(g)
    BY DEF IsOver
  <1>2. ~IsTruncated(g)
    BY DEF Local, Untruncated, IsTruncated, Last
  <1>3. ~Screen(g.wire).notice
    BY <1>1 DEF Shown, Told
  <1>4. h.pc = "loop" => g.wire # <<>> /\ Last(g.wire).event = "regenerating"
    BY DEF Shown, Told
  <1>5. Told(g)
    BY <1>1, <1>2, <1>3, <1>4 DEF Told
  <1>6. ASSUME Reports = {} PROVE Visible(g)
    <2>1. Visible(h)
      BY <1>6 DEF Shown
    <2>2. h.pc = "loop" => OutcomeOf(g) \notin {"success", "shutdown"}
      <3>1. h.pc = "loop" => OutcomeOf(g) \in FailureReasons
        BY DEF Local, Judged, OutcomeOf, Last
      <3> QED BY <3>1 DEF FailureReasons
    <2> QED BY <1>1, <1>2, <2>1, <2>2 DEF Visible
  <1> QED BY <1>5, <1>6 DEF Shown

\* Content joins the block below the last separator.
LEMMA ContentShown ==
    ASSUME NEW A, NEW L, NEW h, Local(h, A, L), Shown(h), h.pc = "attempt", NEW n \in Nat, NEW g,
           g.pc = "attempt", g.tokens = h.tokens + n, g.total = h.total + n,
           g.wire = Append(h.wire, Content(n))
    PROVE  Shown(g)
  <1>1. PICK e \in EventType : e = Content(n) /\ e.event = "content" /\ e.n = n
    <2>1. Content(n) \in EventType /\ Content(n).event = "content" /\ Content(n).n = n
      BY DEF Content, Event, EventType, Reasons, Outcomes
    <2> QED BY <2>1
  <1>2. h.wire \in Seq(EventType) /\ h.tokens \in Nat /\ h.total \in Nat
    BY DEF Local, HandlerType
  <1>3. PICK v \in ViewType : v = Screen(h.wire)
    BY <1>2, ScreenAppend
  <1>4. PICK u : u = Screen(g.wire) /\ u = Show(v, e)
    BY <1>1, <1>2, <1>3, ScreenAppend
  <1>5. ~IsOver(h) /\ ~IsOver(g)
    BY DEF IsOver
  <1>6. ~v.notice
    BY <1>3, <1>5 DEF Shown, Told
  <1>7. u.block = v.block + n /\ u.above = v.above /\ ~u.notice
    BY <1>1, <1>4, <1>6, ShowFacts
  <1>8. Told(g)
    BY <1>4, <1>5, <1>7 DEF Told
  <1>9. ASSUME Reports = {} PROVE Visible(g)
    <2>1. v.above + v.block = h.total /\ v.block = h.tokens
      BY <1>3, <1>9 DEF Shown, Visible
    <2>2. v.above \in Nat /\ v.block \in Nat
      BY DEF ViewType
    <2>3. u.above + u.block = g.total /\ u.block = g.tokens
      BY <1>2, <1>7, <2>1, <2>2
    <2> QED BY <1>4, <1>5, <2>3 DEF Visible
  <1> QED BY <1>8, <1>9 DEF Shown

\* A failover moves the block above the separator.
LEMMA FailoverShown ==
    ASSUME NEW A, NEW L, NEW h, Local(h, A, L), Shown(h), h.pc = "failover", NEW g,
           g.pc = "loop", g.total = h.total, NEW e \in EventType, e.event = "failover",
           g.wire = Append(Append(h.wire, e), Regenerating)
    PROVE  Shown(g)
  <1>1. PICK c \in EventType : c = Regenerating /\ c.event = "regenerating"
    <2>1. Regenerating \in EventType /\ Regenerating.event = "regenerating"
      BY DEF Regenerating, Event, EventType, Reasons, Outcomes
    <2> QED BY <2>1
  <1>2. h.wire \in Seq(EventType)
    BY DEF Local, HandlerType
  <1>3. PICK w \in Seq(EventType) : w = Append(h.wire, e)
    <2>1. Append(h.wire, e) \in Seq(EventType)
      BY <1>2
    <2> QED BY <2>1
  <1>4. PICK v \in ViewType : v = Screen(h.wire)
    BY <1>2, ScreenAppend
  <1>5. ~IsOver(h) /\ ~IsOver(g)
    BY DEF IsOver
  <1>6. ~v.notice
    BY <1>4, <1>5 DEF Shown, Told
  <1>7. Screen(w) = v
    <2>1. Screen(w) = Show(v, e)
      BY <1>2, <1>3, <1>4, ScreenAppend
    <2> QED BY <1>6, <2>1, ShowFacts
  <1>8. g.wire = Append(w, c)
    BY <1>1, <1>3
  <1>9. PICK u : u = Screen(g.wire) /\ u = Show(v, c)
    BY <1>7, <1>8, ScreenAppend
  <1>10. u.block = 0 /\ u.above = v.above + v.block /\ ~u.notice
    BY <1>1, <1>6, <1>9, ShowFacts
  <1>11. g.wire # <<>> /\ Last(g.wire).event = "regenerating"
    <2>1. Append(w, c) # <<>> /\ Append(w, c)[Len(Append(w, c))] = c
      OBVIOUS
    <2> QED BY <1>1, <1>8, <2>1 DEF Last
  <1>12. Told(g)
    BY <1>5, <1>9, <1>10, <1>11 DEF Told
  <1>13. ASSUME Reports = {} PROVE Visible(g)
    <2>1. v.above + v.block = h.total
      BY <1>4, <1>13 DEF Shown, Visible
    <2>2. v.above \in Nat /\ v.block \in Nat
      BY DEF ViewType
    <2>3. u.above + u.block = g.total /\ u.block = 0
      BY <1>10, <2>1, <2>2
    <2> QED BY <1>5, <1>9, <2>3 DEF Visible
  <1> QED BY <1>12, <1>13 DEF Shown

\* gateway_truncated shows the notice and nothing else.
LEMMA TruncationShown ==
    ASSUME NEW A, NEW L, NEW h, Local(h, A, L), Shown(h), h.pc = "truncate", NEW g,
           g.pc = "release", g.total = h.total, g.tokens = h.tokens, g.attempts = h.attempts,
           NEW e \in EventType, e.event = "truncated", g.wire = Append(h.wire, e)
    PROVE  Shown(g)
  <1>1. h.wire \in Seq(EventType)
    BY DEF Local, HandlerType
  <1>2. PICK v \in ViewType : v = Screen(h.wire)
    BY <1>1, ScreenAppend
  <1>3. ~IsOver(h) /\ IsOver(g)
    BY DEF IsOver
  <1>4. ~v.notice
    BY <1>2, <1>3 DEF Shown, Told
  <1>5. PICK u : u = Screen(g.wire) /\ u = Show(v, e)
    BY <1>1, <1>2, ScreenAppend
  <1>6. u.block = v.block /\ u.above = v.above /\ u.notice
    BY <1>4, <1>5, ShowFacts
  <1>7. IsTruncated(g)
    <2>1. Append(h.wire, e) # <<>> /\ Append(h.wire, e)[Len(Append(h.wire, e))] = e
      BY <1>1
    <2> QED BY <2>1 DEF IsTruncated, Last
  <1>8. OutcomeOf(g) \notin Quiet
    <2>1. CASE h.attempts = <<>>
      <3>1. OutcomeOf(g) = None
        BY <2>1 DEF OutcomeOf
      <3> QED BY <3>1, NoneIsNoOutcome DEF Quiet
    <2>2. CASE h.attempts # <<>>
      <3>1. OutcomeOf(g) \in FailureReasons \cup {"budget_exceeded"}
        BY <2>2 DEF Local, Judged, OutcomeOf, Last
      <3> QED BY <3>1 DEF Quiet, FailureReasons
    <2> QED BY <2>1, <2>2
  <1>9. Told(g)
    BY <1>3, <1>5, <1>6, <1>7, <1>8 DEF Told
  <1>10. ASSUME Reports = {} PROVE Visible(g)
    <2>1. v.above + v.block = h.total /\ v.block = h.tokens
      BY <1>2, <1>10 DEF Shown, Visible
    <2>2. u.above + u.block = g.total /\ u.block = g.tokens
      BY <1>6, <2>1
    <2> QED BY <1>3, <1>5, <2>2 DEF Visible
  <1> QED BY <1>9, <1>10 DEF Shown

\* A handler's step shows its client what it should see.
LEMMA HandlerShown ==
    ASSUME HandlersInv, ShownInv, NEW r \in Requests, Handler(r)
    PROVE  Shown(s'[r])
  <1>1. PICK h : h = s[r] /\ Local(h, Allowlist[KeyOf[r]], List(r)) /\ Shown(h)
    BY HandlerFacts DEF ShownInv
  <1>2. PICK g : g = s'[r]
    OBVIOUS
  <1> SUFFICES Shown(g)
    BY <1>2
  <1>3. CASE Arrive(r) \/ CheckBudget(r) \/ Admit(r)
    <2>1. /\ h.pc \in {"idle", "budget", "limit"} /\ g.pc \in {"budget", "limit", "rejected", "loop"}
          /\ g.attempts = h.attempts /\ g.wire = h.wire /\ g.total = h.total
      BY <1>1, <1>2, <1>3, AdmissionMoves DEF Still
    <2> QED BY <1>1, <2>1, MoveShown
  <1>4. CASE UseClaim(r) \/ AskBreaker(r)
    <2>1. /\ Cur(r) \in Providers /\ h.pc = "loop" /\ g.total = h.total
          /\ \/ /\ g.pc = "attempt" /\ g.tokens = 0
                /\ g.wire = h.wire \/ g.wire = Append(h.wire, Status(Cur(r)))
             \/ g.pc = "loop" /\ g.attempts = h.attempts /\ g.wire = h.wire
      BY <1>1, <1>2, <1>4, LoopMoves DEF Begins, Still
    <2>2. Screen(g.wire) = Screen(h.wire)
      <3>1. CASE g.wire = h.wire
        BY <3>1
      <3>2. CASE g.wire = Append(h.wire, Status(Cur(r)))
        <4>1. PICK e \in EventType : e = Status(Cur(r)) /\ e.event = "status"
          <5>1. Status(Cur(r)) \in EventType /\ Status(Cur(r)).event = "status"
            BY <2>1 DEF Status, Event, EventType, Reasons, Outcomes
          <5> QED BY <5>1
        <4>2. h.wire \in Seq(EventType)
          BY <1>1 DEF Local, HandlerType
        <4>3. PICK v \in ViewType : v = Screen(h.wire)
          BY <4>2, ScreenAppend
        <4>4. Screen(g.wire) = Show(v, e)
          BY <3>2, <4>1, <4>2, <4>3, ScreenAppend
        <4>5. ~v.notice
          BY <1>1, <2>1, <4>3 DEF Shown, Told, IsOver
        <4> QED BY <4>1, <4>3, <4>4, <4>5, ShowFacts
      <3> QED BY <2>1, <3>1, <3>2
    <2> QED BY <1>1, <2>1, <2>2, MoveShown
  <1>5. CASE ListEnds(r) \/ Scan(r) \/ ScanEnds(r) \/ Release(r)
    <2>1. /\ g.attempts = h.attempts /\ g.wire = h.wire /\ g.total = h.total /\ g.tokens = h.tokens
          /\ \/ h.pc = "loop" /\ g.pc = "truncate" /\ h.attempts = <<>>
             \/ h.pc = "loop" /\ g.pc = "release" /\ h.attempts # <<>>
             \/ h.pc = "scan" /\ g.pc \in {"scan", "claim", "failover", "truncate"}
             \/ h.pc = "release" /\ g.pc = "done"
      BY <1>1, <1>2, <1>5, PassMoves DEF Still
    <2>2. CASE h.pc = "loop" /\ g.pc = "release"
      BY <1>1, <2>1, <2>2, LeaveShown
    <2>3. CASE h.pc = "release" /\ g.pc = "done"
      BY <1>1, <2>1, <2>3, RestShown
    <2>4. CASE h.pc # "release" /\ g.pc # "release"
      BY <1>1, <2>1, <2>4, MoveShown
    <2> QED BY <2>1, <2>2, <2>3, <2>4
  <1>6. CASE ClaimNext(r)
    <2>1. /\ h.pc = "claim" /\ g.pc \in {"scan", "failover"} /\ g.tokens = h.tokens
          /\ g.wire = h.wire /\ g.total = h.total
      BY <1>1, <1>2, <1>6, ClaimMoves
    <2> QED BY <1>1, <2>1, MoveShown
  <1>7. CASE Failover(r)
    <2>1. h.pc = "failover" /\ g.pc = "loop" /\ g.total = h.total
      BY <1>1, <1>2, <1>7, FailoverMoves
    <2>2. PICK e \in EventType : e.event = "failover" /\ g.wire = Append(Append(h.wire, e), Regenerating)
      BY <1>1, <1>2, <1>7, FailoverMoves
    <2> QED BY <1>1, <2>1, <2>2, FailoverShown
  <1>8. CASE Truncate(r)
    <2>1. /\ h.pc = "truncate" /\ g.pc = "release" /\ g.total = h.total /\ g.tokens = h.tokens
          /\ g.attempts = h.attempts
      BY <1>1, <1>2, <1>8, TruncateMoves
    <2>2. PICK e \in EventType : e.event = "truncated" /\ g.wire = Append(h.wire, e)
      BY <1>1, <1>2, <1>8, TruncateMoves
    <2> QED BY <1>1, <2>1, <2>2, TruncationShown
  <1>9. CASE AttemptStep(r)
    <2>1. ASSUME NEW n \in Counts, Forward(r, n) PROVE Shown(g)
      <3>1. n \in Nat
        BY StreamAssumption
      <3>2. /\ h.pc = "attempt" /\ g.pc = "attempt" /\ g.tokens = h.tokens + n /\ g.total = h.total + n
            /\ g.wire = Append(h.wire, Content(n))
        BY <1>1, <1>2, <2>1, <3>1, FrameMoves
      <3> QED BY <1>1, <3>1, <3>2, ContentShown
    <2>2. ASSUME NEW n \in Reports, Usage(r, n) PROVE Shown(g)
      <3>1. n \in Nat /\ Reports # {}
        BY StreamAssumption
      <3>2. h.pc = "attempt" /\ g.pc = "attempt" /\ g.wire = h.wire
        BY <1>1, <1>2, <2>2, <3>1, FrameMoves
      <3> QED BY <1>1, <3>1, <3>2 DEF Shown, Told, IsOver
    <2>3. ASSUME NEW o, NEW pc \in {"truncate", "scan"}, Ends(r, o, pc) PROVE Shown(g)
      <3>1. /\ h.pc = "attempt" /\ g.pc \in {"truncate", "scan"} /\ g.tokens = h.tokens
            /\ g.wire = h.wire /\ g.total = h.total
        BY <1>1, <1>2, <2>3 DEF Ends
      <3> QED BY <1>1, <3>1, MoveShown
    <2>4. ASSUME NEW o \in Quiet, Ends(r, o, "release") PROVE Shown(g)
      <3>1. /\ h.pc = "attempt" /\ g.pc = "release" /\ g.tokens = h.tokens
            /\ g.wire = h.wire /\ g.total = h.total /\ OutcomeOf(g) \in Quiet
        BY <1>1, <1>2, <2>4 DEF Ends, OutcomeOf
      <3> QED BY <1>1, <3>1, LeaveShown
    <2>5. CASE \E n \in Counts : WriteError(r, n)
      <3>1. s[r].pc = "attempt" /\ Failed(r, "dead_socket") /\ "dead_socket" \in FailureReasons
        BY <2>5 DEF WriteError, FailureReasons
      <3> QED BY <2>3, <3>1, OutcomeMoves
    <2>6. CASE \E why \in Failures : Break(r, why)
      <3>1. PICK why \in FailureReasons : s[r].pc = "attempt" /\ Failed(r, why)
        BY <2>6, StreamAssumption DEF Break
      <3> QED BY <2>3, <3>1, OutcomeMoves
    <2>7. CASE OverBudget(r)
      BY <2>3, <2>7, OutcomeMoves
    <2>8. CASE Finish(r)
      BY <2>4, <2>8, OutcomeMoves DEF Quiet
    <2>9. CASE Cancelled(r)
      <3>1. s[r].ctx = "forced" \/ s[r].ctx = "client"
        BY <2>9 DEF Cancelled
      <3> QED BY <2>4, <2>9, <3>1, OutcomeMoves DEF Quiet
    <2> QED BY <1>9, <2>1, <2>2, <2>5, <2>6, <2>7, <2>8, <2>9 DEF AttemptStep
  <1> QED BY <1>3, <1>4, <1>5, <1>6, <1>7, <1>8, <1>9 DEF Handler

\* Every step keeps what the clients are shown.
LEMMA NextShown == HandlersInv /\ ShownInv /\ [Next]_vars => ShownInv'
  <1> SUFFICES ASSUME HandlersInv, ShownInv, [Next]_vars PROVE ShownInv'
    OBVIOUS
  <1>1. ASSUME NEW r \in Requests, Moves(r), Shown(s'[r]) PROVE ShownInv'
    BY <1>1 DEF ShownInv, Moves
  <1>2. CASE \E r \in Requests : Handler(r)
    BY <1>1, <1>2, HandlerMoves, HandlerShown
  <1>3. CASE \E r \in Requests : ClientLeaves(r) \/ ForceClose(r)
    <2>1. PICK r \in Requests : ClientLeaves(r) \/ ForceClose(r)
      BY <1>3
    <2>2. /\ Moves(r) /\ s'[r].pc = s[r].pc /\ s'[r].attempts = s[r].attempts
          /\ s'[r].wire = s[r].wire /\ s'[r].tokens = s[r].tokens /\ s'[r].total = s[r].total
      BY <2>1, CancelMoves DEF Still
    <2>3. Shown(s[r])
      BY DEF ShownInv
    <2>4. Shown(s'[r])
      BY <2>2, <2>3, RestShown
    <2> QED BY <1>1, <2>2, <2>4
  <1>4. CASE UNCHANGED s
    BY <1>4 DEF ShownInv
  <1> QED BY <1>2, <1>3, <1>4
      DEF Next, Environment, BeginShutdown, ResetExpired, Slide, Tick, AllServed, vars

\* The initial screens are blank.
LEMMA InitShown == Init => ShownInv
  <1> SUFFICES ASSUME Init, NEW r \in Requests PROVE Shown(s[r])
    BY DEF ShownInv
  <1>1. s[r].pc = "idle" /\ s[r].total = 0 /\ s[r].wire = <<>>
    BY DEF Init, NewHandler
  <1>2. Screen(<<>>) = Blank
    <2>1. \E w : w \in Seq(EventType)
      <3>1. <<>> \in Seq(EventType)
        OBVIOUS
      <3> QED BY <3>1
    <2> QED BY <2>1, ScreenAppend
  <1>3. Blank.block = 0 /\ Blank.above = 0 /\ ~Blank.notice
    BY DEF Blank
  <1>4. Screen(s[r].wire).block = 0 /\ Screen(s[r].wire).above = 0 /\ ~Screen(s[r].wire).notice
    BY <1>1, <1>2, <1>3
  <1> QED BY <1>1, <1>4 DEF Shown, Told, Visible, IsOver

\* The reference client shows what the key pays for, in every run of any number of
\* requests: when a request is in the ledger, the output below the last separator is the
\* billed attempt and everything else delivered is above it, the notice appears exactly
\* when the stream was truncated, and a stream that ends in silence without a quiet
\* outcome does so right after "regenerated output".
THEOREM ClientIsAlwaysTold == Spec => []ClientIsTold
  <1>1. HandlersInv /\ ShownInv => ClientIsTold
    <2> SUFFICES ASSUME HandlersInv, ShownInv, NEW r \in Requests, Over(r)
                 PROVE  /\ Recorded(r) /\ Reports = {} =>
                              /\ Screen(s[r].wire).block = Owes(r)
                              /\ Screen(s[r].wire).above + Screen(s[r].wire).block = s[r].total
                        /\ Recorded(r) => (Screen(s[r].wire).notice <=> ~(LastOutcome(r) \in Quiet))
                        /\ ~(LastOutcome(r) \in Quiet) /\ ~Screen(s[r].wire).notice
                              => s[r].wire # <<>> /\ Last(s[r].wire).event = "regenerating"
      BY Zenon DEF ClientIsTold, Quiet
    <2>1. Told(s[r]) /\ (Reports = {} => Visible(s[r]))
      BY DEF ShownInv, Shown
    <2>2. IsOver(s[r]) /\ (IsTruncated(s[r]) <=> Truncated(r)) /\ OutcomeOf(s[r]) = LastOutcome(r)
      BY DEF Over, IsOver, Truncated, IsTruncated, LastOutcome, OutcomeOf
    <2>3. Recorded(r) /\ Reports = {} =>
             /\ Screen(s[r].wire).block = Owes(r)
             /\ Screen(s[r].wire).above + Screen(s[r].wire).block = s[r].total
      BY <2>1, <2>2 DEF Visible, Recorded, Owes
    <2>4. Recorded(r) => (Screen(s[r].wire).notice <=> ~(LastOutcome(r) \in Quiet))
      BY <2>1, <2>2 DEF Told, Recorded, Quiet
    <2>5. ~(LastOutcome(r) \in Quiet) /\ ~Screen(s[r].wire).notice
             => s[r].wire # <<>> /\ Last(s[r].wire).event = "regenerating"
      BY <2>1, <2>2 DEF Told
    <2> QED BY <2>3, <2>4, <2>5
  <1> QED BY <1>1, InitShown, NextShown, HandlersAlways, PTL DEF Spec

-----------------------------------------------------------------------------
\* The wire protocol.

\* The sum of the instance is the one of the library.
LEMMA WireSum ==
    ASSUME NEW w, NEW S
    PROVE  Wire!TokensAt(w, S) = SumFunctionOnSet(
               [x \in DOMAIN w |-> IF w[x].event = "content" THEN w[x].n ELSE 0], S)
  <1>1. \A f : Wire!SumFunctionOnSet(f, S) = SumFunctionOnSet(f, S)
    BY DEF SumFunctionOnSet, FoldFunctionOnSet, MapThenFoldSet,
           Wire!SumFunctionOnSet, Wire!FoldFunctionOnSet, Wire!MapThenFoldSet
  <1> QED BY <1>1 DEF Wire!TokensAt

\* What an event adds to the tokens delivered.
Gain(e) == IF e.event = "content" THEN e.n ELSE 0

\* The places of w after which no failover was written.
SinceSet(w) == {x \in 1 .. Len(w) : \A y \in 1 .. Len(w) : x < y => w[y].event # "failover"}

\* One more event adds its content at the last place.
LEMMA TokensAppend ==
    ASSUME NEW w \in Seq(EventType), NEW e \in EventType, NEW S \in SUBSET (1 .. Len(w))
    PROVE  /\ Wire!TokensAt(w, S) \in Nat
           /\ Wire!TokensAt(Append(w, e), S \cup {Len(w) + 1}) = Wire!TokensAt(w, S) + Gain(e)
  <1>1. PICK l \in Nat : l = Len(w)
    OBVIOUS
  <1>2. PICK f : f = [x \in DOMAIN w |-> IF w[x].event = "content" THEN w[x].n ELSE 0]
    OBVIOUS
  <1>3. PICK v : v = Append(w, e)
    OBVIOUS
  <1>4. PICK g : g = [x \in DOMAIN v |-> IF v[x].event = "content" THEN v[x].n ELSE 0]
    OBVIOUS
  <1>5. IsFiniteSet(S) /\ IsFiniteSet(S \cup {l + 1}) /\ l + 1 \notin S
    <2>1. IsFiniteSet(1 .. l)
      BY FS_Interval
    <2>2. IsFiniteSet(S)
      BY <1>1, <2>1, FS_Subset
    <2> QED BY <1>1, <2>2, FS_AddElement
  <1>6. \A x \in S : f[x] \in Nat
    <2>1. \A x \in S : x \in DOMAIN w /\ w[x] \in EventType
      OBVIOUS
    <2>2. \A c \in EventType : (IF c.event = "content" THEN c.n ELSE 0) \in Nat
      BY DEF EventType
    <2> QED BY <1>2, <2>1, <2>2
  <1>7. Gain(e) \in Nat
    BY DEF Gain, EventType
  <1>8. g[l + 1] = Gain(e) /\ \A x \in S : g[x] = f[x]
    <2>1. l + 1 \in DOMAIN v /\ v[l + 1] = e
      BY <1>1, <1>3
    <2>2. \A x \in S : x \in DOMAIN v /\ x \in DOMAIN w /\ v[x] = w[x]
      BY <1>1, <1>3
    <2> QED BY <1>2, <1>4, <2>1, <2>2 DEF Gain
  <1>9. SumFunctionOnSet(f, S) \in Nat
    BY <1>5, <1>6, SumNat
  <1>10. SumFunctionOnSet(g, S) = SumFunctionOnSet(f, S)
    <2>1. \A x \in S : f[x] \in Int
      BY <1>6
    <2> QED BY <1>5, <1>8, <2>1, SumSame
  <1>11. SumFunctionOnSet(g, S \cup {l + 1}) = g[l + 1] + SumFunctionOnSet(g, S)
    <2>1. PICK T : T = S \cup {l + 1}
      OBVIOUS
    <2>2. \A x \in T : g[x] \in Int
      BY <1>6, <1>7, <1>8, <2>1
    <2>3. T \ {l + 1} = S /\ l + 1 \in T /\ IsFiniteSet(T)
      BY <1>5, <2>1
    <2>4. SumFunctionOnSet(g, T) = g[l + 1] + SumFunctionOnSet(g, T \ {l + 1})
      BY <2>2, <2>3, SumSplit, Zenon
    <2> QED BY <2>1, <2>3, <2>4, Zenon
  <1>12. Wire!TokensAt(w, S) = SumFunctionOnSet(f, S)
    BY <1>2, WireSum, Zenon
  <1>13. Wire!TokensAt(v, S \cup {l + 1}) = SumFunctionOnSet(g, S \cup {l + 1})
    BY <1>4, WireSum, Zenon
  <1>14. Wire!TokensAt(v, S \cup {l + 1}) = Wire!TokensAt(w, S) + Gain(e)
    BY <1>7, <1>8, <1>9, <1>10, <1>11, <1>12, <1>13
  <1> QED BY <1>1, <1>3, <1>9, <1>12, <1>14

\* The tokens delivered, and those since the last failover, after one more event.
LEMMA TallyAppend ==
    ASSUME NEW w \in Seq(EventType), NEW e \in EventType
    PROVE  /\ Wire!Delivered(w) \in Nat /\ Wire!SinceFailover(w) \in Nat
           /\ Wire!Delivered(Append(w, e)) = Wire!Delivered(w) + Gain(e)
           /\ Wire!SinceFailover(Append(w, e)) =
                 IF e.event = "failover" THEN 0 ELSE Wire!SinceFailover(w) + Gain(e)
  <1>1. \A v \in Seq(EventType) : /\ Wire!Delivered(v) = Wire!TokensAt(v, 1 .. Len(v))
                                  /\ Wire!SinceFailover(v) = Wire!TokensAt(v, SinceSet(v))
    <2>1. \A v \in Seq(EventType) : DOMAIN v = 1 .. Len(v)
      OBVIOUS
    <2> QED BY <2>1, Zenon DEF Wire!Delivered, Wire!SinceFailover, SinceSet
  <1>2. PICK l \in Nat : l = Len(w)
    OBVIOUS
  <1>3. PICK v \in Seq(EventType) : /\ v = Append(w, e) /\ Len(v) = l + 1 /\ v[l + 1] = e
                                    /\ \A x \in 1 .. l : v[x] = w[x]
    <2>1. /\ Append(w, e) \in Seq(EventType) /\ Len(Append(w, e)) = l + 1 /\ Append(w, e)[l + 1] = e
          /\ \A x \in 1 .. l : Append(w, e)[x] = w[x]
      BY <1>2
    <2> QED BY <2>1, Zenon
  <1>4. 1 .. l + 1 = (1 .. l) \cup {l + 1}
    OBVIOUS
  <1>5. 1 .. l \in SUBSET (1 .. l) /\ SinceSet(w) \in SUBSET (1 .. l) /\ {} \in SUBSET (1 .. l)
    BY <1>2 DEF SinceSet
  <1>6. ASSUME e.event # "failover" PROVE SinceSet(v) = SinceSet(w) \cup {l + 1}
    <2>1. ASSUME NEW x \in 1 .. l + 1
          PROVE  (\A y \in 1 .. l + 1 : x < y => v[y].event # "failover") <=>
                    x = l + 1 \/ (x \in 1 .. l /\ \A y \in 1 .. l : x < y => w[y].event # "failover")
      BY <1>3, <1>4, <1>6
    <2>2. l + 1 \in 1 .. l + 1 /\ 1 .. l \subseteq 1 .. l + 1
      OBVIOUS
    <2> QED BY <1>2, <1>3, <2>1, <2>2 DEF SinceSet
  <1>7. ASSUME e.event = "failover" PROVE SinceSet(v) = {} \cup {l + 1}
    <2>1. ASSUME NEW x \in 1 .. l + 1
          PROVE  (\A y \in 1 .. l + 1 : x < y => v[y].event # "failover") <=> x = l + 1
      <3>1. l + 1 \in 1 .. l + 1 /\ v[l + 1].event = "failover"
        BY <1>3, <1>7
      <3> QED BY <3>1
    <2>2. l + 1 \in 1 .. l + 1
      OBVIOUS
    <2> QED BY <1>3, <2>1, <2>2 DEF SinceSet
  <1>8. Wire!TokensAt(w, {}) = 0
    BY WireSum, SumEmpty
  <1>9. /\ Wire!Delivered(w) \in Nat
        /\ Wire!Delivered(v) = Wire!Delivered(w) + Gain(e)
    <2>1. /\ Wire!TokensAt(w, 1 .. l) \in Nat
          /\ Wire!TokensAt(v, (1 .. l) \cup {l + 1}) = Wire!TokensAt(w, 1 .. l) + Gain(e)
      BY <1>2, <1>3, <1>5, TokensAppend
    <2>2. Wire!Delivered(w) = Wire!TokensAt(w, 1 .. l) /\ Wire!Delivered(v) = Wire!TokensAt(v, 1 .. l + 1)
      BY <1>1, <1>2, <1>3, Zenon
    <2> QED BY <1>4, <2>1, <2>2, Zenon
  <1>10. Wire!SinceFailover(w) \in Nat
    BY <1>1, <1>2, <1>5, TokensAppend
  <1>11. CASE e.event # "failover"
    <2>1. Wire!SinceFailover(v) = Wire!SinceFailover(w) + Gain(e)
      BY ZenonT(60), <1>1, <1>2, <1>3, <1>5, <1>6, <1>11, TokensAppend
    <2> QED BY <1>3, <1>9, <1>10, <1>11, <2>1
  <1>12. CASE e.event = "failover"
    <2>1. Gain(e) = 0
      BY <1>12 DEF Gain
    <2>2. Wire!SinceFailover(v) = Wire!TokensAt(v, {} \cup {l + 1})
      BY <1>1, <1>3, <1>7, <1>12, Zenon
    <2>3. Wire!TokensAt(v, {} \cup {l + 1}) = Wire!TokensAt(w, {}) + Gain(e)
      BY <1>2, <1>3, <1>5, TokensAppend
    <2>4. Wire!SinceFailover(v) = 0
      BY <1>8, <2>1, <2>2, <2>3
    <2> QED BY <1>3, <1>9, <1>10, <1>12, <2>4
  <1> QED BY <1>11, <1>12

\* Nothing is delivered before the first event.
LEMMA TallyEmpty == Wire!Delivered(<<>>) = 0 /\ Wire!SinceFailover(<<>>) = 0
  <1>1. PICK w : w = <<>> /\ DOMAIN w = {}
    OBVIOUS
  <1>2. Wire!TokensAt(w, {}) = 0
    BY WireSum, SumEmpty
  <1>3. {x \in DOMAIN w : \A y \in DOMAIN w : x < y => w[y].event # "failover"} = {}
    BY <1>1
  <1> QED BY <1>1, <1>2, <1>3, Zenon DEF Wire!Delivered, Wire!SinceFailover

\* The client's screen shows what the protocol counts.
Agreed(w) == /\ Wire!Delivered(w) = Screen(w).above + Screen(w).block
             /\ Wire!SinceFailover(w) = Screen(w).block

\* It goes on doing so with every event but gateway_failover, which comes with
\* gateway_regenerating.
LEMMA AgreedAppend ==
    ASSUME NEW w \in Seq(EventType), Agreed(w), ~Screen(w).notice, NEW e \in EventType
    PROVE  /\ e.event \in {"status", "content"} => Agreed(Append(w, e))
           /\ \A c \in EventType : e.event = "failover" /\ c.event = "regenerating"
                 => Agreed(Append(Append(w, e), c))
  <1>1. PICK v \in ViewType : v = Screen(w) /\ ~v.notice
    BY ScreenAppend
  <1>2. PICK d \in Nat, f \in Nat : /\ d = Wire!Delivered(w) /\ f = Wire!SinceFailover(w)
                                    /\ d = v.above + v.block /\ f = v.block
    BY <1>1, TallyAppend DEF Agreed
  <1>3. PICK x \in Seq(EventType) : x = Append(w, e)
    <2>1. Append(w, e) \in Seq(EventType)
      OBVIOUS
    <2> QED BY <2>1
  <1>4. PICK u : u = Screen(x) /\ u = Show(v, e) /\ u \in ViewType
    BY <1>1, <1>3, ScreenAppend
  <1>5. /\ Wire!Delivered(x) = d + Gain(e)
        /\ Wire!SinceFailover(x) = IF e.event = "failover" THEN 0 ELSE f + Gain(e)
    BY <1>2, <1>3, TallyAppend
  <1>6. v.above \in Nat /\ v.block \in Nat /\ e.n \in Nat
    BY DEF ViewType, EventType
  <1>7. CASE e.event = "status"
    <2>1. u = v /\ Gain(e) = 0
      BY <1>1, <1>4, <1>7, ShowFacts DEF Gain
    <2> QED BY <1>2, <1>3, <1>4, <1>5, <1>7, <2>1 DEF Agreed
  <1>8. CASE e.event = "content"
    <2>1. u.block = v.block + e.n /\ u.above = v.above /\ Gain(e) = e.n
      BY <1>1, <1>4, <1>8, ShowFacts DEF Gain
    <2>2. d + e.n = u.above + u.block /\ f + e.n = u.block
      BY <1>2, <1>6, <2>1
    <2> QED BY <1>3, <1>4, <1>5, <1>8, <2>1, <2>2 DEF Agreed
  <1>9. ASSUME NEW c \in EventType, e.event = "failover", c.event = "regenerating"
        PROVE  Agreed(Append(x, c))
    <2>1. u = v /\ Gain(e) = 0 /\ Gain(c) = 0
      BY <1>1, <1>4, <1>9, ShowFacts DEF Gain
    <2>2. PICK t : t = Screen(Append(x, c)) /\ t = Show(v, c)
      BY <1>3, <1>4, <2>1, ScreenAppend
    <2>3. t.block = 0 /\ t.above = v.above + v.block
      BY <1>1, <1>9, <2>2, ShowFacts
    <2>4. Wire!Delivered(x) = d /\ Wire!SinceFailover(x) = 0
      BY <1>5, <1>9, <2>1
    <2>5. Wire!Delivered(Append(x, c)) = d /\ Wire!SinceFailover(Append(x, c)) = 0
      <3>1. /\ Wire!Delivered(Append(x, c)) = Wire!Delivered(x) + Gain(c)
            /\ Wire!SinceFailover(Append(x, c)) =
                  IF c.event = "failover" THEN 0 ELSE Wire!SinceFailover(x) + Gain(c)
        BY TallyAppend
      <3> QED BY <1>9, <2>1, <2>4, <3>1
    <2> QED BY <1>2, <1>6, <2>2, <2>3, <2>5 DEF Agreed
  <1> QED BY <1>3, <1>7, <1>8, <1>9

\* The reason a handler carries is one of its event's, gateway_status comes with the first
\* attempt, and the screen shows what the protocol counts.
Phrased(h) ==
    /\ h.pc \in {"scan", "claim", "failover"} => h.reason \in FailureReasons
    /\ h.pc = "truncate" => h.reason \in {"all_providers_exhausted", "budget_exceeded"}
    /\ ~IsOver(h) => (h.wire = <<>> <=> h.attempts = <<>>) /\ Agreed(h.wire)
SentInv == \A r \in Requests : Phrased(s[r])

\* A look-ahead keeps the reason of the failure until it finds that no provider is left.
LEMMA PassReason ==
    ASSUME HandlersInv, NEW r \in Requests, ListEnds(r) \/ Scan(r) \/ ScanEnds(r) \/ ClaimNext(r)
    PROVE  /\ s'[r].pc = "truncate" => s'[r].reason = "all_providers_exhausted"
           /\ s'[r].pc \in {"scan", "claim", "failover"} => s'[r].reason = s[r].reason
  <1>1. PICK h \in HandlerType : h = s[r]
    BY HandlerFacts
  <1>2. PICK g : g = s'[r]
    OBVIOUS
  <1>3. 0 \in Nat
    OBVIOUS
  <1>4. CASE ListEnds(r)
    <2>1. Set(r, AfterList(h))
      BY <1>1, <1>4 DEF ListEnds
    <2>2. g = AtFor(h, "truncate", "all_providers_exhausted") \/ g = At(h, "release")
      BY <1>2, <2>1, SetMoves DEF AfterList, AtFor, At
    <2>3. /\ AtFor(h, "truncate", "all_providers_exhausted").reason = "all_providers_exhausted"
          /\ AtFor(h, "truncate", "all_providers_exhausted").pc = "truncate"
          /\ At(h, "release").pc = "release"
      BY DEF AtFor, At, HandlerType
    <2> QED BY <1>1, <1>2, <2>2, <2>3
  <1>5. CASE Scan(r)
    <2>1. Set(r, At(h, "failover")) \/ Set(r, At(h, "claim")) \/ Set(r, Skip(h))
      BY <1>1, <1>5 DEF Scan, At
    <2>2. g = At(h, "failover") \/ g = At(h, "claim") \/ g = Skip(h)
      BY <1>2, <2>1, SetMoves
    <2>3. /\ \A pc : At(h, pc).reason = h.reason /\ At(h, pc).pc = pc
          /\ Skip(h).reason = h.reason /\ Skip(h).pc = "scan"
      BY DEF At, Skip, HandlerType
    <2> QED BY SMTT(40), <1>1, <1>2, <2>2, <2>3
  <1>6. CASE ScanEnds(r)
    <2>1. Set(r, AtFor(h, "truncate", "all_providers_exhausted"))
      BY <1>1, <1>6 DEF ScanEnds, AtFor
    <2>2. g = AtFor(h, "truncate", "all_providers_exhausted")
      BY <1>2, <2>1, SetMoves
    <2>3. g.reason = "all_providers_exhausted" /\ g.pc = "truncate"
      BY <2>2 DEF AtFor, HandlerType
    <2> QED BY <1>2, <2>3
  <1>7. CASE ClaimNext(r)
    <2>1. \E p : Set(r, Granted(h, p)) \/ Set(r, Skip(h))
      BY <1>1, <1>7 DEF ClaimNext, Granted
    <2>2. \E p : g = Granted(h, p) \/ g = Skip(h)
      BY <1>2, <2>1, SetMoves
    <2>3. /\ \A p : Granted(h, p).reason = h.reason /\ Granted(h, p).pc = "failover"
          /\ Skip(h).reason = h.reason /\ Skip(h).pc = "scan"
      BY DEF Granted, Skip, HandlerType
    <2> QED BY SMTT(40), <1>1, <1>2, <2>2, <2>3
  <1> QED BY <1>4, <1>5, <1>6, <1>7

\* An attempt that ends leaves its outcome as the reason.
LEMMA EndReason ==
    ASSUME HandlersInv, NEW r \in Requests, s[r].pc = "attempt"
    PROVE  /\ OverBudget(r) => s'[r].reason = "budget_exceeded"
           /\ \A why \in FailureReasons : Failed(r, why) => s'[r].reason = why
  <1>1. PICK h \in HandlerType : h = s[r] /\ h.attempts # <<>> /\ h.tokens \in Nat
    BY HandlerFacts DEF Local, Counted, HandlerType
  <1>2. \A o \in Outcomes : FinishAttempt(h, o, h.tokens) \in HandlerType
    BY <1>1, FinishChanges
  <1>3. ASSUME OverBudget(r) PROVE s'[r].reason = "budget_exceeded"
    <2>1. PICK f \in HandlerType : f = FinishAttempt(h, "budget_exceeded", h.tokens)
      BY <1>2 DEF Outcomes
    <2>2. Set(r, AtFor(f, "truncate", "budget_exceeded"))
      BY <1>1, <1>3, <2>1 DEF OverBudget, AtFor
    <2>3. s'[r] = AtFor(f, "truncate", "budget_exceeded")
      BY <2>2, SetMoves
    <2> QED BY <2>3 DEF AtFor, HandlerType
  <1>4. ASSUME NEW why \in FailureReasons, Failed(r, why) PROVE s'[r].reason = why
    <2>1. PICK f \in HandlerType : f = FinishAttempt(h, why, h.tokens)
      BY <1>2 DEF Outcomes
    <2>2. Set(r, Gone(f, h.i + 1, why))
      BY <1>1, <1>4, <2>1 DEF Failed, Gone
    <2>3. s'[r] = Gone(f, h.i + 1, why)
      BY <2>2, SetMoves
    <2> QED BY <2>3 DEF Gone, HandlerType
  <1> QED BY <1>3, <1>4

\* A client that leaves and a forced shutdown change no reason.
LEMMA CancelReason ==
    ASSUME HandlersInv, NEW r \in Requests, ClientLeaves(r) \/ ForceClose(r)
    PROVE  s'[r].reason = s[r].reason
  <1>1. PICK h \in HandlerType : h = s[r]
    BY HandlerFacts
  <1>2. s'[r] = Left(h) \/ s'[r] = Forced(h)
    BY <1>1, SetMoves DEF ClientLeaves, ForceClose, Left, Forced
  <1>3. Left(h).reason = h.reason /\ Forced(h).reason = h.reason
    BY DEF Left, Forced, HandlerType
  <1> QED BY <1>1, <1>2, <1>3

\* gateway_status is written when the first attempt begins, and only then.
LEMMA StatusMoves ==
    ASSUME HandlersInv, NEW r \in Requests, UseClaim(r) \/ AskBreaker(r), s'[r].pc = "attempt"
    PROVE  s'[r].wire = IF s[r].attempts = <<>> THEN Append(s[r].wire, Status(Cur(r))) ELSE s[r].wire
  <1>1. PICK h \in HandlerType : h = s[r]
    BY HandlerFacts
  <1>2. h.pc = "loop" /\ Cur(r) \in Providers
    BY <1>1, LoopMoves DEF UseClaim, AskBreaker
  <1>3. Set(r, Begin(h, Cur(r))) \/ Set(r, [h EXCEPT !.i = @ + 1])
    BY <1>1 DEF UseClaim, AskBreaker
  <1>4. s'[r] = Begin(h, Cur(r)) \/ s'[r] = [h EXCEPT !.i = @ + 1]
    BY <1>3, SetMoves
  <1>5. [h EXCEPT !.i = @ + 1].pc = "loop"
    BY <1>2 DEF HandlerType
  <1>6. s'[r] = Begin(h, Cur(r))
    BY <1>4, <1>5
  <1>7. Begin(h, Cur(r)).wire = IF StatusDue(h) THEN Append(h.wire, Status(Cur(r))) ELSE h.wire
    BY <1>2, BeginFields
  <1> QED BY <1>1, <1>6, <1>7 DEF StatusDue

\* The provider a failover leaves is not the one it announces.
LEMMA FailoverLeaves ==
    ASSUME HandlersInv, NEW r \in Requests, s[r].pc = "failover"
    PROVE  FinalProvider(r) # List(r)[s[r].j]
  <1>1. PICK h \in HandlerType : h = s[r] /\ Local(h, Allowlist[KeyOf[r]], List(r))
    BY HandlerFacts
  <1>2. List(r) \in Seq(Providers) /\ h.i \in Nat
    BY HandlerFacts DEF HandlerType
  <1>3. PICK a \in Seq(AttemptType) : a = h.attempts /\ a # <<>>
    BY <1>1 DEF Local, Counted, HandlerType
  <1>4. Len(a) \in 1 .. Len(a) /\ FinalProvider(r) = a[Len(a)].provider /\ a[Len(a)].provider \in Providers
    <2>1. Len(a) \in 1 .. Len(a)
      BY <1>3
    <2>2. a[Len(a)] \in AttemptType
      BY <2>1
    <2> QED BY <1>1, <1>3, <2>1, <2>2 DEF FinalProvider, Last, AttemptType
  <1>5. h.j \in 1 .. Len(List(r)) /\ h.i + 1 <= h.j /\ h.j \in h.i + 1 .. Len(List(r))
    BY <1>1, <1>2 DEF Local, Indexed
  <1>6. Rank(a[Len(a)].provider) < Rank(List(r)[h.j])
    BY <1>1, <1>3, <1>4, <1>5 DEF Local, Ordered, Open
  <1>7. Rank(a[Len(a)].provider) \in Int
    <2>1. PICK n \in 1 .. Len(Priority) : a[Len(a)].provider = Priority[n]
      BY SMTT(40), <1>4, StreamAssumption DEF Providers, ToSet
    <2> QED BY <2>1, RankIsPlace
  <1> QED BY <1>1, <1>4, <1>6, <1>7

\* The abstract state, by request.
LEMMA WireFacts ==
    ASSUME HandlersInv, NEW r \in Requests
    PROVE  /\ s[r].pc # "done" => Wire!Open(r) = (s[r].wire # <<>> /\ Last(s[r].wire).event # "truncated")
           /\ Wire!SinceFailover([q \in Requests |-> s[q].wire][r]) = Wire!SinceFailover(s[r].wire)
           /\ Wire!Delivered([q \in Requests |-> s[q].wire][r]) = Wire!Delivered(s[r].wire)
  BY DEF Wire!Open, Wire!Last, Last

\* A step that writes nothing and does not end the stream is no step of the protocol.
LEMMA NothingSent ==
    ASSUME HandlersInv, NEW r \in Requests, Moves(r), s'[r].wire = s[r].wire,
           s'[r].pc = "done" <=> s[r].pc = "done"
    PROVE  UNCHANGED Wire!vars
  <1>1. \A q \in Requests : s'[q].wire = s[q].wire /\ (s'[q].pc = "done" <=> s[q].pc = "done")
    BY DEF Moves
  <1>2. [q \in Requests |-> s'[q].wire] = [q \in Requests |-> s[q].wire]
    BY <1>1
  <1>3. [q \in Requests |-> s'[q].pc = "done"] = [q \in Requests |-> s[q].pc = "done"]
    BY <1>1
  <1> QED BY <1>2, <1>3 DEF Wire!vars

\* A step that writes one event to r, and one that writes two.
LEMMA EventsSent ==
    ASSUME HandlersInv, NEW r \in Requests, Moves(r), s[r].pc # "done", s'[r].pc # "done",
           NEW e \in EventType
    PROVE  /\ s'[r].wire = Append(s[r].wire, e) => Wire!Writes(r, 1) /\ Wire!Sent(r, 1) = e
           /\ \A c \in EventType : s'[r].wire = Append(Append(s[r].wire, e), c)
                 => Wire!Writes(r, 2) /\ Wire!Sent(r, 1) = e /\ Wire!Sent(r, 2) = c
  <1>1. PICK w \in Seq(EventType) : w = s[r].wire
    BY HandlerFacts DEF HandlerType
  <1>2. PICK v : v = s'[r].wire
    OBVIOUS
  <1>3. \A q \in Requests \ {r} : s'[q] = s[q]
    BY DEF Moves
  <1>4. [q \in Requests |-> s'[q].pc = "done"] = [q \in Requests |-> s[q].pc = "done"]
    <2>1. \A q \in Requests : s'[q].pc = "done" <=> s[q].pc = "done"
      BY <1>3
    <2> QED BY <2>1
  <1>5. ASSUME NEW n \in Nat, Len(v) = Len(w) + n, \A x \in DOMAIN w : v[x] = w[x]
        PROVE  Wire!Writes(r, n)
    BY <1>1, <1>2, <1>3, <1>4, <1>5 DEF Wire!Writes
  <1>6. \A n : Wire!Sent(r, n) = v[Len(w) + n]
    BY <1>1, <1>2 DEF Wire!Sent
  <1>7. ASSUME v = Append(w, e) PROVE Wire!Writes(r, 1) /\ Wire!Sent(r, 1) = e
    <2>1. Len(v) = Len(w) + 1 /\ v[Len(w) + 1] = e /\ \A x \in DOMAIN w : v[x] = w[x]
      BY <1>7
    <2> QED BY <1>5, <1>6, <2>1
  <1>8. ASSUME NEW c \in EventType, v = Append(Append(w, e), c)
        PROVE  Wire!Writes(r, 2) /\ Wire!Sent(r, 1) = e /\ Wire!Sent(r, 2) = c
    <2>1. /\ Len(v) = Len(w) + 2 /\ v[Len(w) + 1] = e /\ v[Len(w) + 2] = c
          /\ \A x \in DOMAIN w : v[x] = w[x]
      BY <1>8
    <2> QED BY <1>5, <1>6, <2>1
  <1> QED BY <1>1, <1>2, <1>7, <1>8

\* An attempt begins: its gateway_status is the first event.
LEMMA BeginSent ==
    ASSUME HandlersInv, ShownInv, SentInv, NEW r \in Requests, UseClaim(r) \/ AskBreaker(r)
    PROVE  Phrased(s'[r]) /\ (Wire!Next \/ UNCHANGED Wire!vars)
  <1>1. PICK h \in HandlerType : h = s[r] /\ Phrased(h) /\ Shown(h) /\ h.wire \in Seq(EventType)
    BY HandlerFacts DEF SentInv, ShownInv, HandlerType
  <1>2. PICK g : g = s'[r]
    OBVIOUS
  <1>3. /\ Moves(r) /\ Cur(r) \in Providers /\ h.pc = "loop" /\ ~IsOver(h) /\ ~Screen(h.wire).notice
        /\ \/ g.pc = "attempt" /\ g.attempts # <<>>
           \/ g.pc = "loop" /\ g.attempts = h.attempts /\ g.wire = h.wire
    BY <1>1, <1>2, LoopMoves DEF Begins, Still, IsOver, Shown, Told
  <1>4. PICK e \in EventType : e = Status(Cur(r)) /\ e.event = "status"
    <2>1. Status(Cur(r)) \in EventType /\ Status(Cur(r)).event = "status"
      BY <1>3 DEF Status, Event, EventType, Reasons, Outcomes
    <2> QED BY <2>1
  <1>5. CASE g.pc = "attempt" /\ h.attempts = <<>>
    <2>1. g.wire = Append(h.wire, e) /\ g.attempts # <<>>
      BY <1>1, <1>2, <1>3, <1>4, <1>5, StatusMoves
    <2>2. Append(h.wire, e) # <<>>
      BY <1>1
    <2>3. Phrased(g)
      BY <1>1, <1>3, <1>4, <1>5, <2>1, <2>2, AgreedAppend DEF Phrased
    <2>4. Wire!Writes(r, 1) /\ Wire!Sent(r, 1) = e
      BY <1>1, <1>2, <1>3, <1>5, <2>1, EventsSent
    <2>5. s[r].wire = <<>> /\ s[r].pc # "done"
      BY <1>1, <1>3, <1>5 DEF Phrased
    <2>6. Wire!SendStatus(r)
      BY <1>4, <2>4, <2>5 DEF Wire!SendStatus
    <2> QED BY <1>2, <2>3, <2>6 DEF Wire!Next
  <1>6. CASE g.wire = h.wire /\ (g.attempts = <<>> <=> h.attempts = <<>>) /\ g.pc \in {"attempt", "loop"}
    <2>1. Phrased(g)
      BY <1>1, <1>3, <1>6 DEF Phrased
    <2>2. UNCHANGED Wire!vars
      BY <1>1, <1>2, <1>3, <1>6, NothingSent
    <2> QED BY <1>2, <2>1, <2>2
  <1> QED BY <1>1, <1>2, <1>3, <1>5, <1>6, StatusMoves

\* Content, which comes after it.
LEMMA ContentSent ==
    ASSUME HandlersInv, ShownInv, SentInv, NEW r \in Requests, NEW n \in Counts, Forward(r, n)
    PROVE  Phrased(s'[r]) /\ Wire!Next
  <1>1. PICK h \in HandlerType : /\ h = s[r] /\ Phrased(h) /\ Shown(h) /\ h.wire \in Seq(EventType)
                                 /\ Local(h, Allowlist[KeyOf[r]], List(r))
    BY HandlerFacts DEF SentInv, ShownInv, HandlerType
  <1>2. PICK g : g = s'[r]
    OBVIOUS
  <1>3. n \in Nat /\ n > 0
    BY StreamAssumption
  <1>4. /\ Moves(r) /\ h.pc = "attempt" /\ g.pc = "attempt" /\ g.attempts = h.attempts
        /\ g.wire = Append(h.wire, Content(n))
    BY <1>1, <1>2, <1>3, FrameMoves
  <1>5. PICK e \in EventType : e = Content(n) /\ e.event = "content" /\ e.n = n
    <2>1. Content(n) \in EventType /\ Content(n).event = "content" /\ Content(n).n = n
      BY <1>3 DEF Content, Event, EventType, Reasons, Outcomes
    <2> QED BY <2>1
  <1>6. h.attempts # <<>> /\ h.wire # <<>> /\ Agreed(h.wire) /\ ~Screen(h.wire).notice
    BY <1>1, <1>4 DEF Local, Counted, Phrased, Shown, Told, IsOver
  <1>7. Append(h.wire, e) # <<>>
    BY <1>1
  <1>8. Phrased(g)
    BY <1>1, <1>4, <1>5, <1>6, <1>7, AgreedAppend DEF Phrased
  <1>9. Wire!Writes(r, 1) /\ Wire!Sent(r, 1) = e
    BY <1>1, <1>2, <1>4, <1>5, EventsSent
  <1>10. Wire!Open(r)
    <2>1. Last(h.wire).event # "truncated"
      BY <1>1, <1>4, <1>6 DEF Local, Untruncated, Last
    <2> QED BY <1>1, <1>4, <1>6, <2>1, WireFacts
  <1>11. Wire!SendContent(r)
    BY <1>3, <1>5, <1>9, <1>10 DEF Wire!SendContent
  <1> QED BY <1>2, <1>8, <1>11 DEF Wire!Next

\* gateway_failover and gateway_regenerating: the first counts the superseded attempt.
LEMMA FailoverSent ==
    ASSUME HandlersInv, ShownInv, SentInv, NEW r \in Requests, Failover(r)
    PROVE  Phrased(s'[r]) /\ Wire!Next
  <1>1. PICK h \in HandlerType : /\ h = s[r] /\ Phrased(h) /\ Shown(h) /\ h.wire \in Seq(EventType)
                                 /\ Local(h, Allowlist[KeyOf[r]], List(r))
    BY HandlerFacts DEF SentInv, ShownInv, HandlerType
  <1>2. PICK g : g = s'[r]
    OBVIOUS
  <1>3. Moves(r) /\ h.pc = "failover" /\ g.pc = "loop" /\ g.attempts = h.attempts /\ h.attempts # <<>>
    BY <1>1, <1>2, FailoverMoves
  <1>4. PICK e \in EventType : /\ e = FailoverEvent(r) /\ e.event = "failover"
                               /\ g.wire = Append(Append(h.wire, e), Regenerating)
    BY <1>1, <1>2, FailoverMoves
  <1>5. PICK c \in EventType : c = Regenerating /\ c.event = "regenerating"
    <2>1. Regenerating \in EventType /\ Regenerating.event = "regenerating"
      BY DEF Regenerating, Event, EventType, Reasons, Outcomes
    <2> QED BY <2>1
  <1>6. h.wire # <<>> /\ Agreed(h.wire) /\ ~Screen(h.wire).notice /\ h.reason \in FailureReasons
    BY <1>1, <1>3 DEF Phrased, Shown, Told, IsOver
  <1>7. Append(Append(h.wire, e), c) # <<>>
    BY <1>1
  <1>8. Phrased(g)
    <2>1. Agreed(Append(Append(h.wire, e), c))
      BY <1>1, <1>4, <1>5, <1>6, AgreedAppend
    <2> QED BY <1>3, <1>4, <1>5, <1>7, <2>1 DEF Phrased
  <1>9. Wire!Writes(r, 2) /\ Wire!Sent(r, 1) = e /\ Wire!Sent(r, 2) = c
    BY <1>1, <1>2, <1>3, <1>4, <1>5, EventsSent
  <1>10. Wire!Open(r)
    <2>1. Last(h.wire).event # "truncated"
      BY <1>1, <1>3, <1>6 DEF Local, Untruncated, Last
    <2> QED BY <1>1, <1>3, <1>6, <2>1, WireFacts
  <1>11. /\ e.provider = FinalProvider(r) /\ e.to = List(r)[h.j]
         /\ e.n = h.tokens /\ e.reason = h.reason
    BY <1>1, <1>4 DEF FailoverEvent, Event
  <1>12. e.reason \in FailureReasons /\ e.provider # e.to
    BY <1>1, <1>3, <1>6, <1>11, FailoverLeaves
  <1>13. Reports = {} => e.n = Wire!SinceFailover(h.wire)
    BY <1>1, <1>3, <1>6, <1>11 DEF Agreed, Shown, Visible
  <1>14. Wire!SendFailover(r)
    BY <1>1, <1>4, <1>5, <1>9, <1>10, <1>12, <1>13, WireFacts
       DEF Wire!SendFailover, Wire!FailoverReasons, FailureReasons
  <1> QED BY <1>2, <1>8, <1>14 DEF Wire!Next

\* gateway_truncated, which counts all that was delivered.
LEMMA TruncationSent ==
    ASSUME HandlersInv, ShownInv, SentInv, NEW r \in Requests, Truncate(r)
    PROVE  Phrased(s'[r]) /\ Wire!Next
  <1>1. PICK h \in HandlerType : /\ h = s[r] /\ Phrased(h) /\ Shown(h) /\ h.wire \in Seq(EventType)
                                 /\ Local(h, Allowlist[KeyOf[r]], List(r))
    BY HandlerFacts DEF SentInv, ShownInv, HandlerType
  <1>2. PICK g : g = s'[r]
    OBVIOUS
  <1>3. Moves(r) /\ h.pc = "truncate" /\ g.pc = "release"
    BY <1>1, <1>2, TruncateMoves
  <1>4. PICK e \in EventType : /\ e = Event("truncated", None, None, h.total, h.reason)
                               /\ e.event = "truncated" /\ g.wire = Append(h.wire, e)
    BY <1>1, <1>2, TruncateMoves
  <1>5. Agreed(h.wire) /\ h.reason \in {"all_providers_exhausted", "budget_exceeded"}
    BY <1>1, <1>3 DEF Phrased, IsOver
  <1>6. Phrased(g)
    BY <1>3 DEF Phrased, IsOver
  <1>7. Wire!Writes(r, 1) /\ Wire!Sent(r, 1) = e
    BY <1>1, <1>2, <1>3, <1>4, EventsSent
  <1>8. h.wire = <<>> \/ Wire!Open(r)
    <2>1. h.wire = <<>> \/ Last(h.wire).event # "truncated"
      BY <1>1, <1>3 DEF Local, Untruncated, Last
    <2> QED BY <1>1, <1>3, <2>1, WireFacts
  <1>9. e.n = h.total /\ e.reason = h.reason
    BY <1>4 DEF Event
  <1>10. Reports = {} => e.n = Wire!Delivered(h.wire)
    BY <1>1, <1>5, <1>9 DEF Agreed, Shown, Visible
  <1>11. Wire!SendTruncated(r)
    BY <1>1, <1>3, <1>4, <1>5, <1>7, <1>8, <1>9, <1>10, WireFacts
       DEF Wire!SendTruncated, Wire!TruncatedReasons
  <1> QED BY <1>2, <1>6, <1>11 DEF Wire!Next

\* The session is released: the stream is closed.
LEMMA ReleaseSent ==
    ASSUME HandlersInv, NEW r \in Requests, Release(r)
    PROVE  Phrased(s'[r]) /\ Wire!Next
  <1>1. Moves(r) /\ s[r].pc = "release" /\ s'[r].pc = "done" /\ s'[r].wire = s[r].wire
    BY PassMoves DEF Still, Release
  <1>2. Phrased(s'[r])
    BY <1>1 DEF Phrased, IsOver
  <1>3. \A q \in Requests \ {r} : s'[q] = s[q]
    BY <1>1 DEF Moves
  <1>4. [q \in Requests |-> s'[q].wire] = [q \in Requests |-> s[q].wire]
    BY <1>1, <1>3
  <1>5. [q \in Requests |-> s'[q].pc = "done"] = [[q \in Requests |-> s[q].pc = "done"] EXCEPT ![r] = TRUE]
    <2>1. \A q \in Requests \ {r} : s'[q].pc = "done" <=> s[q].pc = "done"
      BY <1>3
    <2> QED BY <1>1, <2>1
  <1>6. Wire!Close(r)
    BY <1>1, <1>4, <1>5 DEF Wire!Close
  <1> QED BY <1>2, <1>6 DEF Wire!Next

\* A handler's step is a step of the protocol, or none.
LEMMA HandlerSent ==
    ASSUME HandlersInv, ShownInv, SentInv, NEW r \in Requests, Handler(r)
    PROVE  Phrased(s'[r]) /\ (Wire!Next \/ UNCHANGED Wire!vars)
  <1>1. PICK h : h = s[r] /\ Local(h, Allowlist[KeyOf[r]], List(r)) /\ Phrased(h)
    BY HandlerFacts DEF SentInv
  <1>2. PICK g : g = s'[r]
    OBVIOUS
  <1>3. ASSUME Moves(r), g.wire = h.wire, g.pc # "done", h.pc # "done", Phrased(g)
        PROVE  Phrased(s'[r]) /\ UNCHANGED Wire!vars
    BY <1>1, <1>2, <1>3, NothingSent
  <1>4. CASE Arrive(r) \/ CheckBudget(r) \/ Admit(r)
    <2>1. /\ Moves(r) /\ h.pc \in {"idle", "budget", "limit"}
          /\ g.pc \in {"budget", "limit", "rejected", "loop"}
          /\ g.attempts = h.attempts /\ g.wire = h.wire
      BY <1>1, <1>2, <1>4, AdmissionMoves DEF Still
    <2>2. Phrased(g)
      BY <1>1, <2>1 DEF Phrased, IsOver
    <2> QED BY <1>3, <2>1, <2>2
  <1>5. CASE UseClaim(r) \/ AskBreaker(r)
    BY <1>5, BeginSent
  <1>6. CASE ListEnds(r) \/ Scan(r) \/ ScanEnds(r) \/ ClaimNext(r)
    <2>1. /\ Moves(r) /\ g.attempts = h.attempts /\ g.wire = h.wire
          /\ h.pc \in {"loop", "scan", "claim"}
          /\ g.pc \in {"truncate", "release", "scan", "claim", "failover"}
          /\ h.pc = "loop" => g.pc \in {"truncate", "release"}
      <3>1. CASE ClaimNext(r)
        BY <1>1, <1>2, <3>1, ClaimMoves
      <3>2. CASE ListEnds(r) \/ Scan(r) \/ ScanEnds(r)
        <4>1. h.pc \in {"loop", "scan"}
          BY <1>1, <3>2 DEF ListEnds, Scan, ScanEnds
        <4> QED BY <1>1, <1>2, <3>2, <4>1, PassMoves DEF Still
      <3> QED BY <1>6, <3>1, <3>2
    <2>2. /\ g.pc = "truncate" => g.reason = "all_providers_exhausted"
          /\ g.pc \in {"scan", "claim", "failover"} => g.reason = h.reason
      BY <1>1, <1>2, <1>6, PassReason
    <2>3. Phrased(g)
      BY <1>1, <2>1, <2>2 DEF Phrased, IsOver
    <2> QED BY <1>3, <2>1, <2>3
  <1>7. CASE Failover(r)
    BY <1>7, FailoverSent
  <1>8. CASE Truncate(r)
    BY <1>8, TruncationSent
  <1>9. CASE Release(r)
    BY <1>9, ReleaseSent
  <1>10. CASE AttemptStep(r)
    <2>1. ASSUME NEW n \in Counts, Forward(r, n) PROVE Phrased(s'[r]) /\ Wire!Next
      BY <2>1, ContentSent
    <2>2. ASSUME NEW n \in Reports, Usage(r, n) PROVE Phrased(s'[r]) /\ UNCHANGED Wire!vars
      <3>1. n \in Nat
        BY StreamAssumption
      <3>2. /\ Moves(r) /\ h.pc = "attempt" /\ g.pc = "attempt" /\ g.wire = h.wire
            /\ g.attempts = h.attempts
        BY <1>1, <1>2, <2>2, <3>1, FrameMoves
      <3>3. Phrased(g)
        BY <1>1, <3>2 DEF Phrased, IsOver
      <3> QED BY <1>3, <3>2, <3>3
    <2>3. ASSUME NEW o, NEW pc \in {"truncate", "scan", "release"}, Moves(r), Ends(r, o, pc),
                 pc = "truncate" => g.reason = "budget_exceeded",
                 pc = "scan" => g.reason \in FailureReasons
          PROVE  Phrased(s'[r]) /\ UNCHANGED Wire!vars
      <3>1. /\ h.pc = "attempt" /\ g.pc = pc /\ g.wire = h.wire
            /\ h.attempts # <<>> /\ g.attempts # <<>>
        BY <1>1, <1>2, <2>3 DEF Ends
      <3>2. Phrased(g)
        BY <1>1, <2>3, <3>1 DEF Phrased, IsOver
      <3> QED BY <1>3, <2>3, <3>1, <3>2
    <2>4. ASSUME NEW why \in FailureReasons, s[r].pc = "attempt", Failed(r, why)
          PROVE  Phrased(s'[r]) /\ UNCHANGED Wire!vars
      <3>1. g.reason \in FailureReasons
        BY <1>2, <2>4, EndReason
      <3>2. Moves(r) /\ Ends(r, why, "scan")
        BY <2>4, OutcomeMoves
      <3> QED BY <2>3, <3>1, <3>2
    <2>5. CASE \E n \in Counts : WriteError(r, n)
      <3>1. s[r].pc = "attempt" /\ Failed(r, "dead_socket") /\ "dead_socket" \in FailureReasons
        BY <2>5 DEF WriteError, FailureReasons
      <3> QED BY <2>4, <3>1
    <2>6. CASE \E why \in Failures : Break(r, why)
      <3>1. PICK why \in FailureReasons : s[r].pc = "attempt" /\ Failed(r, why)
        BY <2>6, StreamAssumption DEF Break
      <3> QED BY <2>4, <3>1
    <2>7. CASE OverBudget(r)
      <3>1. s[r].pc = "attempt"
        BY <2>7 DEF OverBudget
      <3>2. g.reason = "budget_exceeded"
        BY <1>2, <2>7, <3>1, EndReason
      <3>3. Moves(r) /\ Ends(r, "budget_exceeded", "truncate")
        BY <2>7, OutcomeMoves
      <3> QED BY <2>3, <3>2, <3>3
    <2>8. CASE Finish(r)
      <3>1. Moves(r) /\ Ends(r, "success", "release")
        BY <2>8, OutcomeMoves
      <3> QED BY <2>3, <3>1
    <2>9. CASE Cancelled(r)
      <3>1. s[r].ctx = "forced" \/ s[r].ctx = "client"
        BY <2>9 DEF Cancelled
      <3>2. Moves(r) /\ (Ends(r, "shutdown", "release") \/ Ends(r, "client_cancelled", "release"))
        BY <2>9, <3>1, OutcomeMoves
      <3> QED BY <2>3, <3>2
    <2> QED BY <1>10, <2>1, <2>2, <2>5, <2>6, <2>7, <2>8, <2>9 DEF AttemptStep
  <1> QED BY <1>4, <1>5, <1>6, <1>7, <1>8, <1>9, <1>10 DEF Handler

\* Every step keeps the invariant and is a step of the protocol, or none.
LEMMA NextSent ==
    HandlersInv /\ ShownInv /\ SentInv /\ [Next]_vars => SentInv' /\ [Wire!Next]_(Wire!vars)
  <1> SUFFICES ASSUME HandlersInv, ShownInv, SentInv, [Next]_vars
               PROVE  SentInv' /\ (Wire!Next \/ UNCHANGED Wire!vars)
    OBVIOUS
  <1>1. ASSUME NEW r \in Requests, Moves(r), Phrased(s'[r]) PROVE SentInv'
    BY <1>1 DEF SentInv, Moves
  <1>2. CASE \E r \in Requests : Handler(r)
    BY <1>1, <1>2, HandlerMoves, HandlerSent
  <1>3. CASE \E r \in Requests : ClientLeaves(r) \/ ForceClose(r)
    <2>1. PICK r \in Requests : ClientLeaves(r) \/ ForceClose(r)
      BY <1>3
    <2>2. /\ Moves(r) /\ s'[r].pc = s[r].pc /\ s'[r].attempts = s[r].attempts
          /\ s'[r].wire = s[r].wire /\ s'[r].reason = s[r].reason
      BY <2>1, CancelMoves, CancelReason DEF Still
    <2>3. Phrased(s[r])
      BY DEF SentInv
    <2>4. Phrased(s'[r])
      BY <2>2, <2>3 DEF Phrased, IsOver
    <2>5. UNCHANGED Wire!vars
      BY <2>2, NothingSent
    <2> QED BY <1>1, <2>2, <2>4, <2>5
  <1>4. CASE UNCHANGED s
    BY <1>4 DEF SentInv, Wire!vars
  <1> QED BY <1>2, <1>3, <1>4
      DEF Next, Environment, BeginShutdown, ResetExpired, Slide, Tick, AllServed, vars

\* Nothing was written initially.
LEMMA InitSent == Init => SentInv /\ Wire!Init
  <1> SUFFICES ASSUME Init PROVE SentInv /\ Wire!Init
    OBVIOUS
  <1>1. \A r \in Requests : s[r].pc = "idle" /\ s[r].wire = <<>> /\ s[r].attempts = <<>>
    BY DEF Init, NewHandler
  <1>2. Wire!Init
    BY <1>1 DEF Wire!Init
  <1>3. Agreed(<<>>)
    <2>1. Screen(<<>>) = Blank
      <3>1. <<>> \in Seq(EventType)
        OBVIOUS
      <3> QED BY <3>1, ScreenAppend
    <2>2. Blank.block = 0 /\ Blank.above = 0
      BY DEF Blank
    <2>3. Screen(<<>>).block = 0 /\ Screen(<<>>).above = 0
      BY <2>1, <2>2
    <2> QED BY <2>3, TallyEmpty DEF Agreed
  <1>4. SentInv
    BY <1>1, <1>3 DEF SentInv, Phrased
  <1> QED BY <1>2, <1>4

\* The gateway keeps its promise to every client, for any number of requests, keys and
\* providers and however their handlers interleave: gateway_status comes first and once,
\* content only after it, every failover leaves the provider it names for another, with
\* its two events together and the tokens of the superseded attempt alone,
\* gateway_truncated comes last and counts all that was delivered, and nothing is written
\* after the end.
THEOREM StreamKeepsProtocol == Spec => ImplementsWireProtocol
  <1>1. Spec => []HandlersInv
    BY HandlersAlways
  <1>2. Spec => []ShownInv
    BY InitShown, NextShown, HandlersAlways, PTL DEF Spec
  <1>3. Init => SentInv /\ Wire!Init
    BY InitSent
  <1>4. HandlersInv /\ ShownInv /\ SentInv /\ [Next]_vars => SentInv' /\ [Wire!Next]_(Wire!vars)
    BY NextSent
  <1> QED BY <1>1, <1>2, <1>3, <1>4, PTL DEF Spec, ImplementsWireProtocol, Wire!Spec

=============================================================================
