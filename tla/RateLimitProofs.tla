-------------------------- MODULE RateLimitProofs --------------------------
(***************************************************************************)
(* For every number of connections, window, limit and chunk size: the      *)
(* limiter's list is exact for the current window although the times that  *)
(* Admit and Add are given may be old and out of order.                    *)
(***************************************************************************)
EXTENDS RateLimit, SumTheorems, TLAPS

\* TypeOK bounds every time a handler holds by the clock, which is what keeps a
\* call from pruning an event that is still in the window.
IndInv == TypeOK /\ WindowIsExact

\* Pruning at a time that is not in the future keeps the current window and its type.
LEMMA PrunedKeepsWindow ==
    ASSUME TypeOK, NEW n \in 0 .. clock
    PROVE  /\ Pruned(n) \in [Instants -> Nat]
           /\ \A t \in Instants : t > clock - Window => Pruned(n)[t] = events[t]
  <1> USE RateLimitAssumption DEF TypeOK, Instants
  <1>1. Pruned(n) \in [Instants -> Nat]
    BY DEF Pruned
  <1>2. ASSUME NEW t \in Instants, t > clock - Window PROVE Pruned(n)[t] = events[t]
    <2>1. AfterCutoff(t, n) BY <1>2 DEF AfterCutoff
    <2> QED BY <2>1 DEF Pruned
  <1> QED BY <1>1, <1>2

\* A new limiter satisfies the inductive invariant.
LEMMA InitInv == Init => IndInv
  BY RateLimitAssumption DEF Init, IndInv, TypeOK, WindowIsExact, Nothing, Instants

\* Every call, every end of a request and the passing of time preserve it.
LEMMA NextInv == IndInv /\ [Next]_vars => IndInv'
  <1> SUFFICES ASSUME IndInv, [Next]_vars PROVE IndInv'
    OBVIOUS
  <1> USE RateLimitAssumption DEF IndInv, Instants
  <1>1. ASSUME NEW r \in Slots, Arrive(r) PROVE IndInv'
    BY <1>1 DEF Arrive, Goto, TypeOK, WindowIsExact
  <1>2. ASSUME NEW r \in Slots, Admit(r) PROVE IndInv'
    <2>1. now[r] \in 0 .. clock BY DEF TypeOK
    <2>2. /\ Pruned(now[r]) \in [Instants -> Nat]
          /\ \A t \in Instants : t > clock - Window => Pruned(now[r])[t] = events[t]
      BY <2>1, PrunedKeepsWindow
    <2>3. TypeOK'
      <3>0. PICK l \in {"stream", "idle"} : Return(r, l)
        BY <1>2, Zenon DEF Admit
      <3>1. /\ pc' \in [Slots -> {"idle", "admit", "stream", "add"}]
            /\ now' \in [Slots -> 0 .. clock] /\ arg' \in [Slots -> Nat]
        BY <3>0 DEF Return, Goto, TypeOK
      <3>2. since' \in Nat /\ events' \in [Instants -> Nat] /\ UNCHANGED <<clock, delivered, sold>>
        BY SMTT(40), <1>2, <2>2 DEF Admit, TypeOK
      <3> QED BY <3>1, <3>2 DEF TypeOK
    <2>4. WindowIsExact' BY <1>2, <2>2 DEF Admit, WindowIsExact
    <2> QED BY <2>3, <2>4
  <1>3. ASSUME NEW r \in Slots, NEW n \in Chunks, Deliver(r, n) PROVE IndInv'
    <2>1. n \in Nat /\ delivered[r] \in Nat /\ clock \in Instants /\ clock \in 0 .. clock
      BY RateLimitAssumption DEF TypeOK, Instants
    <2>2. delivered[r] + n \in 0 .. MaxTokens BY <1>3, <2>1, RateLimitAssumption DEF Deliver
    <2>3. delivered' \in [Slots -> 0 .. MaxTokens] BY <1>3, <2>2 DEF Deliver, TypeOK
    <2>4. now' \in [Slots -> 0 .. clock] /\ arg' \in [Slots -> Nat]
      BY <1>3, <2>1 DEF Deliver, TypeOK
    <2>5. pc' \in [Slots -> {"idle", "admit", "stream", "add"}]
      BY <1>3 DEF Deliver, Goto, TypeOK
    <2>6. UNCHANGED <<clock, events, sold, since>> BY <1>3 DEF Deliver
    <2>7. TypeOK' BY <2>3, <2>4, <2>5, <2>6 DEF TypeOK
    <2>8. WindowIsExact' BY <2>6 DEF WindowIsExact
    <2> QED BY <2>7, <2>8
  <1>4. ASSUME NEW r \in Slots, Add(r) PROVE IndInv'
    <2>1. now[r] \in 0 .. clock /\ now[r] \in Instants /\ arg[r] \in Nat BY DEF TypeOK
    <2>2. /\ Pruned(now[r]) \in [Instants -> Nat]
          /\ \A t \in Instants : t > clock - Window => Pruned(now[r])[t] = events[t]
      BY <2>1, PrunedKeepsWindow
    <2>3. TypeOK'
      <3>1. events' \in [Instants -> Nat]
        <4>1. Pruned(now[r])[now[r]] + arg[r] \in Nat BY <2>1, <2>2
        <4> QED BY <1>4, <2>2, <4>1 DEF Add
      <3>2. sold' \in [Instants -> Nat] BY SMTT(40), <1>4, <2>1 DEF Add, TypeOK
      <3>3. /\ pc' \in [Slots -> {"idle", "admit", "stream", "add"}]
            /\ now' \in [Slots -> 0 .. clock] /\ arg' \in [Slots -> Nat]
        BY SMTT(40), <1>4 DEF Add, Return, Goto, TypeOK
      <3>4. since' \in Nat BY SMTT(40), <1>4, <2>1 DEF Add, TypeOK
      <3> QED BY <1>4, <3>1, <3>2, <3>3, <3>4 DEF Add, TypeOK
    <2>4. ASSUME NEW t \in Instants, t > clock - Window PROVE events'[t] = sold'[t]
      <3>1. Pruned(now[r])[t] = sold[t] BY <2>2, <2>4 DEF WindowIsExact
      <3> QED BY <1>4, <2>1, <2>2, <3>1 DEF Add, TypeOK
    <2>5. WindowIsExact' BY <1>4, <2>4 DEF Add, WindowIsExact
    <2> QED BY <2>3, <2>5
  <1>5. ASSUME NEW r \in Slots, End(r) PROVE IndInv'
    BY <1>5 DEF End, Goto, TypeOK, WindowIsExact
  <1>6. CASE Tick
    BY <1>6 DEF Tick, TypeOK, WindowIsExact
  <1>7. CASE UNCHANGED vars
    BY <1>7 DEF vars, TypeOK, WindowIsExact
  <1> QED BY <1>1, <1>2, <1>3, <1>4, <1>5, <1>6, <1>7 DEF Next, Handler

\* What the limiter stores for the window that ends now is exactly what was added
\* in it, whatever old times Admit and Add prune and append with.
THEOREM WindowStaysExact == Spec => []WindowIsExact
  <1>1. Spec => []IndInv BY InitInv, NextInv, PTL DEF Spec
  <1>2. IndInv => WindowIsExact BY DEF IndInv
  <1> QED BY <1>1, <1>2, PTL

-----------------------------------------------------------------------------
\* A handler on its way to Add carries a chunk.
ArgInv == \A r \in Slots : pc[r] = "add" => arg[r] \in Chunks

\* Sums over instants.
LEMMA InstantSum ==
    ASSUME NEW f \in [Instants -> Nat]
    PROVE  /\ SumFunction(f) \in Nat
           /\ \A e \in [Instants -> Nat] :
                /\ (\A t \in Instants : f[t] <= e[t]) => SumFunction(f) <= SumFunction(e)
                /\ \A t \in Instants : (\A x \in Instants \ {t} : e[x] = f[x]) =>
                      SumFunction(e) = SumFunction(f) + (e[t] - f[t])
  <1>1. IsFiniteSet(Instants) /\ DOMAIN f = Instants
    BY FS_Interval, RateLimitAssumption DEF Instants
  <1>2. SumFunction(f) \in Nat
    <2>1. \A t \in Instants : f[t] \in Nat OBVIOUS
    <2> QED BY <1>1, <2>1, SumNat DEF SumFunction
  <1>3. ASSUME NEW e \in [Instants -> Nat], \A t \in Instants : f[t] <= e[t]
        PROVE  SumFunction(f) <= SumFunction(e)
    <2>1. \A t \in Instants : f[t] \in Int /\ e[t] \in Int OBVIOUS
    <2>2. DOMAIN e = Instants OBVIOUS
    <2>3. SumFunctionOnSet(f, Instants) <= SumFunctionOnSet(e, Instants)
      BY <1>1, <1>3, <2>1, SumMonotone
    <2> QED BY <1>1, <2>2, <2>3 DEF SumFunction
  <1>4. ASSUME NEW e \in [Instants -> Nat], NEW t \in Instants, \A x \in Instants \ {t} : e[x] = f[x]
        PROVE  SumFunction(e) = SumFunction(f) + (e[t] - f[t])
    <2>1. \A x \in Instants : f[x] \in Int /\ e[x] \in Int OBVIOUS
    <2>2. DOMAIN e = Instants OBVIOUS
    <2>3. SumFunctionOnSet(e, Instants) = SumFunctionOnSet(f, Instants) + (e[t] - f[t])
      BY <1>1, <1>4, <2>1, SumUpdate
    <2> QED BY <1>1, <2>2, <2>3 DEF SumFunction
  <1> QED BY <1>2, <1>3, <1>4

\* A new limiter has an empty window and no requests.
LEMMA InitLoad == Init => ArgInv /\ OvershootIsLate
  <1> SUFFICES ASSUME Init PROVE ArgInv /\ OvershootIsLate
    OBVIOUS
  <1>1. ArgInv
    BY DEF Init, ArgInv
  <1>2. IsFiniteSet(Instants)
    BY FS_Interval, RateLimitAssumption DEF Instants
  <1>3. SumFunction(Recent) = 0
    <2>1. DOMAIN Recent = Instants /\ \A t \in Instants : Recent[t] = 0
      BY DEF Init, Recent, Nothing
    <2> QED BY <1>2, <2>1, SumZero DEF SumFunction
  <1> QED BY <1>1, <1>3, RateLimitAssumption DEF Init, OvershootIsLate, InWindow

\* Only Deliver brings a handler to Add.
LEMMA NextArg == ArgInv /\ TypeOK /\ [Next]_vars => ArgInv'
  BY DEF ArgInv, TypeOK, Next, Handler, Arrive, Admit, Deliver, Add, End, Tick, Return, Goto, vars

\* At an admission the window is below the limit; what enters it later is counted
\* by since.
LEMMA NextLoad == IndInv /\ OvershootIsLate /\ [Next]_vars => OvershootIsLate'
  <1> SUFFICES ASSUME IndInv, OvershootIsLate, [Next]_vars PROVE OvershootIsLate'
    OBVIOUS
  <1>1. TypeOK /\ WindowIsExact /\ TypeOK'
    BY NextInv DEF IndInv
  <1>2. Recent \in [Instants -> Nat] /\ Recent' \in [Instants -> Nat]
    BY <1>1 DEF TypeOK, Recent
  <1>3. SumFunction(Recent) \in Nat /\ SumFunction(Recent') \in Nat /\ since \in Nat /\ Limit \in Nat
    BY <1>1, <1>2, InstantSum, RateLimitAssumption DEF TypeOK
  <1>4. ASSUME UNCHANGED <<Recent, since>> PROVE OvershootIsLate'
    BY <1>4 DEF OvershootIsLate, InWindow
  <1> USE DEF TypeOK
  <1>5. ASSUME NEW r \in Slots, Arrive(r) \/ End(r) \/ \E n \in Chunks : Deliver(r, n)
        PROVE  OvershootIsLate'
    <2>1. UNCHANGED <<Recent, since>>
      BY <1>5 DEF Arrive, End, Deliver, Recent
    <2> QED BY <1>4, <2>1
  <1>6. ASSUME NEW r \in Slots, Admit(r) PROVE OvershootIsLate'
    <2>1. UNCHANGED Recent
      BY <1>6 DEF Admit, Recent
    <2>2. CASE Below(SumFunction(events')) /\ since' = 0
      <3>1. events' = Pruned(now[r]) /\ events' \in [Instants -> Nat]
        BY <1>1, <1>6 DEF Admit
      <3>2. \A t \in Instants : Recent[t] <= events'[t]
        <4>1. now[r] \in 0 .. clock BY <1>1
        <4>2. \A t \in Instants : t > clock - Window => events'[t] = sold[t]
          BY <1>1, <3>1, <4>1, PrunedKeepsWindow DEF WindowIsExact
        <4> QED BY <1>1, <3>1, <4>2 DEF Recent
      <3>3. SumFunction(Recent) <= SumFunction(events') /\ SumFunction(events') \in Nat
        BY <1>2, <3>1, <3>2, InstantSum
      <3> QED BY <1>3, <2>1, <2>2, <3>3 DEF OvershootIsLate, InWindow, Below
    <2> QED BY <1>4, <1>6, <2>1, <2>2 DEF Admit
  <1>7. ASSUME NEW r \in Slots, Add(r) PROVE OvershootIsLate'
    <2>1. /\ now[r] \in Instants /\ arg[r] \in Nat /\ since' = since + arg[r]
          /\ sold' = [sold EXCEPT ![now[r]] = sold[now[r]] + arg[r]] /\ clock' = clock
      BY <1>1, <1>7 DEF Add, Instants
    <2>2. SumFunction(Recent') = SumFunction(Recent) + (Recent'[now[r]] - Recent[now[r]])
      <3>1. \A t \in Instants \ {now[r]} : Recent'[t] = Recent[t]
        BY <1>1, <2>1 DEF Recent
      <3> QED BY <1>2, <2>1, <3>1, InstantSum
    <2>3. Recent'[now[r]] - Recent[now[r]] <= arg[r]
      BY <1>1, <2>1 DEF Recent
    <2>4. Recent'[now[r]] - Recent[now[r]] \in Int
      BY <1>2, <2>1
    <2> QED BY <1>3, <2>1, <2>2, <2>3, <2>4 DEF OvershootIsLate, InWindow
  <1>8. CASE Tick
    <2>1. since' = since
      BY <1>8 DEF Tick
    <2>2. \A t \in Instants : Recent'[t] <= Recent[t]
      BY <1>1, <1>8, RateLimitAssumption DEF Tick, Recent, Instants
    <2>3. SumFunction(Recent') <= SumFunction(Recent)
      BY <1>2, <2>2, InstantSum
    <2> QED BY <1>3, <2>1, <2>3 DEF OvershootIsLate, InWindow
  <1>9. CASE UNCHANGED vars
    BY <1>4, <1>9 DEF vars, Recent
  <1> QED BY <1>5, <1>6, <1>7, <1>8, <1>9 DEF Next, Handler

\* At every admission the window that ends now is below the limit, whatever old time
\* Admit prunes with: what is in the window above the limit was added later, by
\* requests that were admitted before.
THEOREM OvershootComesLate == Spec => []OvershootIsLate
  <1>1. Spec => []IndInv
    BY InitInv, NextInv, PTL DEF Spec
  <1> QED BY <1>1, InitLoad, NextLoad, PTL DEF Spec

-----------------------------------------------------------------------------
\* A step of the limiter is a step of the window module Stream uses, or invisible.
LEMMA StepSimulation == IndInv /\ ArgInv /\ [Next]_vars => [Rate!Next]_(Rate!vars)
  <1> SUFFICES ASSUME IndInv, ArgInv, [Next]_vars PROVE [Rate!Next]_(Rate!vars)
    OBVIOUS
  <1> DEFINE Cap(n) == IF n > Limit THEN Limit ELSE n
             total == SumFunction(events)
             in == {r \in Slots : pc[r] \in {"stream", "add"}}
  <1>1. TypeOK /\ TypeOK' /\ Limit \in Nat
    BY NextInv, RateLimitAssumption DEF IndInv
  <1>2. total \in Nat /\ total' \in Nat
    BY <1>1, InstantSum DEF TypeOK
  <1>3. ASSUME NEW r \in Slots
        PROVE  /\ Pruned(now[r]) \in [Instants -> Nat]
               /\ SumFunction(Pruned(now[r])) \in Nat
               /\ SumFunction(Pruned(now[r])) <= total
    <2>1. now[r] \in 0 .. clock /\ events \in [Instants -> Nat] BY <1>1 DEF TypeOK
    <2>2. Pruned(now[r]) \in [Instants -> Nat] BY <1>1, <2>1, PrunedKeepsWindow
    <2>3. \A t \in Instants : Pruned(now[r])[t] <= events[t] BY <2>1 DEF Pruned
    <2> QED BY <2>1, <2>2, <2>3, InstantSum
  <1>4. ASSUME UNCHANGED <<events, in>> PROVE UNCHANGED Rate!vars
    BY <1>4 DEF Rate!vars
  <1>5. ASSUME NEW r \in Slots, Arrive(r) PROVE UNCHANGED Rate!vars
    BY <1>1, <1>4, <1>5 DEF Arrive, Goto, TypeOK
  <1>6. ASSUME NEW r \in Slots, Admit(r) PROVE Rate!Next
    <2>1. total' = SumFunction(Pruned(now[r])) /\ r \notin in
      BY <1>6 DEF Admit
    <2>2. Cap(total') \in 0 .. Cap(total)
      BY <1>1, <1>2, <1>3, <2>1
    <2>3. in' = IF Cap(total') < Limit THEN in \cup {r} ELSE in
      <3>1. CASE Below(total')
        BY <1>1, <1>2, <1>6, <3>1 DEF Admit, Return, Goto, Below, TypeOK
      <3>2. CASE ~Below(total')
        BY <1>1, <1>2, <1>6, <3>2 DEF Admit, Return, Goto, Below, TypeOK
      <3> QED BY <3>1, <3>2
    <2>4. Rate!Decide(r)
      BY <2>1, <2>2, <2>3 DEF Rate!Decide
    <2> QED BY <2>4 DEF Rate!Next
  <1>7. ASSUME NEW r \in Slots, NEW n \in Chunks, Deliver(r, n) PROVE UNCHANGED Rate!vars
    BY <1>1, <1>4, <1>7 DEF Deliver, Goto, TypeOK
  <1>8. ASSUME NEW r \in Slots, Add(r) PROVE Rate!Next
    <2> DEFINE left == SumFunction(Pruned(now[r]))
    <2>1. arg[r] \in Chunks /\ arg[r] \in Nat /\ now[r] \in Instants
      BY <1>1, <1>8 DEF Add, ArgInv, TypeOK, Instants
    <2>2. total' = left + arg[r]
      <3>1. /\ events' \in [Instants -> Nat]
            /\ events'[now[r]] = Pruned(now[r])[now[r]] + arg[r]
            /\ \A t \in Instants \ {now[r]} : events'[t] = Pruned(now[r])[t]
        BY <1>1, <1>3, <1>8, <2>1 DEF Add, TypeOK
      <3>2. SumFunction(events') = left + (events'[now[r]] - Pruned(now[r])[now[r]])
        BY <1>3, <2>1, <3>1, InstantSum
      <3>3. Pruned(now[r])[now[r]] \in Nat
        BY <1>3, <2>1
      <3> QED BY <2>1, <3>1, <3>2, <3>3
    <2>3. left \in Nat /\ left <= total
      BY <1>3
    <2>4. Cap(left) \in 0 .. Cap(total) /\ Cap(total') = Cap(Cap(left) + arg[r])
      BY <1>1, <1>2, <2>1, <2>2, <2>3
    <2>5. r \in in /\ in' = in
      BY <1>1, <1>8 DEF Add, Return, Goto, TypeOK
    <2>6. Rate!Charge(r, arg[r])
      BY <2>4, <2>5 DEF Rate!Charge, Rate!Capped
    <2> QED BY <2>1, <2>6 DEF Rate!Next
  <1>9. ASSUME NEW r \in Slots, End(r) PROVE Rate!Next
    <2>1. r \in in /\ in' = in \ {r} /\ UNCHANGED events
      BY <1>1, <1>9 DEF End, Goto, TypeOK
    <2>2. Rate!Leave(r)
      BY <2>1 DEF Rate!Leave
    <2> QED BY <2>2 DEF Rate!Next
  <1>10. CASE Tick
    BY <1>4, <1>10 DEF Tick
  <1>11. CASE UNCHANGED vars
    BY <1>4, <1>11 DEF vars
  <1> QED BY <1>5, <1>6, <1>7, <1>8, <1>9, <1>10, <1>11 DEF Next, Handler

\* What module Stream takes the limiter to do is what the limiter does, although
\* Admit and Add work with times that are old when they get the lock.
THEOREM LimiterIsWindow == Spec => ImplementsWindow
  <1>1. Init => Rate!Init
    <2> SUFFICES ASSUME Init PROVE Rate!Init
      OBVIOUS
    <2>1. IsFiniteSet(Instants)
      BY FS_Interval, RateLimitAssumption DEF Instants
    <2>2. DOMAIN events = Instants /\ \A t \in Instants : events[t] = 0
      BY DEF Init, Nothing
    <2>3. SumFunction(events) = 0
      BY <2>1, <2>2, SumZero DEF SumFunction
    <2> QED BY <2>3, RateLimitAssumption DEF Init, Rate!Init
  <1>2. Spec => [](IndInv /\ ArgInv)
    <2>1. Spec => []IndInv
      BY InitInv, NextInv, PTL DEF Spec
    <2>2. IndInv => TypeOK
      BY DEF IndInv
    <2>3. Spec => []ArgInv
      BY <2>1, <2>2, InitLoad, NextArg, PTL DEF Spec
    <2> QED BY <2>1, <2>3, PTL
  <1> QED BY <1>1, <1>2, StepSimulation, PTL DEF Spec, ImplementsWindow, Rate!Spec
=============================================================================
