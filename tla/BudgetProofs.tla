---------------------------- MODULE BudgetProofs ----------------------------
(***************************************************************************)
(* For every number of handlers, budget and chunk size: the lock-free      *)
(* token account keeps its types, never passes the budget and implements   *)
(* the atomic account.                                                     *)
(***************************************************************************)
EXTENDS Budget, SumTheorems, TLAPS

\* What a handler inside a call knows: a reservation about to be swapped in was
\* found to fit the loaded value, and a release gives back what the attempt holds.
CallInv == \A h \in Handlers :
    /\ pc[h] \in {"loadReserve", "casReserve"} => arg[h] \in Chunks
    /\ pc[h] \in {"loadRelease", "casRelease"} => arg[h] = held[h]
    /\ pc[h] = "casReserve" => Fits(seen[h], arg[h])

\* The inductive invariant behind the theorems of this module.
IndInv == TypeOK /\ UsedWithinBudget /\ CallInv

-----------------------------------------------------------------------------
\* Release never makes the account negative and never increases it.
LEMMA ReducedBounds ==
    ASSUME NEW u \in Nat, NEW n \in Nat
    PROVE  Reduced(u, n) \in Nat /\ Reduced(u, n) <= u
  BY DEF Reduced

\* A reservation of a chunk never wraps around.
LEMMA PlusExact ==
    ASSUME NEW u \in Nat, u <= TokenBudget, NEW n \in Chunks
    PROVE  Plus(u, n) = u + n
  BY BudgetAssumption DEF Plus

\* A fresh key satisfies the inductive invariant.
LEMMA InitInv == Init => IndInv
  <1> SUFFICES ASSUME Init PROVE IndInv
    OBVIOUS
  <1>1. TypeOK
    BY BudgetAssumption DEF Init, TypeOK, PCs
  <1>2. UsedWithinBudget
    BY BudgetAssumption DEF Init, UsedWithinBudget
  <1>3. CallInv
    BY DEF Init, CallInv
  <1> QED BY <1>1, <1>2, <1>3 DEF IndInv

\* Every step of a handler, of the clock and of the resetter preserves it.
LEMMA NextInv == IndInv /\ [Next]_vars => IndInv'
  <1> SUFFICES ASSUME IndInv, [Next]_vars PROVE IndInv'
    OBVIOUS
  <1> USE BudgetAssumption DEF IndInv, TypeOK, UsedWithinBudget, CallInv, PCs, Goto, Return,
                               account, clock
  <1>1. ASSUME NEW h \in Handlers, NEW n \in Chunks, CallTryReserve(h, n) PROVE IndInv'
    BY <1>1 DEF CallTryReserve
  <1>2. ASSUME NEW h \in Handlers, LoadReserve(h) PROVE IndInv'
    <2>1. TypeOK' /\ UsedWithinBudget' BY <1>2 DEF LoadReserve
    <2>2. CallInv' BY <1>2 DEF LoadReserve
    <2> QED BY <2>1, <2>2
  <1>3. ASSUME NEW h \in Handlers, CasReserve(h) PROVE IndInv'
    <2>1. arg[h] \in Chunks /\ arg[h] \in Nat BY <1>3 DEF CasReserve
    <2>2. used = seen[h] => Plus(seen[h], arg[h]) = seen[h] + arg[h]
      BY <2>1, PlusExact
    <2>3. CASE used = seen[h] /\ Return(h)
      <3>1. TypeOK' BY <1>3, <2>1, <2>2, <2>3 DEF CasReserve
      <3>2. UsedWithinBudget' BY <1>3, <2>1, <2>2, <2>3 DEF CasReserve, Fits
      <3>3. CallInv' BY <1>3, <2>1, <2>3 DEF CasReserve
      <3> QED BY <3>1, <3>2, <3>3
    <2>4. CASE used # seen[h]
      BY <1>3, <2>1, <2>4 DEF CasReserve
    <2> QED BY <1>3, <2>3, <2>4 DEF CasReserve
  <1>4. ASSUME NEW h \in Handlers, CallRelease(h) PROVE IndInv'
    BY <1>4 DEF CallRelease
  <1>5. ASSUME NEW h \in Handlers, LoadRelease(h) PROVE IndInv'
    BY <1>5 DEF LoadRelease
  <1>6. ASSUME NEW h \in Handlers, CasRelease(h) PROVE IndInv'
    <2>1. CASE used = seen[h] /\ Return(h)
      <3>1. used' \in Nat /\ used' <= used BY <1>6, <2>1, ReducedBounds DEF CasRelease
      <3>2. TypeOK' BY <1>6, <2>1, <3>1 DEF CasRelease
      <3>3. UsedWithinBudget' BY <3>1
      <3>4. CallInv' BY <1>6, <2>1 DEF CasRelease
      <3> QED BY <3>2, <3>3, <3>4
    <2>2. CASE used # seen[h]
      BY <1>6, <2>2 DEF CasRelease
    <2> QED BY <1>6, <2>1, <2>2 DEF CasRelease
  <1>7. ASSUME NEW h \in Handlers, Keep(h) PROVE IndInv'
    BY <1>7 DEF Keep
  <1>8. CASE Tick
    BY <1>8 DEF Tick
  <1>9. CASE ResetExpired
    BY <1>9 DEF ResetExpired
  <1>10. CASE UNCHANGED vars
    BY <1>10 DEF vars
  <1> QED BY <1>1, <1>2, <1>3, <1>4, <1>5, <1>6, <1>7, <1>8, <1>9, <1>10 DEF Next, Handler

\* The account is well typed in every reachable state of TryReserve, Release and
\* ResetExpired; in particular TokensUsed is never negative.
THEOREM TypeCorrect == Spec => []TypeOK
  <1>1. Spec => []IndInv BY InitInv, NextInv, PTL DEF Spec
  <1>2. IndInv => TypeOK BY DEF IndInv
  <1> QED BY <1>1, <1>2, PTL

\* TokensUsed never passes TokenBudget, although TryReserve checks the budget
\* and stores the sum in two steps.
THEOREM BudgetSafe == Spec => []UsedWithinBudget
  <1>1. Spec => []IndInv BY InitInv, NextInv, PTL DEF Spec
  <1>2. IndInv => UsedWithinBudget BY DEF IndInv
  <1> QED BY <1>1, <1>2, PTL

-----------------------------------------------------------------------------
\* A step of the code is a step of the atomic account or leaves it alone.
LEMMA StepSimulation == IndInv /\ [Next]_vars => [Atomic!Next]_(Atomic!vars)
  <1> SUFFICES ASSUME IndInv, [Next]_vars PROVE [Atomic!Next]_(Atomic!vars)
    OBVIOUS
  <1> USE BudgetAssumption DEF IndInv, TypeOK, Atomic!vars, account
  <1>1. ASSUME NEW h \in Handlers, NEW n \in Chunks, CallTryReserve(h, n)
        PROVE  UNCHANGED Atomic!vars
    BY <1>1 DEF CallTryReserve
  <1>2. ASSUME NEW h \in Handlers, LoadReserve(h) PROVE UNCHANGED Atomic!vars
    BY <1>2 DEF LoadReserve
  <1>3. ASSUME NEW h \in Handlers, CasReserve(h) PROVE [Atomic!Next]_(Atomic!vars)
    <2>1. CASE used # seen[h]
      BY <1>3, <2>1 DEF CasReserve
    <2>2. CASE used = seen[h]
      <3>1. arg[h] \in Chunks /\ Fits(seen[h], arg[h])
        BY <1>3 DEF CasReserve, CallInv
      <3>2. Plus(used, arg[h]) = used + arg[h]
        BY <3>1, PlusExact DEF UsedWithinBudget
      <3>3. Atomic!Grant(h, arg[h])
        BY <1>3, <2>2, <3>1, <3>2 DEF CasReserve, Fits, Atomic!Grant
      <3> QED BY <3>1, <3>3 DEF Atomic!Next
    <2> QED BY <2>1, <2>2
  <1>4. ASSUME NEW h \in Handlers, CallRelease(h) PROVE UNCHANGED Atomic!vars
    BY <1>4 DEF CallRelease
  <1>5. ASSUME NEW h \in Handlers, LoadRelease(h) PROVE UNCHANGED Atomic!vars
    BY <1>5 DEF LoadRelease
  <1>6. ASSUME NEW h \in Handlers, CasRelease(h) PROVE [Atomic!Next]_(Atomic!vars)
    <2>1. CASE used # seen[h]
      BY <1>6, <2>1 DEF CasRelease
    <2>2. CASE used = seen[h]
      <3>1. arg[h] = held[h]
        BY <1>6 DEF CasRelease, CallInv
      <3>2. Atomic!GiveBack(h)
        BY <1>6, <2>2, <3>1 DEF CasRelease, Reduced, Atomic!GiveBack
      <3> QED BY <3>2 DEF Atomic!Next
    <2> QED BY <2>1, <2>2
  <1>7. ASSUME NEW h \in Handlers, Keep(h) PROVE Atomic!Next
    <2>1. Atomic!Settle(h) BY <1>7 DEF Keep, Atomic!Settle
    <2> QED BY <2>1 DEF Atomic!Next
  <1>8. CASE Tick
    BY <1>8 DEF Tick
  <1>9. CASE ResetExpired
    BY <1>9 DEF ResetExpired, Atomic!Next, Atomic!Restart
  <1>10. CASE UNCHANGED vars
    BY <1>10 DEF vars
  <1> QED BY <1>1, <1>2, <1>3, <1>4, <1>5, <1>6, <1>7, <1>8, <1>9, <1>10 DEF Next, Handler

\* The compare-and-swap loops of internal/budget implement the atomic account,
\* for every number of handlers and every interleaving with the resetter.
THEOREM Linearizable == Spec => ImplementsAtomic
  <1>1. Init => Atomic!Init
    BY DEF Init, Atomic!Init
  <1>2. Spec => []IndInv
    BY InitInv, NextInv, PTL DEF Spec
  <1> QED BY <1>1, <1>2, StepSimulation, PTL DEF Spec, ImplementsAtomic, Atomic!Spec

-----------------------------------------------------------------------------
\* What an attempt reserved in this period is part of what it holds, and all of
\* it before the first reset.
FreshInv == \A h \in Handlers : fresh[h] <= held[h] /\ (resets = 0 => fresh[h] = held[h])

BooksInv == FreshInv /\ UsedIsOutstanding

\* What changing the value of one handler does to a sum over all of them.
LEMMA HandlerSum ==
    ASSUME NEW f \in [Handlers -> Nat], NEW e \in [Handlers -> Nat], NEW h \in Handlers,
           \A x \in Handlers \ {h} : e[x] = f[x]
    PROVE  /\ SumFunction(f) \in Nat /\ f[h] <= SumFunction(f)
           /\ SumFunction(e) = SumFunction(f) + (e[h] - f[h])
  <1>1. IsFiniteSet(Handlers) /\ DOMAIN f = Handlers /\ DOMAIN e = Handlers
    BY BudgetAssumption
  <1>2. \A x \in Handlers : f[x] \in Nat /\ f[x] \in Int /\ e[x] \in Int
    OBVIOUS
  <1>3. SumFunctionOnSet(f, Handlers) \in Nat /\ f[h] <= SumFunctionOnSet(f, Handlers)
    BY <1>1, <1>2, SumNat
  <1>4. SumFunctionOnSet(e, Handlers) = SumFunctionOnSet(f, Handlers) + (e[h] - f[h])
    BY <1>1, <1>2, SumUpdate
  <1> QED BY <1>1, <1>3, <1>4 DEF SumFunction

\* A handler no longer holds what it held.
LEMMA HandlerLetsGo ==
    ASSUME NEW f \in [Handlers -> Nat], NEW e, NEW h \in Handlers, e = [f EXCEPT ![h] = 0]
    PROVE  /\ SumFunction(f) \in Nat /\ f[h] <= SumFunction(f)
           /\ SumFunction(e) = SumFunction(f) - f[h]
  <1>1. e \in [Handlers -> Nat] /\ e[h] = 0 /\ \A x \in Handlers \ {h} : e[x] = f[x]
    OBVIOUS
  <1>2. /\ SumFunction(f) \in Nat /\ f[h] <= SumFunction(f)
        /\ SumFunction(e) = SumFunction(f) + (e[h] - f[h])
    BY <1>1, HandlerSum
  <1> QED BY <1>1, <1>2

\* Before any call nothing is used and nothing is held.
LEMMA InitBooks == Init => BooksInv
  <1> SUFFICES ASSUME Init PROVE BooksInv
    OBVIOUS
  <1>1. SumFunction(held) = 0 /\ SumFunction(fresh) = 0
    BY BudgetAssumption, SumZero DEF Init, SumFunction
  <1> QED BY <1>1 DEF Init, BooksInv, FreshInv, UsedIsOutstanding

\* Every step keeps the account and the sums in step.
LEMMA NextBooks == IndInv /\ BooksInv /\ [Next]_vars => BooksInv'
  <1> SUFFICES ASSUME IndInv, BooksInv, [Next]_vars PROVE BooksInv'
    OBVIOUS
  <1> USE DEF BooksInv
  <1>1. /\ used \in Nat /\ billed \in Nat /\ resets \in Nat
        /\ arg \in [Handlers -> Nat] /\ seen \in [Handlers -> Nat]
        /\ held \in [Handlers -> Nat] /\ fresh \in [Handlers -> Nat]
    BY BudgetAssumption DEF IndInv, TypeOK
  <1>2. ASSUME UNCHANGED <<account, resets>> PROVE BooksInv'
    BY <1>2 DEF account, FreshInv, UsedIsOutstanding
  <1>3. ASSUME NEW h \in Handlers, CasReserve(h) PROVE BooksInv'
    <2>1. CASE used # seen[h]
      BY <1>2, <1>3, <2>1 DEF CasReserve, clock, Return, Goto
    <2>2. CASE used = seen[h]
      <3>1. arg[h] \in Chunks /\ used <= TokenBudget
        BY <1>3 DEF CasReserve, IndInv, CallInv, UsedWithinBudget
      <3>2. used' = used + arg[h]
        BY <1>1, <1>3, <2>2, <3>1, PlusExact DEF CasReserve
      <3>3. /\ held' = [held EXCEPT ![h] = held[h] + arg[h]]
            /\ fresh' = [fresh EXCEPT ![h] = fresh[h] + arg[h]]
            /\ UNCHANGED <<billed, resets>>
        BY <1>3, <2>2 DEF CasReserve, clock
      <3>4. /\ held' \in [Handlers -> Nat] /\ held'[h] = held[h] + arg[h]
            /\ fresh' \in [Handlers -> Nat] /\ fresh'[h] = fresh[h] + arg[h]
            /\ \A x \in Handlers \ {h} : held'[x] = held[x] /\ fresh'[x] = fresh[x]
        BY <1>1, <3>3
      <3>5. /\ SumFunction(held') = SumFunction(held) + arg[h]
            /\ SumFunction(fresh') = SumFunction(fresh) + arg[h]
            /\ SumFunction(held) \in Nat /\ SumFunction(fresh) \in Nat
        <4>1. /\ SumFunction(held) \in Nat
              /\ SumFunction(held') = SumFunction(held) + (held'[h] - held[h])
          BY <1>1, <3>4, HandlerSum
        <4>2. /\ SumFunction(fresh) \in Nat
              /\ SumFunction(fresh') = SumFunction(fresh) + (fresh'[h] - fresh[h])
          BY <1>1, <3>4, HandlerSum
        <4> QED BY <1>1, <3>4, <4>1, <4>2
      <3>6. UsedIsOutstanding'
        BY <1>1, <3>2, <3>3, <3>5 DEF UsedIsOutstanding
      <3>7. FreshInv'
        BY <1>1, <3>3 DEF FreshInv
      <3> QED BY <3>6, <3>7
    <2> QED BY <2>1, <2>2
  <1>4. ASSUME NEW h \in Handlers, CasRelease(h) PROVE BooksInv'
    <2>1. CASE used # seen[h]
      BY <1>2, <1>4, <2>1 DEF CasRelease, clock, Return, Goto
    <2>2. CASE used = seen[h]
      <3>1. arg[h] = held[h]
        BY <1>4 DEF CasRelease, IndInv, CallInv
      <3>2. used' = Reduced(used, held[h])
        BY <1>4, <2>2, <3>1 DEF CasRelease
      <3>3. /\ held' = [held EXCEPT ![h] = 0]
            /\ fresh' = [fresh EXCEPT ![h] = 0]
            /\ UNCHANGED <<billed, resets>>
        BY <1>4, <2>2 DEF CasRelease, clock
      <3>4. /\ SumFunction(held') = SumFunction(held) - held[h]
            /\ SumFunction(fresh') = SumFunction(fresh) - fresh[h]
            /\ SumFunction(held) \in Nat /\ SumFunction(fresh) \in Nat
            /\ held[h] <= SumFunction(held) /\ fresh[h] <= SumFunction(fresh)
        BY <1>1, <3>3, HandlerLetsGo
      <3>5. UsedIsOutstanding'
        BY <1>1, <3>2, <3>3, <3>4 DEF UsedIsOutstanding, FreshInv, Reduced
      <3>6. FreshInv'
        BY <1>1, <3>3 DEF FreshInv
      <3> QED BY <3>5, <3>6
    <2> QED BY <2>1, <2>2
  <1>5. ASSUME NEW h \in Handlers, Keep(h) PROVE BooksInv'
    <2>1. /\ held' = [held EXCEPT ![h] = 0]
          /\ fresh' = [fresh EXCEPT ![h] = 0]
          /\ billed' = billed + fresh[h]
          /\ UNCHANGED <<used, resets>>
      BY <1>5 DEF Keep, clock
    <2>2. /\ SumFunction(held') = SumFunction(held) - held[h]
          /\ SumFunction(fresh') = SumFunction(fresh) - fresh[h]
          /\ SumFunction(held) \in Nat /\ SumFunction(fresh) \in Nat
      BY <1>1, <2>1, HandlerLetsGo
    <2>3. UsedIsOutstanding'
      BY <1>1, <2>1, <2>2 DEF UsedIsOutstanding, FreshInv
    <2>4. FreshInv'
      BY <1>1, <2>1 DEF FreshInv
    <2> QED BY <2>3, <2>4
  <1>6. CASE ResetExpired
    <2>1. used' = 0 /\ billed' = 0 /\ fresh' = [h \in Handlers |-> 0] /\ held' = held /\ resets' # 0
      BY <1>1, <1>6 DEF ResetExpired
    <2>2. SumFunction(fresh') = 0
      BY <2>1, BudgetAssumption, SumZero DEF SumFunction
    <2> QED BY <1>1, <2>1, <2>2 DEF FreshInv, UsedIsOutstanding
  <1>7. ASSUME NEW h \in Handlers, NEW n \in Chunks, CallTryReserve(h, n) PROVE BooksInv'
    BY <1>2, <1>7 DEF CallTryReserve, clock
  <1>8. ASSUME NEW h \in Handlers, LoadReserve(h) \/ CallRelease(h) \/ LoadRelease(h) PROVE BooksInv'
    BY <1>2, <1>8 DEF LoadReserve, CallRelease, LoadRelease, clock
  <1>9. CASE Tick
    BY <1>2, <1>9 DEF Tick
  <1>10. CASE UNCHANGED vars
    BY <1>2, <1>10 DEF vars, account
  <1> QED BY <1>3, <1>4, <1>5, <1>6, <1>7, <1>8, <1>9, <1>10 DEF Next, Handler

\* No update of TokensUsed is lost in the loops of TryReserve and Release, and
\* after a reset a key is never charged for more than the period's attempts hold
\* or kept.
THEOREM NothingIsLost == Spec => []UsedIsOutstanding
  <1>1. Spec => []IndInv
    BY InitInv, NextInv, PTL DEF Spec
  <1>2. Spec => []BooksInv
    BY <1>1, InitBooks, NextBooks, PTL DEF Spec
  <1>3. BooksInv => UsedIsOutstanding
    BY DEF BooksInv
  <1> QED BY <1>2, <1>3, PTL
=============================================================================
