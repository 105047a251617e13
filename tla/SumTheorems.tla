---------------------------- MODULE SumTheorems ----------------------------
(***************************************************************************)
(* Facts about SumFunctionOnSet, the sum of an integer function over a     *)
(* finite set, which the accounts of several modules are stated with.  The *)
(* library defines it by recursion over subsets; the induction is by the   *)
(* least size at which a fact could fail.                                  *)
(***************************************************************************)
EXTENDS Integers, FiniteSets, Functions, WellFoundedInduction, FiniteSetTheorems, TLAPS

\* Every non-empty set of natural numbers has a least element.
LEMMA LeastNat ==
    ASSUME NEW T, T \subseteq Nat, T # {}
    PROVE  \E n \in T : \A m \in T : n <= m
  <1>1. PICK n \in T : \A m \in T : ~ (<<m, n>> \in OpToRel(<, Nat))
    BY NatLessThanWellFounded, WFMin, Zenon
  <1>2. \A m \in T : ~(m < n)
    BY <1>1 DEF OpToRel
  <1> QED BY <1>2

\* The recursion of the library, as a function from the subsets of S.
Chosen(s) == CHOOSE x \in s : TRUE
IsSum(g, f, S) ==
    g = [s \in SUBSET S |-> IF s = {} THEN 0 ELSE f[Chosen(s)] + g[s \ {Chosen(s)}]]

\* The sum of the library is the value at S of that function.
LEMMA SumIsChosen ==
    ASSUME NEW f, NEW S
    PROVE  SumFunctionOnSet(f, S) = (CHOOSE g : IsSum(g, f, S))[S]
  BY DEF SumFunctionOnSet, FoldFunctionOnSet, MapThenFoldSet, IsSum, Chosen

\* The member the recursion takes away is one.
LEMMA ChosenIsMember ==
    ASSUME NEW s, s # {}
    PROVE  Chosen(s) \in s
  BY DEF Chosen

\* For a finite set there is such a function: it is built size by size.
SubsetsUpTo(S, n) == {s \in SUBSET S : Cardinality(s) <= n}
IsPartSum(g, f, S, n) ==
    g = [s \in SubsetsUpTo(S, n) |-> IF s = {} THEN 0 ELSE f[Chosen(s)] + g[s \ {Chosen(s)}]]

\* Up to every size n there is such a function: take the least size without one.
LEMMA PartSumExists ==
    ASSUME NEW S, IsFiniteSet(S), NEW f, \A x \in S : f[x] \in Int, NEW n \in Nat
    PROVE  \E g \in [SubsetsUpTo(S, n) -> Int] : IsPartSum(g, f, S, n)
  <1> DEFINE Bad == {m \in Nat : ~ \E g \in [SubsetsUpTo(S, m) -> Int] : IsPartSum(g, f, S, m)}
  <1> SUFFICES ASSUME Bad # {} PROVE FALSE
    OBVIOUS
  <1>1. PICK m \in Bad : \A k \in Bad : m <= k
    BY LeastNat
  <1>2. CASE m = 0
    <2> DEFINE g == [s \in SubsetsUpTo(S, 0) |-> 0]
    <2>1. \A s \in SubsetsUpTo(S, 0) : s = {}
      BY FS_Subset, FS_EmptySet, FS_CardinalityType DEF SubsetsUpTo
    <2>2. g \in [SubsetsUpTo(S, 0) -> Int] /\ IsPartSum(g, f, S, 0)
      BY <2>1 DEF IsPartSum
    <2> QED BY <1>1, <1>2, <2>2
  <1>3. CASE m # 0
    <2>1. m - 1 \in Nat /\ m - 1 \notin Bad
      BY <1>1, <1>3
    <2>2. PICK h \in [SubsetsUpTo(S, m - 1) -> Int] : IsPartSum(h, f, S, m - 1)
      BY <2>1
    <2> DEFINE g == [s \in SubsetsUpTo(S, m) |-> IF s = {} THEN 0 ELSE f[Chosen(s)] + h[s \ {Chosen(s)}]]
    <2>3. ASSUME NEW s \in SubsetsUpTo(S, m), s # {}
          PROVE  /\ Chosen(s) \in S
                 /\ s \ {Chosen(s)} \in SubsetsUpTo(S, m - 1)
                 /\ s \ {Chosen(s)} \in SubsetsUpTo(S, m)
      <3>1. Chosen(s) \in s /\ s \in SUBSET S /\ Cardinality(s) <= m BY <2>3, ChosenIsMember DEF SubsetsUpTo
      <3>2. IsFiniteSet(s) /\ Cardinality(s) \in Nat BY <3>1, FS_Subset, FS_CardinalityType
      <3>3. Cardinality(s \ {Chosen(s)}) = Cardinality(s) - 1 BY <3>1, <3>2, FS_RemoveElement
      <3> QED BY <3>1, <3>2, <3>3, <1>1 DEF SubsetsUpTo
    <2>4. g \in [SubsetsUpTo(S, m) -> Int]
      BY <2>3
    <2>5. ASSUME NEW s \in SubsetsUpTo(S, m - 1) PROVE g[s] = h[s]
      <3>1. s \in SubsetsUpTo(S, m)
        BY <1>1, FS_Subset, FS_CardinalityType DEF SubsetsUpTo
      <3>2. h[s] = IF s = {} THEN 0 ELSE f[Chosen(s)] + h[s \ {Chosen(s)}]
        BY <2>2 DEF IsPartSum
      <3> QED BY <3>1, <3>2
    <2>6. \A s \in SubsetsUpTo(S, m) : g[s] = IF s = {} THEN 0 ELSE f[Chosen(s)] + g[s \ {Chosen(s)}]
      BY <2>3, <2>5
    <2>7. IsPartSum(g, f, S, m)
      BY <2>6 DEF IsPartSum
    <2> QED BY <1>1, <2>4, <2>7
  <1> QED BY <1>2, <1>3

\* Hence there is one on all subsets of a finite set.
LEMMA SumExists ==
    ASSUME NEW S, IsFiniteSet(S), NEW f, \A x \in S : f[x] \in Int
    PROVE  \E g \in [SUBSET S -> Int] : IsSum(g, f, S)
  <1>1. Cardinality(S) \in Nat
    BY FS_CardinalityType
  <1>2. SubsetsUpTo(S, Cardinality(S)) = SUBSET S
    BY FS_Subset DEF SubsetsUpTo
  <1>3. PICK g \in [SubsetsUpTo(S, Cardinality(S)) -> Int] : IsPartSum(g, f, S, Cardinality(S))
    BY <1>1, PartSumExists
  <1>4. g \in [SUBSET S -> Int] /\ IsSum(g, f, S)
    BY <1>2, <1>3 DEF IsPartSum, IsSum
  <1> QED BY <1>4

\* It is determined by the values of f on the subset.
LEMMA SumDetermined ==
    ASSUME NEW S, IsFiniteSet(S), NEW f, NEW g, IsSum(g, f, S),
           NEW R, NEW e, NEW h, IsSum(h, e, R),
           NEW T, T \subseteq S, T \subseteq R, \A x \in T : f[x] = e[x]
    PROVE  g[T] = h[T]
  <1> DEFINE Bad == {m \in Nat : \E s \in SUBSET T : Cardinality(s) = m /\ g[s] # h[s]}
  <1>1. SUFFICES ASSUME Bad # {} PROVE FALSE
    <2>1. IsFiniteSet(T) /\ Cardinality(T) \in Nat BY FS_Subset, FS_CardinalityType
    <2> QED BY <1>1, <2>1
  <1>2. PICK m \in Bad : \A k \in Bad : m <= k
    BY <1>1, LeastNat
  <1>3. PICK s \in SUBSET T : Cardinality(s) = m /\ g[s] # h[s]
    BY <1>2
  <1>4. /\ g[s] = IF s = {} THEN 0 ELSE f[Chosen(s)] + g[s \ {Chosen(s)}]
        /\ h[s] = IF s = {} THEN 0 ELSE e[Chosen(s)] + h[s \ {Chosen(s)}]
    <2>1. s \in SUBSET S /\ s \in SUBSET R OBVIOUS
    <2> QED BY <2>1 DEF IsSum
  <1>5. s # {}
    BY <1>3, <1>4
  <1>6. Chosen(s) \in s
    BY <1>5, ChosenIsMember
  <1>7. IsFiniteSet(s) /\ Cardinality(s \ {Chosen(s)}) = m - 1 /\ m \in Nat
    BY <1>3, <1>6, FS_Subset, FS_RemoveElement
  <1>8. m - 1 \in Nat
    BY <1>5, <1>7, <1>3, FS_EmptySet
  <1>9. g[s \ {Chosen(s)}] = h[s \ {Chosen(s)}]
    BY <1>2, <1>7, <1>8
  <1> QED BY <1>3, <1>4, <1>5, <1>6, <1>9

-----------------------------------------------------------------------------
\* The facts the other modules use.

\* The chosen function is one of these, so the sum follows the recursion.
LEMMA SumIsSum ==
    ASSUME NEW S, IsFiniteSet(S), NEW f, \A x \in S : f[x] \in Int
    PROVE  \E g \in [SUBSET S -> Int] : IsSum(g, f, S) /\ SumFunctionOnSet(f, S) = g[S]
  <1> DEFINE c == CHOOSE g : IsSum(g, f, S)
  <1>1. PICK g \in [SUBSET S -> Int] : IsSum(g, f, S)
    BY SumExists
  <1>2. IsSum(c, f, S)
    BY <1>1
  <1>3. \A T \in SUBSET S : c[T] = g[T]
    BY <1>1, <1>2, SumDetermined
  <1>4. c[S] = g[S]
    BY <1>3
  <1> QED BY <1>1, <1>4, SumIsChosen

\* A sum of integers is an integer.
LEMMA SumType ==
    ASSUME NEW S, IsFiniteSet(S), NEW f, \A x \in S : f[x] \in Int
    PROVE  SumFunctionOnSet(f, S) \in Int
  <1>1. PICK g \in [SUBSET S -> Int] : IsSum(g, f, S) /\ SumFunctionOnSet(f, S) = g[S]
    BY SumIsSum
  <1> QED BY <1>1

\* A sum depends on the values in the set only.
LEMMA SumSame ==
    ASSUME NEW S, IsFiniteSet(S), NEW f, \A x \in S : f[x] \in Int,
           NEW e, \A x \in S : e[x] = f[x]
    PROVE  SumFunctionOnSet(e, S) = SumFunctionOnSet(f, S)
  <1>1. PICK g \in [SUBSET S -> Int] : IsSum(g, f, S) /\ SumFunctionOnSet(f, S) = g[S]
    BY SumIsSum
  <1>2. PICK h \in [SUBSET S -> Int] : IsSum(h, e, S) /\ SumFunctionOnSet(e, S) = h[S]
    BY SumIsSum
  <1>3. g[S] = h[S]
    BY <1>1, <1>2, SumDetermined
  <1> QED BY <1>1, <1>2, <1>3

\* The empty sum.
LEMMA SumEmpty ==
    ASSUME NEW f
    PROVE  SumFunctionOnSet(f, {}) = 0
  <1>1. PICK g \in [SUBSET {} -> Int] : IsSum(g, f, {}) /\ SumFunctionOnSet(f, {}) = g[{}]
    BY SumIsSum, FS_EmptySet
  <1> QED BY <1>1 DEF IsSum

\* One step of the recursion.
LEMMA SumStep ==
    ASSUME NEW S, IsFiniteSet(S), S # {}, NEW f, \A x \in S : f[x] \in Int
    PROVE  SumFunctionOnSet(f, S) = f[Chosen(S)] + SumFunctionOnSet(f, S \ {Chosen(S)})
  <1> DEFINE T == S \ {Chosen(S)}
  <1>1. IsFiniteSet(T)
    BY FS_RemoveElement
  <1>2. PICK g \in [SUBSET S -> Int] : IsSum(g, f, S) /\ SumFunctionOnSet(f, S) = g[S]
    BY SumIsSum
  <1>3. PICK h \in [SUBSET T -> Int] : IsSum(h, f, T) /\ SumFunctionOnSet(f, T) = h[T]
    BY <1>1, SumIsSum
  <1>4. g[T] = h[T]
    BY <1>2, <1>3, SumDetermined
  <1>5. g[S] = f[Chosen(S)] + g[T]
    BY <1>2 DEF IsSum
  <1> QED BY <1>2, <1>3, <1>4, <1>5

\* Any element may be taken out of a sum, not just the one the recursion takes.
LEMMA SumSplit ==
    ASSUME NEW S, IsFiniteSet(S), NEW f, \A x \in S : f[x] \in Int, NEW y \in S
    PROVE  SumFunctionOnSet(f, S) = f[y] + SumFunctionOnSet(f, S \ {y})
  <1> DEFINE Splits(T) == \A x \in T : SumFunctionOnSet(f, T) = f[x] + SumFunctionOnSet(f, T \ {x})
             Bad == {m \in Nat : \E T \in SUBSET S : Cardinality(T) = m /\ ~Splits(T)}
  <1>1. SUFFICES ASSUME Bad # {} PROVE FALSE
    <2>1. Cardinality(S) \in Nat /\ S \in SUBSET S BY FS_CardinalityType
    <2> QED BY <1>1, <2>1
  <1>2. PICK m \in Bad : \A k \in Bad : m <= k
    BY <1>1, LeastNat
  <1>3. PICK T \in SUBSET S : Cardinality(T) = m /\ ~Splits(T)
    BY <1>2
  <1>4. PICK x \in T : SumFunctionOnSet(f, T) # f[x] + SumFunctionOnSet(f, T \ {x})
    BY <1>3
  <1> DEFINE c == Chosen(T)
  <1>5. c \in T /\ IsFiniteSet(T)
    BY <1>4, ChosenIsMember, FS_Subset
  <1>6. SumFunctionOnSet(f, T) = f[c] + SumFunctionOnSet(f, T \ {c})
    BY <1>5, SumStep
  <1>7. x # c
    BY <1>4, <1>6
  <1>8. \A z \in T : Cardinality(T \ {z}) = m - 1 /\ IsFiniteSet(T \ {z})
    BY <1>3, <1>5, FS_RemoveElement
  <1>9. m - 1 \in Nat
    BY <1>8, <1>5, FS_CardinalityType
  <1>10. Splits(T \ {c}) /\ Splits(T \ {x})
    <2>1. \A z \in T : T \ {z} \in SUBSET S OBVIOUS
    <2> QED BY <1>2, <1>5, <1>8, <1>9, <2>1
  <1>11. SumFunctionOnSet(f, T \ {c}) = f[x] + SumFunctionOnSet(f, (T \ {c}) \ {x})
    BY <1>7, <1>10
  <1>12. SumFunctionOnSet(f, T \ {x}) = f[c] + SumFunctionOnSet(f, (T \ {x}) \ {c})
    BY <1>5, <1>7, <1>10
  <1>13. (T \ {c}) \ {x} = (T \ {x}) \ {c}
    OBVIOUS
  <1>14. SumFunctionOnSet(f, (T \ {x}) \ {c}) \in Int /\ f[x] \in Int /\ f[c] \in Int
    <2>1. IsFiniteSet((T \ {x}) \ {c}) BY <1>8, FS_RemoveElement
    <2> QED BY <2>1, <1>5, SumType
  <1>15. \A a, b, r \in Int : a + (b + r) = b + (a + r)
    OBVIOUS
  <1>16. f[c] + (f[x] + SumFunctionOnSet(f, (T \ {x}) \ {c}))
            = f[x] + (f[c] + SumFunctionOnSet(f, (T \ {x}) \ {c}))
    BY <1>14, <1>15
  <1> QED BY <1>4, <1>6, <1>11, <1>12, <1>13, <1>16

\* Changing one value changes the sum by the difference.
LEMMA SumUpdate ==
    ASSUME NEW S, IsFiniteSet(S), NEW f, \A x \in S : f[x] \in Int,
           NEW e, \A x \in S : e[x] \in Int,
           NEW y \in S, \A x \in S \ {y} : e[x] = f[x]
    PROVE  SumFunctionOnSet(e, S) = SumFunctionOnSet(f, S) + (e[y] - f[y])
  <1>1. IsFiniteSet(S \ {y})
    BY FS_RemoveElement
  <1>2. SumFunctionOnSet(e, S \ {y}) = SumFunctionOnSet(f, S \ {y})
    BY <1>1, SumSame
  <1>3. SumFunctionOnSet(f, S \ {y}) \in Int
    BY <1>1, SumType
  <1>4. /\ SumFunctionOnSet(f, S) = f[y] + SumFunctionOnSet(f, S \ {y})
        /\ SumFunctionOnSet(e, S) = e[y] + SumFunctionOnSet(e, S \ {y})
    BY SumSplit
  <1> QED BY <1>2, <1>3, <1>4

\* A sum is not above another whose terms it is below, term by term.
LEMMA SumMonotone ==
    ASSUME NEW S, IsFiniteSet(S), NEW f, \A x \in S : f[x] \in Int,
           NEW e, \A x \in S : e[x] \in Int /\ f[x] <= e[x]
    PROVE  SumFunctionOnSet(f, S) <= SumFunctionOnSet(e, S)
  <1> DEFINE Below(T) == SumFunctionOnSet(f, T) <= SumFunctionOnSet(e, T)
             Bad == {m \in Nat : \E T \in SUBSET S : Cardinality(T) = m /\ ~Below(T)}
  <1>1. SUFFICES ASSUME Bad # {} PROVE FALSE
    <2>1. Cardinality(S) \in Nat /\ S \in SUBSET S BY FS_CardinalityType
    <2> QED BY <1>1, <2>1
  <1>2. PICK m \in Bad : \A k \in Bad : m <= k
    BY <1>1, LeastNat
  <1>3. PICK T \in SUBSET S : Cardinality(T) = m /\ ~Below(T)
    BY <1>2
  <1>4. T # {}
    BY <1>3, SumEmpty
  <1>5. PICK x \in T : TRUE
    BY <1>4
  <1>6. IsFiniteSet(T) /\ IsFiniteSet(T \ {x}) /\ Cardinality(T \ {x}) = m - 1 /\ m - 1 \in Nat
    <2>1. IsFiniteSet(T) BY FS_Subset
    <2>2. IsFiniteSet(T \ {x}) /\ Cardinality(T \ {x}) = m - 1 BY <1>3, <2>1, FS_RemoveElement
    <2> QED BY <2>1, <2>2, FS_CardinalityType
  <1>7. Below(T \ {x})
    BY <1>2, <1>6
  <1>8. /\ SumFunctionOnSet(f, T) = f[x] + SumFunctionOnSet(f, T \ {x})
        /\ SumFunctionOnSet(e, T) = e[x] + SumFunctionOnSet(e, T \ {x})
    BY <1>6, SumSplit
  <1>9. SumFunctionOnSet(f, T \ {x}) \in Int /\ SumFunctionOnSet(e, T \ {x}) \in Int
    BY <1>6, SumType
  <1> QED BY <1>3, <1>7, <1>8, <1>9

\* The sum of term-by-term sums.
LEMMA SumAdd ==
    ASSUME NEW S, IsFiniteSet(S), NEW f, \A x \in S : f[x] \in Int,
           NEW e, \A x \in S : e[x] \in Int, NEW g, \A x \in S : g[x] = f[x] + e[x]
    PROVE  SumFunctionOnSet(g, S) = SumFunctionOnSet(f, S) + SumFunctionOnSet(e, S)
  <1> DEFINE Adds(T) == SumFunctionOnSet(g, T) = SumFunctionOnSet(f, T) + SumFunctionOnSet(e, T)
             Bad == {m \in Nat : \E T \in SUBSET S : Cardinality(T) = m /\ ~Adds(T)}
  <1>1. SUFFICES ASSUME Bad # {} PROVE FALSE
    <2>1. Cardinality(S) \in Nat /\ S \in SUBSET S BY FS_CardinalityType
    <2> QED BY <1>1, <2>1
  <1>2. PICK m \in Bad : \A k \in Bad : m <= k
    BY <1>1, LeastNat
  <1>3. PICK T \in SUBSET S : Cardinality(T) = m /\ ~Adds(T)
    BY <1>2
  <1>4. T # {}
    <2>1. Adds({})
      <3>1. /\ SumFunctionOnSet(f, {}) = 0 /\ SumFunctionOnSet(e, {}) = 0
            /\ SumFunctionOnSet(g, {}) = 0
        BY SumEmpty
      <3> QED BY <3>1
    <2> QED BY <1>3, <2>1
  <1>5. PICK x \in T : TRUE
    BY <1>4
  <1>6. IsFiniteSet(T) /\ IsFiniteSet(T \ {x}) /\ Cardinality(T \ {x}) = m - 1 /\ m - 1 \in Nat
    <2>1. IsFiniteSet(T) BY FS_Subset
    <2>2. IsFiniteSet(T \ {x}) /\ Cardinality(T \ {x}) = m - 1 BY <1>3, <2>1, FS_RemoveElement
    <2> QED BY <2>1, <2>2, FS_CardinalityType
  <1>7. Adds(T \ {x})
    BY <1>2, <1>6
  <1>8. /\ SumFunctionOnSet(f, T) = f[x] + SumFunctionOnSet(f, T \ {x})
        /\ SumFunctionOnSet(e, T) = e[x] + SumFunctionOnSet(e, T \ {x})
        /\ SumFunctionOnSet(g, T) = g[x] + SumFunctionOnSet(g, T \ {x})
    BY <1>6, SumSplit
  <1>9. SumFunctionOnSet(f, T \ {x}) \in Int /\ SumFunctionOnSet(e, T \ {x}) \in Int
    BY <1>6, SumType
  <1> QED BY <1>3, <1>7, <1>8, <1>9

\* A sum of zeros.
LEMMA SumZero ==
    ASSUME NEW S, IsFiniteSet(S), NEW f, \A x \in S : f[x] = 0
    PROVE  SumFunctionOnSet(f, S) = 0
  <1> DEFINE Bad == {m \in Nat : \E T \in SUBSET S : Cardinality(T) = m /\ SumFunctionOnSet(f, T) # 0}
  <1>1. SUFFICES ASSUME Bad # {} PROVE FALSE
    <2>1. Cardinality(S) \in Nat /\ S \in SUBSET S BY FS_CardinalityType
    <2> QED BY <1>1, <2>1
  <1>2. PICK m \in Bad : \A k \in Bad : m <= k
    BY <1>1, LeastNat
  <1>3. PICK T \in SUBSET S : Cardinality(T) = m /\ SumFunctionOnSet(f, T) # 0
    BY <1>2
  <1>4. PICK x \in T : TRUE
    BY <1>3, SumEmpty
  <1>5. IsFiniteSet(T) /\ IsFiniteSet(T \ {x}) /\ Cardinality(T \ {x}) = m - 1 /\ m - 1 \in Nat
    <2>1. IsFiniteSet(T) BY FS_Subset
    <2>2. IsFiniteSet(T \ {x}) /\ Cardinality(T \ {x}) = m - 1 BY <1>3, <2>1, FS_RemoveElement
    <2> QED BY <2>1, <2>2, FS_CardinalityType
  <1>6. SumFunctionOnSet(f, T \ {x}) = 0
    BY <1>2, <1>5
  <1>7. SumFunctionOnSet(f, T) = f[x] + SumFunctionOnSet(f, T \ {x})
    BY <1>5, SumSplit
  <1> QED BY <1>3, <1>6, <1>7

\* A sum of natural numbers is one, and no term is above it.
LEMMA SumNat ==
    ASSUME NEW S, IsFiniteSet(S), NEW f, \A x \in S : f[x] \in Nat
    PROVE  /\ SumFunctionOnSet(f, S) \in Nat
           /\ \A y \in S : f[y] <= SumFunctionOnSet(f, S)
  <1> DEFINE zero == [x \in S |-> 0]
  <1>1. ASSUME NEW T \in SUBSET S PROVE SumFunctionOnSet(f, T) \in Int /\ SumFunctionOnSet(f, T) >= 0
    <2>1. IsFiniteSet(T) BY FS_Subset
    <2>2. SumFunctionOnSet(zero, T) = 0 BY <2>1, SumZero
    <2>3. \A x \in T : zero[x] \in Int /\ f[x] \in Int /\ zero[x] <= f[x] OBVIOUS
    <2>4. SumFunctionOnSet(zero, T) <= SumFunctionOnSet(f, T) BY <2>1, <2>3, SumMonotone
    <2>5. SumFunctionOnSet(f, T) \in Int BY <2>1, <2>3, SumType
    <2> QED BY <2>2, <2>4, <2>5
  <1>2. ASSUME NEW y \in S PROVE f[y] <= SumFunctionOnSet(f, S)
    <2>1. SumFunctionOnSet(f, S) = f[y] + SumFunctionOnSet(f, S \ {y}) BY SumSplit
    <2>2. SumFunctionOnSet(f, S \ {y}) \in Int /\ SumFunctionOnSet(f, S \ {y}) >= 0 BY <1>1
    <2> QED BY <2>1, <2>2
  <1> QED BY <1>1, <1>2

\* A sum of terms that are bounded.
LEMMA SumBounded ==
    ASSUME NEW S, IsFiniteSet(S), NEW f, NEW c \in Nat, \A x \in S : f[x] \in Int /\ f[x] <= c
    PROVE  SumFunctionOnSet(f, S) <= Cardinality(S) * c
  <1> DEFINE Below(T) == SumFunctionOnSet(f, T) <= Cardinality(T) * c
             Bad == {m \in Nat : \E T \in SUBSET S : Cardinality(T) = m /\ ~Below(T)}
  <1>1. SUFFICES ASSUME Bad # {} PROVE FALSE
    <2>1. Cardinality(S) \in Nat /\ S \in SUBSET S BY FS_CardinalityType
    <2> QED BY <1>1, <2>1
  <1>2. PICK m \in Bad : \A k \in Bad : m <= k
    BY <1>1, LeastNat
  <1>3. PICK T \in SUBSET S : Cardinality(T) = m /\ ~Below(T)
    BY <1>2
  <1>4. T # {}
    BY <1>3, SumEmpty, FS_EmptySet
  <1>5. PICK x \in T : TRUE
    BY <1>4
  <1>6. IsFiniteSet(T) /\ IsFiniteSet(T \ {x}) /\ Cardinality(T \ {x}) = m - 1 /\ m - 1 \in Nat
    <2>1. IsFiniteSet(T) BY FS_Subset
    <2>2. IsFiniteSet(T \ {x}) /\ Cardinality(T \ {x}) = m - 1 BY <1>3, <2>1, FS_RemoveElement
    <2> QED BY <2>1, <2>2, FS_CardinalityType
  <1>7. Below(T \ {x})
    BY <1>2, <1>6
  <1>8. SumFunctionOnSet(f, T) = f[x] + SumFunctionOnSet(f, T \ {x})
    BY <1>6, SumSplit
  <1>9. SumFunctionOnSet(f, T \ {x}) \in Int
    BY <1>6, SumType
  <1>10. m \in Nat /\ (m - 1) * c + c = m * c
    BY <1>2
  <1> QED BY <1>3, <1>6, <1>7, <1>8, <1>9, <1>10

\* The same for the sum of a whole function: the values are natural numbers, and
\* one of them changes.
LEMMA SumFunctionUpdate ==
    ASSUME NEW S, IsFiniteSet(S), NEW f \in [S -> Nat], NEW e \in [S -> Nat], NEW y \in S,
           \A x \in S \ {y} : e[x] = f[x]
    PROVE  /\ SumFunction(f) \in Nat /\ f[y] <= SumFunction(f)
           /\ SumFunction(e) = SumFunction(f) + (e[y] - f[y])
  <1>1. DOMAIN f = S /\ DOMAIN e = S /\ \A x \in S : f[x] \in Nat /\ f[x] \in Int /\ e[x] \in Int
    OBVIOUS
  <1>2. SumFunctionOnSet(f, S) \in Nat /\ f[y] <= SumFunctionOnSet(f, S)
    BY <1>1, SumNat
  <1>3. SumFunctionOnSet(e, S) = SumFunctionOnSet(f, S) + (e[y] - f[y])
    BY <1>1, SumUpdate
  <1> QED BY <1>1, <1>2, <1>3 DEF SumFunction

\* The sum of a function that is 0 everywhere.
LEMMA SumFunctionZero ==
    ASSUME NEW S, IsFiniteSet(S)
    PROVE  SumFunction([x \in S |-> 0]) = 0
  BY SumZero DEF SumFunction

\* A sum over a part of a set is one over the whole set with zeros outside the part.
LEMMA SumRestrict ==
    ASSUME NEW S, IsFiniteSet(S), NEW T, T \subseteq S, NEW f, \A x \in S : f[x] \in Int,
           NEW e, \A x \in S : e[x] = IF x \in T THEN f[x] ELSE 0
    PROVE  SumFunctionOnSet(f, T) = SumFunctionOnSet(e, S)
  <1> DEFINE Same(U) == SumFunctionOnSet(e, U) = SumFunctionOnSet(f, U \cap T)
             Bad == {m \in Nat : \E U \in SUBSET S : Cardinality(U) = m /\ ~Same(U)}
  <1>1. SUFFICES ASSUME Bad # {} PROVE FALSE
    <2>1. Cardinality(S) \in Nat /\ S \in SUBSET S BY FS_CardinalityType
    <2>2. S \cap T = T OBVIOUS
    <2> QED BY <1>1, <2>1, <2>2
  <1>2. PICK m \in Bad : \A k \in Bad : m <= k
    BY <1>1, LeastNat
  <1>3. PICK U \in SUBSET S : Cardinality(U) = m /\ ~Same(U)
    BY <1>2
  <1>4. U # {}
    <2>1. {} \cap T = {} OBVIOUS
    <2> QED BY <1>3, <2>1, SumEmpty
  <1>5. PICK x \in U : TRUE
    BY <1>4
  <1>6. IsFiniteSet(U) /\ IsFiniteSet(U \ {x}) /\ Cardinality(U \ {x}) = m - 1 /\ m - 1 \in Nat
    <2>1. IsFiniteSet(U) BY FS_Subset
    <2>2. IsFiniteSet(U \ {x}) /\ Cardinality(U \ {x}) = m - 1 BY <1>3, <2>1, FS_RemoveElement
    <2> QED BY <2>1, <2>2, FS_CardinalityType
  <1>7. Same(U \ {x})
    <2>1. U \ {x} \in SUBSET S OBVIOUS
    <2>2. m - 1 \notin Bad
      <3>1. m \in Nat OBVIOUS
      <3> HIDE DEF Bad
      <3> QED BY <1>2, <1>6, <3>1
    <2> HIDE DEF Same
    <2> QED BY <1>6, <2>1, <2>2
  <1>8. SumFunctionOnSet(e, U) = e[x] + SumFunctionOnSet(e, U \ {x})
    <2>1. \A y \in U : e[y] \in Int OBVIOUS
    <2> QED BY <1>6, <2>1, SumSplit
  <1>9. IsFiniteSet(U \cap T)
    BY <1>6, FS_Intersection
  <1>10. SumFunctionOnSet(f, (U \ {x}) \cap T) \in Int
    <2>1. IsFiniteSet((U \ {x}) \cap T) BY <1>6, FS_Intersection
    <2> QED BY <2>1, SumType
  <1>11. CASE x \in T
    <2>1. (U \cap T) \ {x} = (U \ {x}) \cap T /\ x \in U \cap T
      BY <1>11
    <2>2. SumFunctionOnSet(f, U \cap T) = f[x] + SumFunctionOnSet(f, (U \cap T) \ {x})
      <3>1. \A y \in U \cap T : f[y] \in Int OBVIOUS
      <3> QED BY <1>9, <2>1, <3>1, SumSplit
    <2>3. e[x] = f[x]
      BY <1>11
    <2> QED BY <1>3, <1>7, <1>8, <2>1, <2>2, <2>3
  <1>12. CASE x \notin T
    <2>1. U \cap T = (U \ {x}) \cap T
      BY <1>12
    <2>2. e[x] = 0
      BY <1>12
    <2> QED BY <1>3, <1>7, <1>8, <1>10, <2>1, <2>2
  <1> QED BY <1>11, <1>12

\* The number of elements of a part of a set is a sum of ones and zeros.
LEMMA SumCount ==
    ASSUME NEW S, IsFiniteSet(S), NEW T, T \subseteq S,
           NEW e, \A x \in S : e[x] = IF x \in T THEN 1 ELSE 0
    PROVE  Cardinality(T) = SumFunctionOnSet(e, S)
  <1> DEFINE Same(U) == SumFunctionOnSet(e, U) = Cardinality(U \cap T)
             Bad == {m \in Nat : \E U \in SUBSET S : Cardinality(U) = m /\ ~Same(U)}
  <1>1. SUFFICES ASSUME Bad # {} PROVE FALSE
    <2>1. Cardinality(S) \in Nat /\ S \in SUBSET S BY FS_CardinalityType
    <2>2. S \cap T = T OBVIOUS
    <2> QED BY <1>1, <2>1, <2>2
  <1>2. PICK m \in Bad : \A k \in Bad : m <= k
    BY <1>1, LeastNat
  <1>3. PICK U \in SUBSET S : Cardinality(U) = m /\ ~Same(U)
    BY <1>2
  <1>4. U # {}
    <2>1. {} \cap T = {} OBVIOUS
    <2> QED BY <1>3, <2>1, SumEmpty, FS_EmptySet
  <1>5. PICK x \in U : TRUE
    BY <1>4
  <1>6. IsFiniteSet(U) /\ IsFiniteSet(U \ {x}) /\ Cardinality(U \ {x}) = m - 1 /\ m - 1 \in Nat
    <2>1. IsFiniteSet(U) BY FS_Subset
    <2>2. IsFiniteSet(U \ {x}) /\ Cardinality(U \ {x}) = m - 1 BY <1>3, <2>1, FS_RemoveElement
    <2> QED BY <2>1, <2>2, FS_CardinalityType
  <1>7. Same(U \ {x})
    <2>1. U \ {x} \in SUBSET S OBVIOUS
    <2>2. m - 1 \notin Bad
      <3>1. m \in Nat OBVIOUS
      <3> HIDE DEF Bad
      <3> QED BY <1>2, <1>6, <3>1
    <2> HIDE DEF Same
    <2> QED BY <1>6, <2>1, <2>2
  <1>8. SumFunctionOnSet(e, U) = e[x] + SumFunctionOnSet(e, U \ {x})
    <2>1. \A y \in U : e[y] \in Int OBVIOUS
    <2> QED BY <1>6, <2>1, SumSplit
  <1>9. IsFiniteSet(U \cap T) /\ Cardinality(U \cap T) \in Nat
    BY <1>6, FS_Intersection, FS_CardinalityType
  <1>10. CASE x \in T
    <2>1. (U \cap T) \ {x} = (U \ {x}) \cap T /\ x \in U \cap T
      BY <1>10
    <2>2. Cardinality((U \cap T) \ {x}) = Cardinality(U \cap T) - 1
      BY <1>9, <2>1, FS_RemoveElement
    <2>3. e[x] = 1
      BY <1>10
    <2>4. SumFunctionOnSet(e, U) = 1 + (Cardinality(U \cap T) - 1)
      BY <1>7, <1>8, <2>1, <2>2, <2>3
    <2> QED BY <1>3, <1>9, <2>4
  <1>11. CASE x \notin T
    <2>1. U \cap T = (U \ {x}) \cap T
      BY <1>11
    <2>2. e[x] = 0
      BY <1>11
    <2>3. SumFunctionOnSet(e, U) = 0 + Cardinality(U \cap T)
      BY <1>7, <1>8, <2>1, <2>2
    <2> QED BY <1>3, <1>9, <2>3
  <1> QED BY <1>10, <1>11
=============================================================================
