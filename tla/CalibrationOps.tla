--------------------------- MODULE CalibrationOps ---------------------------
(***************************************************************************)
(* internal/calibration: the samples of one kind and their percentiles,    *)
(* from which the harness derives its thresholds.  A drift is in           *)
(* hundredths of a percent, rounded down.                                  *)
(***************************************************************************)
EXTENDS Integers, Sequences, SequencesExt, FiniteSets

\* Sample; a drift is never negative, infinite or undefined (Apply divides only by
\* a positive number).
Sample(samples, v) == IF v < 0 THEN samples ELSE Append(samples, v)

Bounded(n, lo, hi) == IF n < lo THEN lo ELSE IF n > hi THEN hi ELSE n

\* Bug: the rank is rounded down.
MutRank(n, pct) == Bounded((pct * n) \div 100, 1, n)

\* ceil(pct/100 * n), counted from 1, inside the list.
Rank(n, pct) == Bounded((pct * n + 99) \div 100, 1, n)

\* sort.Float64s: a sample's place is after the smaller ones, and after the equal
\* ones before it.
PlaceOf(samples, i) ==
    Cardinality({j \in DOMAIN samples :
                    samples[j] < samples[i] \/ (samples[j] = samples[i] /\ j <= i)})
InOrder(samples) ==
    [n \in DOMAIN samples |-> samples[CHOOSE i \in DOMAIN samples : PlaceOf(samples, i) = n]]

\* Percentile of a list that is not empty.
Percentile(samples, pct) ==
    LET values == InOrder(samples) IN
    CASE pct <= 0 -> values[1]
      [] pct >= 100 -> values[Len(values)]
      [] OTHER -> values[Rank(Len(values), pct)]
=============================================================================
