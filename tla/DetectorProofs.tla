--------------------------- MODULE DetectorProofs ---------------------------
(***************************************************************************)
(* Detector: the threshold is the percentile it claims to be, for every    *)
(* number of samples, every percentile and every projection.               *)
(***************************************************************************)
EXTENDS Detector, FiniteSetTheorems, TLAPS

\* The distances of the samples, as the detector computes them.
Judged == [k \in 1 .. n |-> DistanceSq(samples[k])]

\* The threshold is the element at ThresholdIndex of the sorted distances.
Calibrated ==
  outcome = "trained" =>
    /\ n >= 2
    /\ \E order \in Bijection(1 .. n, 1 .. n) :
         Ascending(order, Judged) /\ model.threshold = Judged[order[ThresholdIndex + 1]]

DetectorInv == TypeOK /\ Calibrated

\* The index is one of the sorted distances, and just below the percentile.
LEMMA IndexBounds ==
  ASSUME n \in Nat, n >= 2
  PROVE  /\ ThresholdIndex \in 0 .. n - 1
         /\ Den * ThresholdIndex <= Num * n
         /\ Den * (n - ThresholdIndex - 1) < (Den - Num) * n
<1> DEFINE q == (n * Num) \div Den
<1>1. Num \in Nat /\ Den \in Nat /\ Num < Den
  BY DetectorAssumption
<1>2. n * Num \in Nat /\ Den > 0
  BY <1>1
<1>3. q \in Nat /\ Den * q <= n * Num /\ n * Num < Den * (q + 1)
  <2>1. \A a \in Nat, b \in Nat \ {0} :
          a \div b \in Nat /\ b * (a \div b) <= a /\ a < b * (a \div b + 1)
    OBVIOUS
  <2> QED
    BY <1>1, <1>2, <2>1
<1>4. ThresholdIndex = IF q < n - 1 THEN q ELSE n - 1
  BY DEF ThresholdIndex
<1> HIDE DEF q
<1>5. CASE q < n - 1
  <2>1. Den * (n - q - 1) = Den * n - Den * (q + 1) /\ (Den - Num) * n = Den * n - n * Num
    BY <1>1, <1>3
  <2> QED
    BY <1>1, <1>3, <1>4, <1>5, <2>1
<1>6. CASE ~ (q < n - 1)
  <2>1. Den * (n - 1) <= Den * q
    BY <1>1, <1>3, <1>6
  <2>2. (Den - Num) * n > 0
    BY <1>1
  <2>3. ThresholdIndex = n - 1
    BY <1>4, <1>6
  <2>4. Den * (n - 1) <= Num * n
    <3>1. Den * (n - 1) \in Int /\ Den * q \in Int /\ n * Num = Num * n
      BY <1>1, <1>3
    <3> QED
      BY <1>2, <1>3, <2>1, <3>1
  <2>5. Den * (n - (n - 1) - 1) = 0
    BY <1>1
  <2> QED
    BY <2>2, <2>3, <2>4, <2>5
<1> QED
  BY <1>5, <1>6

\* The positions from a to b of the sorted samples are at most b - a + 1 samples.
LEMMA PlacesBound ==
  ASSUME n \in Nat, NEW order \in Bijection(1 .. n, 1 .. n), NEW a \in Nat \ {0}, NEW b \in Nat,
         a <= b + 1, b <= n, NEW S \in SUBSET (1 .. n),
         \A k \in S : \E i \in a .. b : order[i] = k
  PROVE  IsFiniteSet(S) /\ Cardinality(S) <= b - a + 1
<1>1. order \in [1 .. n -> 1 .. n]
  BY DEF Bijection, Injection, Surjection
<1> DEFINE f == [i \in a .. b |-> order[i]]
           T == {order[i] : i \in a .. b}
<1>2. f \in Surjection(a .. b, T)
  BY DEF Surjection
<1>3. IsFiniteSet(a .. b) /\ Cardinality(a .. b) = b - a + 1
  <2>1. a \in Int /\ b \in Int /\ (a > b => b - a + 1 = 0)
    OBVIOUS
  <2>2. IsFiniteSet(a .. b) /\ Cardinality(a .. b) = IF a > b THEN 0 ELSE b - a + 1
    BY <2>1, FS_Interval
  <2> QED
    BY <2>1, <2>2
<1> HIDE DEF f, T
<1>4. IsFiniteSet(T) /\ Cardinality(T) <= b - a + 1
  BY <1>2, <1>3, FS_Surjection
<1>5. S \in SUBSET T
  BY DEF T
<1>6. IsFiniteSet(S) /\ Cardinality(S) <= Cardinality(T)
  BY <1>4, <1>5, FS_Subset
<1>7. Cardinality(S) \in Nat /\ Cardinality(T) \in Nat
  BY <1>4, <1>6, FS_CardinalityType
<1> QED
  BY <1>4, <1>6, <1>7

\* In a sequence that is sorted by `order`, no more elements lie above the one at
\* a place than come after it, and no more below than come before.
LEMMA OrderStatistic ==
  ASSUME n \in Nat, NEW d, NEW order \in Bijection(1 .. n, 1 .. n), Ascending(order, d),
         NEW p \in 1 .. n
  PROVE  /\ Cardinality({k \in 1 .. n : d[k] > d[order[p]]}) <= n - p
         /\ Cardinality({k \in 1 .. n : d[order[p]] > d[k]}) <= p - 1
<1>1. \A k \in 1 .. n : \E i \in 1 .. n : order[i] = k
  BY DEF Bijection, Injection, Surjection
<1> DEFINE above == {k \in 1 .. n : d[k] > d[order[p]]}
           below == {k \in 1 .. n : d[order[p]] > d[k]}
<1>2. \A k \in above : \E i \in p + 1 .. n : order[i] = k
  <2> SUFFICES ASSUME NEW k \in above, NEW i \in 1 .. n, order[i] = k
               PROVE  i > p
    BY <1>1
  <2>1. ~ (i <= p)
    BY DEF Ascending
  <2> QED
    BY <2>1
<1>3. \A k \in below : \E i \in 1 .. p - 1 : order[i] = k
  <2> SUFFICES ASSUME NEW k \in below, NEW i \in 1 .. n, order[i] = k
               PROVE  i < p
    BY <1>1
  <2>1. ~ (p <= i)
    BY DEF Ascending
  <2> QED
    BY <2>1
<1>4. above \in SUBSET (1 .. n) /\ below \in SUBSET (1 .. n)
  OBVIOUS
<1> HIDE DEF above, below
<1>5. Cardinality(above) <= n - (p + 1) + 1
  <2>1. p + 1 \in Nat \ {0} /\ n \in Nat /\ p + 1 <= n + 1 /\ n <= n
    OBVIOUS
  <2> QED
    BY <1>2, <1>4, <2>1, PlacesBound
<1>6. Cardinality(below) <= p - 1 - 1 + 1
  <2>1. 1 \in Nat \ {0} /\ p - 1 \in Nat /\ 1 <= p - 1 + 1 /\ p - 1 <= n
    OBVIOUS
  <2> QED
    BY <1>3, <1>4, <2>1, PlacesBound
<1> QED
  BY <1>5, <1>6 DEF above, below

LEMMA InitDetector == Init => DetectorInv
<1> SUFFICES ASSUME Init PROVE DetectorInv
  OBVIOUS
<1>1. n = 0 /\ samples \in Seq(Features)
  BY DEF Init, n
<1> QED
  BY <1>1, DetectorAssumption DEF Init, DetectorInv, TypeOK, Calibrated, None

LEMMA NextDetector == DetectorInv /\ [Next]_vars => DetectorInv'
<1> SUFFICES ASSUME DetectorInv, [Next]_vars PROVE DetectorInv'
  OBVIOUS
<1> USE DEF DetectorInv
<1>1. n \in Nat /\ samples \in Seq(Features)
  BY DEF TypeOK, n
<1>2. ASSUME NEW m \in Features, Gather(m) PROVE DetectorInv'
  <2>1. outcome = "none" /\ outcome' = "none" /\ UNCHANGED <<target, model, alert>>
    BY <1>2 DEF Gather
  <2>2. samples' \in Seq(Features) /\ n' = n + 1 /\ n < target /\ target \in Nat
    BY <1>1, <1>2, DetectorAssumption DEF Gather, TypeOK, n
  <2> QED
    BY <1>1, <2>1, <2>2 DEF TypeOK, Calibrated
<1>3. CASE TrainFails
  BY <1>3 DEF TrainFails, TypeOK, Calibrated, n
<1>4. CASE Train
  <2>1. /\ outcome = "none" /\ n >= 2 /\ outcome' = "trained"
        /\ UNCHANGED <<target, samples, alert>> /\ n' = n
    BY <1>4 DEF Train, n
  <2>2. PICK phi \in [Features -> Space], order \in Bijection(1 .. n, 1 .. n) :
          /\ Ascending(order, Distances(phi))
          /\ model' = [phi |-> phi, size |-> n, sum |-> Sum(phi),
                       threshold |-> Distances(phi)[order[ThresholdIndex + 1]]]
    BY <1>4 DEF Train
  <2>3. Judged' = Distances(phi)
    BY <2>1, <2>2 DEF Judged, Distances, DistanceSq
  <2>4. ThresholdIndex + 1 \in 1 .. n /\ ThresholdIndex' = ThresholdIndex
    BY <1>1, <2>1, IndexBounds DEF ThresholdIndex
  <2>5. order[ThresholdIndex + 1] \in 1 .. n
    BY <2>4 DEF Bijection, Injection, Surjection
  <2>6. Calibrated'
    BY <2>1, <2>2, <2>3, <2>4 DEF Calibrated, Ascending
  <2>7. \E k \in 1 .. n : model'.threshold = DistanceSq(samples[k])'
    BY <2>1, <2>2, <2>3, <2>5 DEF Judged
  <2>8. alert = None
    BY <2>1 DEF TypeOK
  <2> QED
    BY <2>1, <2>2, <2>6, <2>7, <2>8 DEF TypeOK
<1>5. ASSUME NEW m \in Features, Predict(m) PROVE DetectorInv'
  <2>1. outcome = "trained" /\ UNCHANGED <<target, samples, model, outcome>>
    BY <1>5 DEF Predict
  <2>2. alert' # None => alert'.score > alert'.threshold /\ alert'.threshold = model.threshold
    BY <1>5 DEF Predict, IsAnomaly
  <2>3. Calibrated'
    BY <2>1 DEF DetectorInv, Calibrated, Judged, Ascending, DistanceSq, ThresholdIndex, n
  <2> QED
    BY <2>1, <2>2, <2>3 DEF TypeOK, DistanceSq, n
<1>6. CASE UNCHANGED vars
  BY <1>6 DEF vars, TypeOK, Calibrated, Judged, Ascending, DistanceSq, ThresholdIndex, n
<1> QED
  BY <1>2, <1>3, <1>4, <1>5, <1>6 DEF Next

\* The samples above the threshold are fewer than the share above the percentile.
LEMMA FewAbove == DetectorInv => FewFalseAlarms
<1> SUFFICES ASSUME DetectorInv, outcome = "trained"
             PROVE  Den * Cardinality(FalseAlarms) < (Den - Num) * n
  BY DEF FewFalseAlarms
<1>1. n \in Nat /\ n >= 2
  BY DEF DetectorInv, TypeOK, Calibrated, n
<1>2. PICK order \in Bijection(1 .. n, 1 .. n) :
        Ascending(order, Judged) /\ model.threshold = Judged[order[ThresholdIndex + 1]]
  BY DEF DetectorInv, Calibrated
<1>3. ThresholdIndex + 1 \in 1 .. n /\ ThresholdIndex \in Nat
  BY <1>1, IndexBounds
<1>4. FalseAlarms = {k \in 1 .. n : Judged[k] > Judged[order[ThresholdIndex + 1]]}
  BY <1>2 DEF FalseAlarms, IsAnomaly, Judged
<1>5. Cardinality(FalseAlarms) <= n - (ThresholdIndex + 1)
  BY <1>1, <1>2, <1>3, <1>4, OrderStatistic
<1>6. IsFiniteSet(1 .. n) /\ FalseAlarms \in SUBSET (1 .. n)
  BY <1>1, FS_Interval DEF FalseAlarms
<1>7. Cardinality(FalseAlarms) \in Nat
  BY <1>6, FS_Subset, FS_CardinalityType
<1> DEFINE c == Cardinality(FalseAlarms)
           t == n - ThresholdIndex - 1
<1>8. c \in Nat /\ t \in Int /\ c <= t /\ Den \in Nat
  BY <1>1, <1>3, <1>5, <1>7, DetectorAssumption
<1>9. Den * t < (Den - Num) * n
  BY <1>1, IndexBounds
<1> HIDE DEF c, t
<1>10. Den * c <= Den * t
  BY <1>8
<1>11. Den * c < (Den - Num) * n
  <2>1. (Den - Num) * n \in Int /\ Den * c \in Int /\ Den * t \in Int
    BY <1>1, <1>8, DetectorAssumption
  <2> QED
    BY <1>9, <1>10, <2>1
<1> QED
  BY <1>11 DEF c

\* The samples below the threshold are no more than the percentile asks for.
LEMMA FewBelow == DetectorInv => ThresholdTight
<1> DEFINE below == {k \in 1 .. n : DistanceSq(samples[k]) < model.threshold}
<1> SUFFICES ASSUME DetectorInv, outcome = "trained"
             PROVE  Den * Cardinality(below) <= Num * n
  BY DEF ThresholdTight
<1>1. n \in Nat /\ n >= 2
  BY DEF DetectorInv, TypeOK, Calibrated, n
<1>2. PICK order \in Bijection(1 .. n, 1 .. n) :
        Ascending(order, Judged) /\ model.threshold = Judged[order[ThresholdIndex + 1]]
  BY DEF DetectorInv, Calibrated
<1>3. ThresholdIndex + 1 \in 1 .. n /\ ThresholdIndex \in Nat /\ Den * ThresholdIndex <= Num * n
  BY <1>1, IndexBounds
<1>4. below = {k \in 1 .. n : Judged[order[ThresholdIndex + 1]] > Judged[k]}
  BY <1>2 DEF Judged
<1>5. IsFiniteSet(1 .. n) /\ below \in SUBSET (1 .. n)
  BY <1>1, FS_Interval
<1> HIDE DEF below
<1>6. Cardinality(below) <= ThresholdIndex
  <2>1. PICK p \in 1 .. n : p = ThresholdIndex + 1
    BY <1>3
  <2>2. Cardinality({k \in 1 .. n : Judged[order[p]] > Judged[k]}) <= p - 1
    BY <1>1, <1>2, OrderStatistic
  <2>3. below = {k \in 1 .. n : Judged[order[p]] > Judged[k]}
    BY <1>4, <2>1
  <2>4. Cardinality(below) <= p - 1
    BY <2>2, <2>3
  <2>5. p - 1 = ThresholdIndex
    BY <1>3, <2>1
  <2> QED
    BY <2>4, <2>5
<1>7. Cardinality(below) \in Nat
  BY <1>5, FS_Subset, FS_CardinalityType
<1> DEFINE c == Cardinality(below)
<1>8. c \in Nat /\ c <= ThresholdIndex /\ Den \in Nat /\ Num \in Nat
  BY <1>3, <1>6, <1>7, DetectorAssumption
<1> HIDE DEF c
<1>9. Den * c <= Den * ThresholdIndex
  BY <1>3, <1>8
<1>10. Den * c <= Num * n
  <2>1. Num * n \in Int /\ Den * c \in Int /\ Den * ThresholdIndex \in Int
    BY <1>1, <1>3, <1>8
  <2> QED
    BY <1>3, <1>9, <2>1
<1> QED
  BY <1>10 DEF c

\* For every number of samples, percentile and projection: the detector would
\* report less than the share above the percentile of what it was trained on, and
\* the threshold is no higher than that takes (main.rs:784-786).
THEOREM ThresholdBound == Spec => [](TypeOK /\ ThresholdAtPercentile)
<1>1. DetectorInv => TypeOK /\ ThresholdAtPercentile
  BY FewAbove, FewBelow DEF DetectorInv, ThresholdAtPercentile
<1> QED
  BY <1>1, InitDetector, NextDetector, PTL DEF Spec
=============================================================================
