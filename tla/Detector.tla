------------------------------ MODULE Detector ------------------------------
(***************************************************************************)
(* The SVDD detector: train_model (src/main.rs) on the samples the main    *)
(* thread gathered, and InferenceEngine::predict and create_alert          *)
(* (src/ml/svdd.rs) with the model that came out of it.                    *)
(*                                                                         *)
(* Both map a flow's features in the same way, by the means, deviations,   *)
(* weights and offsets of the model, to a point of the projected space;    *)
(* that map is an arbitrary function here (`phi`), and the space a set of  *)
(* integers.  A distance is scaled by the square of the sample count, so   *)
(* that the centroid needs no division; rounding is not modelled.          *)
(***************************************************************************)
EXTENDS Integers, Sequences, FiniteSets, FiniteSetsExt, Functions

CONSTANTS Features,   \* what a FlowMetrics may be
          Space,      \* the projected space
          Num, Den,   \* the percentile of the threshold, 95/100 in the code
          MaxSamples

ASSUME DetectorAssumption ==
  /\ Features # {} /\ Space \subseteq Int /\ Space # {}
  /\ Num \in Nat /\ Den \in Nat /\ Num < Den /\ MaxSamples \in Nat

VARIABLES target,    \* training_samples
          samples,   \* the metrics gathered so far
          model,     \* MODEL_CONFIG, None before the training
          outcome,   \* how the training ended
          alert      \* the alert of the last verdict, None for a normal one

vars == <<target, samples, model, outcome, alert>>

None == << >>

n == Len(samples)

Init ==
  /\ target \in 0 .. MaxSamples
  /\ samples = << >> /\ model = None
  /\ outcome = "none" /\ alert = None

-----------------------------------------------------------------------------
(* Training.                                                               *)

Gather(m) ==
  /\ outcome = "none" /\ n < target
  /\ samples' = Append(samples, m)
  /\ UNCHANGED <<target, model, outcome, alert>>

Square(x) == x * x

\* n times the centroid, the mean of the projected samples.
Sum(phi) == MapThenSumSet(LAMBDA k : phi[samples[k]], 1 .. n)

Distances(phi) == [k \in 1 .. n |-> Square(n * phi[samples[k]] - Sum(phi))]

\* sort_by partial_cmp: `order` lists the samples by ascending distance.
Ascending(order, d) == \A i, j \in 1 .. n : i <= j => ~ (d[order[i]] > d[order[j]])

\* Mutant of ThresholdIndex: one place too low.
ThresholdIndexLow == IF (n * Num) \div Den < 1 THEN 0 ELSE (n * Num) \div Den - 1

\* Mutant of ThresholdIndex: always the largest distance.
ThresholdIndexLast == n - 1

\* (n as f64 * 0.95) as usize, at most n - 1; the first element has index 0.
ThresholdIndex == IF (n * Num) \div Den < n - 1 THEN (n * Num) \div Den ELSE n - 1

\* An error without samples; without two there is no pair whose distance could
\* be the median, and indexing the empty vector panics.
TrainFails ==
  /\ outcome = "none" /\ n >= target /\ n < 2
  /\ outcome' = IF n = 0 THEN "error" ELSE "panic"
  /\ UNCHANGED <<target, samples, model, alert>>

Train ==
  /\ outcome = "none" /\ n >= target /\ n >= 2
  /\ \E phi \in [Features -> Space], order \in Bijection(1 .. n, 1 .. n) :
       LET d == Distances(phi)
       IN /\ Ascending(order, d)
          /\ model' = [phi |-> phi, size |-> n, sum |-> Sum(phi),
                       threshold |-> d[order[ThresholdIndex + 1]]]
  /\ outcome' = "trained"
  /\ UNCHANGED <<target, samples, alert>>

-----------------------------------------------------------------------------
(* Detection.                                                              *)

DistanceSq(m) == Square(model.size * model.phi[m] - model.sum)

\* Mutant of IsAnomaly: the threshold itself is out.
IsAnomalyAt(m) == DistanceSq(m) >= model.threshold

IsAnomaly(m) == DistanceSq(m) > model.threshold

\* predict, and create_alert for an anomaly.
Predict(m) ==
  /\ outcome = "trained"
  /\ alert' = IF IsAnomaly(m) THEN [score |-> DistanceSq(m), threshold |-> model.threshold]
              ELSE None
  /\ UNCHANGED <<target, samples, model, outcome>>

Next == TrainFails \/ Train \/ \E m \in Features : Gather(m) \/ Predict(m)

Spec == Init /\ [][Next]_vars

-----------------------------------------------------------------------------
\* A model exists exactly after a training that ended with one, and its threshold
\* is the distance of one of the samples.
TypeOK ==
  /\ target \in 0 .. MaxSamples /\ samples \in Seq(Features) /\ n <= target
  /\ outcome \in {"none", "error", "panic", "trained"}
  /\ IF outcome = "trained"
       THEN /\ model.phi \in [Features -> Space] /\ model.size = n
            /\ \E k \in 1 .. n : model.threshold = DistanceSq(samples[k])
       ELSE model = None /\ alert = None
  /\ alert # None => alert.score > alert.threshold /\ alert.threshold = model.threshold

\* The samples the detector would report if it saw them again.
FalseAlarms == {k \in 1 .. n : IsAnomaly(samples[k])}

\* "95th percentile threshold" (main.rs:795): of the traffic the detector was
\* trained on as normal it reports less than one part in twenty.
FewFalseAlarms ==
  outcome = "trained" => Den * Cardinality(FalseAlarms) < (Den - Num) * n

\* Nor is the threshold higher than the percentile asks: the samples nearer than
\* it are at most 95 in a hundred.
ThresholdTight ==
  outcome = "trained" =>
    Den * Cardinality({k \in 1 .. n : DistanceSq(samples[k]) < model.threshold}) <= Num * n

\* The threshold is the percentile from both sides, whatever the traffic, with
\* equal distances and for numbers of samples that do not divide.
ThresholdAtPercentile == FewFalseAlarms /\ ThresholdTight
=============================================================================
