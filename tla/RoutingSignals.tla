---------------------------- MODULE RoutingSignals ----------------------------
(***************************************************************************)
(* How the router turns a metrics snapshot into scores (router.py) and     *)
(* what a snapshot must satisfy (ProviderMetricsSnapshot's validator).     *)
(* Pure definitions.                                                       *)
(*                                                                         *)
(* Scores are integers: Unit stands for 1.0, confidences are numerators    *)
(* over FullConfidence, and division rounds down.  Latency and cost are    *)
(* counted in a unit of their own; the least price, 1, is COST_EPSILON.    *)
(***************************************************************************)
EXTENDS Integers

CONSTANTS
    Unit,             \* the score 1.0
    MinSamples,       \* MIN_MEASURED_SAMPLES
    FullSamples,      \* FULL_CONFIDENCE_SAMPLES
    PriorStrength,    \* RELIABILITY_PRIOR_STRENGTH
    LatencyTarget, LatencyCap, CostTarget

ASSUME ScoringAssumption ==
    /\ {MinSamples, PriorStrength, LatencyTarget, LatencyCap, CostTarget} \subseteq Nat
    /\ {Unit, FullSamples} \subseteq Nat \ {0}
    /\ MinSamples < FullSamples

None == -1
Score == 0 .. Unit
Metric == {"quality", "cost", "latency", "reliability"}

ProviderMetricsSnapshot ==
    [sample_count : Nat, success_count : Nat, failure_count : Nat,
     p50_latency : Nat \cup {None},
     priced_sample_count : Nat, p50_cost : Nat \cup {None}]

(* A pair that list_provider_metrics says nothing about.                   *)
NoSnapshot ==
    [sample_count |-> 0, success_count |-> 0, failure_count |-> 0,
     p50_latency |-> None, priced_sample_count |-> 0, p50_cost |-> None]

ConsistentSnapshot(s) ==
    /\ s \in ProviderMetricsSnapshot
    /\ s.success_count + s.failure_count = s.sample_count
    /\ s.priced_sample_count <= s.success_count
    /\ s.priced_sample_count = 0 <=> s.p50_cost = None
    /\ s.sample_count = 0 <=> s.p50_latency = None

-----------------------------------------------------------------------------
FullConfidence == FullSamples - MinSamples

ConfidenceForSamples(n) ==
    IF n < MinSamples THEN 0
    ELSE IF n >= FullSamples THEN FullConfidence
    ELSE n - MinSamples

Clamp(value) == IF value < 0 THEN 0 ELSE IF value > Unit THEN Unit ELSE value

AtLeastOne(value) == IF value < 1 THEN 1 ELSE value

(* Mutant of NormalizeLatency: faster than the target is more than 1.      *)
UnclampedLatency(latency) ==
    LET capped == IF latency > LatencyCap THEN LatencyCap ELSE latency
    IN  (Unit * LatencyTarget) \div AtLeastOne(capped)

NormalizeLatency(latency) ==
    LET capped == IF latency > LatencyCap THEN LatencyCap ELSE latency
    IN  Clamp((Unit * LatencyTarget) \div AtLeastOne(capped))

NormalizeCost(cost) == Clamp((Unit * CostTarget) \div AtLeastOne(cost))

BlendScore(static, measured, confidence) ==
    (static * (FullConfidence - confidence) + measured * confidence)
        \div FullConfidence

(* The candidate's own baseline weighs as PriorStrength attempts.          *)
Smoothed(static, s) ==
    Clamp((Unit * s.success_count + static * PriorStrength)
              \div AtLeastOne(s.sample_count + PriorStrength))

-----------------------------------------------------------------------------
(* Without confidence a measured value has no weight in the blend.         *)
LatencySignal(static, s) ==
    IF s.p50_latency = None THEN static
    ELSE BlendScore(static, NormalizeLatency(s.p50_latency),
                    ConfidenceForSamples(s.sample_count))

(* Mutant of ReliabilitySignal: only successes make it trusted.            *)
TrustedBySuccess(static, s) ==
    IF s.sample_count = 0 THEN static
    ELSE BlendScore(static, Smoothed(static, s),
                    ConfidenceForSamples(s.success_count))

ReliabilitySignal(static, s) ==
    IF s.sample_count = 0 THEN static
    ELSE BlendScore(static, Smoothed(static, s),
                    ConfidenceForSamples(s.sample_count))

(* Mutant of CostSignal: trusted as much as the pair's other signals.      *)
CostOfAnySample(static, s) ==
    IF s.p50_cost = None THEN static
    ELSE BlendScore(static, NormalizeCost(s.p50_cost),
                    ConfidenceForSamples(s.sample_count))

CostSignal(static, s) ==
    IF s.p50_cost = None THEN static
    ELSE BlendScore(static, NormalizeCost(s.p50_cost),
                    ConfidenceForSamples(s.priced_sample_count))

(* Benchmark evidence carries a score and a confidence of its own.         *)
QualitySignal(static, evidence) ==
    IF evidence.score = None THEN static
    ELSE BlendScore(static, evidence.score, evidence.confidence)

RoutingSignal(baseline, s, evidence) ==
    [quality     |-> QualitySignal(baseline["quality"], evidence),
     cost        |-> CostSignal(baseline["cost"], s),
     latency     |-> LatencySignal(baseline["latency"], s),
     reliability |-> ReliabilitySignal(baseline["reliability"], s)]

Total(weights) ==
    weights["quality"] + weights["cost"] + weights["latency"] + weights["reliability"]

(* RoutingPreferences: weights of which one is positive, then normalized.  *)
RoutingPreferences == {weights \in [Metric -> Nat] : Total(weights) > 0}

FinalScore(weights, signal) ==
    (  signal["quality"] * weights["quality"]
     + signal["cost"] * weights["cost"]
     + signal["latency"] * weights["latency"]
     + signal["reliability"] * weights["reliability"]) \div Total(weights)
=============================================================================
