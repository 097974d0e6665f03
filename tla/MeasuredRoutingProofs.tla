------------------------- MODULE MeasuredRoutingProofs -------------------------
(***************************************************************************)
(* What holds of scores, snapshots and listings for all candidates, rows,  *)
(* limits and thresholds.                                                  *)
(*                                                                         *)
(* Scores stay within 0 and Unit because each is an average of two such    *)
(* values; snapshots are sound because their counts are of nested subsets  *)
(* of one window.  A listing is complete because rows are never removed    *)
(* and its instant stays the same, and because a limit of at least one     *)
(* always keeps the newest row.                                            *)
(***************************************************************************)
EXTENDS MeasuredRouting, FiniteSetTheorems, WellFoundedInduction, TLAPS

-----------------------------------------------------------------------------
(* Arithmetic.                                                             *)

(* Products of natural numbers grow with a factor.                          *)
LEMMA ProductMonotone ==
    ASSUME NEW x \in Nat, NEW y \in Nat, x <= y, NEW z \in Nat
    PROVE  /\ x * z \in Nat
           /\ x * z <= y * z
  OBVIOUS

(* Rounding down does not leave the bounds of an average.                  *)
LEMMA QuotientBounded ==
    ASSUME NEW a \in Nat, NEW d \in Nat \ {0}, NEW u \in Nat, a <= u * d
    PROVE  a \div d \in 0 .. u
  OBVIOUS

(* A clamped value is a score.                                              *)
LEMMA ClampBounded ==
    ASSUME NEW v \in Int
    PROVE  Clamp(v) \in Score
  BY ScoringAssumption DEF Clamp, Score

(* A confidence is a part of full confidence.                               *)
LEMMA ConfidenceBounded ==
    ASSUME NEW n \in Nat
    PROVE  ConfidenceForSamples(n) \in 0 .. FullConfidence
  BY ScoringAssumption DEF ConfidenceForSamples, FullConfidence

(* A blend of two scores is a score.                                       *)
LEMMA BlendBounded ==
    ASSUME NEW static \in Score, NEW measured \in Score,
           NEW confidence \in 0 .. FullConfidence
    PROVE  BlendScore(static, measured, confidence) \in Score
<1> DEFINE rest == FullConfidence - confidence
<1>1. /\ Unit \in Nat
      /\ FullConfidence \in Nat \ {0}
      /\ rest \in Nat
      /\ confidence \in Nat
      /\ static \in Nat /\ static <= Unit
      /\ measured \in Nat /\ measured <= Unit
  BY ScoringAssumption DEF Score, FullConfidence
<1>2. static * rest \in Nat /\ static * rest <= Unit * rest
  BY <1>1, ProductMonotone
<1>3. measured * confidence \in Nat /\ measured * confidence <= Unit * confidence
  BY <1>1, ProductMonotone
<1>4. Unit * rest + Unit * confidence = Unit * FullConfidence
  BY <1>1
<1> HIDE DEF rest
<1>5. /\ static * rest + measured * confidence \in Nat
      /\ static * rest + measured * confidence <= Unit * FullConfidence
  <2>1. /\ Unit * rest \in Int
        /\ Unit * confidence \in Int
    BY <1>1
  <2> QED
    BY <1>2, <1>3, <1>4, <2>1
<1>6. (static * rest + measured * confidence) \div FullConfidence \in 0 .. Unit
  BY <1>1, <1>5, QuotientBounded
<1> QED
  BY <1>6 DEF BlendScore, Score, rest

(* A normalised latency or cost is a score.                                 *)
LEMMA NormalizedBounded ==
    ASSUME NEW v \in Nat
    PROVE  NormalizeLatency(v) \in Score /\ NormalizeCost(v) \in Score
<1>1. \A w \in Int : AtLeastOne(w) \in Nat \ {0}
  BY DEF AtLeastOne
<1>2. \A a \in Int, d \in Nat \ {0} : a \div d \in Int
  OBVIOUS
<1>3. Unit * LatencyTarget \in Int /\ Unit * CostTarget \in Int
  BY ScoringAssumption
<1>4. (IF v > LatencyCap THEN LatencyCap ELSE v) \in Int
  BY ScoringAssumption
<1>5. NormalizeLatency(v) \in Score
  BY <1>1, <1>2, <1>3, <1>4, ClampBounded DEF NormalizeLatency
<1>6. NormalizeCost(v) \in Score
  BY <1>1, <1>2, <1>3, ClampBounded DEF NormalizeCost
<1> QED
  BY <1>5, <1>6

(* A success rate smoothed with the configured reliability is a score.      *)
LEMMA SmoothedBounded ==
    ASSUME NEW static \in Score, NEW s \in ProviderMetricsSnapshot
    PROVE  Smoothed(static, s) \in Score
<1>1. /\ s.success_count \in Nat /\ s.sample_count \in Nat
      /\ Unit \in Nat /\ PriorStrength \in Nat /\ static \in Nat
  BY ScoringAssumption DEF Score, ProviderMetricsSnapshot
<1>2. AtLeastOne(s.sample_count + PriorStrength) \in Nat \ {0}
  BY <1>1 DEF AtLeastOne
<1>3. Unit * s.success_count + static * PriorStrength \in Int
  BY <1>1
<1>4. (Unit * s.success_count + static * PriorStrength)
          \div AtLeastOne(s.sample_count + PriorStrength) \in Int
  BY <1>2, <1>3
<1> QED
  BY <1>4, ClampBounded DEF Smoothed

(* Any snapshot and any benchmark evidence make scores within the unit.    *)
THEOREM SignalBounded ==
    ASSUME NEW baseline \in [Metric -> Score],
           NEW s \in ProviderMetricsSnapshot, NEW evidence \in BenchmarkQuality
    PROVE  RoutingSignal(baseline, s, evidence) \in [Metric -> Score]
<1>1. \A m \in Metric : baseline[m] \in Score
  OBVIOUS
<1>2. /\ s.sample_count \in Nat /\ s.priced_sample_count \in Nat
      /\ s.p50_latency \in Nat \cup {None} /\ s.p50_cost \in Nat \cup {None}
  BY DEF ProviderMetricsSnapshot
<1>3. QualitySignal(baseline["quality"], evidence) \in Score
  <2>1. baseline["quality"] \in Score
    BY <1>1 DEF Metric
  <2>2. CASE evidence.score = None
    BY <2>1, <2>2 DEF QualitySignal
  <2>3. CASE evidence.score # None
    <3>1. evidence.score \in Score /\ evidence.confidence \in 0 .. FullConfidence
      BY <2>3 DEF BenchmarkQuality
    <3> QED
      BY <2>1, <2>3, <3>1, BlendBounded DEF QualitySignal
  <2> QED
    BY <2>2, <2>3
<1>4. CostSignal(baseline["cost"], s) \in Score
  <2>1. baseline["cost"] \in Score
    BY <1>1 DEF Metric
  <2>2. CASE s.p50_cost = None
    BY <2>1, <2>2 DEF CostSignal
  <2>3. CASE s.p50_cost # None
    BY <1>2, <2>1, <2>3, NormalizedBounded, ConfidenceBounded, BlendBounded
       DEF CostSignal
  <2> QED
    BY <2>2, <2>3
<1>5. LatencySignal(baseline["latency"], s) \in Score
  <2>1. baseline["latency"] \in Score
    BY <1>1 DEF Metric
  <2>2. CASE s.p50_latency = None
    BY <2>1, <2>2 DEF LatencySignal
  <2>3. CASE s.p50_latency # None
    BY <1>2, <2>1, <2>3, NormalizedBounded, ConfidenceBounded, BlendBounded
       DEF LatencySignal
  <2> QED
    BY <2>2, <2>3
<1>6. ReliabilitySignal(baseline["reliability"], s) \in Score
  <2>1. baseline["reliability"] \in Score
    BY <1>1 DEF Metric
  <2> QED
    BY <1>2, <2>1, SmoothedBounded, ConfidenceBounded, BlendBounded
       DEF ReliabilitySignal
<1> QED
  BY <1>3, <1>4, <1>5, <1>6 DEF RoutingSignal, Metric

(* So does the weighted mean of them, whatever a client prefers.           *)
LEMMA FinalScoreBounded ==
    ASSUME NEW weights \in RoutingPreferences, NEW signal \in [Metric -> Score]
    PROVE  FinalScore(weights, signal) \in Score
<1> DEFINE q == signal["quality"] * weights["quality"]
           c == signal["cost"] * weights["cost"]
           l == signal["latency"] * weights["latency"]
           r == signal["reliability"] * weights["reliability"]
<1>1. /\ Unit \in Nat
      /\ \A m \in Metric : signal[m] \in Nat /\ signal[m] <= Unit
                              /\ weights[m] \in Nat
  BY ScoringAssumption DEF RoutingPreferences, Score
<1>2. \A m \in Metric : /\ signal[m] * weights[m] \in Nat
                        /\ signal[m] * weights[m] <= Unit * weights[m]
  BY <1>1, ProductMonotone
<1>3. Total(weights) \in Nat \ {0}
  BY <1>1 DEF Total, Metric, RoutingPreferences
<1>4. /\ q \in Nat /\ q <= Unit * weights["quality"]
      /\ c \in Nat /\ c <= Unit * weights["cost"]
      /\ l \in Nat /\ l <= Unit * weights["latency"]
      /\ r \in Nat /\ r <= Unit * weights["reliability"]
  BY <1>2 DEF Metric
<1>5. /\ Unit * weights["quality"] \in Int /\ Unit * weights["cost"] \in Int
      /\ Unit * weights["latency"] \in Int /\ Unit * weights["reliability"] \in Int
      /\ Unit * weights["quality"] + Unit * weights["cost"]
             + Unit * weights["latency"] + Unit * weights["reliability"]
             = Unit * Total(weights)
  BY <1>1 DEF Metric, Total
<1> HIDE DEF q, c, l, r
<1>6. /\ q + c + l + r \in Nat
      /\ q + c + l + r <= Unit * Total(weights)
  BY <1>4, <1>5
<1>7. (q + c + l + r) \div Total(weights) \in 0 .. Unit
  BY <1>1, <1>3, <1>6, QuotientBounded
<1> QED
  BY <1>7 DEF FinalScore, Score, q, c, l, r

-----------------------------------------------------------------------------
(* Windows.                                                                *)

(* Rows whose attempts may also have gone otherwise than any that is       *)
(* observed, but took as long or cost as much as one of those.             *)
Thinkable ==
    [success : BOOLEAN,
     latency : {o.latency : o \in Observation},
     estimated_cost : {o.estimated_cost : o \in Observation} \cup {None}]

Row == [pair : Pair, finished_at : 0 .. MaxTime, observed : Thinkable]
Rows == Seq(Row)

(* The rows the store has are rows that could be thought of.                *)
LEMMA StoredRows ==
    /\ AttemptRecord \subseteq Row
    /\ attempts \in Seq(AttemptRecord) => attempts \in Rows
<1>1. Observation \subseteq Thinkable
  <2>1. Observation \subseteq
            [success : BOOLEAN, latency : Nat, estimated_cost : Nat \cup {None}]
    BY RoutingAssumption
  <2> QED
    BY <2>1 DEF Thinkable
<1>2. AttemptRecord \subseteq Row
  BY <1>1 DEF AttemptRecord, Row
<1> QED
  BY <1>2 DEF Rows

(* What a row is made of.                                                   *)
LEMMA RowTypes ==
    ASSUME NEW rows \in Rows, NEW i \in DOMAIN rows
    PROVE  /\ i \in Nat /\ i <= Len(rows) /\ Len(rows) \in Nat
           /\ rows[i].finished_at \in 0 .. MaxTime
           /\ rows[i].observed.latency \in Nat
           /\ rows[i].observed.estimated_cost \in Nat \cup {None}
           /\ rows[i].observed.success \in BOOLEAN
<1>1. i \in 1 .. Len(rows) /\ Len(rows) \in Nat /\ rows[i] \in Row
  BY DEF Rows
<1>2. rows[i].observed \in Thinkable /\ rows[i].finished_at \in 0 .. MaxTime
  BY <1>1 DEF Row
<1>3. \A o \in Observation : o.latency \in Nat /\ o.estimated_cost \in Nat \cup {None}
  BY RoutingAssumption
<1> QED
  BY <1>1, <1>2, <1>3 DEF Thinkable

(* A window is a finite part of the rows that match.                        *)
LEMMA WindowsFinite ==
    ASSUME NEW rows \in Rows, NEW p, NEW as_of
    PROVE  /\ IsFiniteSet(Matching(rows, p, as_of))
           /\ IsFiniteSet(Recent(rows, p, as_of))
           /\ Recent(rows, p, as_of) \subseteq Matching(rows, p, as_of)
<1>1. DOMAIN rows = 1 .. Len(rows) /\ Len(rows) \in Nat
  BY DEF Rows
<1>2. IsFiniteSet(DOMAIN rows)
  BY <1>1, FS_Interval
<1>3. /\ Matching(rows, p, as_of) \subseteq DOMAIN rows
      /\ Recent(rows, p, as_of) \subseteq Matching(rows, p, as_of)
  BY DEF Matching, Recent
<1> QED
  BY <1>2, <1>3, FS_Subset

(* A set of natural numbers has a least one.                               *)
LEMMA LeastNatural ==
    ASSUME NEW S \in SUBSET Nat, S # {}
    PROVE  \E m \in S : \A n \in S : m <= n
<1> DEFINE Less == {ss \in Nat \X Nat : ss[1] < ss[2]}
<1>1. IsWellFoundedOn(Less, Nat)
  BY NatLessThanWellFounded DEF OpToRel
<1>2. \A m, n \in Nat : ~ (<<n, m>> \in Less) => m <= n
  OBVIOUS
<1> HIDE DEF Less
<1>3. \E m \in S : \A n \in S : ~ (<<n, m>> \in Less)
  BY <1>1, WFMin
<1> QED
  BY <1>2, <1>3

(* The limit keeps the newest row, so it never empties a window.           *)
LEMMA NewestIsRecent ==
    ASSUME NEW rows \in Rows, NEW p, NEW as_of,
           Matching(rows, p, as_of) # {}
    PROVE  Recent(rows, p, as_of) # {}
<1> DEFINE M == Matching(rows, p, as_of)
           Ages == {MaxTime - rows[i].finished_at : i \in M}
<1>1. M \subseteq DOMAIN rows
  BY DEF Matching
<1>2. \A i \in M : /\ i \in Nat /\ i <= Len(rows) /\ Len(rows) \in Nat
                    /\ rows[i].finished_at \in 0 .. MaxTime
  BY <1>1, RowTypes
<1>3. MaxTime \in Nat
  BY RoutingAssumption
<1>4. Ages \in SUBSET Nat /\ Ages # {}
  BY <1>2, <1>3
<1>5. PICK age \in Ages : \A a \in Ages : age <= a
  BY <1>4, LeastNatural
<1>6. PICK k \in M : age = MaxTime - rows[k].finished_at
  BY <1>5
<1>7. \A i \in M : rows[i].finished_at <= rows[k].finished_at
  <2>1. ASSUME NEW i \in M
        PROVE  rows[i].finished_at <= rows[k].finished_at
    <3>1. age <= MaxTime - rows[i].finished_at
      BY <1>5
    <3> QED
      BY <1>2, <1>3, <1>6, <3>1
  <2> QED
    BY <2>1
<1> DEFINE Latest == {i \in M : rows[i].finished_at = rows[k].finished_at}
           Places == {Len(rows) - i : i \in Latest}
<1>8. Places \in SUBSET Nat /\ Places # {}
  BY <1>2, <1>6
<1>9. PICK place \in Places : \A b \in Places : place <= b
  BY <1>8, LeastNatural
<1>10. PICK newest \in Latest : place = Len(rows) - newest
  BY <1>9
<1>11. \A i \in Latest : i <= newest
  <2>1. ASSUME NEW i \in Latest
        PROVE  i <= newest
    <3>1. place <= Len(rows) - i
      BY <1>9
    <3> QED
      BY <1>2, <1>10, <3>1
  <2> QED
    BY <2>1
<1>12. {j \in M : Newer(rows, j, newest)} = {}
  <2>1. ASSUME NEW j \in M, Newer(rows, j, newest)
        PROVE  FALSE
    <3>1. /\ rows[j].finished_at \in Nat /\ rows[newest].finished_at \in Nat
          /\ j \in Nat /\ newest \in Nat
      BY <1>2
    <3>2. rows[j].finished_at <= rows[newest].finished_at
      BY <1>7
    <3>3. rows[j].finished_at = rows[newest].finished_at /\ j > newest
      BY <2>1, <3>1, <3>2 DEF Newer
    <3>4. j \in Latest
      BY <3>3
    <3> QED
      BY <1>11, <3>1, <3>3, <3>4
  <2> QED
    BY <2>1
<1>13. newest \in Recent(rows, p, as_of)
  <2>1. Cardinality({j \in M : Newer(rows, j, newest)}) = 0
    BY <1>12, FS_EmptySet
  <2>2. WindowLimit \in Nat \ {0}
    BY RoutingAssumption
  <2>3. Cardinality({j \in M : Newer(rows, j, newest)}) < WindowLimit
    BY <2>1, <2>2
  <2> QED
    BY <2>3 DEF Recent
<1> QED
  BY <1>13

(* Of finitely many numbers that are not too large, the median is one.     *)
LEMMA MedianType ==
    ASSUME NEW D, IsFiniteSet(D), D # {}, NEW value \in [D -> Nat],
           NEW bound \in Nat, \A i \in D : value[i] <= bound
    PROVE  Median(value) \in Nat
<1> DEFINE values == {value[i] : i \in D}
           Reached(v) == 2 * Cardinality({i \in D : value[i] <= v}) >= Cardinality(D)
           Candidates == {v \in values : Reached(v)}
           Gaps == {bound - v : v \in values}
<1>1. values \in SUBSET Nat /\ values # {}
  OBVIOUS
<1>2. Gaps \in SUBSET Nat /\ Gaps # {}
  <2>1. \A v \in values : v \in Nat /\ v <= bound
    OBVIOUS
  <2> HIDE DEF values
  <2>2. \A v \in values : bound - v \in Nat
    BY <2>1
  <2> QED
    BY <1>1, <2>2
<1>3. PICK gap \in Gaps : \A g \in Gaps : gap <= g
  BY <1>2, LeastNatural
<1>4. PICK top \in values : gap = bound - top
  BY <1>3
<1>5. \A i \in D : value[i] <= top
  <2>1. ASSUME NEW i \in D
        PROVE  value[i] <= top
    <3>1. gap <= bound - value[i]
      BY <1>3
    <3>2. top \in Nat /\ value[i] \in Nat
      BY <1>1, <1>4
    <3> QED
      BY <1>4, <3>1, <3>2
  <2> QED
    BY <2>1
<1>6. {i \in D : value[i] <= top} = D
  BY <1>5
<1>7. Reached(top)
  <2>1. Cardinality(D) \in Nat
    BY FS_CardinalityType
  <2>2. Cardinality({i \in D : value[i] <= top}) = Cardinality(D)
    BY <1>6
  <2> HIDE DEF values
  <2> QED
    BY <2>1, <2>2
<1>8. Candidates \in SUBSET Nat /\ Candidates # {}
  BY <1>1, <1>4, <1>7
<1>9. PICK least \in Candidates : \A v \in Candidates : least <= v
  BY <1>8, LeastNatural
<1>10. \E v \in values : Reached(v) /\ \A w \in values : Reached(w) => v <= w
  BY <1>9
<1> HIDE DEF Reached
<1>11. (CHOOSE v \in values : Reached(v) /\ \A w \in values : Reached(w) => v <= w)
           \in values
  BY <1>10
<1> QED
  BY <1>1, <1>11 DEF Median, Reached

-----------------------------------------------------------------------------
(* A snapshot of any window of any rows is sound.                          *)
THEOREM MetricsSound ==
    ASSUME NEW rows \in Rows, NEW p, NEW as_of
    PROVE  ConsistentSnapshot(BuildMetrics(rows, p, as_of))
<1> DEFINE W == Recent(rows, p, as_of)
           S == Succeeded(rows, W)
           C == Costs(rows, p, as_of)
           latency == [i \in W |-> rows[i].observed.latency]
           cost == [i \in C |-> rows[i].observed.estimated_cost]
<1>1. /\ IsFiniteSet(W) /\ W \subseteq DOMAIN rows
      /\ S \subseteq W /\ C \subseteq S
  BY WindowsFinite DEF Matching, Succeeded, Costs, Priced
<1>2. IsFiniteSet(S) /\ IsFiniteSet(C)
  BY <1>1, FS_Subset
<1>3. /\ Cardinality(W) \in Nat /\ Cardinality(S) \in Nat /\ Cardinality(C) \in Nat
      /\ Cardinality(S) <= Cardinality(W) /\ Cardinality(C) <= Cardinality(S)
  BY <1>1, <1>2, FS_CardinalityType, FS_Subset
<1>4. /\ Cardinality(W) = 0 <=> W = {}
      /\ Cardinality(C) = 0 <=> C = {}
  BY <1>1, <1>2, FS_EmptySet
<1>5. PICK bound \in Nat : \A o \in Observation :
          o.latency <= bound /\ o.estimated_cost <= bound
  <2>1. PICK slowest, dearest \in Observation : \A o \in Observation :
            o.latency <= slowest.latency /\ o.estimated_cost <= dearest.estimated_cost
    BY RoutingAssumption
  <2>2. \A o \in Observation : o.latency \in Nat /\ o.estimated_cost \in Int
    BY RoutingAssumption DEF None
  <2>3. slowest.latency \in Nat /\ dearest.estimated_cost \in Int
    BY <2>2
  <2>4. \E b \in Nat : slowest.latency <= b /\ dearest.estimated_cost <= b
    <3>1. CASE dearest.estimated_cost <= slowest.latency
      BY <2>3, <3>1
    <3>2. CASE ~ (dearest.estimated_cost <= slowest.latency)
      BY <2>3, <3>2
    <3> QED
      BY <3>1, <3>2
  <2>5. PICK b \in Nat : slowest.latency <= b /\ dearest.estimated_cost <= b
    BY <2>4
  <2>6. \A o \in Observation : o.latency <= b /\ o.estimated_cost <= b
    BY <2>1, <2>2, <2>3, <2>5
  <2> QED
    BY <2>6
<1>6. \A i \in DOMAIN rows :
          rows[i].observed.latency <= bound /\ rows[i].observed.estimated_cost <= bound
  <2>1. \A i \in DOMAIN rows : rows[i].observed \in Thinkable
    <3>1. \A i \in DOMAIN rows : rows[i] \in Row
      BY DEF Rows
    <3> QED
      BY <3>1 DEF Row
  <2>2. None <= bound
    BY <1>5 DEF None
  <2> QED
    BY <1>5, <2>1, <2>2 DEF Thinkable
<1>7. /\ W # {} => Median(latency) \in Nat
      /\ W = {} => Median(latency) = None
  <2>1. /\ latency \in [W -> Nat]
        /\ \A i \in W : latency[i] <= bound
    BY <1>1, <1>5, <1>6, RowTypes
  <2>2. W = {} => Median(latency) = None
    BY DEF Median
  <2> HIDE DEF latency, W
  <2> QED
    BY <1>1, <2>1, <2>2, MedianType
<1>8. /\ C # {} => Median(cost) \in Nat
      /\ C = {} => Median(cost) = None
  <2>1. \A i \in C : i \in DOMAIN rows /\ rows[i].observed.estimated_cost # None
    BY <1>1 DEF Costs, Priced
  <2>2. /\ cost \in [C -> Nat]
        /\ \A i \in C : cost[i] <= bound
    BY <1>5, <1>6, <2>1, RowTypes
  <2>3. C = {} => Median(cost) = None
    BY DEF Median
  <2> HIDE DEF cost, C
  <2> QED
    BY <1>2, <2>2, <2>3, MedianType
<1> DEFINE s == BuildMetrics(rows, p, as_of)
<1>9. s = [sample_count        |-> Cardinality(W),
           success_count       |-> Cardinality(S),
           failure_count       |-> Cardinality(W) - Cardinality(S),
           p50_latency         |-> Median(latency),
           priced_sample_count |-> Cardinality(C),
           p50_cost            |-> Median(cost)]
  BY DEF BuildMetrics
<1>10. None \notin Nat
  BY DEF None
<1> HIDE DEF W, S, C, latency, cost, s
<1>11. /\ s \in ProviderMetricsSnapshot
       /\ s.success_count + s.failure_count = s.sample_count
       /\ s.priced_sample_count <= s.success_count
       /\ s.priced_sample_count = 0 <=> s.p50_cost = None
       /\ s.sample_count = 0 <=> s.p50_latency = None
  <2>1. Cardinality(W) - Cardinality(S) \in Nat
    BY <1>3
  <2>2. Median(latency) \in Nat \cup {None} /\ Median(cost) \in Nat \cup {None}
    BY <1>7, <1>8
  <2>3. s \in ProviderMetricsSnapshot
    BY <1>3, <1>9, <2>1, <2>2 DEF ProviderMetricsSnapshot
  <2>4. s.success_count + s.failure_count = s.sample_count
    BY <1>3, <1>9
  <2>5. s.priced_sample_count <= s.success_count
    BY <1>3, <1>9
  <2>6. s.priced_sample_count = 0 <=> s.p50_cost = None
    BY <1>4, <1>8, <1>9, <1>10
  <2>7. s.sample_count = 0 <=> s.p50_latency = None
    BY <1>4, <1>7, <1>9, <1>10
  <2> QED
    BY <2>3, <2>4, <2>5, <2>6, <2>7
<1> QED
  BY <1>11 DEF ConsistentSnapshot, s

-----------------------------------------------------------------------------
(* The state machine.                                                      *)

(* Rows, clock and the endpoint's call keep their types.                   *)
THEOREM RoutingTypes == Spec => []RoutingTypeOK
<1>1. Init => RoutingTypeOK
  BY RoutingAssumption DEF Init, Idle, RoutingTypeOK
<1>2. RoutingTypeOK /\ [Next]_vars => RoutingTypeOK'
  <2> SUFFICES ASSUME RoutingTypeOK, [Next]_vars
               PROVE  RoutingTypeOK'
    OBVIOUS
  <2> USE DEF RoutingTypeOK
  <2>1. ASSUME NEW p \in Pair, NEW o \in Observation, NEW f \in 0 .. now,
               RecordAttempt(p, o, f)
        PROVE  RoutingTypeOK'
    <3>1. f \in 0 .. MaxTime
      BY RoutingAssumption
    <3>2. [pair |-> p, finished_at |-> f, observed |-> o] \in AttemptRecord
      BY <3>1 DEF AttemptRecord
    <3>3. attempts' \in Seq(AttemptRecord)
      BY <2>1, <3>2 DEF RecordAttempt
    <3> QED
      BY <2>1, <3>3 DEF RecordAttempt
  <2>2. CASE ListPairs
    BY <2>2 DEF ListPairs
  <2>3. ASSUME NEW p \in Pair, BuildNext(p)
        PROVE  RoutingTypeOK'
    BY <2>3 DEF BuildNext
  <2>4. CASE EndListing
    BY <2>4, RoutingAssumption DEF EndListing, Idle
  <2>5. CASE Tick
    BY <2>5, RoutingAssumption DEF Tick
  <2>6. CASE ClockSetBack
    BY <2>6, RoutingAssumption DEF ClockSetBack
  <2>7. CASE UNCHANGED vars
    BY <2>7 DEF vars
  <2> QED
    BY <2>1, <2>2, <2>3, <2>4, <2>5, <2>6, <2>7 DEF Next
<1> QED
  BY <1>1, <1>2, PTL DEF Spec

(* No row of any number of attempts makes an unsound snapshot.             *)
THEOREM SnapshotSafety == Spec => []SnapshotsSound
<1>1. RoutingTypeOK => SnapshotsSound
  BY MetricsSound, StoredRows DEF RoutingTypeOK, SnapshotsSound
<1> QED
  BY <1>1, RoutingTypes, PTL

(* Nor any score outside the unit.                                         *)
THEOREM SignalSafety == Spec => []SignalsInUnit
<1>1. NoSnapshot \in ProviderMetricsSnapshot
  BY DEF NoSnapshot, ProviderMetricsSnapshot
<1>2. ASSUME RoutingTypeOK, NEW p \in Pair, NEW answers \in BOOLEAN
      PROVE  /\ Signal(attempts, answers, p) \in [Metric -> Score]
             /\ \A weights \in Preference :
                    FinalScore(weights, Signal(attempts, answers, p)) \in Score
  <2>1. BuildMetrics(attempts, p, now) \in ProviderMetricsSnapshot
    BY <1>2, MetricsSound, StoredRows DEF RoutingTypeOK, ConsistentSnapshot
  <2>2. Baseline[p] \in [Metric -> Score] /\ quality[p] \in BenchmarkQuality
    BY RoutingAssumption
  <2>3. Signal(attempts, answers, p) \in [Metric -> Score]
    BY <1>1, <2>1, <2>2, SignalBounded DEF Signal
  <2>4. Preference \subseteq RoutingPreferences
    BY RoutingAssumption
  <2> QED
    BY <2>3, <2>4, FinalScoreBounded
<1>3. RoutingTypeOK => SignalsInUnit
  BY <1>2 DEF SignalsInUnit
<1> QED
  BY <1>3, RoutingTypes, PTL

(* What makes a listing complete: the pairs still to read have rows that   *)
(* are young enough for the listing's own instant.                         *)
ListedHaveRows ==
    /\ listing.without = {}
    /\ \A p \in listing.pairs : Matching(attempts, p, listing.as_of) # {}

(* Rows are only added, so what matched an instant still does.             *)
LEMMA MatchingGrows ==
    ASSUME NEW rows \in Rows, NEW row, NEW p, NEW as_of
    PROVE  Matching(rows, p, as_of) \subseteq Matching(Append(rows, row), p, as_of)
  BY DEF Matching, Rows

(* Every listed pair gets its snapshot, with any rows arriving meanwhile.  *)
THEOREM ListingSafety == Spec => []ListingComplete
<1>1. Init => ListedHaveRows
  BY DEF Init, Idle, ListedHaveRows
<1>2. RoutingTypeOK /\ ListedHaveRows /\ [Next]_vars => ListedHaveRows'
  <2> SUFFICES ASSUME RoutingTypeOK, ListedHaveRows, [Next]_vars
               PROVE  ListedHaveRows'
    OBVIOUS
  <2>0. attempts \in Rows
    BY StoredRows DEF RoutingTypeOK
  <2>1. ASSUME NEW p \in Pair, NEW o \in Observation, NEW f \in 0 .. now,
               RecordAttempt(p, o, f)
        PROVE  ListedHaveRows'
    <3>1. \A q : Matching(attempts, q, listing.as_of)
                    \subseteq Matching(attempts', q, listing.as_of)
      BY <2>0, <2>1, MatchingGrows DEF RecordAttempt
    <3>2. listing' = listing
      BY <2>1 DEF RecordAttempt
    <3>3. /\ listing'.without = {}
          /\ \A q \in listing'.pairs : Matching(attempts', q, listing'.as_of) # {}
      BY <3>1, <3>2 DEF ListedHaveRows
    <3> QED
      BY <3>3 DEF ListedHaveRows, Matching
  <2>2. CASE ListPairs
    BY <2>2 DEF ListPairs, ListedHaveRows, Matching
  <2>3. ASSUME NEW p \in Pair, BuildNext(p)
        PROVE  ListedHaveRows'
    <3>1. Recent(attempts, p, AsOf) # {}
      BY <2>0, <2>3, NewestIsRecent DEF BuildNext, AsOf, ListedHaveRows
    <3>2. /\ listing'.without = {}
          /\ listing'.pairs \subseteq listing.pairs
          /\ listing'.as_of = listing.as_of
          /\ attempts' = attempts
      BY <2>3, <3>1 DEF BuildNext, RoutingTypeOK, ListedHaveRows
    <3> QED
      BY <3>2 DEF ListedHaveRows, Matching
  <2>4. CASE EndListing
    BY <2>4 DEF EndListing, Idle, ListedHaveRows
  <2>5. CASE Tick
    BY <2>5 DEF Tick, ListedHaveRows, Matching
  <2>6. CASE ClockSetBack
    BY <2>6 DEF ClockSetBack, ListedHaveRows, Matching
  <2>7. CASE UNCHANGED vars
    BY <2>7 DEF vars, ListedHaveRows, Matching
  <2> QED
    BY <2>1, <2>2, <2>3, <2>4, <2>5, <2>6, <2>7 DEF Next
<1>3. RoutingTypeOK /\ ListedHaveRows => ListingComplete
  BY NewestIsRecent, StoredRows DEF RoutingTypeOK, ListedHaveRows, ListingComplete
<1> QED
  BY <1>1, <1>2, <1>3, RoutingTypes, PTL DEF Spec

(* A row of another pair leaves a pair's window and its snapshot alone.    *)
LEMMA OthersRowIgnored ==
    ASSUME NEW rows \in Rows, NEW row \in Row, NEW p, row.pair # p,
           NEW as_of
    PROVE  BuildMetrics(Append(rows, row), p, as_of) = BuildMetrics(rows, p, as_of)
<1> DEFINE more == Append(rows, row)
           M == Matching(rows, p, as_of)
           W == Recent(rows, p, as_of)
           S == Succeeded(rows, W)
           C == Costs(rows, p, as_of)
<1>1. /\ DOMAIN rows = 1 .. Len(rows) /\ Len(rows) \in Nat
      /\ DOMAIN more = 1 .. Len(rows) + 1
      /\ \A i \in DOMAIN rows : more[i] = rows[i]
      /\ more[Len(rows) + 1] = row
  BY DEF Rows
<1>2. M \subseteq DOMAIN rows /\ W \subseteq M /\ S \subseteq W /\ C \subseteq S
  BY DEF Matching, Recent, Succeeded, Costs, Priced
<1> HIDE DEF more
<1>3. Matching(more, p, as_of) = M
  BY <1>1 DEF Matching
<1>4. \A i, j \in M : Newer(more, j, i) <=> Newer(rows, j, i)
  BY <1>1, <1>2 DEF Newer
<1>5. Recent(more, p, as_of) = W
  <2> HIDE DEF M
  <2>1. \A i \in M : {j \in M : Newer(more, j, i)} = {j \in M : Newer(rows, j, i)}
    BY <1>4
  <2>2. Recent(more, p, as_of)
            = {i \in M : Cardinality({j \in M : Newer(more, j, i)}) < WindowLimit}
    BY <1>3 DEF Recent
  <2>3. W = {i \in M : Cardinality({j \in M : Newer(rows, j, i)}) < WindowLimit}
    BY DEF Recent, M
  <2> QED
    BY <2>1, <2>2, <2>3
<1>6. Succeeded(more, W) = S
  BY <1>1, <1>2 DEF Succeeded
<1>7. Costs(more, p, as_of) = C
  BY <1>1, <1>2, <1>5, <1>6 DEF Costs, Priced
<1>8. /\ [i \in W |-> more[i].observed.latency] = [i \in W |-> rows[i].observed.latency]
      /\ [i \in C |-> more[i].observed.estimated_cost]
             = [i \in C |-> rows[i].observed.estimated_cost]
  <2>1. \A i \in W : i \in DOMAIN rows
    BY <1>2
  <2>2. \A i \in C : i \in DOMAIN rows
    BY <1>2
  <2> HIDE DEF W, C
  <2> QED
    BY <1>1, <2>1, <2>2
<1> HIDE DEF W, S, C
<1>9. BuildMetrics(more, p, as_of) = BuildMetrics(rows, p, as_of)
  BY <1>5, <1>6, <1>7, <1>8 DEF BuildMetrics, W, S, C
<1> QED
  BY <1>9 DEF more

(* A candidate's evidence is its own, whatever its rivals go through.      *)
THEOREM IndependentEvidence == Spec => RowsOfOthersIgnored
<1>1. RoutingTypeOK /\ [Next]_vars => [OthersUnaffected]_vars
  <2> SUFFICES ASSUME RoutingTypeOK, [Next]_vars
               PROVE  OthersUnaffected
    BY DEF vars
  <2>0. attempts \in Rows
    BY StoredRows DEF RoutingTypeOK
  <2>1. ASSUME NEW q \in Pair, NEW o \in Observation, NEW f \in 0 .. now,
               RecordAttempt(q, o, f)
        PROVE  OthersUnaffected
    <3> DEFINE row == [pair |-> q, finished_at |-> f, observed |-> o]
    <3>1. row \in Row
      <4>1. row \in AttemptRecord
        BY RoutingAssumption DEF RoutingTypeOK, AttemptRecord
      <4> QED
        BY <4>1, StoredRows
    <3>2. attempts' = Append(attempts, row)
      BY <2>1 DEF RecordAttempt
    <3>3. attempts'[Len(attempts')].pair = q
      <4>1. attempts'[Len(attempts')] = row
        BY <2>0, <3>1, <3>2 DEF Rows
      <4> QED
        BY <4>1
    <3>4. row.pair = q
      OBVIOUS
    <3> HIDE DEF row
    <3>5. \A p \in Pair : p # q =>
              BuildMetrics(attempts', p, now) = BuildMetrics(attempts, p, now)
      BY <2>0, <3>1, <3>2, <3>4, OthersRowIgnored
    <3> QED
      BY <3>3, <3>5 DEF OthersUnaffected
  <2>2. CASE attempts' = attempts
    BY <2>0, <2>2 DEF OthersUnaffected, Rows
  <2>3. (\E q \in Pair, o \in Observation, f \in 0 .. now : RecordAttempt(q, o, f))
            \/ attempts' = attempts
    BY DEF Next, ListPairs, BuildNext, EndListing, Tick, ClockSetBack, vars
  <2> QED
    BY <2>1, <2>2, <2>3
<1> QED
  BY <1>1, RoutingTypes, PTL DEF Spec, RowsOfOthersIgnored

(* At the floor a blend is still the configured score.                     *)
LEMMA NoWeightAtFloor ==
    ASSUME NEW static \in Score, NEW measured \in Score, NEW n \in Nat, n <= MinSamples
    PROVE  BlendScore(static, measured, ConfidenceForSamples(n)) = static
<1>1. ConfidenceForSamples(n) = 0
  BY ScoringAssumption DEF ConfidenceForSamples
<1>2. /\ FullConfidence \in Nat \ {0} /\ static \in Nat /\ measured \in Nat
  BY ScoringAssumption DEF FullConfidence, Score
<1>3. static * (FullConfidence - 0) + measured * 0 = static * FullConfidence
  BY <1>2
<1>4. (static * FullConfidence) \div FullConfidence = static
  BY <1>2
<1> QED
  BY <1>1, <1>3, <1>4 DEF BlendScore

(* Too few young samples, of any kind that counts, leave the baseline.     *)
THEOREM FloorSafety == Spec => []NoInfluenceBelowFloor
<1>1. ASSUME RoutingTypeOK, NEW p \in Pair
      PROVE  LET signal == Signal(attempts, TRUE, p)
             IN  /\ Cardinality(Young(p)) <= MinSamples =>
                        \A m \in {"latency", "reliability"} :
                            signal[m] = Baseline[p][m]
                 /\ Cardinality({i \in Young(p) :
                            /\ attempts[i].observed.success
                            /\ attempts[i].observed.estimated_cost # None})
                        <= MinSamples => signal["cost"] = Baseline[p]["cost"]
  <2> DEFINE s == BuildMetrics(attempts, p, now)
             W == Recent(attempts, p, now)
             C == Costs(attempts, p, now)
             Y == Young(p)
             V == {i \in Y : /\ attempts[i].observed.success
                             /\ attempts[i].observed.estimated_cost # None}
             b == Baseline[p]
  <2>1. attempts \in Rows /\ now \in Int
    BY <1>1, StoredRows DEF RoutingTypeOK
  <2>2. ConsistentSnapshot(s)
    BY <2>1, MetricsSound
  <2>3. s.sample_count = Cardinality(W) /\ s.priced_sample_count = Cardinality(C)
    BY DEF BuildMetrics
  <2>4. W \subseteq Matching(attempts, p, now) /\ IsFiniteSet(Matching(attempts, p, now))
    BY <2>1, WindowsFinite
  <2>5. Matching(attempts, p, now) = Y
    <3>1. \A i \in DOMAIN attempts : attempts[i].finished_at \in Int
      BY <2>1, RowTypes
    <3>2. MaxAge \in Int
      BY RoutingAssumption
    <3> QED
      BY <2>1, <3>1, <3>2 DEF Matching, Young
  <2>6. C \subseteq V
    BY <2>4, <2>5 DEF Costs, Priced, Succeeded
  <2>7. IsFiniteSet(Y) /\ IsFiniteSet(V)
    <3>1. V \subseteq Y
      OBVIOUS
    <3> HIDE DEF V, Y
    <3> QED
      BY <2>4, <2>5, <3>1, FS_Subset
  <2>8. /\ b["latency"] \in Score /\ b["reliability"] \in Score /\ b["cost"] \in Score
    BY RoutingAssumption DEF Metric
  <2>9. /\ s \in ProviderMetricsSnapshot
        /\ s.sample_count \in Nat /\ s.priced_sample_count \in Nat
        /\ s.p50_latency \in Nat \cup {None} /\ s.p50_cost \in Nat \cup {None}
    BY <2>2 DEF ConsistentSnapshot, ProviderMetricsSnapshot
  <2>10. /\ Signal(attempts, TRUE, p)["latency"] = LatencySignal(b["latency"], s)
         /\ Signal(attempts, TRUE, p)["reliability"] = ReliabilitySignal(b["reliability"], s)
         /\ Signal(attempts, TRUE, p)["cost"] = CostSignal(b["cost"], s)
    BY DEF Signal, RoutingSignal
  <2> HIDE DEF s, W, C, Y, V, b
  <2>11. /\ Cardinality(W) <= Cardinality(Y) /\ Cardinality(C) <= Cardinality(V)
         /\ Cardinality(W) \in Nat /\ Cardinality(C) \in Nat
         /\ Cardinality(Y) \in Nat /\ Cardinality(V) \in Nat
    BY <2>3, <2>4, <2>5, <2>6, <2>7, <2>9, FS_Subset, FS_CardinalityType
  <2>12. MinSamples \in Nat
    BY ScoringAssumption
  <2>13. ASSUME Cardinality(Y) <= MinSamples
         PROVE  /\ LatencySignal(b["latency"], s) = b["latency"]
                /\ ReliabilitySignal(b["reliability"], s) = b["reliability"]
    <3>1. s.sample_count <= MinSamples
      BY <2>3, <2>11, <2>12, <2>13
    <3>2. LatencySignal(b["latency"], s) = b["latency"]
      BY <2>8, <2>9, <3>1, NormalizedBounded, NoWeightAtFloor DEF LatencySignal
    <3>3. ReliabilitySignal(b["reliability"], s) = b["reliability"]
      BY <2>8, <2>9, <3>1, SmoothedBounded, NoWeightAtFloor DEF ReliabilitySignal
    <3> QED
      BY <3>2, <3>3
  <2>14. ASSUME Cardinality(V) <= MinSamples
         PROVE  CostSignal(b["cost"], s) = b["cost"]
    <3>1. s.priced_sample_count <= MinSamples
      BY <2>3, <2>11, <2>12, <2>14
    <3> QED
      BY <2>8, <2>9, <3>1, NormalizedBounded, NoWeightAtFloor DEF CostSignal
  <2> QED
    BY <2>10, <2>13, <2>14 DEF Y, V, b
<1>2. RoutingTypeOK => NoInfluenceBelowFloor
  BY <1>1 DEF NoInfluenceBelowFloor
<1> QED
  BY <1>2, RoutingTypes, PTL

-----------------------------------------------------------------------------
(* What more successes are worth.                                          *)

(* A quotient grows with what is divided.                                   *)
LEMMA QuotientMonotone ==
    ASSUME NEW a \in Nat, NEW b \in Nat, a <= b, NEW d \in Nat \ {0}
    PROVE  a \div d \in Nat /\ a \div d <= b \div d
  OBVIOUS

(* Clamping keeps an order.                                                 *)
LEMMA ClampMonotone ==
    ASSUME NEW v \in Nat, NEW w \in Nat, v <= w
    PROVE  Clamp(v) <= Clamp(w)
<1>1. Unit \in Nat
  BY ScoringAssumption
<1> QED
  BY <1>1 DEF Clamp

(* A blend grows with what was measured.                                   *)
LEMMA BlendMonotone ==
    ASSUME NEW static \in Score, NEW less \in Score, NEW more \in Score, less <= more,
           NEW confidence \in 0 .. FullConfidence
    PROVE  BlendScore(static, less, confidence) <= BlendScore(static, more, confidence)
<1> DEFINE rest == FullConfidence - confidence
<1>1. /\ FullConfidence \in Nat \ {0} /\ rest \in Nat /\ confidence \in Nat
      /\ static \in Nat /\ less \in Nat /\ more \in Nat
  BY ScoringAssumption DEF Score, FullConfidence
<1>2. /\ less * confidence \in Nat /\ more * confidence \in Nat
      /\ less * confidence <= more * confidence
  BY <1>1, ProductMonotone
<1>3. static * rest \in Nat
  BY <1>1, ProductMonotone
<1> HIDE DEF rest
<1>4. /\ static * rest + less * confidence \in Nat
      /\ static * rest + more * confidence \in Nat
      /\ static * rest + less * confidence <= static * rest + more * confidence
  BY <1>2, <1>3
<1> QED
  BY <1>1, <1>4, QuotientMonotone DEF BlendScore, rest

(* So does the smoothed success rate with the number of successes.         *)
LEMMA SmoothedMonotone ==
    ASSUME NEW static \in Score,
           NEW s \in ProviderMetricsSnapshot, NEW t \in ProviderMetricsSnapshot,
           s.sample_count = t.sample_count, s.success_count <= t.success_count
    PROVE  Smoothed(static, s) <= Smoothed(static, t)
<1> DEFINE d == AtLeastOne(s.sample_count + PriorStrength)
<1>1. /\ s.success_count \in Nat /\ t.success_count \in Nat /\ s.sample_count \in Nat
      /\ Unit \in Nat /\ PriorStrength \in Nat /\ static \in Nat
  BY ScoringAssumption DEF Score, ProviderMetricsSnapshot
<1>2. d \in Nat \ {0}
  BY <1>1 DEF AtLeastOne
<1>3. /\ s.success_count * Unit \in Nat /\ t.success_count * Unit \in Nat
      /\ s.success_count * Unit <= t.success_count * Unit
  BY <1>1, ProductMonotone
<1>4. /\ Unit * s.success_count = s.success_count * Unit
      /\ Unit * t.success_count = t.success_count * Unit
  BY <1>1
<1>5. static * PriorStrength \in Nat
  BY <1>1, ProductMonotone
<1>6. /\ Unit * s.success_count + static * PriorStrength \in Nat
      /\ Unit * t.success_count + static * PriorStrength \in Nat
      /\ Unit * s.success_count + static * PriorStrength
             <= Unit * t.success_count + static * PriorStrength
  BY <1>3, <1>4, <1>5
<1> HIDE DEF d
<1>7. /\ (Unit * s.success_count + static * PriorStrength) \div d \in Nat
      /\ (Unit * t.success_count + static * PriorStrength) \div d \in Nat
      /\ (Unit * s.success_count + static * PriorStrength) \div d
             <= (Unit * t.success_count + static * PriorStrength) \div d
  BY <1>2, <1>6, QuotientMonotone
<1> QED
  BY <1>7, ClampMonotone DEF Smoothed, d

(* With as many samples, more successes never lower the reliability         *)
(* signal.                                                                  *)
LEMMA ReliabilityMonotone ==
    ASSUME NEW static \in Score,
           NEW s \in ProviderMetricsSnapshot, NEW t \in ProviderMetricsSnapshot,
           s.sample_count = t.sample_count, s.success_count <= t.success_count
    PROVE  ReliabilitySignal(static, s) <= ReliabilitySignal(static, t)
<1>1. s.sample_count \in Nat /\ static \in Nat
  BY DEF ProviderMetricsSnapshot, Score
<1>2. CASE s.sample_count = 0
  BY <1>1, <1>2 DEF ReliabilitySignal
<1>3. CASE s.sample_count # 0
  <2>1. /\ Smoothed(static, s) \in Score /\ Smoothed(static, t) \in Score
        /\ Smoothed(static, s) <= Smoothed(static, t)
        /\ ConfidenceForSamples(s.sample_count) \in 0 .. FullConfidence
    BY <1>1, SmoothedBounded, SmoothedMonotone, ConfidenceBounded
  <2> QED
    BY <1>3, <2>1, BlendMonotone DEF ReliabilitySignal
<1> QED
  BY <1>2, <1>3

(* And the final score with the reliability.                               *)
LEMMA FinalScoreMonotone ==
    ASSUME NEW weights \in RoutingPreferences,
           NEW s \in [Metric -> Score], NEW t \in [Metric -> Score],
           s["quality"] = t["quality"], s["cost"] = t["cost"],
           s["latency"] = t["latency"], s["reliability"] <= t["reliability"]
    PROVE  FinalScore(weights, s) <= FinalScore(weights, t)
<1> DEFINE q == s["quality"] * weights["quality"]
           c == s["cost"] * weights["cost"]
           l == s["latency"] * weights["latency"]
           r == s["reliability"] * weights["reliability"]
           r2 == t["reliability"] * weights["reliability"]
<1>1. \A m \in Metric : s[m] \in Nat /\ t[m] \in Nat /\ weights[m] \in Nat
  BY DEF RoutingPreferences, Score
<1>2. Total(weights) \in Nat \ {0}
  BY <1>1 DEF RoutingPreferences, Total, Metric
<1>3. q \in Nat /\ c \in Nat /\ l \in Nat /\ r \in Nat /\ r2 \in Nat /\ r <= r2
  BY <1>1, ProductMonotone DEF Metric
<1> HIDE DEF q, c, l, r, r2
<1>4. q + c + l + r \in Nat /\ q + c + l + r2 \in Nat /\ q + c + l + r <= q + c + l + r2
  BY <1>3
<1>5. (q + c + l + r) \div Total(weights) <= (q + c + l + r2) \div Total(weights)
  BY <1>2, <1>4, QuotientMonotone
<1> QED
  BY <1>5 DEF FinalScore, q, c, l, r, r2

(* Of two rankings that differ in one candidate's score, that candidate is *)
(* not behind where its score is not less.                                 *)
LEMMA RankMonotone ==
    ASSUME NEW s \in [Pair -> [Metric -> Score]], NEW t \in [Pair -> [Metric -> Score]],
           NEW p \in Pair, NEW weights \in RoutingPreferences,
           \A q \in Pair \ {p} : s[q] = t[q],
           FinalScore(weights, s[p]) <= FinalScore(weights, t[p])
    PROVE  Rank(t, weights, p) <= Rank(s, weights, p)
<1> DEFINE before(u) == {q \in Pair :
               \/ FinalScore(weights, u[q]) > FinalScore(weights, u[p])
               \/ FinalScore(weights, u[q]) = FinalScore(weights, u[p]) /\ q < p}
<1>1. \A q \in Pair :
          FinalScore(weights, s[q]) \in Int /\ FinalScore(weights, t[q]) \in Int /\ q \in Int
  BY FinalScoreBounded, RoutingAssumption DEF Score
<1>2. ASSUME NEW q \in before(t)
      PROVE  q \in before(s)
  <2>1. CASE q = p
    BY <1>1, <2>1
  <2>2. CASE q # p
    <3>1. FinalScore(weights, s[q]) = FinalScore(weights, t[q])
      BY <2>2
    <3> DEFINE its == FinalScore(weights, t[q])
               mine == FinalScore(weights, t[p])
               less == FinalScore(weights, s[p])
    <3>2. its > mine \/ (its = mine /\ q < p)
      BY <1>2
    <3>3. /\ its \in Int /\ mine \in Int /\ less \in Int /\ less <= mine
          /\ q \in Pair
      BY <1>1, <1>2
    <3>4. its > less \/ (its = less /\ q < p)
      <4> HIDE DEF its, mine, less
      <4> QED
        BY <3>2, <3>3
    <3> QED
      BY <3>1, <3>3, <3>4
  <2> QED
    BY <2>1, <2>2
<1>3. /\ before(t) \subseteq before(s) /\ before(s) \subseteq Pair
      /\ IsFiniteSet(Pair)
  BY <1>2, RoutingAssumption
<1>4. Rank(s, weights, p) = 1 + Cardinality(before(s))
  BY DEF Rank
<1>5. Rank(t, weights, p) = 1 + Cardinality(before(t))
  BY DEF Rank
<1> HIDE DEF before
<1>6. /\ Cardinality(before(s)) \in Nat /\ Cardinality(before(t)) \in Nat
      /\ Cardinality(before(t)) <= Cardinality(before(s))
  BY <1>3, FS_Subset, FS_CardinalityType
<1> QED
  BY <1>4, <1>5, <1>6

-----------------------------------------------------------------------------
(* Two histories that tell the same but for the outcome of their last row. *)
Differ(bad, good) ==
    /\ bad \in Rows /\ good \in Rows /\ bad # <<>> /\ Len(bad) = Len(good)
    /\ \A i \in 1 .. Len(bad) :
           /\ bad[i].pair = good[i].pair /\ bad[i].finished_at = good[i].finished_at
           /\ bad[i].observed.latency = good[i].observed.latency
           /\ bad[i].observed.estimated_cost = good[i].observed.estimated_cost
           /\ i # Len(bad) => bad[i].observed.success = good[i].observed.success
    /\ ~ bad[Len(bad)].observed.success
    /\ bad[Len(bad)].observed.estimated_cost = None

(* Two tables that differ in whether and at what price their last row       *)
(* succeeded have the same windows and costs, and the same successes but    *)
(* for the last row's pair.                                                 *)
LEMMA SameWindows ==
    ASSUME NEW bad, NEW good, Differ(bad, good), NEW p, NEW as_of
    PROVE  /\ Recent(bad, p, as_of) = Recent(good, p, as_of)
           /\ Costs(bad, p, as_of) = Costs(good, p, as_of)
           /\ Succeeded(bad, Recent(bad, p, as_of))
                  \subseteq Succeeded(good, Recent(good, p, as_of))
           /\ bad[Len(bad)].pair # p =>
                  Succeeded(bad, Recent(bad, p, as_of))
                      = Succeeded(good, Recent(good, p, as_of))
<1> DEFINE M == Matching(good, p, as_of)
           W == Recent(good, p, as_of)
<1>1. /\ DOMAIN bad = 1 .. Len(bad) /\ DOMAIN good = 1 .. Len(bad) /\ Len(bad) \in Nat
  BY DEF Differ, Rows
<1>2. \A i \in 1 .. Len(bad) :
           /\ bad[i].pair = good[i].pair /\ bad[i].finished_at = good[i].finished_at
           /\ bad[i].observed.estimated_cost = good[i].observed.estimated_cost
           /\ i # Len(bad) => bad[i].observed.success = good[i].observed.success
  BY DEF Differ
<1>3. Matching(bad, p, as_of) = M
  BY <1>1, <1>2 DEF Matching
<1>4. M \subseteq 1 .. Len(bad) /\ W \subseteq M
  BY <1>1 DEF Matching, Recent
<1>5. \A i, j \in M : Newer(bad, j, i) <=> Newer(good, j, i)
  BY <1>2, <1>4 DEF Newer
<1>6. Recent(bad, p, as_of) = W
  <2> HIDE DEF M
  <2>1. \A i \in M : {j \in M : Newer(bad, j, i)} = {j \in M : Newer(good, j, i)}
    BY <1>5
  <2>2. Recent(bad, p, as_of)
            = {i \in M : Cardinality({j \in M : Newer(bad, j, i)}) < WindowLimit}
    BY <1>3 DEF Recent
  <2>3. W = {i \in M : Cardinality({j \in M : Newer(good, j, i)}) < WindowLimit}
    BY DEF Recent, M
  <2> QED
    BY <2>1, <2>2, <2>3
<1>7. /\ ~ bad[Len(bad)].observed.success
      /\ good[Len(bad)].observed.estimated_cost = None
  <2>1. bad \in Seq(Row) /\ bad # <<>>
    BY DEF Differ, Rows
  <2>2. Len(bad) \in 1 .. Len(bad)
    BY <2>1
  <2> QED
    BY <1>2, <2>2 DEF Differ
<1>8. \A i \in W : i \in 1 .. Len(bad) /\ good[i].pair = p
  BY <1>4 DEF Matching
<1> HIDE DEF W, M
<1>9. Succeeded(bad, W) \subseteq Succeeded(good, W)
  BY <1>2, <1>7, <1>8 DEF Succeeded
<1>10. bad[Len(bad)].pair # p => Succeeded(bad, W) = Succeeded(good, W)
  BY <1>2, <1>8 DEF Succeeded
<1>11. Priced(bad, W) = Priced(good, W)
  BY <1>2, <1>7, <1>8 DEF Priced, Succeeded
<1> QED
  BY <1>6, <1>9, <1>10, <1>11 DEF Costs, W

(* So their snapshots differ in the successes of that row's pair at most.  *)
LEMMA SnapshotsDiffer ==
    ASSUME NEW bad, NEW good, Differ(bad, good), NEW p, NEW as_of,
           NEW s, s = BuildMetrics(bad, p, as_of),
           NEW t, t = BuildMetrics(good, p, as_of)
    PROVE  /\ s.sample_count = t.sample_count
           /\ s.success_count <= t.success_count
           /\ s.p50_latency = t.p50_latency
           /\ s.priced_sample_count = t.priced_sample_count
           /\ s.p50_cost = t.p50_cost
           /\ bad[Len(bad)].pair # p => s = t
<1> DEFINE W == Recent(good, p, as_of)
           C == Costs(good, p, as_of)
           S == Succeeded(bad, W)
           T == Succeeded(good, W)
<1>1. /\ Recent(bad, p, as_of) = W /\ Costs(bad, p, as_of) = C
      /\ S \subseteq T
      /\ bad[Len(bad)].pair # p => S = T
  BY SameWindows
<1>2. /\ IsFiniteSet(W) /\ W \subseteq 1 .. Len(bad) /\ C \subseteq W /\ T \subseteq W
  <2>1. good \in Rows /\ DOMAIN good = 1 .. Len(bad)
    BY DEF Differ, Rows
  <2>2. IsFiniteSet(W) /\ W \subseteq Matching(good, p, as_of)
    BY <2>1, WindowsFinite
  <2> QED
    BY <2>1, <2>2 DEF Matching, Costs, Priced, Succeeded
<1> HIDE DEF W, C
<1>3. /\ [i \in W |-> bad[i].observed.latency] = [i \in W |-> good[i].observed.latency]
      /\ [i \in C |-> bad[i].observed.estimated_cost]
             = [i \in C |-> good[i].observed.estimated_cost]
  BY <1>2 DEF Differ
<1> HIDE DEF S, T
<1>4. Cardinality(S) <= Cardinality(T)
  BY <1>1, <1>2, FS_Subset
<1>5. BuildMetrics(bad, p, as_of) =
          [sample_count        |-> Cardinality(W),
           success_count       |-> Cardinality(S),
           failure_count       |-> Cardinality(W) - Cardinality(S),
           p50_latency         |-> Median([i \in W |-> good[i].observed.latency]),
           priced_sample_count |-> Cardinality(C),
           p50_cost            |-> Median([i \in C |-> good[i].observed.estimated_cost])]
  BY <1>1, <1>3 DEF BuildMetrics, S
<1>6. BuildMetrics(good, p, as_of) =
          [sample_count        |-> Cardinality(W),
           success_count       |-> Cardinality(T),
           failure_count       |-> Cardinality(W) - Cardinality(T),
           p50_latency         |-> Median([i \in W |-> good[i].observed.latency]),
           priced_sample_count |-> Cardinality(C),
           p50_cost            |-> Median([i \in C |-> good[i].observed.estimated_cost])]
  BY DEF BuildMetrics, T, W, C
<1> QED
  BY <1>1, <1>4, <1>5, <1>6

(* An attempt that fails instead of succeeding leaves every other score as *)
(* it is and lowers, if anything, its own candidate's reliability.         *)
LEMMA FailureRanks ==
    ASSUME NEW bad, NEW good, Differ(bad, good), NEW p \in Pair, bad[Len(bad)].pair = p,
           NEW weights \in RoutingPreferences
    PROVE  Rank([q \in Pair |-> Signal(good, TRUE, q)], weights, p)
               <= Rank([q \in Pair |-> Signal(bad, TRUE, q)], weights, p)
<1> DEFINE s == [q \in Pair |-> Signal(bad, TRUE, q)]
           t == [q \in Pair |-> Signal(good, TRUE, q)]
           m == BuildMetrics(bad, p, now)
           n == BuildMetrics(good, p, now)
<1>1. bad \in Rows /\ good \in Rows
  BY DEF Differ
<1>2. ASSUME NEW rows \in Rows, NEW q \in Pair
      PROVE  /\ BuildMetrics(rows, q, now) \in ProviderMetricsSnapshot
             /\ Signal(rows, TRUE, q) \in [Metric -> Score]
  <2>1. BuildMetrics(rows, q, now) \in ProviderMetricsSnapshot
    BY MetricsSound DEF ConsistentSnapshot
  <2>2. Baseline[q] \in [Metric -> Score] /\ quality[q] \in BenchmarkQuality
    BY RoutingAssumption
  <2> QED
    BY <2>1, <2>2, SignalBounded DEF Signal
<1>3. s \in [Pair -> [Metric -> Score]] /\ t \in [Pair -> [Metric -> Score]]
  BY <1>1, <1>2
<1>4. ASSUME NEW q \in Pair \ {p}
      PROVE  s[q] = t[q]
  <2>1. BuildMetrics(bad, q, now) = BuildMetrics(good, q, now)
    BY SnapshotsDiffer
  <2> QED
    BY <2>1 DEF Signal
<1>5. /\ m \in ProviderMetricsSnapshot /\ n \in ProviderMetricsSnapshot
      /\ m.sample_count = n.sample_count /\ m.success_count <= n.success_count
      /\ m.p50_latency = n.p50_latency
      /\ m.priced_sample_count = n.priced_sample_count /\ m.p50_cost = n.p50_cost
  <2>1. m \in ProviderMetricsSnapshot /\ n \in ProviderMetricsSnapshot
    BY <1>1, <1>2
  <2>2. m = BuildMetrics(bad, p, now) /\ n = BuildMetrics(good, p, now)
    OBVIOUS
  <2> HIDE DEF m, n
  <2> QED
    BY <2>1, <2>2, SnapshotsDiffer
<1>6. Baseline[p]["reliability"] \in Score
  BY RoutingAssumption DEF Metric
<1> HIDE DEF m, n
<1>7. ReliabilitySignal(Baseline[p]["reliability"], m)
          <= ReliabilitySignal(Baseline[p]["reliability"], n)
  BY <1>5, <1>6, ReliabilityMonotone
<1>8. /\ Signal(bad, TRUE, p)["quality"] = Signal(good, TRUE, p)["quality"]
      /\ Signal(bad, TRUE, p)["cost"] = Signal(good, TRUE, p)["cost"]
      /\ Signal(bad, TRUE, p)["latency"] = Signal(good, TRUE, p)["latency"]
      /\ Signal(bad, TRUE, p)["reliability"] <= Signal(good, TRUE, p)["reliability"]
  <2>1. /\ CostSignal(Baseline[p]["cost"], m) = CostSignal(Baseline[p]["cost"], n)
        /\ LatencySignal(Baseline[p]["latency"], m) = LatencySignal(Baseline[p]["latency"], n)
    BY <1>5 DEF CostSignal, LatencySignal
  <2>2. ASSUME NEW rows
        PROVE  LET u == BuildMetrics(rows, p, now)
               IN  /\ Signal(rows, TRUE, p)["quality"]
                          = QualitySignal(Baseline[p]["quality"], quality[p])
                   /\ Signal(rows, TRUE, p)["cost"] = CostSignal(Baseline[p]["cost"], u)
                   /\ Signal(rows, TRUE, p)["latency"] = LatencySignal(Baseline[p]["latency"], u)
                   /\ Signal(rows, TRUE, p)["reliability"]
                          = ReliabilitySignal(Baseline[p]["reliability"], u)
    BY DEF Signal, RoutingSignal
  <2>3. /\ Signal(bad, TRUE, p)["quality"] = QualitySignal(Baseline[p]["quality"], quality[p])
        /\ Signal(bad, TRUE, p)["cost"] = CostSignal(Baseline[p]["cost"], m)
        /\ Signal(bad, TRUE, p)["latency"] = LatencySignal(Baseline[p]["latency"], m)
        /\ Signal(bad, TRUE, p)["reliability"]
               = ReliabilitySignal(Baseline[p]["reliability"], m)
    BY <2>2 DEF m
  <2>4. /\ Signal(good, TRUE, p)["quality"] = QualitySignal(Baseline[p]["quality"], quality[p])
        /\ Signal(good, TRUE, p)["cost"] = CostSignal(Baseline[p]["cost"], n)
        /\ Signal(good, TRUE, p)["latency"] = LatencySignal(Baseline[p]["latency"], n)
        /\ Signal(good, TRUE, p)["reliability"]
               = ReliabilitySignal(Baseline[p]["reliability"], n)
    BY <2>2 DEF n
  <2> QED
    BY <1>7, <2>1, <2>3, <2>4
<1>9. FinalScore(weights, s[p]) <= FinalScore(weights, t[p])
  <2>1. s[p] = Signal(bad, TRUE, p) /\ t[p] = Signal(good, TRUE, p)
    OBVIOUS
  <2> QED
    BY <1>1, <1>2, <1>8, <2>1, FinalScoreMonotone
<1> HIDE DEF s, t
<1>10. Rank(t, weights, p) <= Rank(s, weights, p)
  BY <1>3, <1>4, <1>9, RankMonotone
<1> QED
  BY <1>10 DEF s, t

(* In whatever state it comes, a failed attempt never ranks its pair       *)
(* better than an unpriced success that took as long would have.           *)
THEOREM RankSafety == Spec => []FailureNeverRanksBetter
<1>1. RoutingTypeOK => FailureNeverRanksBetter
  <2> SUFFICES ASSUME RoutingTypeOK, NEW p \in Pair,
                      NEW latency \in {o.latency : o \in Observation},
                      NEW weights \in Preference
               PROVE  LET After(success) ==
                              LET rows == Append(attempts,
                                      [pair |-> p, finished_at |-> now,
                                       observed |-> [success |-> success, latency |-> latency,
                                                     estimated_cost |-> None]])
                              IN  [q \in Pair |-> Signal(rows, TRUE, q)]
                      IN  Rank(After(TRUE), weights, p) <= Rank(After(FALSE), weights, p)
    BY DEF FailureNeverRanksBetter
  <2> DEFINE row(success) ==
                 [pair |-> p, finished_at |-> now,
                  observed |-> [success |-> success, latency |-> latency,
                                estimated_cost |-> None]]
             bad == Append(attempts, row(FALSE))
             good == Append(attempts, row(TRUE))
  <2>1. attempts \in Rows /\ now \in 0 .. MaxTime
    BY StoredRows DEF RoutingTypeOK
  <2>2. \A success \in BOOLEAN : row(success) \in Row
    BY <2>1 DEF Row, Thinkable
  <2>3. /\ bad \in Rows /\ good \in Rows
        /\ Len(bad) = Len(attempts) + 1 /\ Len(good) = Len(attempts) + 1
        /\ Len(attempts) \in Nat
        /\ \A i \in 1 .. Len(attempts) : bad[i] = attempts[i] /\ good[i] = attempts[i]
        /\ bad[Len(attempts) + 1] = row(FALSE) /\ good[Len(attempts) + 1] = row(TRUE)
    <3>1. row(FALSE) \in Row /\ row(TRUE) \in Row
      BY <2>2
    <3>2. ASSUME NEW last \in Row, NEW rows, rows = Append(attempts, last)
          PROVE  /\ rows \in Rows /\ Len(rows) = Len(attempts) + 1 /\ Len(attempts) \in Nat
                 /\ \A i \in 1 .. Len(attempts) : rows[i] = attempts[i]
                 /\ rows[Len(attempts) + 1] = last
      BY <2>1, <3>2 DEF Rows
    <3>3. bad = Append(attempts, row(FALSE)) /\ good = Append(attempts, row(TRUE))
      OBVIOUS
    <3>4. /\ bad \in Rows /\ Len(bad) = Len(attempts) + 1 /\ Len(attempts) \in Nat
          /\ \A i \in 1 .. Len(attempts) : bad[i] = attempts[i]
          /\ bad[Len(attempts) + 1] = row(FALSE)
      <4> HIDE DEF row, bad
      <4> QED
        BY <3>1, <3>2, <3>3, Zenon
    <3>5. /\ good \in Rows /\ Len(good) = Len(attempts) + 1
          /\ \A i \in 1 .. Len(attempts) : good[i] = attempts[i]
          /\ good[Len(attempts) + 1] = row(TRUE)
      <4> HIDE DEF row, good
      <4> QED
        BY <3>1, <3>2, <3>3, Zenon
    <3> HIDE DEF row, bad, good
    <3> QED
      BY <3>4, <3>5
  <2>4. bad # <<>>
    <3> HIDE DEF bad
    <3> QED
      BY <2>3
  <2>5. \A i \in 1 .. Len(bad) : i = Len(bad) \/ i \in 1 .. Len(attempts)
    <3> HIDE DEF bad
    <3> QED
      BY <2>3
  <2> HIDE DEF bad, good
  <2>6. Differ(bad, good) /\ bad[Len(bad)].pair = p
    BY <2>3, <2>4, <2>5 DEF Differ
  <2>7. weights \in RoutingPreferences
    BY RoutingAssumption
  <2>8. Rank([q \in Pair |-> Signal(good, TRUE, q)], weights, p)
            <= Rank([q \in Pair |-> Signal(bad, TRUE, q)], weights, p)
    BY <2>6, <2>7, FailureRanks
  <2> QED
    BY <2>8 DEF bad, good
<1> QED
  BY <1>1, RoutingTypes, PTL
=============================================================================
