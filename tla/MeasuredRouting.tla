---------------------------- MODULE MeasuredRouting ----------------------------
(***************************************************************************)
(* The evidence behind automatic routing: attempt rows of the metrics      *)
(* store, the recent window taken from them, and the scores and the order  *)
(* the router gives the pairs.                                             *)
(*                                                                         *)
(* The service writes rows on the event loop.  The provider endpoint       *)
(* lists snapshots in a worker thread with one query for the pairs and     *)
(* another for each of them, so rows and clock move between its queries.   *)
(* The router calls the same method on the event loop, with nothing in     *)
(* between; its ranking is a function of the state.                        *)
(*                                                                         *)
(* A pair is the number of its place in the order of (provider, model).    *)
(***************************************************************************)
EXTENDS RoutingSignals, Sequences, FiniteSets

CONSTANTS
    Pair,             \* the candidates, as natural numbers
    Baseline,         \* the configured scores of each
    Observation,      \* what an attempt measures: success, latency and cost
    Preference,       \* the weights clients ask for
    quality,          \* what the benchmark source says of each
    Stored,           \* the rows the store may hold when the process starts
    WindowLimit,      \* METRICS_ATTEMPT_LIMIT
    MaxAge,           \* METRICS_MAX_AGE
    Delay,            \* bound: from the end of an attempt to its row
    MaxTime, MaxAttempts   \* bounds of the clock and of the rows

BenchmarkQuality ==
    {[score |-> None, confidence |-> 0]}
        \cup [score : Score, confidence : 0 .. FullConfidence]

AttemptRecord ==
    [pair : Pair, finished_at : 0 .. MaxTime, observed : Observation]

ASSUME RoutingAssumption ==
    /\ Pair \subseteq Nat /\ IsFiniteSet(Pair)
    /\ Baseline \in [Pair -> [Metric -> Score]]
    /\ Observation \subseteq
           [success : BOOLEAN, latency : Nat, estimated_cost : Nat \cup {None}]
    /\ \A o \in Observation : ~ o.success => o.estimated_cost = None
    /\ \E slowest, dearest \in Observation : \A o \in Observation :
           o.latency <= slowest.latency /\ o.estimated_cost <= dearest.estimated_cost
    /\ Preference \subseteq RoutingPreferences
    /\ quality \in [Pair -> BenchmarkQuality]
    /\ {MaxAge, Delay, MaxTime, MaxAttempts} \subseteq Nat
    /\ WindowLimit \in Nat \ {0}
    /\ Stored \subseteq Seq(AttemptRecord)

VARIABLES
    now,
    attempts,   \* the rows, in the order of their ids
    listing     \* the endpoint's call: its as_of, pairs to read, pairs without rows

vars == <<now, attempts, listing>>

-----------------------------------------------------------------------------
(* get_recent_attempts: the pair's rows since as_of - MaxAge, of which the *)
(* newest by (finished_at, id) up to the limit.                            *)
Matching(rows, p, as_of) ==
    {i \in DOMAIN rows :
        rows[i].pair = p /\ rows[i].finished_at >= as_of - MaxAge}

Newer(rows, i, j) ==
    \/ rows[i].finished_at > rows[j].finished_at
    \/ rows[i].finished_at = rows[j].finished_at /\ i > j

Recent(rows, p, as_of) ==
    LET matching == Matching(rows, p, as_of)
    IN  {i \in matching :
            Cardinality({j \in matching : Newer(rows, j, i)}) < WindowLimit}

Succeeded(rows, window) == {i \in window : rows[i].observed.success}

Priced(rows, window) ==
    {i \in Succeeded(rows, window) : rows[i].observed.estimated_cost # None}

(* Mutant of Costs: prices beyond the limit of the window count as well.   *)
CostsOfAll(rows, p, as_of) == Priced(rows, Matching(rows, p, as_of))

Costs(rows, p, as_of) == Priced(rows, Recent(rows, p, as_of))

(* _nearest_rank with 0.50: the value at place ceil(n / 2) of the sorted   *)
(* values, which is the least one that so many values do not exceed.       *)
Median(value) ==
    LET Reached(v) ==
            2 * Cardinality({i \in DOMAIN value : value[i] <= v})
                >= Cardinality(DOMAIN value)
        values == {value[i] : i \in DOMAIN value}
    IN  IF DOMAIN value = {} THEN None
        ELSE CHOOSE v \in values :
                 Reached(v) /\ \A w \in values : Reached(w) => v <= w

BuildMetrics(rows, p, as_of) ==
    LET window == Recent(rows, p, as_of)
        succeeded == Succeeded(rows, window)
        priced == Costs(rows, p, as_of)
    IN  [sample_count        |-> Cardinality(window),
         success_count       |-> Cardinality(succeeded),
         failure_count       |-> Cardinality(window) - Cardinality(succeeded),
         p50_latency         |-> Median([i \in window |-> rows[i].observed.latency]),
         priced_sample_count |-> Cardinality(priced),
         p50_cost            |->
             Median([i \in priced |-> rows[i].observed.estimated_cost])]

-----------------------------------------------------------------------------
(* The snapshots a ranking uses: all of them, or none if the store fails.  *)
Signal(rows, answers, p) ==
    RoutingSignal(Baseline[p],
                  IF answers THEN BuildMetrics(rows, p, now) ELSE NoSnapshot,
                  quality[p])

(* sorted(..., key=(-score, provider, model)) among the eligible pairs.    *)
Rank(signal, weights, p) ==
    LET score == [q \in DOMAIN signal |-> FinalScore(weights, signal[q])]
    IN  1 + Cardinality({q \in DOMAIN signal :
                score[q] > score[p] \/ (score[q] = score[p] /\ q < p)})

-----------------------------------------------------------------------------
Idle == [as_of |-> 0, pairs |-> {}, without |-> {}]

Init ==
    /\ now = 0
    /\ attempts \in Stored
    /\ listing = Idle

(* An attempt ended at the given instant and its row is inserted.          *)
RecordAttempt(p, observed, finished_at) ==
    /\ Len(attempts) < MaxAttempts
    /\ finished_at >= now - Delay
    /\ attempts' = Append(attempts,
           [pair |-> p, finished_at |-> finished_at, observed |-> observed])
    /\ UNCHANGED <<now, listing>>

(* SELECT DISTINCT provider, model, with an as_of for the whole call.      *)
ListPairs ==
    /\ listing = Idle
    /\ listing' = [as_of |-> now, without |-> {},
                   pairs |-> {p \in Pair : Matching(attempts, p, now) # {}}]
    /\ UNCHANGED <<now, attempts>>

(* Mutant of AsOf: each query reads the clock.                             *)
EachItsOwn == now

(* The same instant for the pairs' own queries.                            *)
AsOf == listing.as_of

(* _build_metrics for the next pair; None is left out of the answer.       *)
BuildNext(p) ==
    /\ p \in listing.pairs
    /\ \A q \in listing.pairs : p <= q
    /\ listing' = [listing EXCEPT
           !.pairs = @ \ {p},
           !.without = IF Recent(attempts, p, AsOf) = {} THEN @ \cup {p} ELSE @]
    /\ UNCHANGED <<now, attempts>>

(* The answer is sent, or a query fails and the endpoint answers 503.      *)
EndListing ==
    /\ listing # Idle
    /\ listing' = Idle
    /\ UNCHANGED <<now, attempts>>

Tick ==
    /\ now < MaxTime
    /\ now' = now + 1
    /\ UNCHANGED <<attempts, listing>>

ClockSetBack ==
    /\ now > 0
    /\ now' = now - 1
    /\ UNCHANGED <<attempts, listing>>

Next ==
    \/ \E p \in Pair, o \in Observation, f \in 0 .. now : RecordAttempt(p, o, f)
    \/ ListPairs
    \/ \E p \in Pair : BuildNext(p)
    \/ EndListing
    \/ Tick
    \/ ClockSetBack

Spec == Init /\ [][Next]_vars

-----------------------------------------------------------------------------
(* The rows keep the store's types, and a listing that runs still has to   *)
(* read only pairs it listed and did not report empty.                     *)
RoutingTypeOK ==
    /\ now \in 0 .. MaxTime
    /\ attempts \in Seq(AttemptRecord)
    /\ listing \in [as_of : 0 .. MaxTime, pairs : SUBSET Pair, without : SUBSET Pair]
    /\ listing.pairs \cap listing.without = {}

(* Whatever rows the store holds and whenever a snapshot's instant was     *)
(* read, the snapshot passes its own validator: a single one that does not *)
(* makes the router drop the evidence of all pairs and the endpoint fail.  *)
SnapshotsSound ==
    \A p \in Pair, as_of \in 0 .. now :
        ConsistentSnapshot(BuildMetrics(attempts, p, as_of))

(* A pair that the listing's first query found has rows in its own query,  *)
(* however long ago the first one was: no listed pair is silently dropped. *)
ListingComplete ==
    /\ listing.without = {}
    /\ \A p \in listing.pairs : Recent(attempts, p, listing.as_of) # {}

(* Every score stays within 0 and 1, with and without evidence: outside it *)
(* RoutingSignal raises and the request fails instead of being routed.     *)
SignalsInUnit ==
    \A p \in Pair, answers \in BOOLEAN :
        LET signal == Signal(attempts, answers, p)
        IN  /\ signal \in [Metric -> Score]
            /\ \A weights \in Preference : FinalScore(weights, signal) \in Score

(* The pair's rows not older than the window's age.                        *)
Young(p) == {i \in DOMAIN attempts :
    attempts[i].pair = p /\ now - attempts[i].finished_at <= MaxAge}

(* The configured scores rule until there is evidence, metric by metric,   *)
(* and again when it has aged out: at the sample floor or below it the     *)
(* measured value counts for nothing, where only priced successes count    *)
(* for the cost.                                                           *)
NoInfluenceBelowFloor ==
    \A p \in Pair :
        LET signal == Signal(attempts, TRUE, p)
        IN  /\ Cardinality(Young(p)) <= MinSamples =>
                   \A m \in {"latency", "reliability"} :
                       signal[m] = Baseline[p][m]
            /\ Cardinality({i \in Young(p) :
                       /\ attempts[i].observed.success
                       /\ attempts[i].observed.estimated_cost # None})
                   <= MinSamples => signal["cost"] = Baseline[p]["cost"]

(* A new row of another pair leaves p's snapshot as it was.                *)
OthersUnaffected ==
    \A p \in Pair :
        (Len(attempts') > Len(attempts) /\ attempts'[Len(attempts')].pair # p) =>
            BuildMetrics(attempts', p, now) = BuildMetrics(attempts, p, now)

(* What an attempt's row says of its pair changes no other pair's evidence *)
(* and score, so that two others never trade places over it                *)
(* (sqlite_store.py:138-152, one window for each pair).                    *)
RowsOfOthersIgnored == [][OthersUnaffected]_vars

(* In whatever state it comes, a failed attempt never ranks its pair       *)
(* better than an unpriced success that took as long would have.           *)
FailureNeverRanksBetter ==
    \A p \in Pair, latency \in {o.latency : o \in Observation} :
        LET After(success) ==
                LET rows == Append(attempts,
                        [pair |-> p, finished_at |-> now,
                         observed |-> [success |-> success, latency |-> latency,
                                       estimated_cost |-> None]])
                IN  [q \in Pair |-> Signal(rows, TRUE, q)]
            succeeded == After(TRUE)
            failed == After(FALSE)
        IN  \A weights \in Preference :
                Rank(succeeded, weights, p) <= Rank(failed, weights, p)
=============================================================================
