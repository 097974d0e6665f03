--------------------------- MODULE BenchmarkQuality ---------------------------
(***************************************************************************)
(* A saved benchmark run and the quality evidence that runs are worth:     *)
(* BenchmarkRun's validator and aggregate_quality.  Pure definitions.      *)
(*                                                                         *)
(* All runs are of one target and one suite.  A run's i-th result is of    *)
(* the suite's i-th case.  Of a result only what the rules look at is      *)
(* kept: whether the answer was evaluated (right or wrong), the call       *)
(* failed, or it failed to authenticate.  Scores, weights and the          *)
(* confidence ramp are not modelled; ratios are their numerators, since    *)
(* all those that are compared are over the number of cases.               *)
(***************************************************************************)
EXTENDS Integers, SequencesExt

CONSTANTS
    Category,   \* the category of each case of the suite, in order
    Config      \* run configurations, which a command's flags choose

ASSUME SuiteAssumption == Category \in Seq(STRING) \ {<<>>}

Cases == DOMAIN Category
Result == {"evaluated", "failed", "auth_failed"}

Terminal(results) == results # <<>> /\ Last(results) = "auth_failed"

(* BenchmarkRun.consistent_run.                                            *)
Consistent(run) ==
    /\ run.started <= run.finished
    /\ Len(run.results) \in 1 .. Len(Category)
    /\ \A i \in DOMAIN run.results :
           run.results[i] = "auth_failed" => i = Len(run.results)
    /\ Len(run.results) < Len(Category) => Terminal(run.results)

Attempted(run) == DOMAIN run.results
EvaluatedIn(run) == {i \in Attempted(run) : run.results[i] = "evaluated"}

(* sorted(..., key=(finished_at, run_id)), which has one outcome since ids *)
(* differ.                                                                 *)
Before(r, s) ==
    r.finished < s.finished \/ (r.finished = s.finished /\ r.id < s.id)

(* Mutant of Ordered: the order the runs were stored in.                   *)
AsStored(runs) == runs
Ordered(runs) ==
    CHOOSE order \in SetToSeqs(ToSet(runs)) :
        \A m, n \in DOMAIN order : m < n => Before(order[m], order[n])

(* Which run each case's evidence is from, {} when none attempted it: the  *)
(* runs are replayed in order and a later attempt replaces an earlier one, *)
(* a failure included.                                                     *)
Replay(sources, run) ==
    [i \in Cases |-> IF i \in Attempted(run) THEN {run} ELSE sources[i]]
Sources(runs) == FoldLeft(Replay, [i \in Cases |-> {}], Ordered(runs))

(* aggregate_quality refuses runs of two configurations.                   *)
Mixed(runs) == \E r, s \in ToSet(runs) : r.config # s.config

(* _metrics over a part of the cases.                                      *)
Metrics(cases, sources) ==
    LET observed == {i \in cases : sources[i] # {}}
        evaluated == {i \in observed : \A r \in sources[i] : i \in EvaluatedIn(r)}
    IN  [total |-> Cardinality(cases),
         observed |-> Cardinality(observed),
         evaluated |-> Cardinality(evaluated),
         failed |-> Cardinality(observed) - Cardinality(evaluated)]

(* Mutant of Latest: the one stored last.                                  *)
LatestStored(runs) == Last(runs)
Latest(runs) == Last(Ordered(runs))

(* The snapshot aggregate_quality builds of one configuration's runs.      *)
Snapshot(runs) ==
    LET sources == Sources(runs)
        categories == ToSet(Category)
    IN  [overall |-> Metrics(Cases, sources),
         by_category |->
             [c \in categories |-> Metrics({i \in Cases : Category[i] = c}, sources)],
         source_ids |-> {r.id : r \in UNION {sources[i] : i \in Cases}},
         latest_id |-> Latest(runs).id,
         latest_attempted |-> Cardinality(Attempted(Latest(runs))),
         latest_evaluated |-> Cardinality(EvaluatedIn(Latest(runs)))]

(* QualityMetrics.consistent_metrics and                                   *)
(* QualitySnapshot.consistent_provenance, as far as they are about counts  *)
(* and sources.                                                            *)
ConsistentMetrics(m) ==
    /\ m.evaluated <= m.observed
    /\ m.observed <= m.total
    /\ m.failed = m.observed - m.evaluated

ConsistentSnapshot(s) ==
    /\ ConsistentMetrics(s.overall)
    /\ \A c \in DOMAIN s.by_category : ConsistentMetrics(s.by_category[c])
    /\ s.source_ids # {} <=> s.overall.observed > 0
    /\ s.latest_id \in s.source_ids
    /\ s.latest_evaluated <= s.latest_attempted
    /\ s.latest_attempted <= s.overall.observed
    /\ s.latest_evaluated <= s.overall.evaluated
    /\ \A field \in DOMAIN s.overall :
           SumFunction([c \in DOMAIN s.by_category |-> s.by_category[c][field]])
               = s.overall[field]
=============================================================================
