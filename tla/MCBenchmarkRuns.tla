---------------------------- MODULE MCBenchmarkRuns ----------------------------
EXTENDS BenchmarkRuns

TwoCategories == <<"reasoning", "coding">>

(* No history, or one complete run whose id is between the invocations'.   *)
OldRun ==
    [id |-> 2, config |-> "default", started |-> 0, finished |-> 1,
     results |-> <<"evaluated", "failed">>]
Histories == {<<>>, <<OldRun>>}
=============================================================================
