---------------------------- MODULE BenchmarkRuns ----------------------------
(***************************************************************************)
(* The benchmark command (cli.py, runner.py) and the append-only history   *)
(* it saves to (benchmarks/sqlite_store.py), which the gateway's quality   *)
(* resolver reads in between.  Every invocation is a process of its own on *)
(* the shared database: it runs its suite case by case, keeps the results  *)
(* in memory, and saves the whole run once at the end.                     *)
(*                                                                         *)
(* An invocation is named by the id its run gets.  Ids are UUIDs, so their *)
(* order says nothing of the order of events, nor does it here.            *)
(***************************************************************************)
EXTENDS BenchmarkQuality

CONSTANTS
    Invocation,         \* run ids, naturals for their order
    Stored,             \* histories the database may hold at the beginning
    MaxTime,            \* bound on the clock
    ClockMayStepBack    \* the wall clock may be set back

SavedRun ==
    [id : Nat, config : Config, started : Nat, finished : Nat, results : Seq(Result)]

ASSUME RunsAssumption ==
    /\ Config # {}
    /\ Invocation \subseteq Nat
    /\ MaxTime \in Nat
    /\ ClockMayStepBack \in BOOLEAN
    /\ Stored \subseteq Seq(SavedRun)
    /\ \A h \in Stored : \A i, j \in DOMAIN h :
           /\ Consistent(h[i])
           /\ h[i].id \in Nat \ Invocation
           /\ h[i].id = h[j].id => i = j

VARIABLES
    clock,      \* datetime.now(UTC)
    phase,      \* where each invocation is
    run,        \* its run, as far as it got
    history     \* benchmark_runs and benchmark_case_results, in order of insertion

vars == <<clock, phase, run, history>>

Exits == {"exit_0", "exit_2", "exit_3", "exit_4"}
Phase == {"idle", "running", "refused", "unsaved", "saved", "crashed"} \cup Exits
Over == Exits \cup {"crashed"}

(* An invocation that has no run in memory, or not any more.               *)
Blank(p) ==
    [id |-> p, config |-> CHOOSE c \in Config : TRUE, started |-> 0, finished |-> 0,
     results |-> <<>>]

Init ==
    /\ clock = 0
    /\ phase = [p \in Invocation |-> "idle"]
    /\ run = [p \in Invocation |-> Blank(p)]
    /\ history \in Stored

Goto(p, place) == phase' = [phase EXCEPT ![p] = place]

(* The process ends without a saved run and what it knew is gone.          *)
Lose(p, place) ==
    /\ Goto(p, place)
    /\ run' = [run EXCEPT ![p] = Blank(p)]
    /\ UNCHANGED <<clock, history>>

(* main() up to asyncio.run: bad arguments, an unreadable or oversized     *)
(* suite, a provider that is not configured.                               *)
Refuse(p) ==
    /\ phase[p] = "idle"
    /\ Goto(p, "exit_2")
    /\ UNCHANGED <<clock, run, history>>

(* The store cannot be opened: nothing has been asked of the provider.     *)
StoreUnavailable(p) ==
    /\ phase[p] = "idle"
    /\ Goto(p, "exit_4")
    /\ UNCHANGED <<clock, run, history>>

Launch(p, config) ==
    /\ phase[p] = "idle"
    /\ Goto(p, "running")
    /\ run' = [run EXCEPT ![p].config = config, ![p].started = clock]
    /\ UNCHANGED <<clock, history>>

(* Mutant of MoreCases: on after a refused key.                            *)
MoreCasesAnyway(results) == Len(results) < Len(Category)

(* The loop over the cases goes on until they are exhausted or the         *)
(* provider refuses the key.                                               *)
MoreCases(results) == Len(results) < Len(Category) /\ ~Terminal(results)

(* Mutant of EndCase: a failed case starts the suite again.                *)
StartAgain(p, result) ==
    /\ phase[p] = "running"
    /\ MoreCases(run[p].results)
    /\ run' = [run EXCEPT ![p].results = IF result = "failed" THEN <<>> ELSE Append(@, result)]
    /\ UNCHANGED <<clock, phase, history>>

(* _run_case: the answer, or the case's own deadline, whichever is first;  *)
(* an answer without text and the deadline are failures like any other.    *)
EndCase(p, result) ==
    /\ phase[p] = "running"
    /\ MoreCases(run[p].results)
    /\ run' = [run EXCEPT ![p].results = Append(@, result)]
    /\ UNCHANGED <<clock, phase, history>>

(* An adapter or evaluator breaks its contract, or the clock refuses an    *)
(* outcome: the exception ends the run and its results are lost.           *)
CaseRaises(p) ==
    /\ phase[p] = "running"
    /\ MoreCases(run[p].results)
    /\ Lose(p, "exit_4")

(* The run is built from the results, and its validator may refuse it.     *)
Conclude(p) ==
    /\ phase[p] = "running"
    /\ ~MoreCases(run[p].results)
    /\ run' = [run EXCEPT ![p].finished = clock]
    /\ Goto(p, IF Consistent(run'[p]) THEN "unsaved" ELSE "refused")
    /\ UNCHANGED <<clock, history>>

(* Mutant of Save: the store keeps one run.                                *)
SaveOver(p) ==
    /\ phase[p] = "unsaved"
    /\ history' = <<run[p]>>
    /\ Goto(p, "saved")
    /\ UNCHANGED <<clock, run>>

(* save_run: the run and all its cases in one transaction.                 *)
Save(p) ==
    /\ phase[p] = "unsaved"
    /\ history' = Append(history, run[p])
    /\ Goto(p, "saved")
    /\ UNCHANGED <<clock, run>>

(* Mutant of SaveFails: saving is best effort.                             *)
SaveSkipped(p) ==
    /\ phase[p] = "unsaved"
    /\ Goto(p, "saved")
    /\ UNCHANGED <<clock, run, history>>

SaveFails(p) ==
    /\ phase[p] = "unsaved"
    /\ Lose(p, "exit_4")

AuthenticationFailed(r) == \E i \in DOMAIN r.results : r.results[i] = "auth_failed"

(* The exception of a refused run, or one raised by closing the HTTP       *)
(* client after the run was saved, also ends in exit code 4.               *)
Exit(p) ==
    \/ phase[p] = "refused" /\ Lose(p, "exit_4")
    \/ /\ phase[p] = "saved"
       /\ \/ Goto(p, "exit_4")
          \/ Goto(p, IF AuthenticationFailed(run[p]) THEN "exit_3" ELSE "exit_0")
       /\ UNCHANGED <<clock, run, history>>

(* Killed or interrupted.                                                  *)
Crash(p) ==
    /\ phase[p] \notin Over \cup {"idle"}
    /\ Lose(p, "crashed")

Tick ==
    /\ clock < MaxTime
    /\ clock' = clock + 1
    /\ UNCHANGED <<phase, run, history>>

ClockSetBack ==
    /\ ClockMayStepBack
    /\ clock > 0
    /\ clock' = clock - 1
    /\ UNCHANGED <<phase, run, history>>

(* What an invocation does when nothing breaks.                            *)
Proceed(p) ==
    \/ \E result \in Result : EndCase(p, result)
    \/ Conclude(p) \/ Save(p) \/ Exit(p)

Next ==
    \/ \E p \in Invocation :
           \/ Refuse(p) \/ StoreUnavailable(p)
           \/ \E config \in Config : Launch(p, config)
           \/ Proceed(p) \/ CaseRaises(p) \/ SaveFails(p) \/ Crash(p)
    \/ Tick \/ ClockSetBack

Spec == Init /\ [][Next]_vars

(* A running invocation keeps running: each case has a deadline, and the   *)
(* store's lock a busy timeout.                                            *)
FairSpec == Spec /\ \A p \in Invocation : WF_vars(Proceed(p))

-----------------------------------------------------------------------------
(* The runner never builds a run that the run's validator refuses, but for *)
(* a clock that was set back while it ran: calls paid for are not lost to  *)
(* its own bookkeeping.                                                    *)
RefusedOnlyByClock ==
    \A p \in Invocation : phase[p] = "refused" => run[p].finished < run[p].started

(* Exit codes 0 and 3 confirm that the run was saved; 0 that it has a      *)
(* result for every case of the suite, 3 that it stopped at the case for   *)
(* which the key was refused (docs/v0.4/BENCHMARKS.md, the exit table).    *)
ExitCodeTellsStore ==
    \A p \in Invocation :
        /\ phase[p] \in {"saved", "exit_0", "exit_3"} => run[p] \in ToSet(history)
        /\ phase[p] = "exit_0" => Len(run[p].results) = Len(Category)
        /\ phase[p] = "exit_3" => Terminal(run[p].results)

(* Whatever was saved, when and in which order, the resolver's aggregation *)
(* gives a snapshot that its validators accept, unless configurations are  *)
(* mixed.                                                                  *)
SnapshotUnlessMixed ==
    history # <<>> /\ ~Mixed(history) => ConsistentSnapshot(Snapshot(history))

(* For each case the newest run that attempted it counts, by the time it   *)
(* finished and then by its id, in whatever order runs were saved          *)
(* (docs/v0.4/EVALUATION.md, "the latest actual attempt wins").            *)
LatestAttemptWins ==
    LET attempts(i) == {r \in ToSet(history) : i \in Attempted(r)}
    IN  \A i \in Cases :
            Sources(history)[i] =
                {r \in attempts(i) : \A s \in attempts(i) \ {r} : Before(s, r)}

(* Evidence is only replaced by newer evidence: a run that is saved late   *)
(* does not displace what finished after it, a partial run keeps what it   *)
(* did not attempt, and nothing is ever forgotten.                         *)
EvidenceOnlyReplacedByNewer ==
    [][\A i \in Cases : \A old \in Sources(history)[i] :
          \E new \in Sources(history')[i] : new = old \/ Before(old, new)]_vars

(* An invocation that was launched ends, whatever its cases do.            *)
InvocationsEnd ==
    \A p \in Invocation : phase[p] = "running" ~> phase[p] \in Over
=============================================================================
