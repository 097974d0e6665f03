---------------------------- MODULE BenchmarkStore ----------------------------
(***************************************************************************)
(* SQLiteBenchmarkStore on the shared file: what processes whose           *)
(* constructor returned do with it beside the ones still upgrading it.     *)
(* save_run is one write transaction of a run row and its case rows; the   *)
(* reads are several SELECTs inside a read transaction, which sees the     *)
(* file as it was at the first of them (SQLite's write-ahead log).         *)
(***************************************************************************)
EXTENDS SchemaMigration, Sequences, SequencesExt, FiniteSets

CONSTANTS
    Run,        \* benchmark runs, by run ID
    Cases,      \* how many case results each has
    Wanted      \* what a read may ask for: one run's ID, or a list

ASSUME StoreAssumption ==
    /\ None \notin Run \cup [wanted : Wanted, met : Nat]
    /\ Cases \in Nat
    /\ Wanted \subseteq SUBSET Run

VARIABLES
    rows,       \* the committed run and case rows
    pending,    \* the same as the writer's transaction sees them
    doing       \* what each opener is doing with its store

storeVars == <<rows, pending, doing>>

(* runs: the rows of benchmark_runs in the order they were inserted;       *)
(* cases: how many rows of benchmark_case_results each run has.            *)
Rows == [runs : Seq(Run), cases : [Run -> Nat]]

Empty == [runs |-> <<>>, cases |-> [r \in Run |-> 0]]

NoAnswer == [step |-> "idle", answer |-> None]

StoreInit ==
    /\ Init
    /\ rows = Empty
    /\ pending = Empty
    /\ doing = [o \in Opener |-> NoAnswer]

Do(o, activity) == doing' = [doing EXCEPT ![o] = activity]

Free(o) == pc[o] = "ready" /\ doing[o].step = "idle"

Has(table, r) == r \in ToSet(table.runs)

-----------------------------------------------------------------------------
(* save_run.                                                               *)

(* BEGIN IMMEDIATE; the finished run has been validated again.             *)
BeginSave(o, r) ==
    /\ Free(o)
    /\ writer = None
    /\ writer' = o
    /\ pending' = rows
    /\ Do(o, [step |-> "saving", run |-> r])
    /\ UNCHANGED <<database, draft, pc, migration, rows>>

Saving(o) == doing[o].step = "saving"

(* The duplicate check, and the INSERT of the run's row.                   *)
InsertRun(o) ==
    /\ Saving(o)
    /\ ~Has(pending, doing[o].run)
    /\ pending' = [pending EXCEPT !.runs = Append(@, doing[o].run)]
    /\ Do(o, [doing[o] EXCEPT !.step = "inserting"])
    /\ UNCHANGED <<vars, rows>>

Inserting(o) == doing[o].step = "inserting"

InsertCase(o) ==
    /\ Inserting(o)
    /\ pending.cases[doing[o].run] < Cases
    /\ pending' = [pending EXCEPT !.cases[doing[o].run] = @ + 1]
    /\ UNCHANGED <<vars, rows, doing>>

CommitSave(o) ==
    /\ Inserting(o)
    /\ pending.cases[doing[o].run] = Cases
    /\ rows' = pending
    /\ writer' = None
    /\ Do(o, NoAnswer)
    /\ UNCHANGED <<database, draft, pc, migration, pending>>

(* Mutant of Undo: leaving the connection commits what was inserted.       *)
KeepRows == rows' = pending /\ UNCHANGED pending

(* Leaving the connection's context on an exception, or dying.             *)
Undo == pending' = rows /\ UNCHANGED rows

(* The run is there already, or a statement, the commit included, raises.  *)
SaveFails(o) ==
    /\ Saving(o) \/ Inserting(o)
    /\ Undo
    /\ writer' = None
    /\ Do(o, NoAnswer)
    /\ UNCHANGED <<database, draft, pc, migration>>

-----------------------------------------------------------------------------
(* The reads.                                                              *)

Call(o, wanted) ==
    /\ Free(o)
    /\ Do(o, [step |-> "called", wanted |-> wanted, met |-> Len(rows.runs)])
    /\ UNCHANGED <<vars, rows, pending>>

(* BEGIN and the first SELECT: of the run's row, or for orphaned cases.    *)
Select(o) ==
    /\ doing[o].step = "called"
    /\ Do(o, [step |-> "selected", wanted |-> doing[o].wanted, met |-> doing[o].met,
              view |-> rows])
    /\ UNCHANGED <<vars, rows, pending>>

(* Mutant of View: without BEGIN each SELECT sees the file as it is.       *)
ViewOfNow(o) == rows
View(o) == doing[o].view

(* The SELECTs that follow: the rows of the runs found and their cases, or *)
(* a check that a run that was not found left no cases (which the router's *)
(* list_matching_runs leaves out: it could only find more).                *)
Malformed(o) ==
    \E r \in doing[o].wanted :
        View(o).cases[r] # IF Has(doing[o].view, r) THEN Cases ELSE 0

Matching(o) == {r \in doing[o].wanted : Has(doing[o].view, r)}

(* BenchmarkStoreDataError, which no caller takes for a set of runs.       *)
DataError == {None}

Restore(o) ==
    /\ doing[o].step = "selected"
    /\ Do(o, [step |-> "idle",
              answer |-> IF Malformed(o) THEN DataError ELSE Matching(o)])
    /\ UNCHANGED <<vars, rows, pending>>

(* A statement raises; the endpoint answers 503.                           *)
ReadFails(o) ==
    /\ doing[o].step \in {"called", "selected"}
    /\ Do(o, NoAnswer)
    /\ UNCHANGED <<vars, rows, pending>>

-----------------------------------------------------------------------------
(* The process dies; what it was writing is rolled back.                   *)
Die(o) ==
    /\ doing[o].step # "idle"
    /\ IF writer = o THEN Undo /\ writer' = None
       ELSE UNCHANGED <<rows, pending, writer>>
    /\ Goto(o, "closed")
    /\ Do(o, NoAnswer)
    /\ UNCHANGED <<database, draft, migration>>

(* A step of a constructor, or of a process that only holds its store.     *)
OpeningStep(o) ==
    /\ doing[o].step = "idle"
    /\ Connect(o) \/ Advance(o) \/ Fail(o) \/ Close(o)
    /\ Do(o, NoAnswer)
    /\ UNCHANGED <<rows, pending>>

StoreStep(o) ==
    \/ OpeningStep(o)
    \/ \E r \in Run : BeginSave(o, r)
    \/ InsertRun(o)
    \/ InsertCase(o)
    \/ CommitSave(o)
    \/ SaveFails(o)
    \/ \E wanted \in Wanted : Call(o, wanted)
    \/ Select(o)
    \/ Restore(o)
    \/ ReadFails(o)
    \/ Die(o)

allVars == <<vars, storeVars>>

StoreNext == \E o \in Opener : StoreStep(o)

StoreSpec == StoreInit /\ [][StoreNext]_allVars

-----------------------------------------------------------------------------
(* The store is an immutable history: it grows by whole runs, each once,   *)
(* and every read returns what it asked for as of one moment between its   *)
(* call and its return, never a run without its cases nor an error about   *)
(* rows another process is just committing                                 *)
(* (benchmarks/sqlite_store.py:32-63,77-89).                               *)
Progress(o) ==
    IF doing[o].step \in {"called", "selected"}
    THEN [wanted |-> doing[o].wanted, met |-> doing[o].met]
    ELSE None

History ==
    INSTANCE RunHistory WITH
        Reader <- Opener,
        history <- rows.runs,
        asked <- [o \in Opener |-> Progress(o)],
        answer <- [o \in Opener |->
                     IF doing[o].step = "idle" THEN doing[o].answer ELSE None]

ImplementsRunHistory == History!Spec
===============================================================================
