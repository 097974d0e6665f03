---------------------------- MODULE DatabaseBackup ----------------------------
(***************************************************************************)
(* scripts/backup-sqlite.py beside the processes that use the database:    *)
(* several invocations that name one destination, each a check, an         *)
(* exclusive creation, SQLite's online backup in one step, a verification  *)
(* and, on any error after the creation, the removal of the destination.   *)
(* A killed invocation leaves what it had made.                            *)
(***************************************************************************)
EXTENDS BenchmarkStore

CONSTANT Backup     \* invocations of the script

VARIABLES
    file,       \* the destination: who made it and what it holds, or None
    sidecar,    \* a -wal or -shm file of that name is there
    step,       \* where each invocation is
    met         \* history: how many runs there were at its check

backupVars == <<file, sidecar, step, met>>

(* "ended": refused, failed or killed, with nothing left to do.            *)
Steps == {"new", "checked", "created", "copied",
          "verified", "ended"}

(* A copy for which a stale write-ahead log was mixed in.                  *)
Mixed == [database |-> None, rows |-> None]

(* The destination file: who made it, and the copy it holds.               *)
Destination ==
    [by : Backup \cup {None},
     holds : {None, Mixed} \cup [database : Database, rows : Rows]]

ASSUME BackupAssumption == None \notin Backup \cup Database \cup Destination

(* The destination may have been left over from an earlier day.            *)
Foreign == [by |-> None, holds |-> None]

BackupInit ==
    /\ StoreInit
    /\ file \in {None, Foreign}
    /\ sidecar \in BOOLEAN
    /\ step = [b \in Backup |-> "new"]
    /\ met = [b \in Backup |-> 0]

To(b, place) == step' = [step EXCEPT ![b] = place]

End(b) == To(b, "ended") /\ met' = [met EXCEPT ![b] = 0]

(* Mutant of Occupied: the sidecars of the destination are not looked for. *)
FileThere == file # None
Occupied == file # None \/ sidecar

(* Somebody runs the script, on an existing database.                      *)
Check(b) ==
    /\ step[b] = "new"
    /\ IF Occupied THEN End(b)
       ELSE To(b, "checked") /\ met' = [met EXCEPT ![b] = Len(rows.runs)]
    /\ UNCHANGED <<file, sidecar>>

(* open("xb"): creation, or FileExistsError, outside of the try block.     *)
Create(b) ==
    /\ step[b] = "checked"
    /\ IF file = None
       THEN file' = [by |-> b, holds |-> None] /\ To(b, "created") /\ UNCHANGED met
       ELSE UNCHANGED file /\ End(b)
    /\ UNCHANGED sidecar

(* Mutant of Snapshot: what the writer has not committed is copied too.    *)
SnapshotOfWriter == [database |-> draft, rows |-> pending]
Snapshot == [database |-> database, rows |-> rows]

(* reader.backup(writer).  A write-ahead log that was there before belongs *)
(* to another database, and what SQLite makes of it is anybody's guess.    *)
Copy(b) ==
    /\ step[b] = "created"
    /\ file' = [file EXCEPT !.holds = IF sidecar THEN Mixed ELSE Snapshot]
    /\ sidecar' = TRUE
    /\ To(b, "copied")
    /\ UNCHANGED met

(* integrity_check and the version row; closing removes the sidecars.      *)
Verify(b) ==
    /\ step[b] = "copied"
    /\ file.holds = Mixed \/ file.holds.database.version # 0
    /\ sidecar' = FALSE
    /\ To(b, "verified")
    /\ UNCHANGED <<file, met>>

(* Mutant of Handled: the creation is inside of the try block.             *)
HandledFromCheck(b) == step[b] \in {"checked", "created", "copied"}
Handled(b) == step[b] \in {"created", "copied"}

(* Whatever raises inside of the try block, a missing version included.    *)
RemoveDestination(b) ==
    /\ Handled(b)
    /\ file' = None
    /\ sidecar' = IF step[b] = "copied" THEN FALSE ELSE sidecar
    /\ End(b)

Kill(b) ==
    /\ step[b] \in {"checked", "created", "copied"}
    /\ End(b)
    /\ UNCHANGED <<file, sidecar>>

BackupStep(b) ==
    \/ Check(b)
    \/ Create(b)
    \/ Copy(b)
    \/ Verify(b)
    \/ RemoveDestination(b)
    \/ Kill(b)

BackupNext ==
    \/ StoreNext /\ UNCHANGED backupVars
    \/ \E b \in Backup : BackupStep(b) /\ UNCHANGED allVars

BackupSpec == BackupInit /\ [][BackupNext]_<<allVars, backupVars>>

(* Only the constructors are known to run on: everything else may stop.    *)
FairBackupSpec == BackupSpec /\ \A o \in Opener : WF_vars(Advance(o))

-----------------------------------------------------------------------------
(* What a reported backup must hold.                                       *)
Whole(holds) ==
    /\ holds # Mixed
    /\ TablesOf(holds.database.version) \subseteq holds.database.tables
    /\ \A r \in Run : holds.rows.cases[r] = IF Has(holds.rows, r) THEN Cases ELSE 0

(* A backup reported as verified is a database that was committed while    *)
(* the script ran: its version tells its tables, its runs are whole, those *)
(* saved before it are all there and none that was rolled back             *)
(* (scripts/backup-sqlite.py:30-36).                                       *)
BackupIsCommitted ==
    \A b \in Backup : step[b] = "verified" =>
        /\ file.by = b
        /\ Whole(file.holds)
        /\ IsPrefix(file.holds.rows.runs, rows.runs)
        /\ met[b] <= Len(file.holds.rows.runs)

(* Nobody ever changes or removes a destination but the invocation that    *)
(* created it, and that one only until it has reported: what was there     *)
(* before, another invocation's backup and a killed one's remains stay     *)
(* (scripts/backup-sqlite.py:20-24,37-40).                                 *)
DestinationKept ==
    [][file # None /\ file' # file =>
          \E b \in Backup : file.by = b /\ step[b] \in {"created", "copied"}]_file
===============================================================================
