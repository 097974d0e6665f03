--------------------------- MODULE SchemaMigration ---------------------------
(***************************************************************************)
(* SQLiteDatabase._initialize: every store's constructor brings the shared *)
(* database file to the current schema version, in one transaction that    *)
(* takes SQLite's write lock when it begins.  The gateway opens the file   *)
(* several times and the benchmark command opens it from another process;  *)
(* any of them may crash between two statements, and any statement may     *)
(* fail (disk full, I/O error, a table that is already there).             *)
(*                                                                         *)
(* A database is its version row, 0 when it has none, and its tables.  One *)
(* step is one call the constructor makes; the statements of one migration *)
(* are a step together, because nobody can see or keep a part of them.     *)
(***************************************************************************)
EXTENDS Integers

CONSTANTS
    None,
    Opener,     \* constructor calls, in this process and in others
    Found       \* the databases the file may hold before anybody opens it

SchemaVersion == 4

(* The tables each version adds.  Version 4 creates its two without        *)
(* "IF NOT EXISTS".                                                        *)
Added ==
    <<{"attempts", "pricing"},
      {"routing_decisions"},
      {"provider_health"},
      {"benchmark_runs", "benchmark_case_results"}>>

Table == UNION {Added[v] : v \in 1 .. SchemaVersion}
TablesOf(version) == UNION {Added[v] : v \in 1 .. SchemaVersion \cap 1 .. version}

Database == [version : 0 .. SchemaVersion + 1, tables : SUBSET Table]

ASSUME SchemaAssumption ==
    /\ None \notin Opener
    /\ Found \subseteq Database
    /\ \A d \in Found : TablesOf(d.version) \subseteq d.tables

VARIABLES
    database,   \* what is committed
    draft,      \* what the transaction in progress sees
    writer,     \* who has the write lock
    pc,         \* where each constructor call is
    migration   \* the migration the writer runs next, 0 outside of the chain

vars == <<database, draft, writer, pc, migration>>

Places == {"closed", "waiting", "reading", "migrating", "stamping", "committing",
           "ready", "failed"}
InTransaction == {"reading", "migrating", "stamping", "committing"}

SchemaTypeOK ==
    /\ database \in Database
    /\ draft \in Database
    /\ writer \in Opener \cup {None}
    /\ pc \in [Opener -> Places]
    /\ migration \in 0 .. SchemaVersion

Init ==
    /\ database \in Found
    /\ draft = database
    /\ writer = None
    /\ pc = [o \in Opener |-> "closed"]
    /\ migration = 0

Goto(o, place) == pc' = [pc EXCEPT ![o] = place]

(* The constructor is called; it connects and sets its pragmas.            *)
Connect(o) ==
    /\ pc[o] = "closed"
    /\ Goto(o, "waiting")
    /\ UNCHANGED <<database, draft, writer, migration>>

(* BEGIN IMMEDIATE: take the write lock and read the committed state.      *)
Begin(o) ==
    /\ pc[o] = "waiting"
    /\ writer = None
    /\ writer' = o
    /\ draft' = database
    /\ Goto(o, "reading")
    /\ UNCHANGED <<database, migration>>

(* Mutant of GiveUp: wait once more.                                       *)
WaitAgain(o) ==
    /\ pc[o] = "waiting"
    /\ writer # None
    /\ Goto(o, "waiting")
    /\ UNCHANGED <<database, draft, writer, migration>>

(* Another connection keeps the lock for the whole busy timeout.           *)
GiveUp(o) ==
    /\ pc[o] = "waiting"
    /\ writer # None
    /\ Goto(o, "failed")
    /\ UNCHANGED <<database, draft, writer, migration>>

(* Mutant of FirstMigration: from version 2 straight to the last one.      *)
FirstFromTwoOff(version) == IF version = 2 THEN 4 ELSE version + 1

(* Where the chain starts for a database found at this version: with the   *)
(* creation of version 1 when there is none.                               *)
FirstMigration(version) == version + 1

(* The SELECT and its outcomes; an unsupported version Raises, below.      *)
ReadVersion(o) ==
    /\ pc[o] = "reading"
    /\ draft.version \in 0 .. SchemaVersion
    /\ IF draft.version = SchemaVersion
       THEN /\ Goto(o, "committing")
            /\ UNCHANGED migration
       ELSE /\ Goto(o, "migrating")
            /\ migration' = FirstMigration(draft.version)
    /\ UNCHANGED <<database, draft, writer>>

Following(m) == IF m < SchemaVersion THEN m + 1 ELSE 0

(* CREATE TABLE of version 4 fails on a table that is there.               *)
Leftovers ==
    migration = SchemaVersion /\ draft.tables \cap Added[SchemaVersion] # {}

(* One migration's statements.                                             *)
Migrate(o) ==
    /\ pc[o] = "migrating"
    /\ ~Leftovers
    /\ draft' = [draft EXCEPT !.tables = @ \cup Added[migration]]
    /\ migration' = Following(migration)
    /\ IF Following(migration) = 0 THEN Goto(o, "stamping") ELSE UNCHANGED pc
    /\ UNCHANGED <<database, writer>>

(* INSERT or UPDATE of the version row.                                    *)
Stamp(o) ==
    /\ pc[o] = "stamping"
    /\ draft' = [draft EXCEPT !.version = SchemaVersion]
    /\ Goto(o, "committing")
    /\ UNCHANGED <<database, writer, migration>>

Commit(o) ==
    /\ pc[o] = "committing"
    /\ database' = draft
    /\ writer' = None
    /\ Goto(o, "ready")
    /\ UNCHANGED <<draft, migration>>

(* Mutant of Rollback: the error path keeps what was done so far.          *)
KeepDraft ==
    /\ database' = draft
    /\ draft' = draft
    /\ writer' = None
    /\ migration' = 0

(* What ending the transaction without a commit leaves, on the error path  *)
(* and when SQLite recovers from a crash.                                  *)
Rollback ==
    /\ draft' = database
    /\ writer' = None
    /\ migration' = 0
    /\ UNCHANGED database

(* What the code finds raises: an unsupported version, or a table that is  *)
(* already there.                                                          *)
Raises(o) ==
    /\ \/ pc[o] = "reading" /\ draft.version \notin 0 .. SchemaVersion
       \/ pc[o] = "migrating" /\ Leftovers
    /\ Rollback
    /\ Goto(o, "failed")

(* Any statement, the commit included, may raise for reasons of its own.   *)
(* Before the transaction there is nothing to roll back.                   *)
Fail(o) ==
    \/ /\ pc[o] \in InTransaction
       /\ Rollback
       /\ Goto(o, "failed")
    \/ /\ pc[o] = "waiting"
       /\ Goto(o, "failed")
       /\ UNCHANGED <<database, draft, writer, migration>>

(* The opener's process dies, or ends when it has its store or its error.  *)
Close(o) ==
    \/ /\ pc[o] \in InTransaction
       /\ Rollback
       /\ Goto(o, "closed")
    \/ /\ pc[o] \in {"waiting", "ready", "failed"}
       /\ Goto(o, "closed")
       /\ UNCHANGED <<database, draft, writer, migration>>

Advance(o) ==
    Begin(o) \/ GiveUp(o) \/ ReadVersion(o) \/ Migrate(o) \/ Stamp(o) \/ Commit(o) \/ Raises(o)

Next == \E o \in Opener : Connect(o) \/ Advance(o) \/ Fail(o) \/ Close(o)

Spec == Init /\ [][Next]_vars

(* A constructor that was called keeps running: it has no wait that is not *)
(* bounded by the busy timeout.                                            *)
FairSpec == Spec /\ \A o \in Opener : WF_vars(Advance(o))

-----------------------------------------------------------------------------
(* The committed version always tells which tables are there, and a store  *)
(* whose constructor returned has them all: no crash, error or second      *)
(* upgrade leaves a version without its tables.                            *)
VersionTellsTables ==
    /\ TablesOf(database.version) \subseteq database.tables
    /\ \A o \in Opener : pc[o] = "ready" =>
           database.version = SchemaVersion /\ database.tables = Table

(* The upgrade is one step for everybody else, keeps every table, and only *)
(* then are stores open; an unsupported database is left alone.            *)
Contract ==
    INSTANCE SchemaContract WITH
        Current <- SchemaVersion,
        Everything <- Table,
        opened <- {o \in Opener : pc[o] = "ready"}

ImplementsSchemaContract == Contract!Spec

(* Every constructor call ends, with a store or with an error, however     *)
(* many other openers come, crash and come again.                          *)
OpeningEnds ==
    \A o \in Opener : pc[o] = "waiting" ~> pc[o] \in {"ready", "failed", "closed"}
=============================================================================
