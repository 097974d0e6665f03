---------------------------- MODULE DatabaseProofs ----------------------------
(***************************************************************************)
(* What modules SchemaMigration, BenchmarkStore and DatabaseBackup         *)
(* promise, for every set of openers, databases they may find, benchmark   *)
(* runs and invocations of the backup script.                              *)
(***************************************************************************)
EXTENDS DatabaseBackup, TLAPS

(* A constructor in its transaction has the write lock (which a store that *)
(* saves a run may have, too).                                             *)
OneWriter ==
    \A o \in Opener : pc[o] \in InTransaction => writer = o

(* Where a transaction has got to: what it sees is the committed database  *)
(* plus the tables of the migrations it ran, and its version row is still  *)
(* the committed one until it is stamped.                                  *)
Transaction(o) ==
    /\ pc[o] = "reading" => draft = database
    /\ pc[o] = "migrating" =>
           /\ migration \in 1 .. SchemaVersion
           /\ database.version \in 0 .. SchemaVersion - 1
           /\ draft.version = database.version
           /\ draft.tables = database.tables \cup TablesOf(migration - 1)
    /\ pc[o] = "stamping" =>
           /\ database.version \in 0 .. SchemaVersion - 1
           /\ draft.version = database.version
           /\ draft.tables = database.tables \cup Table
    /\ pc[o] = "committing" =>
           \/ database.version = SchemaVersion /\ draft = database
           \/ /\ database.version \in 0 .. SchemaVersion - 1
              /\ draft = [version |-> SchemaVersion, tables |-> database.tables \cup Table]

SInv ==
    /\ SchemaTypeOK
    /\ OneWriter
    /\ \A o \in Opener : Transaction(o)
    /\ VersionTellsTables

-----------------------------------------------------------------------------
(* Every run is there with all of its cases, or not at all.                *)
WholeRows(table) ==
    \A r \in Run : table.cases[r] = IF Has(table, r) THEN Cases ELSE 0

(* An earlier state of the committed rows.                                 *)
Past(table) == WholeRows(table) /\ IsPrefix(table.runs, rows.runs)

(* What an opener may be doing with its store.  No answer is an error      *)
(* about rows that are being committed.                                    *)
Activity ==
    [step : {"idle"}, answer : {None} \cup SUBSET Run] \cup
    [step : {"saving", "inserting"}, run : Run] \cup
    [step : {"called"}, wanted : Wanted, met : Nat] \cup
    [step : {"selected"}, wanted : Wanted, met : Nat, view : Rows]

(* The writer's rows are the committed ones and the run it is inserting.   *)
Insertion(r) ==
    /\ ~Has(rows, r)
    /\ pending.runs = Append(rows.runs, r)
    /\ pending.cases[r] \in 0 .. Cases
    /\ \A q \in Run \ {r} : pending.cases[q] = rows.cases[q]

AtWork(o) ==
    /\ doing[o].step # "idle" => pc[o] = "ready"
    /\ doing[o].step \in {"saving", "inserting"} => writer = o
    /\ doing[o].step = "saving" => pending = rows
    /\ doing[o].step = "inserting" => Insertion(doing[o].run)
    /\ doing[o].step \in {"called", "selected"} => doing[o].met <= Len(rows.runs)
    /\ doing[o].step = "selected" =>
           Past(doing[o].view) /\ doing[o].met <= Len(doing[o].view.runs)

StoreInv ==
    /\ rows \in Rows
    /\ pending \in Rows
    /\ doing \in [Opener -> Activity]
    /\ WholeRows(rows)
    /\ \A o \in Opener : AtWork(o)

(* Whoever created the destination owns it until it has reported; nobody   *)
(* creates it with another database's log beside it.                       *)
Owner(b) ==
    /\ step[b] \in {"created", "copied", "verified"} => file # None /\ file.by = b
    /\ step[b] \in {"checked", "created"} => met[b] <= Len(rows.runs)
    /\ step[b] = "created" => ~sidecar
    /\ step[b] = "checked" /\ file = None => ~sidecar
    /\ step[b] \in {"copied", "verified"} =>
           /\ file.holds \in [database : Database, rows : Rows]
           /\ TablesOf(file.holds.database.version) \subseteq file.holds.database.tables
           /\ Past(file.holds.rows)
           /\ met[b] <= Len(file.holds.rows.runs)

BackupInv ==
    /\ file \in {None} \cup Destination
    /\ sidecar \in BOOLEAN
    /\ step \in [Backup -> Steps]
    /\ met \in [Backup -> Nat]
    /\ \A b \in Backup : Owner(b)

DatabaseInv == SInv /\ StoreInv /\ BackupInv

-----------------------------------------------------------------------------
(* The chain of migrations adds its tables one version at a time until all  *)
(* are there.                                                               *)
LEMMA AddedTables ==
    /\ \A v \in 1 .. SchemaVersion : Added[v] \subseteq Table
    /\ \A v : TablesOf(v) \subseteq Table
    /\ TablesOf(0) = {}
    /\ TablesOf(SchemaVersion) = Table
    /\ \A v \in 1 .. SchemaVersion : TablesOf(v) = TablesOf(v - 1) \cup Added[v]
<1>1. ASSUME NEW v \in 1 .. SchemaVersion
      PROVE  Added[v] \subseteq Table
  BY DEF Table
<1>2. ASSUME NEW v
      PROVE  TablesOf(v) \subseteq Table
  BY DEF Table, TablesOf
<1>3. TablesOf(0) = {}
  <2>1. 1 .. 0 = {}
    BY SMT
  <2>. QED
    BY <2>1 DEF TablesOf
<1>4. TablesOf(SchemaVersion) = Table
  BY DEF Table, TablesOf
<1>5. ASSUME NEW v \in 1 .. SchemaVersion
      PROVE  TablesOf(v) = TablesOf(v - 1) \cup Added[v]
  <2>1. 1 .. SchemaVersion \cap 1 .. v = (1 .. SchemaVersion \cap 1 .. v - 1) \cup {v}
    BY SMT DEF SchemaVersion
  <2>. QED
    BY <2>1, Zenon DEF TablesOf
<1>. QED
  BY <1>1, <1>2, <1>3, <1>4, <1>5

(* The databases an opener may find have the tables their version tells.    *)
LEMMA SInvInit ==
    ASSUME Init
    PROVE  SInv
<1>1. database \in Database /\ TablesOf(database.version) \subseteq database.tables
  BY SchemaAssumption DEF Init
<1>2. SchemaTypeOK
  BY <1>1 DEF Init, SchemaTypeOK, Places, SchemaVersion
<1>3. OneWriter
  BY SchemaAssumption DEF Init, OneWriter, InTransaction
<1>4. \A o \in Opener : Transaction(o)
  BY DEF Init, Transaction
<1>5. VersionTellsTables
  BY <1>1 DEF Init, VersionTellsTables
<1>. QED
  BY <1>2, <1>3, <1>4, <1>5 DEF SInv

(* What a transaction may leave the database as.                           *)
LEMMA CommittedDraft ==
    ASSUME SInv, NEW o \in Opener, Commit(o)
    PROVE  /\ database'.version = SchemaVersion
           /\ database'.tables = Table
           /\ \/ database.version = SchemaVersion /\ database' = database
              \/ /\ database.version \in 0 .. SchemaVersion - 1
                 /\ database' = [version |-> SchemaVersion, tables |-> database.tables \cup Table]
<1>1. database' = draft /\ pc[o] = "committing"
  BY DEF Commit
<1>2. Transaction(o)
  BY DEF SInv
<1>3. TablesOf(database.version) \subseteq database.tables /\ database.tables \subseteq Table
  BY DEF SInv, VersionTellsTables, SchemaTypeOK, Database
<1>. QED
  BY <1>1, <1>2, <1>3, AddedTables DEF Transaction

(* Every step of a constructor keeps the invariant: only the lock's owner   *)
(* touches the draft.                                                       *)
LEMMA SInvNext ==
    ASSUME SInv, [Next]_vars
    PROVE  SInv'
<1>. USE DEF SchemaVersion, Places, InTransaction
<1>. USE SchemaAssumption
<1>1. ASSUME NEW o \in Opener, Connect(o)
      PROVE  SInv'
  BY <1>1 DEF SInv, SchemaTypeOK, OneWriter, Transaction, VersionTellsTables, Connect, Goto
<1>2. ASSUME NEW o \in Opener, Begin(o)
      PROVE  SInv'
  BY <1>2 DEF SInv, SchemaTypeOK, OneWriter, Transaction, VersionTellsTables, Begin, Goto
<1>3. ASSUME NEW o \in Opener, GiveUp(o)
      PROVE  SInv'
  BY <1>3 DEF SInv, SchemaTypeOK, OneWriter, Transaction, VersionTellsTables, GiveUp, Goto
<1>4. ASSUME NEW o \in Opener, ReadVersion(o)
      PROVE  SInv'
  <2>1. TablesOf(database.version) \subseteq database.tables /\ draft = database
    BY <1>4 DEF SInv, VersionTellsTables, Transaction, ReadVersion
  <2>2. CASE draft.version = SchemaVersion
    BY <1>4, <2>1, <2>2
    DEF SInv, SchemaTypeOK, Database, OneWriter, Transaction, VersionTellsTables, ReadVersion, Goto
  <2>3. CASE draft.version # SchemaVersion
    <3>1. migration' = draft.version + 1 /\ draft.version \in 0 .. SchemaVersion - 1
      BY <1>4, <2>3 DEF ReadVersion, FirstMigration
    <3>2. draft.tables = database.tables \cup TablesOf(migration' - 1)
      <4>1. migration' - 1 = database.version
        BY <2>1, <3>1
      <4>. QED
        BY <2>1, <4>1, Zenon
    <3>. QED
      BY <1>4, <2>1, <2>3, <3>1, <3>2
      DEF SInv, SchemaTypeOK, Database, OneWriter, Transaction, VersionTellsTables, ReadVersion, Goto
  <2>. QED
    BY <2>2, <2>3
<1>5. ASSUME NEW o \in Opener, Migrate(o)
      PROVE  SInv'
  <2>1. /\ migration \in 1 .. SchemaVersion
        /\ database.version \in 0 .. SchemaVersion - 1
        /\ draft.version = database.version
        /\ draft.tables = database.tables \cup TablesOf(migration - 1)
    BY <1>5 DEF SInv, Transaction, Migrate
  <2>2. /\ draft'.version = draft.version
        /\ draft'.tables = draft.tables \cup Added[migration]
        /\ draft' \in Database
    BY <1>5, <2>1, AddedTables DEF SInv, SchemaTypeOK, Database, Migrate
  <2>3. draft'.tables = database.tables \cup TablesOf(migration)
    BY <2>1, <2>2, AddedTables
  <2>4. CASE migration < SchemaVersion
    <3>1. migration' = migration + 1 /\ UNCHANGED pc
      BY <1>5, <2>1, <2>4 DEF Migrate, Following
    <3>2. draft'.tables = database.tables \cup TablesOf(migration' - 1)
      <4>1. migration' - 1 = migration
        BY <2>1, <3>1
      <4>. QED
        BY <2>3, <4>1, Zenon
    <3>. QED
      BY <1>5, <2>1, <2>2, <2>4, <3>1, <3>2
      DEF SInv, SchemaTypeOK, OneWriter, Transaction, VersionTellsTables, Migrate
  <2>5. CASE migration = SchemaVersion
    <3>1. migration' = 0 /\ Goto(o, "stamping")
      BY <1>5, <2>5 DEF Migrate, Following
    <3>2. draft'.tables = database.tables \cup Table
      BY <2>3, <2>5, AddedTables
    <3>. QED
      BY <1>5, <2>1, <2>2, <3>1, <3>2
      DEF SInv, SchemaTypeOK, OneWriter, Transaction, VersionTellsTables, Migrate, Goto
  <2>. QED
    BY <2>1, <2>4, <2>5
<1>6. ASSUME NEW o \in Opener, Stamp(o)
      PROVE  SInv'
  <2>1. /\ draft' = [version |-> SchemaVersion, tables |-> database.tables \cup Table]
        /\ draft' \in Database
    BY <1>6 DEF SInv, SchemaTypeOK, Database, Transaction, Stamp
  <2>. QED
    BY <1>6, <2>1
    DEF SInv, SchemaTypeOK, OneWriter, Transaction, VersionTellsTables, Stamp, Goto
<1>7. ASSUME NEW o \in Opener, Commit(o)
      PROVE  SInv'
  <2>1. database'.version = SchemaVersion /\ database'.tables = Table
    BY <1>7, CommittedDraft
  <2>2. VersionTellsTables'
    BY <2>1, AddedTables DEF VersionTellsTables
  <2>. QED
    BY <1>7, <2>2 DEF SInv, SchemaTypeOK, OneWriter, Transaction, Commit, Goto
<1>8. ASSUME NEW o \in Opener, Raises(o) \/ Fail(o)
      PROVE  SInv'
  BY <1>8
  DEF SInv, SchemaTypeOK, OneWriter, Transaction, VersionTellsTables, Raises, Fail, Rollback, Goto
<1>9. ASSUME NEW o \in Opener, Close(o)
      PROVE  SInv'
  BY <1>9
  DEF SInv, SchemaTypeOK, OneWriter, Transaction, VersionTellsTables, Close, Rollback, Goto
<1>10. CASE UNCHANGED vars
  BY <1>10
  DEF SInv, SchemaTypeOK, OneWriter, Transaction, VersionTellsTables, vars
<1>. QED
  BY <1>1, <1>2, <1>3, <1>4, <1>5, <1>6, <1>7, <1>8, <1>9, <1>10 DEF Next, Advance

(* The invariant holds of any number of openers of one file.                *)
LEMMA SInvAlways == Spec => []SInv
<1>1. Init => SInv
  BY SInvInit
<1>2. SInv /\ [Next]_vars => SInv'
  BY SInvNext
<1>. QED
  BY <1>1, <1>2, PTL DEF Spec

(* Whatever crashes, fails or races, the committed version row tells which *)
(* tables are there, and an open store has all of them.                    *)
THEOREM VersionSafety == Spec => []VersionTellsTables
<1>1. SInv => VersionTellsTables
  BY DEF SInv
<1>. QED
  BY <1>1, SInvAlways, PTL

-----------------------------------------------------------------------------
(* A commit is the contract's upgrade of a database, an ended process its   *)
(* closing; the rest stutters.                                              *)
LEMMA ContractStep ==
    ASSUME SInv, [Next]_vars
    PROVE  [Contract!Next]_(Contract!vars)
<1>. DEFINE opened == {o \in Opener : pc[o] = "ready"}
<1>1. ASSUME NEW o \in Opener, Commit(o)
      PROVE  Contract!Open(o)
  <2>1. /\ \/ database.version = SchemaVersion /\ database' = database
           \/ /\ database.version \in 0 .. SchemaVersion - 1
              /\ database' = [version |-> SchemaVersion, tables |-> database.tables \cup Table]
    BY <1>1, CommittedDraft
  <2>2. opened' = opened \cup {o}
    BY <1>1 DEF Commit, Goto, SInv, SchemaTypeOK
  <2>. QED
    BY <2>1, <2>2 DEF Contract!Open, Contract!Upgraded, SchemaVersion
<1>2. ASSUME NEW o \in Opener, Close(o)
      PROVE  Contract!Close(o)
  <2>1. opened' = opened \ {o} /\ UNCHANGED database
    BY <1>2 DEF Close, Rollback, Goto, SInv, SchemaTypeOK
  <2>. QED
    BY <2>1 DEF Contract!Close
<1>3. ASSUME NEW o \in Opener,
             \/ Connect(o) \/ Begin(o) \/ GiveUp(o) \/ ReadVersion(o) \/ Migrate(o)
             \/ Stamp(o) \/ Raises(o) \/ Fail(o)
      PROVE  UNCHANGED Contract!vars
  <2>1. opened' = opened /\ UNCHANGED database
    BY <1>3
    DEF Connect, Begin, GiveUp, ReadVersion, Migrate, Stamp, Raises, Fail, Rollback, Goto,
        InTransaction, SInv, SchemaTypeOK
  <2>. QED
    BY <2>1 DEF Contract!vars
<1>4. CASE UNCHANGED vars
  BY <1>4 DEF vars, Contract!vars
<1>. QED
  BY <1>1, <1>2, <1>3, <1>4 DEF Next, Advance, Contract!Next

(* For everybody else an upgrade is one step from the version that was     *)
(* found to the current one, and nothing but that step changes a database. *)
THEOREM MigrationIsAtomic == Spec => ImplementsSchemaContract
<1>1. Init => Contract!Init
  BY DEF Init, Contract!Init
<1>2. SInv /\ [Next]_vars => [Contract!Next]_(Contract!vars)
  BY ContractStep
<1>. QED
  BY <1>1, <1>2, SInvAlways, PTL DEF Spec, ImplementsSchemaContract, Contract!Spec

-----------------------------------------------------------------------------
(* Prefixes, and what a history has in it.                                 *)
LEMMA PrefixOfItself ==
    ASSUME NEW s \in Seq(Run)
    PROVE  IsPrefix(s, s)
BY DEF IsPrefix

(* A prefix of a history is one of every longer history.                    *)
LEMMA PrefixOfLonger ==
    ASSUME NEW s \in Seq(Run), NEW t \in Seq(Run), NEW r \in Run, IsPrefix(s, t)
    PROVE  IsPrefix(s, Append(t, r)) /\ Len(s) <= Len(Append(t, r))
<1>1. Len(s) <= Len(t) /\ Len(Append(t, r)) = Len(t) + 1
  BY DEF IsPrefix
<1>2. SubSeq(Append(t, r), 1, Len(s)) = SubSeq(t, 1, Len(s))
  BY <1>1
<1>. QED
  BY <1>1, <1>2 DEF IsPrefix

(* A prefix has the same runs at the same places.                           *)
LEMMA PrefixElements ==
    ASSUME NEW s \in Seq(Run), NEW t \in Seq(Run), IsPrefix(s, t)
    PROVE  /\ Len(s) \in 0 .. Len(t)
           /\ \A i \in 1 .. Len(s) : s[i] = t[i]
<1>1. Len(s) \in 0 .. Len(t)
  BY DEF IsPrefix
<1>2. ASSUME NEW i \in 1 .. Len(s)
      PROVE  s[i] = t[i]
  <2>1. SubSeq(s, 1, Len(s))[i] = s[i] /\ SubSeq(t, 1, Len(s))[i] = t[i]
    BY <1>1
  <2>. QED
    BY <2>1 DEF IsPrefix
<1>. QED
  BY <1>1, <1>2

(* Appending a run adds it to those that are there.                         *)
LEMMA HasAppended ==
    ASSUME NEW s \in Seq(Run), NEW r \in Run
    PROVE  \A q : q \in ToSet(Append(s, r)) <=> q \in ToSet(s) \/ q = r
<1>1. /\ DOMAIN Append(s, r) = 1 .. Len(s) + 1
      /\ \A i \in 1 .. Len(s) : Append(s, r)[i] = s[i]
      /\ Append(s, r)[Len(s) + 1] = r
      /\ DOMAIN s = 1 .. Len(s)
      /\ Len(s) \in Nat
  OBVIOUS
<1>2. \A i \in 1 .. Len(s) + 1 : i = Len(s) + 1 \/ i \in 1 .. Len(s)
  BY <1>1
<1>3. \A i \in 1 .. Len(s) : i \in 1 .. Len(s) + 1
  BY <1>1
<1>4. Len(s) + 1 \in 1 .. Len(s) + 1
  BY <1>1
<1>. QED
  BY <1>1, <1>2, <1>3, <1>4 DEF ToSet

-----------------------------------------------------------------------------
(* No store is at work on an empty history.                                 *)
LEMMA StoreInvInit ==
    ASSUME StoreInit
    PROVE  SInv /\ StoreInv
<1>1. SInv
  BY SInvInit DEF StoreInit
<1>2. rows \in Rows /\ pending \in Rows /\ WholeRows(rows)
  BY StoreAssumption DEF StoreInit, Empty, Rows, WholeRows, Has, ToSet
<1>3. doing \in [Opener -> Activity]
  BY DEF StoreInit, NoAnswer, Activity
<1>4. \A o \in Opener : AtWork(o)
  BY DEF StoreInit, NoAnswer, AtWork
<1>. QED
  BY <1>1, <1>2, <1>3, <1>4 DEF StoreInv

(* What an opener is doing, by the step it is at.                          *)
LEMMA Activities ==
    ASSUME NEW d \in Activity
    PROVE  /\ d.step \in {"idle", "saving", "inserting", "called", "selected"}
           /\ d.step = "idle" => d.answer \in {None} \cup SUBSET Run
           /\ d.step \in {"saving", "inserting"} =>
                  d.run \in Run /\ d = [step |-> d.step, run |-> d.run]
           /\ d.step \in {"called", "selected"} => d.wanted \in Wanted /\ d.met \in Nat
           /\ d.step = "called" => d = [step |-> "called", wanted |-> d.wanted, met |-> d.met]
           /\ d.step = "selected" => d.view \in Rows
BY DEF Activity

(* The schema's invariant is kept by a store's use of the write lock.      *)
LEMMA SchemaKept ==
    ASSUME SInv, StoreInv, StoreNext
    PROVE  SInv'
<1>. PICK o \in Opener : StoreStep(o)
  BY DEF StoreNext
<1>1. CASE OpeningStep(o)
  BY <1>1, SInvNext DEF OpeningStep, Next
<1>2. ASSUME NEW r \in Run, BeginSave(o, r)
      PROVE  SInv'
  BY <1>2, SchemaAssumption
  DEF BeginSave, Free, SInv, SchemaTypeOK, OneWriter, Transaction, VersionTellsTables, InTransaction
<1>3. CASE CommitSave(o) \/ SaveFails(o)
  <2>1. writer = o /\ pc[o] = "ready" /\ writer' = None /\ UNCHANGED <<database, draft, pc, migration>>
    BY <1>3 DEF CommitSave, SaveFails, Saving, Inserting, StoreInv, AtWork
  <2>. QED
    BY <2>1, SchemaAssumption
    DEF SInv, SchemaTypeOK, OneWriter, Transaction, VersionTellsTables, InTransaction
<1>4. CASE Die(o)
  <2>1. /\ pc[o] = "ready" /\ Goto(o, "closed") /\ UNCHANGED <<database, draft, migration>>
        /\ writer' = None => writer \in {None, o}
        /\ writer' \in {writer, None}
    BY <1>4 DEF Die, StoreInv, AtWork
  <2>. QED
    BY <2>1, SchemaAssumption
    DEF Goto, SInv, SchemaTypeOK, OneWriter, Transaction, VersionTellsTables, InTransaction, Places
<1>5. CASE UNCHANGED vars
  BY <1>5, SInvNext
<1>. QED
  BY <1>1, <1>2, <1>3, <1>4, <1>5
  DEF StoreStep, InsertRun, InsertCase, Call, Select, Restore, ReadFails

(* What the others do leaves an opener's work alone as long as it keeps    *)
(* the lock it has and the history only grows.                             *)
HistoryGrows ==
    rows' = rows \/ \E r \in Run : rows'.runs = Append(rows.runs, r)

(* An earlier state of the rows stays an earlier state.                     *)
LEMMA PastStays ==
    ASSUME rows \in Rows, HistoryGrows, NEW table \in Rows, Past(table)
    PROVE  Past(table)'
<1>1. CASE rows' = rows
  BY <1>1 DEF Past, WholeRows, Has
<1>2. ASSUME NEW r \in Run, rows'.runs = Append(rows.runs, r)
      PROVE  Past(table)'
  BY <1>2, PrefixOfLonger DEF Past, WholeRows, Has, Rows
<1>. QED
  BY <1>1, <1>2 DEF HistoryGrows

(* The number of runs never falls.                                          *)
LEMMA HistoryLonger ==
    ASSUME rows \in Rows, HistoryGrows
    PROVE  Len(rows.runs) \in Nat /\ Len(rows.runs)' \in Nat /\ Len(rows.runs) <= Len(rows.runs)'
BY DEF HistoryGrows, Rows

(* What an opener relies on survives a step of another: a writer's rows     *)
(* because it has the lock, a reader's because its snapshot is of the       *)
(* past.                                                                    *)
LEMMA OthersWork ==
    ASSUME StoreInv, NEW p \in Opener, HistoryGrows, UNCHANGED <<doing[p], pc[p]>>,
           writer = p => UNCHANGED <<writer, rows, pending>>
    PROVE  AtWork(p)'
<1>. /\ doing[p] \in Activity /\ AtWork(p) /\ rows \in Rows
     /\ doing'[p] = doing[p] /\ pc'[p] = pc[p]
  BY DEF StoreInv
<1>1. CASE writer = p
  BY <1>1, HistoryLonger, PastStays DEF AtWork, Insertion, Past, WholeRows, Has
<1>2. CASE writer # p
  <2>1. doing[p].step \in {"called", "selected"} => doing[p].met <= Len(rows.runs)'
    BY HistoryLonger, Activities DEF AtWork
  <2>2. doing[p].step = "selected" => Past(doing[p].view)'
    BY PastStays, Activities DEF AtWork
  <2>. QED
    BY <1>2, <2>1, <2>2 DEF AtWork
<1>. QED
  BY <1>1, <1>2

(* What the updates of one field of a table of rows leave.                 *)
LEMMA RunsReplaced ==
    ASSUME NEW table \in Rows, NEW runs
    PROVE  [table EXCEPT !.runs = runs] = [runs |-> runs, cases |-> table.cases]
BY DEF Rows

(* Rewriting an update of the cases as the record it gives.                 *)
LEMMA CasesReplaced ==
    ASSUME NEW table \in Rows, NEW r, NEW n
    PROVE  [table EXCEPT !.cases[r] = n] =
               [runs |-> table.runs, cases |-> [table.cases EXCEPT ![r] = n]]
<1>1. [table EXCEPT !.cases[r] = n] = [table EXCEPT !.cases = [table.cases EXCEPT ![r] = n]]
  BY SMT
<1>2. ASSUME NEW cases
      PROVE  [table EXCEPT !.cases = cases] = [runs |-> table.runs, cases |-> cases]
  BY DEF Rows
<1>. QED
  BY <1>1, <1>2, Zenon

(* Rewriting an update of a save's place as the record it gives.            *)
LEMMA StepReplaced ==
    ASSUME NEW place, NEW r, NEW other
    PROVE  [[step |-> place, run |-> r] EXCEPT !.step = other] = [step |-> other, run |-> r]
OBVIOUS

(* Every statement of a save or a read, each constructor step and each      *)
(* death keeps the invariant.                                               *)
LEMMA StoreInvNext ==
    ASSUME SInv, StoreInv, StoreNext
    PROVE  StoreInv'
<1>. PICK o \in Opener : StoreStep(o)
  BY DEF StoreNext
<1>. /\ rows \in Rows /\ pending \in Rows /\ WholeRows(rows)
     /\ doing \in [Opener -> Activity] /\ doing[o] \in Activity
     /\ AtWork(o)
  BY DEF StoreInv
<1>. pc \in [Opener -> Places] /\ Cases \in Nat /\ None \notin Opener
  BY StoreAssumption, SchemaAssumption DEF SInv, SchemaTypeOK
<1>1. CASE OpeningStep(o)
  <2>1. /\ doing' = [doing EXCEPT ![o] = NoAnswer] /\ doing[o].step = "idle"
        /\ UNCHANGED <<rows, pending>>
        /\ \E place : pc' = [pc EXCEPT ![o] = place] \/ UNCHANGED pc
    BY <1>1
    DEF OpeningStep, Do, Connect, Advance, Begin, GiveUp, ReadVersion, Migrate, Stamp, Commit,
        Raises, Fail, Close, Goto
  <2>2. doing' \in [Opener -> Activity] /\ AtWork(o)'
    BY <2>1 DEF NoAnswer, Activity, AtWork
  <2>3. ASSUME NEW p \in Opener \ {o}
        PROVE  AtWork(p)'
    <3>1. writer = p => UNCHANGED writer
      BY <1>1
      DEF OpeningStep, Connect, Advance, Begin, GiveUp, ReadVersion, Migrate, Stamp, Commit,
          Raises, Fail, Close, Rollback, SInv, OneWriter, InTransaction
    <3>. QED
      BY <2>1, <3>1, OthersWork DEF HistoryGrows
  <2>. QED
    BY <2>1, <2>2, <2>3 DEF StoreInv, WholeRows, Has
<1>2. ASSUME NEW r \in Run, BeginSave(o, r)
      PROVE  StoreInv'
  <2>1. doing' = [doing EXCEPT ![o] = [step |-> "saving", run |-> r]]
    BY <1>2 DEF BeginSave, Do
  <2>2. doing' \in [Opener -> Activity]
    BY <2>1 DEF Activity
  <2>3. AtWork(o)'
    BY <1>2, <2>1 DEF BeginSave, Free, AtWork
  <2>4. ASSUME NEW p \in Opener \ {o}
        PROVE  AtWork(p)'
    <3>1. writer # p
      BY <1>2, SchemaAssumption DEF BeginSave
    <3>2. UNCHANGED <<rows, pc[p], doing[p]>>
      BY <1>2, <2>1 DEF BeginSave
    <3>. QED
      BY <3>1, <3>2, OthersWork DEF HistoryGrows
  <2>. QED
    BY <1>2, <2>2, <2>3, <2>4 DEF BeginSave, StoreInv, WholeRows, Has
<1>3. CASE InsertRun(o)
  <2>. PICK r \in Run : doing[o] = [step |-> "saving", run |-> r]
    BY <1>3, Activities DEF InsertRun, Saving
  <2>1. pending = rows /\ writer = o /\ pc[o] = "ready"
    BY <1>3 DEF AtWork
  <2>2. doing' = [doing EXCEPT ![o] = [step |-> "inserting", run |-> r]]
    <3>1. doing' = [doing EXCEPT ![o] = [doing[o] EXCEPT !.step = "inserting"]]
      BY <1>3, Zenon DEF InsertRun, Do
    <3>2. [doing[o] EXCEPT !.step = "inserting"] = [step |-> "inserting", run |-> r]
      BY StepReplaced
    <3>. QED
      BY <3>1, <3>2, Zenon
  <2>3. /\ pending' = [runs |-> Append(rows.runs, r), cases |-> rows.cases]
        /\ pending' \in Rows
    <3>1. pending' = [runs |-> Append(pending.runs, r), cases |-> pending.cases]
      <4>1. pending' = [pending EXCEPT !.runs = Append(pending.runs, doing[o].run)]
        BY <1>3, Zenon DEF InsertRun
      <4>2. doing[o].run = r
        OBVIOUS
      <4>. QED
        BY <4>1, <4>2, RunsReplaced, Zenon
    <3>. QED
      BY <2>1, <3>1 DEF Rows
  <2>4. doing' \in [Opener -> Activity]
    BY <2>1, <2>2 DEF Activity
  <2>5. Insertion(r)'
    BY <1>3, <2>1, <2>3 DEF InsertRun, vars, Insertion, Has, WholeRows, Rows
  <2>6. AtWork(o)'
    BY <1>3, <2>1, <2>2, <2>5 DEF InsertRun, vars, AtWork
  <2>7. ASSUME NEW p \in Opener \ {o}
        PROVE  AtWork(p)'
    BY <1>3, <2>1, <2>2, OthersWork DEF HistoryGrows, InsertRun, vars
  <2>. QED
    BY <1>3, <2>3, <2>4, <2>6, <2>7 DEF InsertRun, StoreInv, WholeRows, Has
<1>4. CASE InsertCase(o)
  <2>. PICK r \in Run : doing[o] = [step |-> "inserting", run |-> r]
    BY <1>4, Activities DEF InsertCase, Inserting
  <2>1. Insertion(r) /\ writer = o /\ pc[o] = "ready"
    BY <1>4 DEF AtWork
  <2>2. /\ pending' = [runs |-> pending.runs,
                       cases |-> [pending.cases EXCEPT ![r] = pending.cases[r] + 1]]
        /\ pending.cases[r] < Cases
        /\ UNCHANGED <<vars, rows, doing>>
    BY <1>4, CasesReplaced DEF InsertCase
  <2>3. pending' \in Rows /\ Insertion(r)'
    BY <2>1, <2>2 DEF Rows, Insertion, Has
  <2>4. AtWork(o)'
    BY <2>1, <2>2, <2>3 DEF vars, AtWork
  <2>5. ASSUME NEW p \in Opener \ {o}
        PROVE  AtWork(p)'
    BY <2>1, <2>2, OthersWork DEF HistoryGrows, vars
  <2>. QED
    BY <2>2, <2>3, <2>4, <2>5 DEF StoreInv, WholeRows, Has
<1>5. CASE CommitSave(o)
  <2>. PICK r \in Run : doing[o] = [step |-> "inserting", run |-> r]
    BY <1>5, Activities DEF CommitSave, Inserting
  <2>1. /\ Insertion(r) /\ writer = o /\ pc[o] = "ready" /\ pending.cases[r] = Cases
        /\ rows' = pending /\ UNCHANGED <<pc, pending>>
        /\ doing' = [doing EXCEPT ![o] = NoAnswer]
    BY <1>5 DEF CommitSave, AtWork, Do
  <2>2. WholeRows(rows)'
    BY <2>1, HasAppended DEF WholeRows, Insertion, Has, Rows
  <2>3. doing' \in [Opener -> Activity] /\ AtWork(o)'
    BY <2>1 DEF NoAnswer, Activity, AtWork
  <2>4. ASSUME NEW p \in Opener \ {o}
        PROVE  AtWork(p)'
    BY <2>1, OthersWork DEF HistoryGrows, Insertion
  <2>. QED
    BY <2>1, <2>2, <2>3, <2>4 DEF StoreInv
<1>6. CASE SaveFails(o)
  <2>1. /\ writer = o /\ pending' = rows /\ UNCHANGED <<rows, pc>>
        /\ doing' = [doing EXCEPT ![o] = NoAnswer]
    BY <1>6 DEF SaveFails, Saving, Inserting, AtWork, Do, Undo
  <2>2. doing' \in [Opener -> Activity] /\ AtWork(o)'
    BY <2>1 DEF NoAnswer, Activity, AtWork
  <2>3. ASSUME NEW p \in Opener \ {o}
        PROVE  AtWork(p)'
    BY <2>1, OthersWork DEF HistoryGrows
  <2>. QED
    BY <2>1, <2>2, <2>3 DEF StoreInv, WholeRows, Has
<1>7. ASSUME NEW wanted \in Wanted, Call(o, wanted)
      PROVE  StoreInv'
  <2>1. /\ doing' = [doing EXCEPT ![o] = [step |-> "called", wanted |-> wanted,
                                          met |-> Len(rows.runs)]]
        /\ pc[o] = "ready" /\ UNCHANGED <<vars, rows, pending>>
    BY <1>7 DEF Call, Free, Do
  <2>2. Len(rows.runs) \in Nat
    BY DEF Rows
  <2>3. doing' \in [Opener -> Activity] /\ AtWork(o)'
    BY <2>1, <2>2 DEF Activity, AtWork, vars
  <2>4. ASSUME NEW p \in Opener \ {o}
        PROVE  AtWork(p)'
    BY <2>1, OthersWork DEF HistoryGrows, vars
  <2>. QED
    BY <2>1, <2>3, <2>4 DEF StoreInv, WholeRows, Has
<1>8. CASE Select(o)
  <2>1. /\ doing' = [doing EXCEPT ![o] = [step |-> "selected", wanted |-> doing[o].wanted,
                                          met |-> doing[o].met, view |-> rows]]
        /\ doing[o].wanted \in Wanted /\ doing[o].met \in Nat /\ doing[o].met <= Len(rows.runs)
        /\ pc[o] = "ready" /\ UNCHANGED <<vars, rows, pending>>
    BY <1>8, Activities DEF Select, Do, AtWork
  <2>2. Past(rows)
    BY PrefixOfItself DEF Past, Rows
  <2>3. doing' \in [Opener -> Activity] /\ AtWork(o)'
    BY <2>1, <2>2 DEF Activity, AtWork, vars, Past, WholeRows, Has
  <2>4. ASSUME NEW p \in Opener \ {o}
        PROVE  AtWork(p)'
    BY <2>1, OthersWork DEF HistoryGrows, vars
  <2>. QED
    BY <2>1, <2>3, <2>4 DEF StoreInv, WholeRows, Has
<1>9. CASE Restore(o)
  <2>1. doing[o].step = "selected" /\ UNCHANGED <<vars, rows, pending>> /\ pc[o] = "ready"
    BY <1>9 DEF Restore, AtWork
  <2>2. doing[o].wanted \subseteq Run
    BY <2>1, Activities, StoreAssumption
  <2>3. ~Malformed(o)
    BY <2>1, <2>2 DEF Malformed, View, AtWork, Past, WholeRows
  <2>4. doing' = [doing EXCEPT ![o] = [step |-> "idle", answer |-> Matching(o)]]
    BY <1>9, <2>3 DEF Restore, Do
  <2>5. Matching(o) \subseteq Run
    BY <2>2 DEF Matching
  <2>6. doing' \in [Opener -> Activity] /\ AtWork(o)'
    BY <2>1, <2>4, <2>5 DEF Activity, AtWork, vars
  <2>7. ASSUME NEW p \in Opener \ {o}
        PROVE  AtWork(p)'
    BY <2>1, <2>4, OthersWork DEF HistoryGrows, vars
  <2>. QED
    BY <2>1, <2>6, <2>7 DEF StoreInv, WholeRows, Has
<1>10. CASE ReadFails(o)
  <2>1. /\ doing' = [doing EXCEPT ![o] = NoAnswer]
        /\ UNCHANGED <<vars, rows, pending>>
    BY <1>10 DEF ReadFails, Do
  <2>2. doing' \in [Opener -> Activity] /\ AtWork(o)'
    BY <2>1 DEF NoAnswer, Activity, AtWork
  <2>3. ASSUME NEW p \in Opener \ {o}
        PROVE  AtWork(p)'
    BY <2>1, OthersWork DEF HistoryGrows, vars
  <2>. QED
    BY <2>1, <2>2, <2>3 DEF StoreInv, WholeRows, Has
<1>11. CASE Die(o)
  <2>1. /\ doing' = [doing EXCEPT ![o] = NoAnswer] /\ pc' = [pc EXCEPT ![o] = "closed"]
        /\ UNCHANGED rows
        /\ pending' \in {pending, rows}
        /\ writer # o => UNCHANGED <<writer, pending>>
    BY <1>11 DEF Die, Do, Goto, Undo
  <2>2. doing' \in [Opener -> Activity] /\ AtWork(o)'
    BY <2>1 DEF NoAnswer, Activity, AtWork
  <2>3. ASSUME NEW p \in Opener \ {o}
        PROVE  AtWork(p)'
    BY <2>1, OthersWork DEF HistoryGrows
  <2>. QED
    BY <2>1, <2>2, <2>3 DEF StoreInv, WholeRows, Has
<1>. QED
  BY <1>1, <1>2, <1>3, <1>4, <1>5, <1>6, <1>7, <1>8, <1>9, <1>10, <1>11 DEF StoreStep

(* The backup script leaves the database alone.                             *)
LEMMA StoreStutter ==
    ASSUME SInv, StoreInv, UNCHANGED allVars
    PROVE  SInv' /\ StoreInv'
<1>1. SInv'
  BY SInvNext DEF allVars
<1>2. ASSUME NEW o \in Opener
      PROVE  AtWork(o)'
  BY OthersWork DEF allVars, vars, storeVars, HistoryGrows
<1>. QED
  BY <1>1, <1>2 DEF allVars, storeVars, StoreInv, WholeRows, Has

(* The invariants of schema and store hold beside the backup script.        *)
LEMMA StoreInvAlways == BackupSpec => [](SInv /\ StoreInv)
<1>1. BackupInit => SInv /\ StoreInv
  BY StoreInvInit DEF BackupInit
<1>2. SInv /\ StoreInv /\ [BackupNext]_<<allVars, backupVars>> => (SInv /\ StoreInv)'
  BY SchemaKept, StoreInvNext, StoreStutter DEF BackupNext
<1>. QED
  BY <1>1, <1>2, PTL DEF BackupSpec

(* The version row tells the tables beside processes that save runs, read  *)
(* them, die while they do and back the file up, too.                      *)
THEOREM SharedVersionSafety == BackupSpec => []VersionTellsTables
<1>1. SInv => VersionTellsTables
  BY DEF SInv
<1>. QED
  BY <1>1, StoreInvAlways, PTL

-----------------------------------------------------------------------------
(* The upgrade stays one step beside the other users of the file.          *)
LEMMA SharedContractStep ==
    ASSUME SInv, StoreInv, [BackupNext]_<<allVars, backupVars>>
    PROVE  [Contract!Next]_(Contract!vars)
<1>1. CASE UNCHANGED vars
  BY <1>1, ContractStep
<1>2. ASSUME NEW o \in Opener, OpeningStep(o)
      PROVE  [Contract!Next]_(Contract!vars)
  BY <1>2, ContractStep DEF OpeningStep, Next
<1>3. ASSUME NEW o \in Opener, Die(o)
      PROVE  [Contract!Next]_(Contract!vars)
  <2>1. {p \in Opener : pc'[p] = "ready"} = {p \in Opener : pc[p] = "ready"} \ {o}
    BY <1>3 DEF Die, Goto, SInv, SchemaTypeOK
  <2>2. UNCHANGED database
    BY <1>3 DEF Die
  <2>. QED
    BY <2>1, <2>2 DEF Contract!Close, Contract!Next
<1>4. ASSUME UNCHANGED <<database, pc>>
      PROVE  [Contract!Next]_(Contract!vars)
  BY <1>4 DEF Contract!vars
<1>. QED
  BY <1>1, <1>2, <1>3, <1>4
  DEF BackupNext, StoreNext, StoreStep, BeginSave, InsertRun, InsertCase, CommitSave, SaveFails,
      Call, Select, Restore, ReadFails, allVars, vars

(* Saves, reads and backups of the file do not show in what an upgrade is  *)
(* for everybody else.                                                     *)
THEOREM SharedMigrationIsAtomic == BackupSpec => ImplementsSchemaContract
<1>1. BackupInit => Contract!Init
  BY DEF BackupInit, StoreInit, Init, Contract!Init
<1>2. SInv /\ StoreInv /\ [BackupNext]_<<allVars, backupVars>> => [Contract!Next]_(Contract!vars)
  BY SharedContractStep
<1>. QED
  BY <1>1, <1>2, StoreInvAlways, PTL DEF BackupSpec, ImplementsSchemaContract, Contract!Spec

-----------------------------------------------------------------------------
(* The refinement mapping's view of an activity: the read in progress and  *)
(* the answer that was returned.                                           *)
Reading(d) ==
    IF d.step \in {"called", "selected"} THEN [wanted |-> d.wanted, met |-> d.met] ELSE None
Answered(d) ==
    IF d.step = "idle" THEN d.answer ELSE None

Readings == [o \in Opener |-> Reading(doing[o])]
Answers == [o \in Opener |-> Answered(doing[o])]

Shows(o, reading, answered) ==
    /\ Readings' = [Readings EXCEPT ![o] = reading]
    /\ Answers' = [Answers EXCEPT ![o] = answered]

(* What the history's mapping shows of an opener that does d.               *)
LEMMA Mapped ==
    ASSUME doing \in [Opener -> Activity], NEW o \in Opener, NEW d, Do(o, d)
    PROVE  Shows(o, Reading(d), Answered(d))
<1>1. Readings' = [p \in Opener |-> Reading(doing'[p])]
  BY DEF Readings, Reading
<1>2. Answers' = [p \in Opener |-> Answered(doing'[p])]
  BY DEF Answers, Answered
<1>3. \A p \in Opener : doing'[p] = IF p = o THEN d ELSE doing[p]
  BY DEF Do
<1>. QED
  BY <1>1, <1>2, <1>3 DEF Readings, Answers, Shows

(* When a step of an opener leaves its own view alone, nothing shows.      *)
LEMMA Hidden ==
    ASSUME NEW o \in Opener, Shows(o, Reading(doing[o]), Answered(doing[o]))
    PROVE  UNCHANGED <<Readings, Answers>>
BY DEF Readings, Answers, Shows

(* The views of each activity.                                             *)
LEMMA Views ==
    /\ Reading(NoAnswer) = None /\ Answered(NoAnswer) = None
    /\ \A a : Reading([step |-> "idle", answer |-> a]) = None
    /\ \A a : Answered([step |-> "idle", answer |-> a]) = a
    /\ \A r : Reading([step |-> "saving", run |-> r]) = None
    /\ \A r : Answered([step |-> "saving", run |-> r]) = None
    /\ \A r : Reading([step |-> "inserting", run |-> r]) = None
    /\ \A r : Answered([step |-> "inserting", run |-> r]) = None
    /\ \A w, m : Reading([step |-> "called", wanted |-> w, met |-> m]) = [wanted |-> w, met |-> m]
    /\ \A w, m : Answered([step |-> "called", wanted |-> w, met |-> m]) = None
BY DEF NoAnswer, Reading, Answered

(* The commit of a save appends to the history, a call and an answer are    *)
(* the reads' begin and end; the rest stutters.                             *)
LEMMA HistoryStep ==
    ASSUME SInv, StoreInv, StoreNext
    PROVE  [History!Next]_(History!vars)
<1>. PICK o \in Opener : StoreStep(o)
  BY DEF StoreNext
<1>. /\ doing \in [Opener -> Activity] /\ doing[o] \in Activity /\ AtWork(o)
     /\ rows \in Rows /\ pending \in Rows
  BY DEF StoreInv
<1>1. ASSUME UNCHANGED rows, UNCHANGED <<Readings, Answers>>
      PROVE  UNCHANGED History!vars
  BY <1>1 DEF History!vars, Readings, Answers, Reading, Answered, Progress
<1>2. ASSUME UNCHANGED rows, Shows(o, None, None)
      PROVE  History!GiveUp(o)
  BY <1>2 DEF Shows, History!GiveUp, Readings, Answers, Reading, Answered, Progress
<1>3. ASSUME UNCHANGED rows, Do(o, NoAnswer)
      PROVE  History!GiveUp(o)
  <2>1. Shows(o, None, None)
    BY <1>3, Mapped, Views
  <2>. QED
    BY <1>2, <1>3, <2>1
<1>4. ASSUME NEW r \in Run, BeginSave(o, r)
      PROVE  History!GiveUp(o)
  <2>1. Do(o, [step |-> "saving", run |-> r]) /\ UNCHANGED rows
    BY <1>4 DEF BeginSave
  <2>2. Shows(o, None, None)
    BY <2>1, Mapped, Views
  <2>. QED
    BY <1>2, <2>1, <2>2
<1>5. CASE InsertRun(o)
  <2>. PICK r \in Run : doing[o] = [step |-> "saving", run |-> r]
    BY <1>5, Activities DEF InsertRun, Saving
  <2>1. Do(o, [step |-> "inserting", run |-> r]) /\ UNCHANGED rows
    <3>1. Do(o, [doing[o] EXCEPT !.step = "inserting"]) /\ UNCHANGED rows
      BY <1>5, Zenon DEF InsertRun
    <3>2. [doing[o] EXCEPT !.step = "inserting"] = [step |-> "inserting", run |-> r]
      BY StepReplaced
    <3>. QED
      BY <3>1, <3>2, Zenon
  <2>2. Shows(o, Reading(doing[o]), Answered(doing[o]))
    BY <2>1, Mapped, Views
  <2>. QED
    BY <1>1, <2>1, <2>2, Hidden
<1>6. CASE InsertCase(o)
  <2>1. UNCHANGED <<rows, doing>>
    BY <1>6 DEF InsertCase
  <2>. QED
    BY <1>1, <2>1 DEF Readings, Answers
<1>7. CASE CommitSave(o)
  <2>. PICK r \in Run : doing[o] = [step |-> "inserting", run |-> r]
    BY <1>7, Activities DEF CommitSave, Inserting
  <2>1. ~Has(rows, r) /\ rows'.runs = Append(rows.runs, r) /\ Do(o, NoAnswer)
    BY <1>7 DEF CommitSave, AtWork, Insertion
  <2>2. UNCHANGED <<Readings, Answers>>
    <3>1. Shows(o, Reading(doing[o]), Answered(doing[o]))
      BY <2>1, Mapped, Views
    <3>. QED
      BY <3>1, Hidden
  <2>3. r \notin History!First(Len(rows.runs))
    BY <2>1 DEF History!First, Has, ToSet, Rows
  <2>4. History!Grow(r)
    BY <2>1, <2>2, <2>3 DEF History!Grow, Readings, Answers, Reading, Answered, Progress
  <2>. QED
    BY <2>4 DEF History!Next
<1>8. CASE SaveFails(o)
  BY <1>3, <1>8 DEF SaveFails, Undo, History!Next
<1>9. ASSUME NEW wanted \in Wanted, Call(o, wanted)
      PROVE  History!Call(o, wanted)
  <2>1. /\ Do(o, [step |-> "called", wanted |-> wanted, met |-> Len(rows.runs)])
        /\ UNCHANGED rows
    BY <1>9 DEF Call
  <2>2. Shows(o, [wanted |-> wanted, met |-> Len(rows.runs)], None)
    BY <2>1, Mapped, Views
  <2>. QED
    BY <2>1, <2>2 DEF Shows, History!Call, Readings, Answers, Reading, Answered, Progress
<1>10. CASE Select(o)
  <2>. DEFINE d == [step |-> "selected", wanted |-> doing[o].wanted, met |-> doing[o].met,
                    view |-> rows]
  <2>1. Do(o, d) /\ doing[o].step = "called" /\ UNCHANGED rows
    BY <1>10 DEF Select
  <2>2. Reading(d) = Reading(doing[o]) /\ Answered(d) = Answered(doing[o])
    BY <2>1 DEF Reading, Answered
  <2>3. Shows(o, Reading(d), Answered(d))
    <3>. HIDE DEF d
    <3>. QED
      BY <2>1, Mapped
  <2>. QED
    BY <1>1, <2>1, <2>2, <2>3, Hidden
<1>11. CASE Restore(o)
  <2>. DEFINE n == Len(doing[o].view.runs)
  <2>1. doing[o].step = "selected" /\ UNCHANGED rows
    BY <1>11 DEF Restore
  <2>2. /\ doing[o].wanted \in Wanted /\ doing[o].met \in Nat /\ doing[o].view \in Rows
        /\ Past(doing[o].view) /\ doing[o].met <= n
    BY <2>1, Activities DEF AtWork
  <2>3. ~Malformed(o)
    BY <2>2, StoreAssumption DEF Malformed, View, Past, WholeRows
  <2>4. Do(o, [step |-> "idle", answer |-> Matching(o)])
    BY <1>11, <2>3 DEF Restore
  <2>5. /\ doing[o].view.runs \in Seq(Run)
        /\ n \in Nat /\ n \in doing[o].met .. Len(rows.runs)
        /\ \A i \in 1 .. n : doing[o].view.runs[i] = rows.runs[i]
    BY <2>2, PrefixElements DEF Past, Rows
  <2>6. Matching(o) = History!First(n) \cap doing[o].wanted
    <3>1. ToSet(doing[o].view.runs) = {doing[o].view.runs[i] : i \in 1 .. n}
      BY <2>5 DEF ToSet
    <3>2. ToSet(doing[o].view.runs) = History!First(n)
      BY <2>5, <3>1 DEF History!First
    <3>. QED
      BY <3>2 DEF Matching, Has
  <2>7. Shows(o, None, Matching(o))
    BY <2>4, Mapped, Views
  <2>8. Readings[o] = [wanted |-> doing[o].wanted, met |-> doing[o].met] /\ Readings[o] # None
    BY <2>1, <2>2, StoreAssumption DEF Readings, Reading
  <2>9. History!Return(o)
    BY <2>1, <2>5, <2>6, <2>7, <2>8
    DEF Shows, History!Return, Readings, Answers, Reading, Answered, Progress
  <2>. QED
    BY <2>9 DEF History!Next
<1>12. CASE ReadFails(o)
  BY <1>3, <1>12 DEF ReadFails, History!Next
<1>13. CASE Die(o)
  BY <1>3, <1>13 DEF Die, Undo, History!Next
<1>14. CASE OpeningStep(o)
  BY <1>3, <1>14 DEF OpeningStep, History!Next
<1>. QED
  BY <1>4, <1>5, <1>6, <1>7, <1>8, <1>9, <1>10, <1>11, <1>12, <1>13, <1>14
  DEF StoreStep, History!Next

(* The store of many processes on one file behaves as an immutable history *)
(* that grows by whole runs, each once, and every read returns the runs it *)
(* was asked for as of one moment between its call and its return.         *)
THEOREM StoreIsHistory == BackupSpec => ImplementsRunHistory
<1>1. BackupInit => History!Init
  BY DEF BackupInit, StoreInit, NoAnswer, Empty, History!Init, Progress
<1>2. SInv /\ StoreInv /\ [BackupNext]_<<allVars, backupVars>> => [History!Next]_(History!vars)
  <2>1. UNCHANGED allVars => UNCHANGED History!vars
    BY DEF allVars, storeVars, History!vars, Progress
  <2>. QED
    BY <2>1, HistoryStep DEF BackupNext
<1>. QED
  BY <1>1, <1>2, StoreInvAlways, PTL DEF BackupSpec, ImplementsRunHistory, History!Spec

-----------------------------------------------------------------------------
(* Whatever the stores do, the history of runs only grows.                 *)
LEMMA StoreGrows ==
    ASSUME StoreInv, StoreNext
    PROVE  HistoryGrows
<1>. PICK o \in Opener : StoreStep(o)
  BY DEF StoreNext
<1>1. CASE CommitSave(o)
  <2>1. doing[o] \in Activity /\ AtWork(o)
    BY DEF StoreInv
  <2>2. doing[o].run \in Run /\ rows'.runs = Append(rows.runs, doing[o].run)
    BY <1>1, <2>1, Activities DEF CommitSave, Inserting, AtWork, Insertion
  <2>. QED
    BY <2>2 DEF HistoryGrows
<1>2. CASE UNCHANGED rows
  BY <1>2 DEF HistoryGrows
<1>. QED
  BY <1>1, <1>2
  DEF StoreStep, OpeningStep, BeginSave, InsertRun, InsertCase, SaveFails, Call, Select,
      Restore, ReadFails, Die, Undo

(* The script has not begun; a file may be there from an earlier day.       *)
LEMMA BackupInvInit ==
    ASSUME BackupInit
    PROVE  BackupInv
<1>1. Foreign \in Destination
  BY DEF Foreign, Destination
<1>2. \A b \in Backup : Owner(b)
  BY DEF BackupInit, Owner
<1>. QED
  BY <1>1, <1>2 DEF BackupInit, BackupInv, Steps

(* What a step of the stores, or nothing, leaves of a backup.              *)
LEMMA BackupUndisturbed ==
    ASSUME BackupInv, rows \in Rows, HistoryGrows, UNCHANGED backupVars
    PROVE  BackupInv'
<1>1. ASSUME NEW b \in Backup
      PROVE  Owner(b)'
  <2>1. Owner(b) /\ met[b] \in Nat /\ UNCHANGED <<file, sidecar, step, met>>
    BY DEF BackupInv, backupVars
  <2>2. met[b] <= Len(rows.runs) => met[b] <= Len(rows.runs)'
    BY <2>1, HistoryLonger
  <2>3. file.holds.rows \in Rows /\ Past(file.holds.rows) => Past(file.holds.rows)'
    BY <2>1, PastStays
  <2>4. step[b] \in {"copied", "verified"} => file.holds.rows \in Rows
    BY <2>1 DEF Owner
  <2>. QED
    BY <2>1, <2>2, <2>3, <2>4 DEF Owner
<1>. QED
  BY <1>1 DEF BackupInv, backupVars

(* A step of one invocation leaves what the others rely on.                *)
LEMMA OthersOwn ==
    ASSUME BackupInv, NEW c \in Backup, UNCHANGED <<rows, step[c], met[c]>>,
           step[c] \in {"created", "copied", "verified"} => UNCHANGED <<file, sidecar>>,
           step[c] = "checked" /\ file' = None => ~sidecar'
    PROVE  Owner(c)'
<1>. Owner(c) /\ step'[c] = step[c] /\ met'[c] = met[c] /\ step[c] \in Steps
  BY DEF BackupInv
<1>1. CASE step[c] \in {"created", "copied", "verified"}
  BY <1>1 DEF Owner, Past, WholeRows, Has
<1>2. CASE step[c] \notin {"created", "copied", "verified"}
  BY <1>2 DEF Owner
<1>. QED
  BY <1>1, <1>2

(* Each step of one invocation keeps what every invocation relies on: a     *)
(* second one cannot create a file that is there.                           *)
LEMMA BackupInvNext ==
    ASSUME SInv, StoreInv, BackupInv, NEW b \in Backup, BackupStep(b), UNCHANGED allVars
    PROVE  BackupInv'
<1>. /\ file \in {None} \cup Destination /\ sidecar \in BOOLEAN
     /\ step \in [Backup -> Steps] /\ met \in [Backup -> Nat]
     /\ Owner(b) /\ \A c \in Backup : Owner(c)
  BY DEF BackupInv
<1>. rows \in Rows /\ WholeRows(rows) /\ database \in Database
     /\ TablesOf(database.version) \subseteq database.tables
     /\ UNCHANGED <<rows, database>>
  BY DEF StoreInv, SInv, SchemaTypeOK, VersionTellsTables, allVars, vars, storeVars
<1>. Len(rows.runs) \in Nat /\ None \notin Backup /\ None \notin Destination
  BY BackupAssumption DEF Rows
<1>1. CASE Check(b)
  <2>1. ASSUME Occupied
        PROVE  BackupInv'
    <3>1. End(b) /\ UNCHANGED <<file, sidecar>>
      BY <1>1, <2>1 DEF Check
    <3>2. Owner(b)'
      BY <3>1 DEF End, To, Owner
    <3>3. ASSUME NEW c \in Backup \ {b}
          PROVE  Owner(c)'
      BY <3>1, OthersOwn DEF End, To, Owner
    <3>. QED
      BY <3>1, <3>2, <3>3 DEF End, To, Steps, BackupInv
  <2>2. ASSUME ~Occupied
        PROVE  BackupInv'
    <3>1. /\ To(b, "checked") /\ met' = [met EXCEPT ![b] = Len(rows.runs)]
          /\ UNCHANGED <<file, sidecar>> /\ ~sidecar
      BY <1>1, <2>2 DEF Check, Occupied
    <3>2. Owner(b)'
      BY <3>1 DEF To, Owner
    <3>3. ASSUME NEW c \in Backup \ {b}
          PROVE  Owner(c)'
      BY <3>1, OthersOwn DEF To, Owner
    <3>. QED
      BY <3>1, <3>2, <3>3 DEF To, Steps, BackupInv
  <2>. QED
    BY <2>1, <2>2
<1>2. CASE Create(b) /\ file = None
  <2>1. /\ step[b] = "checked" /\ file' = [by |-> b, holds |-> None] /\ To(b, "created")
        /\ UNCHANGED <<met, sidecar>> /\ ~sidecar
    BY <1>2 DEF Create, Owner
  <2>2. file' \in Destination /\ file' # None
    BY <2>1 DEF Destination
  <2>3. Owner(b)'
    BY <2>1, <2>2 DEF To, Owner
  <2>4. ASSUME NEW c \in Backup \ {b}
        PROVE  Owner(c)'
    <3>1. step[c] \notin {"created", "copied", "verified"}
      BY <1>2 DEF Owner
    <3>. QED
      BY <2>1, <2>2, <3>1, OthersOwn DEF To
  <2>. QED
    BY <2>1, <2>2, <2>3, <2>4 DEF To, Steps, BackupInv
<1>3. CASE (Create(b) /\ file # None) \/ Kill(b)
  <2>1. End(b) /\ UNCHANGED <<file, sidecar>>
    BY <1>3 DEF Create, Kill
  <2>2. Owner(b)'
    BY <2>1 DEF End, To, Owner
  <2>3. ASSUME NEW c \in Backup \ {b}
        PROVE  Owner(c)'
    BY <2>1, OthersOwn DEF End, To, Owner
  <2>. QED
    BY <2>1, <2>2, <2>3 DEF End, To, Steps, BackupInv
<1>4. CASE Copy(b)
  <2>1. /\ step[b] = "created" /\ file # None /\ file.by = b /\ ~sidecar
        /\ met[b] <= Len(rows.runs)
    BY <1>4 DEF Copy, Owner
  <2>2. /\ file' = [file EXCEPT !.holds = Snapshot] /\ sidecar' = TRUE
        /\ To(b, "copied") /\ UNCHANGED met
    BY <1>4, <2>1 DEF Copy
  <2>3. file' = [by |-> b, holds |-> Snapshot]
    BY <2>1, <2>2 DEF Destination
  <2>4. Snapshot \in [database : Database, rows : Rows]
    BY DEF Snapshot
  <2>5. file' \in Destination /\ file' # None
    BY <2>3, <2>4 DEF Destination
  <2>6. Past(rows)'
    BY PrefixOfItself DEF Past, Rows, WholeRows, Has
  <2>7. Owner(b)'
    BY <2>1, <2>2, <2>3, <2>4, <2>5, <2>6 DEF To, Owner, Snapshot, Past, WholeRows, Has
  <2>8. ASSUME NEW c \in Backup \ {b}
        PROVE  Owner(c)'
    <3>1. step[c] \notin {"created", "copied", "verified"}
      BY <2>1 DEF Owner
    <3>. QED
      BY <2>2, <2>5, <3>1, OthersOwn DEF To
  <2>. QED
    BY <2>2, <2>5, <2>7, <2>8 DEF To, Steps, BackupInv
<1>5. CASE Verify(b)
  <2>1. /\ step[b] = "copied" /\ sidecar' = FALSE /\ To(b, "verified") /\ UNCHANGED <<file, met>>
    BY <1>5 DEF Verify
  <2>2. file # None /\ file.by = b
    BY <2>1 DEF Owner
  <2>3. Owner(b)'
    BY <2>1, <2>2 DEF To, Owner, Past, WholeRows, Has
  <2>4. ASSUME NEW c \in Backup \ {b}
        PROVE  Owner(c)'
    <3>1. step[c] \notin {"created", "copied", "verified"}
      BY <2>2 DEF Owner
    <3>. QED
      BY <2>1, <3>1, OthersOwn DEF To
  <2>. QED
    BY <2>1, <2>3, <2>4 DEF To, Steps, BackupInv
<1>6. CASE RemoveDestination(b)
  <2>1. /\ step[b] \in {"created", "copied"} /\ file' = None /\ End(b)
        /\ sidecar' = FALSE
        /\ file # None /\ file.by = b
    BY <1>6 DEF RemoveDestination, Handled, Owner
  <2>2. Owner(b)'
    BY <2>1 DEF End, To, Owner
  <2>3. ASSUME NEW c \in Backup \ {b}
        PROVE  Owner(c)'
    <3>1. step[c] \notin {"created", "copied", "verified"}
      BY <2>1 DEF Owner
    <3>. QED
      BY <2>1, <3>1, OthersOwn DEF End, To
  <2>. QED
    BY <2>1, <2>2, <2>3 DEF End, To, Steps, BackupInv
<1>. QED
  BY <1>1, <1>2, <1>3, <1>4, <1>5, <1>6 DEF BackupStep

(* Schema, store and backup keep their invariants together.                 *)
LEMMA DatabaseInvAlways == BackupSpec => []DatabaseInv
<1>1. BackupInit => DatabaseInv
  BY StoreInvInit, BackupInvInit DEF BackupInit, DatabaseInv
<1>2. DatabaseInv /\ [BackupNext]_<<allVars, backupVars>> => DatabaseInv'
  <2>1. DatabaseInv /\ StoreNext /\ UNCHANGED backupVars => DatabaseInv'
    BY SchemaKept, StoreInvNext, StoreGrows, BackupUndisturbed DEF DatabaseInv, StoreInv
  <2>2. ASSUME DatabaseInv, NEW b \in Backup, BackupStep(b), UNCHANGED allVars
        PROVE  DatabaseInv'
    BY <2>2, StoreStutter, BackupInvNext DEF DatabaseInv
  <2>3. ASSUME DatabaseInv, UNCHANGED <<allVars, backupVars>>
        PROVE  DatabaseInv'
    <3>1. HistoryGrows /\ rows \in Rows
      BY <2>3 DEF HistoryGrows, allVars, storeVars, DatabaseInv, StoreInv
    <3>. QED
      BY <2>3, <3>1, StoreStutter, BackupUndisturbed DEF DatabaseInv
  <2>. QED
    BY <2>1, <2>2, <2>3 DEF BackupNext
<1>. QED
  BY <1>1, <1>2, PTL DEF BackupSpec

(* A backup reported as verified is a database that was committed while    *)
(* the script ran, whatever the stores and the other invocations do.       *)
THEOREM BackupSafety == BackupSpec => []BackupIsCommitted
<1>1. DatabaseInv => BackupIsCommitted
  <2>. SUFFICES ASSUME DatabaseInv, NEW b \in Backup, step[b] = "verified"
                PROVE  /\ file.by = b
                       /\ Whole(file.holds)
                       /\ IsPrefix(file.holds.rows.runs, rows.runs)
                       /\ met[b] <= Len(file.holds.rows.runs)
    BY DEF BackupIsCommitted
  <2>1. Owner(b)
    BY DEF DatabaseInv, BackupInv
  <2>2. file.holds # Mixed
    BY <2>1, BackupAssumption DEF Owner, Mixed
  <2>. QED
    BY <2>1, <2>2 DEF Owner, Past, WholeRows, Whole
<1>. QED
  BY <1>1, DatabaseInvAlways, PTL

(* Nobody ever changes or removes a destination but the invocation that    *)
(* created it, and that one only until it has reported.                    *)
THEOREM DestinationSafety == BackupSpec => DestinationKept
<1>1. ASSUME DatabaseInv, [BackupNext]_<<allVars, backupVars>>
      PROVE  [file # None /\ file' # file =>
                 \E b \in Backup : file.by = b /\ step[b] \in {"created", "copied"}]_file
  <2>1. ASSUME NEW b \in Backup, BackupStep(b), file # None, file' # file
        PROVE  file.by = b /\ step[b] \in {"created", "copied"}
    <3>1. step[b] \in {"created", "copied"}
      BY <2>1
      DEF BackupStep, Check, Create, Copy, Verify, RemoveDestination, Handled, Kill
    <3>. QED
      BY <1>1, <3>1 DEF DatabaseInv, BackupInv, Owner
  <2>2. UNCHANGED backupVars => UNCHANGED file
    BY DEF backupVars
  <2>. QED
    BY <1>1, <2>1, <2>2 DEF BackupNext
<1>. QED
  BY <1>1, DatabaseInvAlways, PTL DEF BackupSpec, DestinationKept
=============================================================================
