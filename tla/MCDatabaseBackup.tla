--------------------------- MODULE MCDatabaseBackup ---------------------------
EXTENDS DatabaseBackup

(* Every released version, no database at all, one of a later program, an  *)
(* unstamped file with an old table and one with leftovers of version 4.   *)
FoundDatabases ==
    {[version |-> v, tables |-> TablesOf(v)] : v \in 0 .. SchemaVersion + 1} \cup
    {[version |-> 0, tables |-> {"attempts"}],
     [version |-> 3, tables |-> TablesOf(3) \cup {"benchmark_runs"}]}

(* One run by its ID, and the list.                                        *)
Asked == {{CHOOSE r \in Run : TRUE}, Run}
===============================================================================
