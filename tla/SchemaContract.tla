---------------------------- MODULE SchemaContract ----------------------------
(***************************************************************************)
(* What a store may rely on once its constructor returns: the database is  *)
(* at the current version, and it went there from the version it was found *)
(* at in one step that keeps what it held (docs/v0.4/ARCHITECTURE.md,      *)
(* "Migration failure rolls back schema changes and version advancement    *)
(* together").  Nothing is said of locks, statements, crashes or failures. *)
(***************************************************************************)
EXTENDS Integers

CONSTANTS Opener, Found, Current, Everything

VARIABLES database, opened

vars == <<database, opened>>

Init ==
    /\ database \in Found
    /\ opened = {}

Upgraded == [version |-> Current, tables |-> database.tables \cup Everything]

Open(o) ==
    /\ database.version \in 0 .. Current
    /\ database' = IF database.version < Current THEN Upgraded ELSE database
    /\ opened' = opened \cup {o}

Close(o) ==
    /\ opened' = opened \ {o}
    /\ UNCHANGED database

Next == \E o \in Opener : Open(o) \/ Close(o)

Spec == Init /\ [][Next]_vars
=============================================================================
