------------------------------ MODULE RunHistory ------------------------------
(***************************************************************************)
(* What the benchmark store promises (benchmarks/store.py): an immutable   *)
(* history that grows by whole runs, each once, and reads that return what *)
(* they were asked for as of one moment between their call and their       *)
(* return.  No row, transaction, lock or failure is mentioned.             *)
(***************************************************************************)
EXTENDS Integers, Sequences

CONSTANTS
    Run, Reader, Wanted,    \* Wanted: the sets of runs a read may ask for
    None

VARIABLES
    history,    \* the runs, in the order they were saved
    asked,      \* per reader, the read in progress and the history it met
    answer      \* the runs its latest read returned

vars == <<history, asked, answer>>

Init ==
    /\ history = <<>>
    /\ asked = [o \in Reader |-> None]
    /\ answer = [o \in Reader |-> None]

First(n) == {history[i] : i \in 1 .. n}

Grow(r) ==
    /\ r \notin First(Len(history))
    /\ history' = Append(history, r)
    /\ UNCHANGED <<asked, answer>>

Call(o, wanted) ==
    /\ asked' = [asked EXCEPT ![o] = [wanted |-> wanted, met |-> Len(history)]]
    /\ answer' = [answer EXCEPT ![o] = None]
    /\ UNCHANGED history

Return(o) ==
    /\ asked[o] # None
    /\ \E n \in asked[o].met .. Len(history) :
           answer' = [answer EXCEPT ![o] = First(n) \cap asked[o].wanted]
    /\ asked' = [asked EXCEPT ![o] = None]
    /\ UNCHANGED history

(* A read may fail or be lost, and an answer may be put away.              *)
GiveUp(o) ==
    /\ asked' = [asked EXCEPT ![o] = None]
    /\ answer' = [answer EXCEPT ![o] = None]
    /\ UNCHANGED history

Next ==
    \/ \E r \in Run : Grow(r)
    \/ \E o \in Reader : Return(o) \/ GiveUp(o)
    \/ \E o \in Reader, wanted \in Wanted : Call(o, wanted)

Spec == Init /\ [][Next]_vars
===============================================================================
