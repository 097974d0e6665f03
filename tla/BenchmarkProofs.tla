---------------------------- MODULE BenchmarkProofs ----------------------------
(***************************************************************************)
(* What module BenchmarkRuns promises of the runner, of the command's exit *)
(* codes and of the evidence aggregated from the history, for every suite, *)
(* every set of invocations and every history they may find.               *)
(*                                                                         *)
(* BInv says what an invocation's phase tells of its run.  The lemmas on   *)
(* sorting, replaying and summing are about any sequence of runs; each     *)
(* induction in them is on a least counterexample.  HInv adds to BInv that *)
(* a run's id is in the history once, so that they apply to the history.   *)
(***************************************************************************)
EXTENDS BenchmarkRuns, FiniteSetTheorems, WellFoundedInduction, TLAPS

(* A run as far as it got: no more results than cases, and a refused key   *)
(* only as the last of them.                                               *)
Prefix(results) ==
    /\ results \in Seq(Result)
    /\ Len(results) <= Len(Category)
    /\ \A i \in 1 .. Len(results) : results[i] = "auth_failed" => i = Len(results)

(* The part of the types the argument needs.                               *)
Shape ==
    /\ clock \in 0 .. MaxTime
    /\ phase \in [Invocation -> Phase]
    /\ run \in [Invocation -> SavedRun]
    /\ history \in Seq(SavedRun)

(* What an invocation's phase says of its run.                             *)
PhaseTells(p) ==
    /\ Prefix(run[p].results)
    /\ phase[p] = "refused" => run[p].finished < run[p].started
    /\ phase[p] \in {"saved", "exit_0", "exit_3"} =>
           \E i \in 1 .. Len(history) : history[i] = run[p]
    /\ phase[p] \in {"unsaved", "saved", "exit_0", "exit_3"} => ~MoreCases(run[p].results)
    /\ phase[p] = "exit_3" => AuthenticationFailed(run[p])
    /\ phase[p] = "exit_0" => ~AuthenticationFailed(run[p])

BInv ==
    /\ Shape
    /\ \A p \in Invocation : PhaseTells(p)

-----------------------------------------------------------------------------
(* A run that has not begun has no results, a prefix of any suite's.        *)
LEMMA BlankPrefix ==
    ASSUME NEW p \in Invocation
    PROVE  /\ Blank(p) \in SavedRun
           /\ Prefix(Blank(p).results)
<1>1. (CHOOSE c \in Config : TRUE) \in Config
  BY RunsAssumption
<1>. QED
  BY <1>1, RunsAssumption, SuiteAssumption DEF Blank, SavedRun, Prefix

(* One more result keeps a run a prefix, because the loop stops at a       *)
(* refused key.                                                            *)
LEMMA OneMoreResult ==
    ASSUME NEW results, Prefix(results), MoreCases(results), NEW result \in Result
    PROVE  Prefix(Append(results, result))
<1>1. results \in Seq(Result) /\ Len(results) < Len(Category)
  BY DEF Prefix, MoreCases
<1>2. ASSUME NEW i \in 1 .. Len(results)
      PROVE  results[i] # "auth_failed"
  <2>1. CASE i = Len(results)
    BY <1>1, <2>1 DEF MoreCases, Terminal, Last
  <2>2. CASE i # Len(results)
    BY <2>2 DEF Prefix
  <2>. QED
    BY <2>1, <2>2
<1>3. /\ Append(results, result) \in Seq(Result)
      /\ Len(Append(results, result)) = Len(results) + 1
      /\ \A i \in 1 .. Len(results) : Append(results, result)[i] = results[i]
  BY <1>1
<1>4. Len(results) \in Nat /\ Len(Category) \in Nat
  BY <1>1, SuiteAssumption
<1>. QED
  BY <1>1, <1>2, <1>3, <1>4 DEF Prefix

(* The runner's own bookkeeping satisfies the run's validator: only the    *)
(* order of its two readings of the clock is left.                         *)
LEMMA OnlyTheClock ==
    ASSUME NEW r \in SavedRun, Prefix(r.results), ~MoreCases(r.results),
           r.started <= r.finished
    PROVE  Consistent(r)
<1>1. /\ r.results \in Seq(Result)
      /\ Len(r.results) \in Nat
      /\ Len(Category) \in Nat \ {0}
      /\ DOMAIN r.results = 1 .. Len(r.results)
  BY SuiteAssumption DEF SavedRun
<1>2. Len(r.results) < Len(Category) => Terminal(r.results)
  BY <1>1 DEF MoreCases
<1>3. Len(r.results) # 0
  <2>1. Len(r.results) = 0 => r.results = <<>>
    BY <1>1
  <2>. QED
    BY <1>1, <1>2, <2>1 DEF Terminal
<1>. QED
  BY <1>1, <1>2, <1>3 DEF Consistent, Prefix

(* Nothing is invoked at first and the store may hold an older run.         *)
LEMMA BInvInit ==
    ASSUME Init
    PROVE  BInv
<1>1. Shape
  BY BlankPrefix, RunsAssumption DEF Init, Shape, Phase
<1>2. \A p \in Invocation : PhaseTells(p)
  BY BlankPrefix DEF Init, PhaseTells
<1>. QED
  BY <1>1, <1>2 DEF BInv

(* A step that changes only p's phase and run, and the run or the phase    *)
(* only so that p's own facts hold, keeps the invariant.                   *)
LEMMA Locally ==
    ASSUME BInv, NEW p \in Invocation, NEW place \in Phase, NEW now \in SavedRun,
           phase' = [phase EXCEPT ![p] = place],
           run' = [run EXCEPT ![p] = now],
           UNCHANGED <<clock, history>>,
           PhaseTells(p)'
    PROVE  BInv'
<1>1. Shape'
  BY DEF BInv, Shape
<1>2. ASSUME NEW q \in Invocation, q # p
      PROVE  PhaseTells(q)'
  <2>1. phase'[q] = phase[q] /\ run'[q] = run[q] /\ PhaseTells(q)
    BY <1>2 DEF BInv, Shape
  <2>. QED
    BY <2>1 DEF PhaseTells
<1>. QED
  BY <1>1, <1>2 DEF BInv

(* The process ends and nothing but its exit is left.                      *)
LEMMA LoseStep ==
    ASSUME BInv, NEW p \in Invocation, NEW place \in {"exit_4", "crashed"}, Lose(p, place)
    PROVE  BInv'
<1>1. place \in Phase /\ Blank(p) \in SavedRun /\ Prefix(Blank(p).results)
  BY BlankPrefix DEF Phase, Exits
<1>2. phase'[p] = place /\ run'[p] = Blank(p)
  BY DEF Lose, Goto, BInv, Shape
<1>3. PhaseTells(p)'
  BY <1>1, <1>2 DEF PhaseTells
<1>. QED
  BY <1>1, <1>3, Locally DEF Lose, Goto

(* The phase moves to one that says nothing new.                           *)
LEMMA PhaseStep ==
    ASSUME BInv, NEW p \in Invocation, NEW place \in Phase,
           Goto(p, place), UNCHANGED <<clock, run, history>>,
           place \in {"exit_2", "exit_4"}
               \/ /\ phase[p] = "saved"
                  /\ place = IF AuthenticationFailed(run[p]) THEN "exit_3" ELSE "exit_0"
    PROVE  BInv'
<1>1. run' = [run EXCEPT ![p] = run[p]] /\ run[p] \in SavedRun
  BY DEF BInv, Shape
<1>2. phase'[p] = place /\ PhaseTells(p)
  BY DEF Goto, BInv, Shape
<1>3. PhaseTells(p)'
  BY <1>2 DEF PhaseTells
<1>. QED
  BY <1>1, <1>3, Locally DEF Goto

(* The clock is a number, whichever bound it has.                           *)
LEMMA ClockInNat ==
    ASSUME Shape
    PROVE  clock \in Nat
BY RunsAssumption DEF Shape

(* Every step of an invocation and of the clock keeps the invariant.        *)
LEMMA BInvNext ==
    ASSUME BInv, [Next]_vars
    PROVE  BInv'
<1>1. ASSUME NEW p \in Invocation, Refuse(p) \/ StoreUnavailable(p)
      PROVE  BInv'
  BY <1>1, PhaseStep DEF Refuse, StoreUnavailable, Phase, Exits
<1>2. ASSUME NEW p \in Invocation, NEW config \in Config, Launch(p, config)
      PROVE  BInv'
  <2>. DEFINE now == [run[p] EXCEPT !.config = config, !.started = clock]
  <2>0. run[p] \in SavedRun /\ clock \in Nat
    BY ClockInNat DEF BInv, Shape
  <2>1. now \in SavedRun /\ now.results = run[p].results
    BY <2>0 DEF SavedRun
  <2>2. run' = [run EXCEPT ![p] = now] /\ phase' = [phase EXCEPT ![p] = "running"]
    BY <1>2 DEF Launch, Goto, BInv, Shape, SavedRun
  <2>3. run'[p] = now /\ phase'[p] = "running" /\ Prefix(run[p].results)
    BY <2>2 DEF BInv, Shape, PhaseTells
  <2>4. PhaseTells(p)'
    BY <2>1, <2>3 DEF PhaseTells
  <2>5. "running" \in Phase /\ UNCHANGED <<clock, history>>
    BY <1>2 DEF Launch, Phase
  <2>. QED
    BY <2>1, <2>2, <2>4, <2>5, Locally
<1>3. ASSUME NEW p \in Invocation, NEW result \in Result, EndCase(p, result)
      PROVE  BInv'
  <2>. DEFINE now == [run[p] EXCEPT !.results = Append(run[p].results, result)]
  <2>1. Prefix(Append(run[p].results, result))
    BY <1>3, OneMoreResult DEF EndCase, BInv, PhaseTells
  <2>2. now \in SavedRun /\ now.results = Append(run[p].results, result)
    BY <2>1 DEF BInv, Shape, SavedRun, Prefix
  <2>3. run' = [run EXCEPT ![p] = now] /\ phase' = [phase EXCEPT ![p] = "running"]
    BY <1>3 DEF EndCase, BInv, Shape, SavedRun
  <2>4. run'[p] = now /\ phase'[p] = "running"
    BY <2>3 DEF BInv, Shape
  <2>5. PhaseTells(p)'
    BY <2>1, <2>2, <2>4 DEF PhaseTells
  <2>6. "running" \in Phase /\ UNCHANGED <<clock, history>>
    BY <1>3 DEF EndCase, Phase
  <2>. QED
    BY <2>2, <2>3, <2>5, <2>6, Locally
<1>4. ASSUME NEW p \in Invocation, Conclude(p)
      PROVE  BInv'
  <2>. DEFINE now == [run[p] EXCEPT !.finished = clock]
              place == IF Consistent(now) THEN "unsaved" ELSE "refused"
  <2>0. run[p] \in SavedRun /\ clock \in Nat
    BY ClockInNat DEF BInv, Shape
  <2>1. /\ now \in SavedRun
        /\ now.results = run[p].results
        /\ now.finished = clock
        /\ now.started = run[p].started
    BY <2>0 DEF SavedRun
  <2>2. run' = [run EXCEPT ![p] = now] /\ run'[p] = now
    BY <1>4 DEF Conclude, BInv, Shape, SavedRun
  <2>3. phase' = [phase EXCEPT ![p] = place] /\ phase'[p] = place
    BY <1>4, <2>2 DEF Conclude, Goto, BInv, Shape
  <2>4. Prefix(now.results) /\ ~MoreCases(now.results)
    BY <1>4, <2>1 DEF Conclude, BInv, PhaseTells
  <2>5. place = "refused" => now.finished < now.started
    <3>1. now.started <= now.finished => Consistent(now)
      BY <2>1, <2>4, OnlyTheClock
    <3>2. now.started \in Int /\ now.finished \in Int
      BY <2>1 DEF SavedRun
    <3>. QED
      BY <3>1, <3>2
  <2>6. PhaseTells(p)'
    <3>1. place \in {"unsaved", "refused"}
      OBVIOUS
    <3>2. Prefix(run'[p].results)
      BY <2>2, <2>4
    <3>3. phase'[p] = "refused" => run'[p].finished < run'[p].started
      BY <2>2, <2>3, <2>5
    <3>4. phase'[p] \notin {"saved", "exit_0", "exit_3"}
      BY <2>3, <3>1
    <3>5. ~MoreCases(run'[p].results)
      BY <2>2, <2>4
    <3>6. ~MoreCases(run[p].results)'
      BY <3>5 DEF MoreCases, Terminal, Last
    <3>. QED
      BY <3>2, <3>3, <3>4, <3>6 DEF PhaseTells
  <2>7. place \in Phase /\ UNCHANGED <<clock, history>>
    BY <1>4 DEF Conclude, Phase
  <2>. QED
    BY <2>1, <2>2, <2>3, <2>6, <2>7, Locally
<1>5. ASSUME NEW p \in Invocation, Save(p)
      PROVE  BInv'
  <2>1. /\ run[p] \in SavedRun
        /\ history' \in Seq(SavedRun)
        /\ Len(history') = Len(history) + 1
        /\ history'[Len(history) + 1] = run[p]
        /\ \A i \in 1 .. Len(history) : history'[i] = history[i]
    BY <1>5 DEF Save, BInv, Shape
  <2>2. Len(history) \in Nat
    BY DEF BInv, Shape
  <2>3. Shape'
    BY <1>5, <2>1 DEF Save, Goto, BInv, Shape, Phase
  <2>4. ASSUME NEW q \in Invocation
        PROVE  PhaseTells(q)'
    <3>1. PhaseTells(q) /\ run'[q] = run[q]
      BY <1>5 DEF BInv, Save
    <3>2. CASE q = p
      <4>1. phase'[q] = "saved"
        BY <1>5, <3>2 DEF Save, Goto, BInv, Shape
      <4>2. \E i \in 1 .. Len(history') : history'[i] = run'[q]
        BY <2>1, <2>2, <3>1, <3>2
      <4>3. ~MoreCases(run'[q].results)
        BY <1>5, <3>1, <3>2 DEF Save, PhaseTells
      <4>. QED
        BY <3>1, <4>1, <4>2, <4>3 DEF PhaseTells
    <3>3. CASE q # p
      <4>1. phase'[q] = phase[q]
        BY <1>5, <3>3 DEF Save, Goto, BInv, Shape
      <4>2. (\E i \in 1 .. Len(history) : history[i] = run[q])
              => \E i \in 1 .. Len(history') : history'[i] = run'[q]
        BY <2>1, <2>2, <3>1
      <4>. QED
        BY <3>1, <4>1, <4>2 DEF PhaseTells
    <3>. QED
      BY <3>2, <3>3
  <2>. QED
    BY <2>3, <2>4 DEF BInv
<1>6. ASSUME NEW p \in Invocation, CaseRaises(p) \/ SaveFails(p) \/ Crash(p)
      PROVE  BInv'
  BY <1>6, LoseStep DEF CaseRaises, SaveFails, Crash
<1>7. ASSUME NEW p \in Invocation, Exit(p)
      PROVE  BInv'
  <2>1. CASE Lose(p, "exit_4")
    BY <2>1, LoseStep
  <2>2. CASE /\ phase[p] = "saved"
             /\ Goto(p, "exit_4")
             /\ UNCHANGED <<clock, run, history>>
    BY <2>2, PhaseStep DEF Phase, Exits
  <2>3. CASE /\ phase[p] = "saved"
             /\ Goto(p, IF AuthenticationFailed(run[p]) THEN "exit_3" ELSE "exit_0")
             /\ UNCHANGED <<clock, run, history>>
    <3>1. (IF AuthenticationFailed(run[p]) THEN "exit_3" ELSE "exit_0") \in Phase
      BY DEF Phase, Exits
    <3>. QED
      BY <2>3, <3>1, PhaseStep
  <2>. QED
    BY <1>7, <2>1, <2>2, <2>3 DEF Exit
<1>8. CASE Tick \/ ClockSetBack
  <2>1. clock' \in 0 .. MaxTime /\ UNCHANGED <<phase, run, history>>
    BY <1>8, RunsAssumption DEF Tick, ClockSetBack, BInv, Shape
  <2>. QED
    BY <2>1 DEF BInv, Shape, PhaseTells
<1>9. CASE UNCHANGED vars
  BY <1>9 DEF vars, BInv, Shape, PhaseTells
<1>. QED
  BY <1>1, <1>2, <1>3, <1>4, <1>5, <1>6, <1>7, <1>8, <1>9 DEF Next, Proceed

(* The invariant holds in every behaviour.                                  *)
LEMMA BInvAlways == Spec => []BInv
<1>1. Init => BInv
  BY BInvInit
<1>2. BInv /\ [Next]_vars => BInv'
  BY BInvNext
<1>. QED
  BY <1>1, <1>2, PTL DEF Spec

(* The run's validator never refuses what the runner built, unless the     *)
(* clock went back while it ran.                                           *)
THEOREM RunnerSafety == Spec => []RefusedOnlyByClock
<1>1. BInv => RefusedOnlyByClock
  BY DEF BInv, PhaseTells, RefusedOnlyByClock
<1>. QED
  BY <1>1, BInvAlways, PTL

(* An exit code that confirms saving is never given without a saved run,   *)
(* nor 0 without a result for every case, nor 3 but at a refused key.      *)
THEOREM ExitSafety == Spec => []ExitCodeTellsStore
<1>1. ASSUME BInv, NEW p \in Invocation
      PROVE  /\ phase[p] \in {"saved", "exit_0", "exit_3"} => run[p] \in ToSet(history)
             /\ phase[p] = "exit_0" => Len(run[p].results) = Len(Category)
             /\ phase[p] = "exit_3" => Terminal(run[p].results)
  <2>. DEFINE results == run[p].results
  <2>1. /\ PhaseTells(p)
        /\ Prefix(results)
        /\ results \in Seq(Result)
        /\ DOMAIN history = 1 .. Len(history)
        /\ DOMAIN results = 1 .. Len(results)
        /\ Len(results) \in Nat /\ Len(Category) \in Nat
    <3>1. PhaseTells(p) /\ history \in Seq(SavedRun)
      BY <1>1 DEF BInv, Shape
    <3>2. Prefix(results)
      BY <3>1 DEF PhaseTells
    <3>3. results \in Seq(Result)
      BY <3>2 DEF Prefix
    <3>. HIDE DEF results
    <3>. QED
      BY <3>1, <3>2, <3>3, SuiteAssumption
  <2>2. phase[p] \in {"saved", "exit_0", "exit_3"} => run[p] \in ToSet(history)
    BY <2>1 DEF PhaseTells, ToSet
  <2>3. AuthenticationFailed(run[p]) <=> Terminal(results)
    <3>1. ASSUME AuthenticationFailed(run[p])
          PROVE  Terminal(results)
      BY <2>1, <3>1 DEF AuthenticationFailed, Prefix, Terminal, Last
    <3>2. ASSUME Terminal(results)
          PROVE  AuthenticationFailed(run[p])
      <4>1. Len(results) \in 1 .. Len(results)
        BY <2>1, <3>2 DEF Terminal
      <4>. QED
        BY <2>1, <3>2, <4>1 DEF AuthenticationFailed, Terminal, Last
    <3>. QED
      BY <3>1, <3>2
  <2>4. phase[p] = "exit_0" => Len(results) = Len(Category)
    BY <2>1, <2>3 DEF PhaseTells, Prefix, MoreCases
  <2>5. phase[p] = "exit_3" => Terminal(results)
    BY <2>1, <2>3 DEF PhaseTells
  <2>. QED
    BY <2>2, <2>4, <2>5
<1>2. BInv => ExitCodeTellsStore
  BY <1>1 DEF ExitCodeTellsStore
<1>. QED
  BY <1>2, BInvAlways, PTL

-----------------------------------------------------------------------------
(* Least and last.                                                         *)

(* A set of natural numbers has a least one.                               *)
LEMMA LeastNatural ==
    ASSUME NEW S \in SUBSET Nat, S # {}
    PROVE  \E m \in S : \A n \in S : m <= n
<1>. DEFINE Less == {ss \in Nat \X Nat : ss[1] < ss[2]}
<1>1. IsWellFoundedOn(Less, Nat)
  BY NatLessThanWellFounded DEF OpToRel
<1>2. \A m, n \in Nat : ~ (<<n, m>> \in Less) => m <= n
  OBVIOUS
<1>. HIDE DEF Less
<1>3. \E m \in S : \A n \in S : ~ (<<n, m>> \in Less)
  BY <1>1, WFMin
<1>. QED
  BY <1>2, <1>3

(* A set of places of a sequence has a last one.                           *)
Ends(s, x) == x \in s /\ \A y \in s : y <= x

LEMMA LastPlace ==
    ASSUME NEW n \in Nat, NEW s \in SUBSET (1 .. n), s # {}
    PROVE  Ends(s, Max(s))
<1>. DEFINE Above == {n - y : y \in s}
<1>. \A y \in s : y \in Nat /\ n - y \in Nat
  OBVIOUS
<1>1. Above \in SUBSET Nat /\ Above # {}
  OBVIOUS
<1>2. PICK m \in Above : \A k \in Above : m <= k
  BY <1>1, LeastNatural
<1>3. PICK x \in s : m = n - x
  OBVIOUS
<1>4. ASSUME NEW y \in s
      PROVE  y <= x
  <2>1. n - x <= n - y
    BY <1>2, <1>3
  <2>. QED
    BY <2>1
<1>5. \E z \in s : \A y \in s : z >= y
  BY <1>4
<1>6. Max(s) \in s /\ \A y \in s : Max(s) >= y
  BY <1>5 DEF Max
<1>. QED
  BY <1>6 DEF Ends

-----------------------------------------------------------------------------
(* The order of runs.                                                      *)

(* run_id is the primary key of benchmark_runs.                            *)
Unique(runs) == \A r, s \in runs : r.id = s.id => r = s

(* A sequence of all the runs, each once, in the order of their finishing. *)
Sorts(order, runs) ==
    /\ order \in [1 .. Cardinality(runs) -> runs]
    /\ \A r \in runs : \E i \in 1 .. Cardinality(runs) : order[i] = r
    /\ \A i, j \in 1 .. Cardinality(runs) : i < j => Before(order[i], order[j])

(* Two runs never finish at the same time with the same id.                *)
LEMMA BeforeOrders ==
    /\ \A r \in SavedRun : ~Before(r, r)
    /\ \A r, s, t \in SavedRun : Before(r, s) /\ Before(s, t) => Before(r, t)
    /\ \A r, s \in SavedRun : r.id # s.id => Before(r, s) \/ Before(s, r)
    /\ \A r, s \in SavedRun : ~(Before(r, s) /\ Before(s, r))
BY DEF Before, SavedRun

(* Putting one more run where it belongs.                                  *)
LEMMA InsertRun ==
    ASSUME NEW runs \in SUBSET SavedRun, Unique(runs), IsFiniteSet(runs),
           NEW x \in runs, NEW order, Sorts(order, runs \ {x})
    PROVE  \E new : Sorts(new, runs)
<1>. DEFINE m == Cardinality(runs)
            others == runs \ {x}
            later == {i \in 1 .. m - 1 : Before(x, order[i])} \cup {m}
<1>1. m \in Nat \ {0} /\ Cardinality(others) = m - 1
  <2>1. m \in Nat /\ Cardinality(others) = m - 1 /\ m # 0
    BY FS_CardinalityType, FS_RemoveElement, FS_EmptySet
  <2>. QED
    BY <2>1
<1>. HIDE DEF m
<1>2. /\ order \in [1 .. m - 1 -> others]
      /\ \A r \in others : \E i \in 1 .. m - 1 : order[i] = r
      /\ \A i, j \in 1 .. m - 1 : i < j => Before(order[i], order[j])
  BY <1>1 DEF Sorts
<1>3. PICK k \in later : \A i \in later : k <= i
  <2>1. later \in SUBSET Nat /\ later # {}
    BY <1>1
  <2>. QED
    BY <2>1, LeastNatural
<1>4. k \in 1 .. m
  BY <1>1
<1>5. \A i \in 1 .. m - 1 : i < k => Before(order[i], x)
  <2>1. \A i \in 1 .. m - 1 : order[i] \in others /\ order[i] \in SavedRun
    BY <1>2
  <2>2. \A i \in 1 .. m - 1 : i < k => ~Before(x, order[i])
    BY <1>1, <1>3
  <2>3. \A r \in others : r.id # x.id
    BY DEF Unique
  <2>. QED
    BY <2>1, <2>2, <2>3, BeforeOrders
<1>6. \A i \in 1 .. m - 1 : k <= i => Before(x, order[i])
  <2>. SUFFICES ASSUME NEW i \in 1 .. m - 1, k <= i
                PROVE  Before(x, order[i])
    OBVIOUS
  <2>1. k \in 1 .. m - 1 /\ Before(x, order[k])
    BY <1>1, <1>3, <1>4
  <2>2. k = i \/ Before(order[k], order[i])
    BY <1>2, <2>1
  <2>3. order[k] \in SavedRun /\ order[i] \in SavedRun /\ x \in SavedRun
    BY <1>2, <2>1
  <2>. QED
    BY <2>1, <2>2, <2>3, BeforeOrders
<1>. DEFINE new == [i \in 1 .. m |-> IF i < k THEN order[i] ELSE IF i = k THEN x ELSE order[i - 1]]
<1>7. \A i \in 1 .. m : /\ i < k => i \in 1 .. m - 1 /\ new[i] = order[i]
                        /\ i = k => new[i] = x
                        /\ i > k => i - 1 \in 1 .. m - 1 /\ i - 1 >= k /\ new[i] = order[i - 1]
  BY <1>1, <1>4
<1>8. new \in [1 .. m -> runs]
  BY <1>1, <1>2, <1>4
<1>. HIDE DEF new, later
<1>9. ASSUME NEW r \in runs
      PROVE  \E i \in 1 .. m : new[i] = r
  <2>1. CASE r = x
    BY <1>4, <1>7, <2>1
  <2>2. CASE r # x
    <3>1. PICK i \in 1 .. m - 1 : order[i] = r
      BY <1>2, <2>2
    <3>2. CASE i < k
      BY <1>1, <1>7, <3>1, <3>2
    <3>3. CASE i >= k
      <4>1. i + 1 \in 1 .. m /\ i + 1 > k /\ (i + 1) - 1 = i
        BY <1>1, <1>4, <3>3
      <4>. QED
        BY <1>7, <3>1, <4>1
    <3>. QED
      BY <1>4, <3>2, <3>3
  <2>. QED
    BY <2>1, <2>2
<1>10. ASSUME NEW i \in 1 .. m, NEW j \in 1 .. m, i < j
       PROVE  Before(new[i], new[j])
  <2>1. CASE j < k
    BY <1>1, <1>2, <1>4, <1>7, <1>10, <2>1
  <2>2. CASE j = k
    BY <1>1, <1>4, <1>5, <1>7, <1>10, <2>2
  <2>3. CASE j > k /\ i = k
    BY <1>1, <1>4, <1>6, <1>7, <1>10, <2>3
  <2>4. CASE j > k /\ i # k
    <3>1. PICK a \in 1 .. m - 1 : new[i] = order[a] /\ a < j - 1
      BY <1>1, <1>4, <1>7, <1>10, <2>4
    <3>2. j - 1 \in 1 .. m - 1 /\ new[j] = order[j - 1]
      BY <1>7, <2>4
    <3>. QED
      BY <1>2, <3>1, <3>2
  <2>. QED
    BY <1>1, <1>4, <2>1, <2>2, <2>3, <2>4
<1>. QED
  BY <1>8, <1>9, <1>10 DEF Sorts, m

(* Any finite set of runs can be sorted: a smallest one that cannot would  *)
(* be sorted by putting a run of it where it belongs.                      *)
LEMMA Sortable ==
    ASSUME NEW runs \in SUBSET SavedRun, Unique(runs), IsFiniteSet(runs)
    PROVE  \E order : Sorts(order, runs)
<1>. DEFINE Unsorted == {T \in SUBSET runs : ~\E order : Sorts(order, T)}
            sizes == {Cardinality(T) : T \in Unsorted}
<1>. SUFFICES ASSUME Unsorted # {} PROVE FALSE
  OBVIOUS
<1>1. \A T \in SUBSET runs : IsFiniteSet(T) /\ Cardinality(T) \in Nat
  BY FS_Subset, FS_CardinalityType
<1>2. sizes \in SUBSET Nat /\ sizes # {}
  BY <1>1
<1>3. PICK T \in Unsorted : \A U \in Unsorted : Cardinality(T) <= Cardinality(U)
  <2>1. PICK m \in sizes : \A k \in sizes : m <= k
    BY <1>2, LeastNatural
  <2>. QED
    BY <2>1
<1>4. T # {}
  <2>1. Sorts(<<>>, {})
    BY FS_EmptySet DEF Sorts
  <2>. QED
    BY <2>1
<1>5. PICK x \in T : TRUE
  BY <1>4
<1>6. Cardinality(T \ {x}) < Cardinality(T)
  BY <1>1, <1>3, <1>5, FS_RemoveElement
<1>7. T \ {x} \notin Unsorted
  BY <1>1, <1>3, <1>6
<1>8. T \in SUBSET SavedRun /\ Unique(T) /\ IsFiniteSet(T)
  BY <1>1 DEF Unique
<1>. QED
  BY <1>5, <1>7, <1>8, InsertRun

(* aggregate_quality's sort puts every run of a history in its place.      *)
LEMMA OrderedSorts ==
    ASSUME NEW runs \in Seq(SavedRun), Unique(ToSet(runs))
    PROVE  /\ IsFiniteSet(ToSet(runs))
           /\ Cardinality(ToSet(runs)) \in Nat
           /\ Sorts(Ordered(runs), ToSet(runs))
<1>. DEFINE S == ToSet(runs)
            Right(order) ==
                \A m, n \in DOMAIN order : m < n => Before(order[m], order[n])
<1>1. S \subseteq SavedRun
  BY DEF ToSet
<1>2. IsFiniteSet(S)
  <2>1. runs \in Surjection(1 .. Len(runs), S)
    BY DEF ToSet, Surjection
  <2>2. IsFiniteSet(1 .. Len(runs))
    BY FS_Interval
  <2>. QED
    BY <2>1, <2>2, FS_Surjection
<1>3. Cardinality(S) \in Nat
  BY <1>2, FS_CardinalityType
<1>4. PICK order : Sorts(order, S)
  BY <1>1, <1>2, Sortable
<1>. HIDE DEF S
<1>5. order \in SetToSeqs(S) /\ Right(order)
  <2>1. \A i, j \in 1 .. Cardinality(S) : i # j => order[i] # order[j]
    <3>1. \A i \in 1 .. Cardinality(S) : order[i] \in SavedRun
      BY <1>1, <1>4 DEF Sorts
    <3>2. \A i, j \in 1 .. Cardinality(S) : i < j => order[i] # order[j]
      BY <1>4, <3>1, BeforeOrders DEF Sorts
    <3>. QED
      BY <1>3, <3>2
  <2>. QED
    BY <1>4, <2>1 DEF Sorts, SetToSeqs
<1>. DEFINE chosen == CHOOSE f \in SetToSeqs(S) : Right(f)
<1>6. chosen \in SetToSeqs(S) /\ Right(chosen)
  BY <1>5
<1>7. Ordered(runs) = chosen
  BY DEF Ordered, S
<1>. HIDE DEF chosen
<1>8. /\ chosen \in [1 .. Cardinality(S) -> S]
      /\ \A i, j \in 1 .. Cardinality(S) : i # j => chosen[i] # chosen[j]
  BY <1>6 DEF SetToSeqs
<1>9. chosen \in Surjection(1 .. Cardinality(S), S)
  <2>1. chosen \in Injection(1 .. Cardinality(S), S)
    BY <1>8 DEF Injection, IsInjective
  <2>2. Cardinality(1 .. Cardinality(S)) = Cardinality(S)
    BY <1>3, FS_Interval
  <2>. QED
    BY <1>2, <2>1, <2>2, FS_Injection
<1>10. Sorts(chosen, S)
  BY <1>6, <1>8, <1>9 DEF Sorts, Surjection
<1>. QED
  BY <1>2, <1>3, <1>7, <1>10 DEF S

-----------------------------------------------------------------------------
(* What the replay of the runs in their order leaves.                      *)

(* The run at the last of the places s that attempted the case.            *)
LatestIn(order, s, i) ==
    {order[k] : k \in {k \in s : /\ i \in Attempted(order[k])
                               /\ \A l \in s : i \in Attempted(order[l]) => l <= k}}

(* The last run takes the cases it attempted and leaves the others.        *)
LEMMA ReplayLatest ==
    ASSUME NEW order, NEW n \in Nat, NEW s \in SUBSET (1 .. n), s # {}, NEW i
    PROVE  /\ i \in Attempted(order[Max(s)]) => LatestIn(order, s, i) = {order[Max(s)]}
           /\ i \notin Attempted(order[Max(s)]) =>
                  LatestIn(order, s, i) = LatestIn(order, s \ {Max(s)}, i)
<1>. DEFINE x == Max(s)
<1>1. x \in s /\ \A y \in s : y \in Nat /\ y <= x
  BY LastPlace DEF Ends
<1>. HIDE DEF x
<1>2. CASE i \in Attempted(order[x])
  <2>1. \A k \in s : x <= k => k = x
    BY <1>1
  <2>. QED
    BY <1>1, <1>2, <2>1 DEF LatestIn, x
<1>3. CASE i \notin Attempted(order[x])
  BY <1>1, <1>3 DEF LatestIn, x
<1>. QED
  BY <1>2, <1>3 DEF x

(* The fold over the runs gives each case the last run that attempted it.  *)
LEMMA SourcesLatest ==
    ASSUME NEW runs, NEW order, order = Ordered(runs), NEW n \in Nat, DOMAIN order = 1 .. n
    PROVE  Sources(runs) = [i \in Cases |-> LatestIn(order, 1 .. n, i)]
<1>. DEFINE places == 1 .. n
            Step(g) ==
                [s \in SUBSET places |->
                    IF s = {} THEN [i \in Cases |-> {}]
                              ELSE Replay(g[s \ {Max(s)}], order[Max(s)])]
            iter == CHOOSE g : g = Step(g)
            latest == [s \in SUBSET places |-> [i \in Cases |-> LatestIn(order, s, i)]]
<1>1. Sources(runs) = iter[places]
  BY DEF Sources, FoldLeft, MapThenFoldSet
<1>2. latest = Step(latest)
  <2>. SUFFICES ASSUME NEW s \in SUBSET places
                PROVE  latest[s] = Step(latest)[s]
    OBVIOUS
  <2>1. CASE s = {}
    BY <2>1 DEF LatestIn
  <2>2. CASE s # {}
    <3>. DEFINE x == Max(s)
                rest == s \ {x}
    <3>2. ASSUME NEW i \in Cases
          PROVE  /\ i \in Attempted(order[x]) => LatestIn(order, s, i) = {order[x]}
                 /\ i \notin Attempted(order[x]) => LatestIn(order, s, i) = LatestIn(order, rest, i)
      BY <2>2, ReplayLatest
    <3>3. /\ latest[s] = [i \in Cases |-> LatestIn(order, s, i)]
          /\ latest[rest] = [i \in Cases |-> LatestIn(order, rest, i)]
      OBVIOUS
    <3>4. Step(latest)[s] = Replay(latest[rest], order[x])
      <4>. HIDE DEF latest
      <4>. QED
        BY <2>2
    <3>. HIDE DEF latest, Step, x, rest
    <3>5. Step(latest)[s] =
              [i \in Cases |-> IF i \in Attempted(order[x]) THEN {order[x]}
                                                         ELSE LatestIn(order, rest, i)]
      BY <3>3, <3>4 DEF Replay
    <3>. QED
      BY <3>2, <3>3, <3>5
  <2>. QED
    BY <2>1, <2>2
<1>3. iter = Step(iter)
  <2>. HIDE DEF Step, latest
  <2>. QED
    BY <1>2
<1>. DEFINE Wrong == {s \in SUBSET places : iter[s] # latest[s]}
            sizes == {Cardinality(s) : s \in Wrong}
<1>4. \A s \in SUBSET places : IsFiniteSet(s) /\ Cardinality(s) \in Nat
  <2>1. IsFiniteSet(places)
    BY FS_Interval
  <2>. QED
    BY <2>1, FS_Subset, FS_CardinalityType
<1>. HIDE DEF latest, iter
<1>5. ASSUME Wrong # {}
      PROVE  FALSE
  <2>1. sizes \in SUBSET Nat /\ sizes # {}
    BY <1>4, <1>5
  <2>2. PICK s \in Wrong : \A t \in Wrong : Cardinality(s) <= Cardinality(t)
    <3>1. PICK m \in sizes : \A k \in sizes : m <= k
      BY <2>1, LeastNatural
    <3>. QED
      BY <3>1
  <2>3. iter[s] = Step(iter)[s] /\ latest[s] = Step(latest)[s]
    <3>. HIDE DEF Step
    <3>. QED
      BY <1>2, <1>3
  <2>4. CASE s = {}
    BY <2>2, <2>3, <2>4
  <2>5. CASE s # {}
    <3>1. Max(s) \in s
      BY <2>5, LastPlace DEF Ends
    <3>2. Cardinality(s \ {Max(s)}) < Cardinality(s)
      BY <1>4, <3>1, FS_RemoveElement
    <3>3. s \ {Max(s)} \in SUBSET places
      OBVIOUS
    <3>4. s \ {Max(s)} \notin Wrong
      <4>. HIDE DEF Wrong
      <4>1. /\ Cardinality(s) \in Nat /\ Cardinality(s \ {Max(s)}) \in Nat
            /\ \A t \in Wrong : Cardinality(s) <= Cardinality(t)
        BY <1>4, <2>2, <3>3 DEF Wrong
      <4>. QED
        BY <3>2, <4>1
    <3>. QED
      BY <2>2, <2>3, <2>5, <3>3, <3>4
  <2>. QED
    BY <2>4, <2>5
<1>6. iter[places] = latest[places]
  BY <1>5
<1>. QED
  BY <1>1, <1>6 DEF latest

(* The newest of some runs.                                                *)
Newest(runs) == {r \in runs : \A s \in runs \ {r} : Before(s, r)}

AttemptsOf(runs, i) == {r \in ToSet(runs) : i \in Attempted(r)}

(* So it is from the newest run that attempted it, if any did.             *)
LEMMA SourceIsNewest ==
    ASSUME NEW runs \in Seq(SavedRun), Unique(ToSet(runs)), NEW i \in Cases
    PROVE  Sources(runs)[i] = Newest(AttemptsOf(runs, i))
<1>. DEFINE S == ToSet(runs)
            n == Cardinality(S)
            order == Ordered(runs)
            attempts == AttemptsOf(runs, i)
<1>1. n \in Nat /\ Sorts(order, S) /\ S \subseteq SavedRun
  BY OrderedSorts DEF ToSet
<1>2. attempts = {r \in S : i \in Attempted(r)}
  BY DEF AttemptsOf
<1>. HIDE DEF S, attempts, order, n
<1>3. /\ order \in [1 .. n -> S]
      /\ \A r \in S : \E k \in 1 .. n : order[k] = r
      /\ \A k, l \in 1 .. n : k < l => Before(order[k], order[l])
  BY <1>1 DEF Sorts, n
<1>4. Sources(runs)[i] = LatestIn(order, 1 .. n, i)
  <2>1. DOMAIN order = 1 .. n
    BY <1>3
  <2>2. Sources(runs) = [j \in Cases |-> LatestIn(order, 1 .. n, j)]
    BY <1>1, <2>1, SourcesLatest DEF order
  <2>. QED
    BY <2>2
<1>5. ASSUME NEW r \in LatestIn(order, 1 .. n, i)
      PROVE  r \in Newest(attempts)
  <2>1. PICK k \in 1 .. n : /\ r = order[k] /\ i \in Attempted(order[k])
                           /\ \A l \in 1 .. n : i \in Attempted(order[l]) => l <= k
    BY DEF LatestIn
  <2>2. ASSUME NEW s \in attempts \ {r}
        PROVE  Before(s, r)
    <3>1. PICK l \in 1 .. n : order[l] = s
      BY <1>2, <1>3
    <3>2. l < k
      BY <1>1, <1>2, <2>1, <3>1
    <3>. QED
      BY <1>3, <2>1, <3>1, <3>2
  <2>. QED
    BY <1>2, <1>3, <2>1, <2>2 DEF Newest
<1>6. ASSUME NEW r \in Newest(attempts)
      PROVE  r \in LatestIn(order, 1 .. n, i)
  <2>1. r \in S /\ i \in Attempted(r) /\ \A s \in attempts \ {r} : Before(s, r)
    BY <1>2 DEF Newest
  <2>2. PICK k \in 1 .. n : order[k] = r
    BY <1>3, <2>1
  <2>3. ASSUME NEW l \in 1 .. n, i \in Attempted(order[l]), ~(l <= k)
        PROVE  FALSE
    <3>1. order[l] \in attempts /\ order[l] \in SavedRun /\ r \in SavedRun
      BY <1>1, <1>2, <1>3, <2>1, <2>3
    <3>2. Before(r, order[l])
      BY <1>1, <1>3, <2>2, <2>3
    <3>. QED
      BY <2>1, <3>1, <3>2, BeforeOrders
  <2>. QED
    BY <2>1, <2>2, <2>3 DEF LatestIn
<1>. QED
  BY <1>4, <1>5, <1>6 DEF attempts

(* There is one newest run at most.                                        *)
LEMMA OneNewest ==
    ASSUME NEW runs \in SUBSET SavedRun, NEW r \in Newest(runs)
    PROVE  Newest(runs) = {r}
BY BeforeOrders DEF Newest

(* latest_run is the newest of all.                                        *)
LEMMA LatestIsNewest ==
    ASSUME NEW runs \in Seq(SavedRun), runs # <<>>, Unique(ToSet(runs))
    PROVE  Latest(runs) \in Newest(ToSet(runs))
<1>. DEFINE S == ToSet(runs)
            n == Cardinality(S)
            order == Ordered(runs)
<1>1. IsFiniteSet(S) /\ n \in Nat /\ Sorts(order, S)
  BY OrderedSorts
<1>2. S # {}
  BY DEF ToSet
<1>3. n # 0
  BY <1>1, <1>2, FS_EmptySet
<1>. HIDE DEF S, order
<1>4. /\ order \in [1 .. n -> S]
      /\ \A r \in S : \E k \in 1 .. n : order[k] = r
      /\ \A k, l \in 1 .. n : k < l => Before(order[k], order[l])
  BY <1>1 DEF Sorts
<1>. HIDE DEF n
<1>5. order \in Seq(S) /\ Len(order) = n
  BY <1>1, <1>4
<1>6. Latest(runs) = order[n] /\ n \in 1 .. n
  BY <1>1, <1>3, <1>5 DEF Latest, Last, order
<1>7. ASSUME NEW s \in S \ {order[n]}
      PROVE  Before(s, order[n])
  <2>1. PICK k \in 1 .. n : order[k] = s
    BY <1>4
  <2>2. k < n
    BY <1>1, <2>1
  <2>. QED
    BY <1>4, <1>6, <2>1, <2>2
<1>8. order[n] \in S
  BY <1>4, <1>6
<1>. QED
  BY <1>6, <1>7, <1>8 DEF Newest, S

-----------------------------------------------------------------------------
(* Sums over categories.                                                   *)

(* total gives the sums of f over parts of its domain.                     *)
SumsOf(total, f) ==
    /\ total[{}] = 0
    /\ \A s \in SUBSET DOMAIN f : \A x \in s : total[s] = f[x] + total[s \ {x}]

(* The fold is what any function of sets with the recursion of sums says.  *)
LEMMA SumIs ==
    ASSUME NEW C, IsFiniteSet(C), NEW f, DOMAIN f = C, NEW total, SumsOf(total, f)
    PROVE  SumFunction(f) = total[C]
<1>0. total[{}] = 0 /\ \A s \in SUBSET C : \A x \in s : total[s] = f[x] + total[s \ {x}]
  BY DEF SumsOf
<1>. DEFINE pick(s) == CHOOSE x \in s : TRUE
            Step(g) ==
                [s \in SUBSET C |->
                    IF s = {} THEN 0 ELSE f[pick(s)] + g[s \ {pick(s)}]]
            iter == CHOOSE g : g = Step(g)
            sums == [s \in SUBSET C |-> total[s]]
<1>1. SumFunction(f) = iter[C]
  BY DEF SumFunction, SumFunctionOnSet, FoldFunctionOnSet, MapThenFoldSet
<1>2. \A s \in SUBSET C : s # {} => pick(s) \in s
  OBVIOUS
<1>. HIDE DEF pick
<1>3. sums = Step(sums)
  <2>1. ASSUME NEW s \in SUBSET C
        PROVE  total[s] = IF s = {} THEN 0 ELSE f[pick(s)] + sums[s \ {pick(s)}]
    <3>1. s \ {pick(s)} \in SUBSET C
      OBVIOUS
    <3>. QED
      BY <1>0, <1>2, <3>1
  <2>. HIDE DEF sums
  <2>2. Step(sums) = [s \in SUBSET C |-> total[s]]
    BY <2>1
  <2>. QED
    BY <2>2 DEF sums
<1>4. iter = Step(iter)
  <2>. HIDE DEF Step, sums
  <2>. QED
    BY <1>3
<1>. DEFINE Wrong == {s \in SUBSET C : iter[s] # sums[s]}
            sizes == {Cardinality(s) : s \in Wrong}
<1>5. \A s \in SUBSET C : IsFiniteSet(s) /\ Cardinality(s) \in Nat
  BY FS_Subset, FS_CardinalityType
<1>. HIDE DEF sums, iter
<1>6. ASSUME Wrong # {}
      PROVE  FALSE
  <2>1. sizes \in SUBSET Nat /\ sizes # {}
    BY <1>5, <1>6
  <2>2. PICK s \in Wrong : \A t \in Wrong : Cardinality(s) <= Cardinality(t)
    <3>1. PICK m \in sizes : \A k \in sizes : m <= k
      BY <2>1, LeastNatural
    <3>. QED
      BY <3>1
  <2>3. iter[s] = Step(iter)[s] /\ sums[s] = Step(sums)[s]
    <3>. HIDE DEF Step
    <3>. QED
      BY <1>3, <1>4
  <2>4. CASE s = {}
    BY <2>2, <2>3, <2>4
  <2>5. CASE s # {}
    <3>. DEFINE rest == s \ {pick(s)}
    <3>1. Cardinality(rest) < Cardinality(s)
      BY <1>2, <1>5, <2>5, FS_RemoveElement
    <3>2. rest \in SUBSET C
      OBVIOUS
    <3>3. rest \notin Wrong
      <4>. HIDE DEF Wrong, rest
      <4>1. /\ Cardinality(s) \in Nat /\ Cardinality(rest) \in Nat
            /\ \A t \in Wrong : Cardinality(s) <= Cardinality(t)
        BY <1>5, <2>2, <3>2 DEF Wrong
      <4>. QED
        BY <3>1, <4>1
    <3>. QED
      BY <2>2, <2>3, <2>5, <3>2, <3>3
  <2>. QED
    BY <2>4, <2>5
<1>7. iter[C] = sums[C]
  BY <1>6
<1>. QED
  BY <1>1, <1>7 DEF sums

(* The categories divide any set of cases.                                 *)
InCategories(cases, categories) == {i \in cases : Category[i] \in categories}

LEMMA OneCategoryMore ==
    ASSUME NEW cases, IsFiniteSet(cases), NEW categories, NEW c \in categories
    PROVE  /\ Cardinality(InCategories(cases, categories)) \in Nat
           /\ Cardinality(InCategories(cases, categories)) =
                  Cardinality({i \in cases : Category[i] = c})
                  + Cardinality(InCategories(cases, categories \ {c}))
<1>. DEFINE here == {i \in cases : Category[i] = c}
            elsewhere == InCategories(cases, categories \ {c})
<1>1. IsFiniteSet(here) /\ IsFiniteSet(elsewhere)
  BY FS_Subset DEF InCategories
<1>2. InCategories(cases, categories) = here \cup elsewhere /\ here \cap elsewhere = {}
  BY DEF InCategories
<1>3. Cardinality(here \cup elsewhere) =
          Cardinality(here) + Cardinality(elsewhere) - Cardinality(here \cap elsewhere)
  BY <1>1, FS_Union
<1>4. Cardinality(here) \in Nat /\ Cardinality(elsewhere) \in Nat
  BY <1>1, FS_CardinalityType
<1>5. Cardinality(here \cap elsewhere) = 0
  BY <1>2, FS_EmptySet
<1>6. Cardinality(InCategories(cases, categories)) = Cardinality(here) + Cardinality(elsewhere)
  <2>1. Cardinality(InCategories(cases, categories)) = Cardinality(here \cup elsewhere)
    BY <1>2
  <2>. HIDE DEF here, elsewhere
  <2>. QED
    BY <1>3, <1>4, <1>5, <2>1
<1>. HIDE DEF here, elsewhere
<1>7. Cardinality(InCategories(cases, categories)) \in Nat
  BY <1>4, <1>6
<1>. QED
  BY <1>6, <1>7 DEF here, elsewhere

(* The categories are finitely many, and so are the cases.                 *)
LEMMA FiniteSuite ==
    /\ IsFiniteSet(ToSet(Category))
    /\ IsFiniteSet(Cases)
    /\ \A i \in Cases : Category[i] \in ToSet(Category)
<1>1. Category \in Seq(STRING) /\ Cases = 1 .. Len(Category) /\ Len(Category) \in Nat
  BY SuiteAssumption DEF Cases
<1>2. IsFiniteSet(1 .. Len(Category))
  BY <1>1, FS_Interval
<1>3. Category \in Surjection(1 .. Len(Category), ToSet(Category))
  BY <1>1 DEF ToSet, Surjection
<1>. QED
  BY <1>1, <1>2, <1>3, FS_Surjection DEF ToSet

(* Counting cases, less some others, category by category.                 *)
LEMMA CategoriesAddUp ==
    ASSUME NEW P \in SUBSET Cases, NEW Q \in SUBSET Cases
    PROVE  SumFunction([c \in ToSet(Category) |->
                           Cardinality({i \in P : Category[i] = c})
                               - Cardinality({i \in Q : Category[i] = c})])
               = Cardinality(P) - Cardinality(Q)
<1>. DEFINE C == ToSet(Category)
            f == [c \in C |-> Cardinality({i \in P : Category[i] = c})
                                  - Cardinality({i \in Q : Category[i] = c})]
            total == [s \in SUBSET C |-> Cardinality(InCategories(P, s))
                                             - Cardinality(InCategories(Q, s))]
<1>1. IsFiniteSet(C) /\ IsFiniteSet(P) /\ IsFiniteSet(Q)
  BY FiniteSuite, FS_Subset
<1>2. total[{}] = 0
  <2>1. InCategories(P, {}) = {} /\ InCategories(Q, {}) = {}
    BY DEF InCategories
  <2>2. Cardinality({}) = 0
    BY FS_EmptySet
  <2>. QED
    BY <2>1, <2>2
<1>3. ASSUME NEW s \in SUBSET C, NEW x \in s
      PROVE  total[s] = f[x] + total[s \ {x}]
  <2>. DEFINE p == Cardinality({i \in P : Category[i] = x})
              q == Cardinality({i \in Q : Category[i] = x})
              pr == Cardinality(InCategories(P, s \ {x}))
              qr == Cardinality(InCategories(Q, s \ {x}))
              ps == Cardinality(InCategories(P, s))
              qs == Cardinality(InCategories(Q, s))
  <2>1. ps = p + pr /\ qs = q + qr
    BY <1>1, OneCategoryMore
  <2>2. IsFiniteSet({i \in P : Category[i] = x}) /\ IsFiniteSet({i \in Q : Category[i] = x})
    BY <1>1, FS_Subset
  <2>3. IsFiniteSet(InCategories(P, s \ {x})) /\ IsFiniteSet(InCategories(Q, s \ {x}))
    BY <1>1, FS_Subset DEF InCategories
  <2>4. p \in Nat /\ q \in Nat /\ pr \in Nat /\ qr \in Nat
    BY <2>2, <2>3, FS_CardinalityType
  <2>5. total[s] = ps - qs /\ f[x] = p - q /\ total[s \ {x}] = pr - qr
    OBVIOUS
  <2>. HIDE DEF p, q, pr, qr, ps, qs, total, f
  <2>. QED
    BY <2>1, <2>4, <2>5
<1>4. SumFunction(f) = total[C]
  <2>1. DOMAIN f = C
    OBVIOUS
  <2>. HIDE DEF f, total, C
  <2>2. SumsOf(total, f)
    BY <1>2, <1>3, <2>1 DEF SumsOf
  <2>. QED
    BY <1>1, <2>1, <2>2, SumIs
<1>5. InCategories(P, C) = P /\ InCategories(Q, C) = Q
  BY FiniteSuite DEF InCategories
<1>6. total[C] = Cardinality(P) - Cardinality(Q)
  BY <1>5
<1>. QED
  BY <1>4, <1>6

(* A count that subtracts nothing.                                         *)
LEMMA CategoriesCount ==
    ASSUME NEW P \in SUBSET Cases
    PROVE  SumFunction([c \in ToSet(Category) |-> Cardinality({i \in P : Category[i] = c})])
               = Cardinality(P)
<1>1. Cardinality({}) = 0
  BY FS_EmptySet
<1>2. ASSUME NEW S \in SUBSET Cases
      PROVE  Cardinality(S) - Cardinality({}) = Cardinality(S)
  <2>1. Cardinality(S) \in Nat
    BY FiniteSuite, FS_Subset, FS_CardinalityType
  <2>. QED
    BY <1>1, <2>1
<1>3. \A c \in ToSet(Category) :
          Cardinality({i \in P : Category[i] = c}) - Cardinality({i \in {} : Category[i] = c})
              = Cardinality({i \in P : Category[i] = c})
  <2>. SUFFICES ASSUME NEW c \in ToSet(Category)
                PROVE  Cardinality({i \in P : Category[i] = c})
                           - Cardinality({i \in {} : Category[i] = c})
                           = Cardinality({i \in P : Category[i] = c})
    OBVIOUS
  <2>1. {i \in {} : Category[i] = c} = {}
    OBVIOUS
  <2>2. {i \in P : Category[i] = c} \in SUBSET Cases
    OBVIOUS
  <2>. QED
    BY <1>2, <2>1, <2>2
<1>4. [c \in ToSet(Category) |->
          Cardinality({i \in P : Category[i] = c}) - Cardinality({i \in {} : Category[i] = c})]
      = [c \in ToSet(Category) |-> Cardinality({i \in P : Category[i] = c})]
  BY <1>3
<1>5. {} \in SUBSET Cases
  OBVIOUS
<1>6. SumFunction([c \in ToSet(Category) |->
          Cardinality({i \in P : Category[i] = c}) - Cardinality({i \in {} : Category[i] = c})])
      = Cardinality(P) - Cardinality({})
  BY <1>5, CategoriesAddUp
<1>. QED
  BY <1>2, <1>4, <1>6

-----------------------------------------------------------------------------
(* The snapshot passes its validators.                                     *)

(* The metrics of any part of the cases pass theirs.                       *)
LEMMA MetricsConsistent ==
    ASSUME NEW cases \in SUBSET Cases, NEW sources
    PROVE  ConsistentMetrics(Metrics(cases, sources))
<1>. DEFINE observed == {i \in cases : sources[i] # {}}
            evaluated == {i \in observed : \A r \in sources[i] : i \in EvaluatedIn(r)}
<1>1. Metrics(cases, sources) =
          [total |-> Cardinality(cases), observed |-> Cardinality(observed),
           evaluated |-> Cardinality(evaluated),
           failed |-> Cardinality(observed) - Cardinality(evaluated)]
  BY DEF Metrics
<1>2. observed \in SUBSET cases /\ evaluated \in SUBSET observed
  OBVIOUS
<1>. HIDE DEF observed, evaluated
<1>3. IsFiniteSet(cases)
  BY FiniteSuite, FS_Subset
<1>4. IsFiniteSet(observed) /\ Cardinality(observed) <= Cardinality(cases)
  BY <1>2, <1>3, FS_Subset
<1>5. Cardinality(evaluated) <= Cardinality(observed)
  BY <1>2, <1>4, FS_Subset
<1>. QED
  BY <1>1, <1>4, <1>5 DEF ConsistentMetrics

(* The newest run of all is the source of every case it attempted.         *)
LEMMA LatestIsSource ==
    ASSUME NEW runs \in Seq(SavedRun), runs # <<>>, Unique(ToSet(runs)),
           NEW i \in Cases, i \in Attempted(Latest(runs))
    PROVE  Sources(runs)[i] = {Latest(runs)}
<1>. DEFINE latest == Latest(runs)
            attempts == AttemptsOf(runs, i)
<1>1. latest \in Newest(ToSet(runs))
  BY LatestIsNewest
<1>. HIDE DEF latest
<1>2. latest \in Newest(attempts)
  BY <1>1 DEF Newest, AttemptsOf, latest
<1>3. attempts \in SUBSET SavedRun
  BY DEF AttemptsOf, ToSet
<1>4. Newest(attempts) = {latest}
  BY <1>2, <1>3, OneNewest
<1>. QED
  BY <1>4, SourceIsNewest DEF latest

(* So is the snapshot of any history of consistent runs.                   *)
LEMMA SnapshotIsConsistent ==
    ASSUME NEW runs \in Seq(SavedRun), runs # <<>>, Unique(ToSet(runs)),
           \A r \in ToSet(runs) : Consistent(r)
    PROVE  ConsistentSnapshot(Snapshot(runs))
<1>. DEFINE sources == Sources(runs)
            latest == Latest(runs)
            C == ToSet(Category)
            Of(c) == {i \in Cases : Category[i] = c}
            O == {i \in Cases : sources[i] # {}}
            E == {i \in O : \A r \in sources[i] : i \in EvaluatedIn(r)}
            overall == Metrics(Cases, sources)
            by == [c \in C |-> Metrics(Of(c), sources)]
            count(S, c) == Cardinality({i \in S : Category[i] = c})
            ids == {r.id : r \in UNION {sources[i] : i \in Cases}}
            sum(field) == SumFunction([c \in DOMAIN by |-> by[c][field]])
<1>1. Snapshot(runs) =
          [overall |-> overall, by_category |-> by, source_ids |-> ids,
           latest_id |-> latest.id,
           latest_attempted |-> Cardinality(Attempted(latest)),
           latest_evaluated |-> Cardinality(EvaluatedIn(latest))]
  BY DEF Snapshot
<1>2. overall = [total |-> Cardinality(Cases), observed |-> Cardinality(O),
                 evaluated |-> Cardinality(E),
                 failed |-> Cardinality(O) - Cardinality(E)]
  BY DEF Metrics
<1>3. DOMAIN by = C
  OBVIOUS
<1>4. \A c \in C : by[c] =
          [total |-> Cardinality(Of(c)),
           observed |-> Cardinality({i \in O : Category[i] = c}),
           evaluated |-> Cardinality({i \in E : Category[i] = c}),
           failed |-> Cardinality({i \in O : Category[i] = c})
                          - Cardinality({i \in E : Category[i] = c})]
  <2>. SUFFICES ASSUME NEW c \in C
                PROVE  Metrics(Of(c), sources) =
                          [total |-> Cardinality(Of(c)),
                           observed |-> Cardinality({i \in O : Category[i] = c}),
                           evaluated |-> Cardinality({i \in E : Category[i] = c}),
                           failed |-> Cardinality({i \in O : Category[i] = c})
                                          - Cardinality({i \in E : Category[i] = c})]
    OBVIOUS
  <2>1. {i \in Of(c) : sources[i] # {}} = {i \in O : Category[i] = c}
    OBVIOUS
  <2>2. {i \in {j \in Of(c) : sources[j] # {}} : \A r \in sources[i] : i \in EvaluatedIn(r)}
            = {i \in E : Category[i] = c}
    OBVIOUS
  <2>. QED
    BY <2>1, <2>2 DEF Metrics
<1>5. ConsistentMetrics(overall) /\ \A c \in C : ConsistentMetrics(by[c])
  BY MetricsConsistent
<1>6. O \in SUBSET Cases /\ E \in SUBSET O /\ IsFiniteSet(O) /\ IsFiniteSet(E)
  BY FiniteSuite, FS_Subset
<1>7. ids # {} <=> Cardinality(O) > 0
  <2>1. ids # {} <=> O # {}
    OBVIOUS
  <2>2. Cardinality(O) \in Nat /\ (Cardinality(O) = 0 <=> O = {})
    BY <1>6, FS_CardinalityType, FS_EmptySet
  <2>. HIDE DEF ids, O
  <2>. QED
    BY <2>1, <2>2
<1>8. /\ Attempted(latest) \in SUBSET Cases
      /\ 1 \in Attempted(latest)
      /\ \A i \in Attempted(latest) : sources[i] = {latest}
  <2>1. latest \in ToSet(runs)
    BY LatestIsNewest DEF Newest
  <2>2. Consistent(latest) /\ latest \in SavedRun
    BY <2>1 DEF ToSet
  <2>3. Attempted(latest) = 1 .. Len(latest.results) /\ Len(latest.results) \in 1 .. Len(Category)
    BY <2>2 DEF Consistent, SavedRun, Attempted
  <2>4. Cases = 1 .. Len(Category) /\ Len(Category) \in Nat
    BY SuiteAssumption DEF Cases
  <2>. HIDE DEF latest
  <2>5. Attempted(latest) \in SUBSET Cases /\ 1 \in Attempted(latest)
    BY <2>3, <2>4
  <2>. QED
    BY <2>5, LatestIsSource DEF latest
<1>9. latest.id \in ids
  BY <1>8
<1>10. Attempted(latest) \in SUBSET O /\ EvaluatedIn(latest) \in SUBSET E
  <2>. HIDE DEF sources, latest
  <2>. QED
    BY <1>8 DEF EvaluatedIn
<1>11. /\ Cardinality(Attempted(latest)) <= Cardinality(O)
       /\ Cardinality(EvaluatedIn(latest)) <= Cardinality(E)
       /\ Cardinality(EvaluatedIn(latest)) <= Cardinality(Attempted(latest))
  <2>. HIDE DEF O, E, latest
  <2>1. IsFiniteSet(Attempted(latest)) /\ EvaluatedIn(latest) \in SUBSET Attempted(latest)
    BY <1>6, <1>10, FS_Subset DEF EvaluatedIn
  <2>. QED
    BY <1>6, <1>10, <2>1, FS_Subset
<1>12. ASSUME NEW field \in DOMAIN overall
       PROVE  sum(field) = overall[field]
  <2>0. \A c \in C : by[c] =
            [total |-> count(Cases, c), observed |-> count(O, c), evaluated |-> count(E, c),
             failed |-> count(O, c) - count(E, c)]
    BY <1>4
  <2>. HIDE DEF O, E, by, overall, C, count
  <2>1. field \in {"total", "observed", "evaluated", "failed"}
    BY <1>2
  <2>2. CASE field = "total"
    <3>1. [c \in DOMAIN by |-> by[c]["total"]] = [c \in C |-> count(Cases, c)]
      BY <1>3, <2>0
    <3>2. SumFunction([c \in C |-> count(Cases, c)]) = Cardinality(Cases)
      BY CategoriesCount DEF C, count
    <3>. QED
      BY <1>2, <2>2, <3>1, <3>2
  <2>3. CASE field = "observed"
    <3>1. [c \in DOMAIN by |-> by[c]["observed"]]
              = [c \in C |-> count(O, c)]
      BY <1>3, <2>0
    <3>2. SumFunction([c \in C |-> count(O, c)]) = Cardinality(O)
      BY <1>6, CategoriesCount DEF C, count
    <3>. QED
      BY <1>2, <2>3, <3>1, <3>2
  <2>4. CASE field = "evaluated"
    <3>1. [c \in DOMAIN by |-> by[c]["evaluated"]]
              = [c \in C |-> count(E, c)]
      BY <1>3, <2>0
    <3>2. SumFunction([c \in C |-> count(E, c)]) = Cardinality(E)
      BY <1>6, CategoriesCount DEF C, count
    <3>. QED
      BY <1>2, <2>4, <3>1, <3>2
  <2>5. CASE field = "failed"
    <3>1. [c \in DOMAIN by |-> by[c]["failed"]]
              = [c \in C |-> count(O, c) - count(E, c)]
      BY <1>3, <2>0
    <3>2. SumFunction([c \in C |-> count(O, c) - count(E, c)])
              = Cardinality(O) - Cardinality(E)
      BY <1>6, CategoriesAddUp DEF C, count
    <3>. QED
      BY <1>2, <2>5, <3>1, <3>2
  <2>. QED
    BY <2>1, <2>2, <2>3, <2>4, <2>5
<1>. HIDE DEF sources, latest, C, O, E, overall, by, ids
<1>. QED
  BY <1>1, <1>2, <1>3, <1>5, <1>7, <1>9, <1>11, <1>12 DEF ConsistentSnapshot

-----------------------------------------------------------------------------
(* The history.                                                            *)

(* The phases an invocation does not leave for one before its save.        *)
Kept == Over \cup {"saved"}

(* Every run in the history is consistent and the only one of its id, and  *)
(* an invocation that may yet save is not there.                           *)
HInv ==
    /\ BInv
    /\ \A i \in 1 .. Len(history) : Consistent(history[i])
    /\ \A i, j \in 1 .. Len(history) : history[i].id = history[j].id => i = j
    /\ \A p \in Invocation :
           /\ run[p].id = p
           /\ phase[p] = "unsaved" => Consistent(run[p])
           /\ phase[p] \notin Kept => \A i \in 1 .. Len(history) : history[i].id # p

(* The runs of the initial history are of no invocation.                   *)
LEMMA HInvInit ==
    ASSUME Init
    PROVE  HInv
<1>1. BInv
  BY BInvInit
<1>2. history \in Stored /\ history \in Seq(SavedRun)
  BY RunsAssumption DEF Init
<1>3. DOMAIN history = 1 .. Len(history)
  BY <1>2
<1>4. \A i, j \in 1 .. Len(history) :
          /\ Consistent(history[i])
          /\ history[i].id \notin Invocation
          /\ history[i].id = history[j].id => i = j
  BY <1>2, <1>3, RunsAssumption
<1>5. \A p \in Invocation : phase[p] = "idle" /\ run[p].id = p
  BY DEF Init, Blank
<1>. QED
  BY <1>1, <1>4, <1>5 DEF HInv

(* A step of one invocation that saves nothing.                            *)
LEMMA NothingSaved ==
    ASSUME HInv, BInv', NEW p \in Invocation, history' = history,
           \A q \in Invocation \ {p} : phase'[q] = phase[q] /\ run'[q] = run[q],
           run'[p].id = p,
           phase'[p] = "unsaved" => Consistent(run'[p]),
           phase[p] \in Kept => phase'[p] \in Kept
    PROVE  HInv'
<1>1. ASSUME NEW q \in Invocation
      PROVE  /\ run'[q].id = q
             /\ phase'[q] = "unsaved" => Consistent(run'[q])
             /\ phase'[q] \notin Kept => phase[q] \notin Kept
  <2>1. CASE q = p
    BY <2>1
  <2>2. CASE q # p
    BY <2>2 DEF HInv
  <2>. QED
    BY <2>1, <2>2
<1>2. ASSUME NEW q \in Invocation
      PROVE  phase'[q] = "unsaved" => Consistent(run[q])'
  BY <1>1 DEF Consistent, Terminal, Last
<1>. QED
  BY <1>1, <1>2 DEF HInv

(* Each invocation saves once, under its own id.                           *)
LEMMA HInvNext ==
    ASSUME HInv, [Next]_vars
    PROVE  HInv'
<1>0. BInv /\ BInv' /\ phase \in [Invocation -> Phase] /\ run \in [Invocation -> SavedRun]
  BY BInvNext DEF HInv, BInv, Shape
<1>1. ASSUME NEW p \in Invocation, NEW place, Goto(p, place), place # "unsaved",
             phase[p] \in Kept => place \in Kept, UNCHANGED <<clock, run, history>>
      PROVE  HInv'
  BY <1>0, <1>1, NothingSaved DEF Goto, HInv
<1>2. ASSUME NEW p \in Invocation, Refuse(p) \/ StoreUnavailable(p)
      PROVE  HInv'
  BY <1>1, <1>2 DEF Refuse, StoreUnavailable, Kept, Over, Exits
<1>3. ASSUME NEW p \in Invocation, NEW config \in Config, Launch(p, config)
      PROVE  HInv'
  <2>1. run'[p].id = p
    BY <1>0, <1>3 DEF Launch, HInv, SavedRun
  <2>. QED
    BY <1>0, <1>3, <2>1, NothingSaved DEF Launch, Goto, Kept, Over, Exits
<1>4. ASSUME NEW p \in Invocation, NEW result \in Result, EndCase(p, result)
      PROVE  HInv'
  <2>1. run'[p].id = p
    BY <1>0, <1>4 DEF EndCase, HInv, SavedRun
  <2>. QED
    BY <1>0, <1>4, <2>1, NothingSaved DEF EndCase, Kept, Over, Exits
<1>5. ASSUME NEW p \in Invocation, Conclude(p)
      PROVE  HInv'
  <2>1. run'[p].id = p
    BY <1>0, <1>5 DEF Conclude, HInv, SavedRun
  <2>2. phase'[p] = "unsaved" => Consistent(run'[p])
    BY <1>0, <1>5 DEF Conclude, Goto
  <2>3. phase[p] \notin Kept
    BY <1>5 DEF Conclude, Kept, Over, Exits
  <2>. QED
    BY <1>0, <1>5, <2>1, <2>2, <2>3, NothingSaved DEF Conclude, Goto
<1>6. ASSUME NEW p \in Invocation, Save(p)
      PROVE  HInv'
  <2>1. /\ history \in Seq(SavedRun) /\ run[p] \in SavedRun
        /\ history' = Append(history, run[p])
        /\ run' = run /\ phase' = [phase EXCEPT ![p] = "saved"]
        /\ phase[p] = "unsaved"
    BY <1>0, <1>6 DEF Save, Goto, BInv, Shape
  <2>. DEFINE n == Len(history)
  <2>2. /\ n \in Nat /\ Len(history') = n + 1
        /\ \A i \in 1 .. n : history'[i] = history[i]
        /\ history'[n + 1] = run[p]
    BY <2>1
  <2>3. run[p].id = p /\ Consistent(run[p]) /\ \A i \in 1 .. n : history[i].id # p
    BY <2>1 DEF HInv, Kept, Over, Exits
  <2>4. \A i \in 1 .. Len(history') : i \in 1 .. n \/ i = n + 1
    BY <2>2
  <2>. HIDE DEF n
  <2>5. \A i \in 1 .. Len(history') : Consistent(history'[i])
    BY <2>2, <2>3, <2>4 DEF HInv, n
  <2>6. \A i, j \in 1 .. Len(history') : history'[i].id = history'[j].id => i = j
    BY <2>2, <2>3, <2>4 DEF HInv, n
  <2>7. ASSUME NEW q \in Invocation
        PROVE  /\ run'[q].id = q
               /\ phase'[q] = "unsaved" => Consistent(run'[q])
               /\ phase'[q] \notin Kept => \A i \in 1 .. Len(history') : history'[i].id # q
    <3>1. CASE q = p
      BY <1>0, <2>1, <2>3, <3>1 DEF Kept
    <3>2. CASE q # p
      <4>1. phase'[q] = phase[q] /\ run'[q] = run[q]
        BY <2>1, <3>2, <1>0
      <4>. QED
        BY <2>2, <2>3, <2>4, <3>2, <4>1 DEF HInv, n
    <3>. QED
      BY <3>1, <3>2
  <2>8. /\ \A i \in 1 .. Len(history') : Consistent(history[i])'
        /\ \A q \in Invocation : phase'[q] = "unsaved" => Consistent(run[q])'
    BY <2>5, <2>7 DEF Consistent, Terminal, Last
  <2>. QED
    BY <1>0, <2>6, <2>7, <2>8 DEF HInv
<1>7. ASSUME NEW p \in Invocation, NEW place \in {"exit_4", "crashed"}, Lose(p, place)
      PROVE  HInv'
  <2>1. run'[p].id = p /\ phase'[p] = place /\ place \in Kept /\ place # "unsaved"
    BY <1>0, <1>7 DEF Lose, Goto, Blank, Kept, Over, Exits
  <2>. QED
    BY <1>0, <1>7, <2>1, NothingSaved DEF Lose, Goto
<1>8. ASSUME NEW p \in Invocation, CaseRaises(p) \/ SaveFails(p) \/ Crash(p)
      PROVE  HInv'
  BY <1>7, <1>8 DEF CaseRaises, SaveFails, Crash
<1>9. ASSUME NEW p \in Invocation, Exit(p)
      PROVE  HInv'
  <2>1. CASE Lose(p, "exit_4")
    BY <1>7, <2>1
  <2>2. CASE /\ Goto(p, "exit_4") \/ Goto(p, IF AuthenticationFailed(run[p]) THEN "exit_3" ELSE "exit_0")
             /\ UNCHANGED <<clock, run, history>>
    <3>. DEFINE place == IF AuthenticationFailed(run[p]) THEN "exit_3" ELSE "exit_0"
    <3>1. place \in Kept /\ place # "unsaved" /\ "exit_4" \in Kept
      BY DEF Kept, Over, Exits
    <3>. HIDE DEF place
    <3>. QED
      BY <1>1, <2>2, <3>1 DEF place
  <2>. QED
    BY <1>9, <2>1, <2>2 DEF Exit
<1>10. CASE UNCHANGED <<phase, run, history>>
  BY <1>0, <1>10 DEF HInv, Consistent, Terminal, Last
<1>. QED
  BY <1>2, <1>3, <1>4, <1>5, <1>6, <1>8, <1>9, <1>10
     DEF Next, Proceed, Tick, ClockSetBack, vars

(* The invariant of the history holds in every behaviour.                  *)
LEMMA HInvAlways == Spec => []HInv
<1>1. Init => HInv
  BY HInvInit
<1>2. HInv /\ [Next]_vars => HInv'
  BY HInvNext
<1>. QED
  BY <1>1, <1>2, PTL DEF Spec

(* What the lemmas about aggregation ask of a history.                     *)
LEMMA HistoryFit ==
    ASSUME HInv
    PROVE  /\ history \in Seq(SavedRun)
           /\ Unique(ToSet(history))
           /\ \A r \in ToSet(history) : Consistent(r)
<1>1. history \in Seq(SavedRun) /\ DOMAIN history = 1 .. Len(history)
  BY DEF HInv, BInv, Shape
<1>2. \A r \in ToSet(history) : \E i \in 1 .. Len(history) : r = history[i]
  BY <1>1 DEF ToSet
<1>. QED
  BY <1>1, <1>2 DEF HInv, Unique

(* The evidence for a case is the newest run that attempted it, in         *)
(* whatever order the runs were saved.                                     *)
THEOREM LatestAttempts == Spec => []LatestAttemptWins
<1>1. ASSUME HInv
      PROVE  LatestAttemptWins
  BY <1>1, HistoryFit, SourceIsNewest DEF LatestAttemptWins, AttemptsOf, Newest
<1>. QED
  BY <1>1, HInvAlways, PTL

(* The validators accept the snapshot of every history of one              *)
(* configuration.                                                          *)
THEOREM SnapshotSafety == Spec => []SnapshotUnlessMixed
<1>1. ASSUME HInv
      PROVE  SnapshotUnlessMixed
  BY <1>1, HistoryFit, SnapshotIsConsistent DEF SnapshotUnlessMixed
<1>. QED
  BY <1>1, HInvAlways, PTL

(* If a case was attempted there is a newest run that attempted it.        *)
LEMMA SomeNewest ==
    ASSUME NEW runs \in Seq(SavedRun), Unique(ToSet(runs)), NEW i,
           AttemptsOf(runs, i) # {}
    PROVE  Newest(AttemptsOf(runs, i)) # {}
<1>. DEFINE S == ToSet(runs)
            n == Cardinality(S)
            order == Ordered(runs)
            places == {k \in 1 .. n : i \in Attempted(order[k])}
<1>1. n \in Nat /\ Sorts(order, S)
  BY OrderedSorts
<1>2. AttemptsOf(runs, i) = {r \in S : i \in Attempted(r)}
  BY DEF AttemptsOf
<1>. HIDE DEF S, order, n
<1>3. /\ order \in [1 .. n -> S]
      /\ \A r \in S : \E k \in 1 .. n : order[k] = r
      /\ \A k, l \in 1 .. n : k < l => Before(order[k], order[l])
  BY <1>1 DEF Sorts, n
<1>4. places # {} /\ places \in SUBSET (1 .. n)
  BY <1>2, <1>3
<1>5. PICK k : Ends(places, k)
  BY <1>1, <1>4, LastPlace
<1>6. order[k] \in AttemptsOf(runs, i)
  BY <1>2, <1>3, <1>5 DEF Ends
<1>7. ASSUME NEW s \in AttemptsOf(runs, i) \ {order[k]}
      PROVE  Before(s, order[k])
  <2>1. PICK l \in 1 .. n : order[l] = s
    BY <1>2, <1>3
  <2>2. l \in places /\ k \in 1 .. n /\ l # k
    BY <1>2, <1>5, <2>1 DEF Ends
  <2>3. l <= k
    BY <1>5, <2>2 DEF Ends
  <2>4. l < k
    BY <1>1, <2>2, <2>3
  <2>. QED
    BY <1>3, <2>1, <2>2, <2>4
<1>. QED
  BY <1>6, <1>7 DEF Newest

(* More runs bring newer evidence for a case, or leave what there was.     *)
LEMMA MoreRuns ==
    ASSUME NEW runs \in Seq(SavedRun), Unique(ToSet(runs)),
           NEW more \in Seq(SavedRun), Unique(ToSet(more)),
           ToSet(runs) \subseteq ToSet(more),
           NEW i \in Cases, NEW old \in Sources(runs)[i]
    PROVE  \E new \in Sources(more)[i] : new = old \/ Before(old, new)
<1>1. old \in AttemptsOf(runs, i)
  BY SourceIsNewest DEF Newest
<1>2. old \in AttemptsOf(more, i)
  BY <1>1 DEF AttemptsOf
<1>3. PICK new : new \in Newest(AttemptsOf(more, i))
  BY <1>2, SomeNewest
<1>4. new = old \/ Before(old, new)
  BY <1>2, <1>3 DEF Newest
<1>. QED
  BY <1>3, <1>4, SourceIsNewest

(* The store only appends.                                                 *)
LEMMA HistoryGrows ==
    ASSUME HInv, [Next]_vars
    PROVE  ToSet(history) \subseteq ToSet(history')
<1>1. history \in Seq(SavedRun) /\ run \in [Invocation -> SavedRun]
  BY DEF HInv, BInv, Shape
<1>2. history' = history \/ \E p \in Invocation : history' = Append(history, run[p])
  BY DEF Next, Proceed, Refuse, StoreUnavailable, Launch, EndCase, CaseRaises, Conclude,
         Save, SaveFails, Exit, Crash, Lose, Tick, ClockSetBack, vars
<1>3. ASSUME NEW p \in Invocation, history' = Append(history, run[p])
      PROVE  ToSet(history) \subseteq ToSet(history')
  <2>1. /\ Len(history) \in Nat
        /\ DOMAIN history = 1 .. Len(history)
        /\ DOMAIN history' = 1 .. Len(history) + 1
        /\ \A i \in 1 .. Len(history) : history'[i] = history[i]
    BY <1>1, <1>3
  <2>2. \A i \in DOMAIN history : i \in DOMAIN history'
    BY <2>1
  <2>. QED
    BY <2>1, <2>2 DEF ToSet
<1>. QED
  BY <1>2, <1>3

(* A step never takes evidence away but for newer evidence.                *)
THEOREM EvidenceKept == Spec => EvidenceOnlyReplacedByNewer
<1>. DEFINE Replaced ==
                \A i \in Cases : \A old \in Sources(history)[i] :
                    \E new \in Sources(history')[i] : new = old \/ Before(old, new)
            Fit == history \in Seq(SavedRun) /\ Unique(ToSet(history))
<1>1. HInv => Fit
  BY HistoryFit
<1>2. ASSUME HInv, Fit, Fit', [Next]_vars
      PROVE  Replaced
  <2>1. ToSet(history) \subseteq ToSet(history')
    BY <1>2, HistoryGrows
  <2>. QED
    BY <1>2, <2>1, MoreRuns
<1>3. HInv /\ Fit /\ Fit' /\ [Next]_vars => [Replaced]_vars
  BY <1>2
<1>. HIDE DEF Replaced, Fit
<1>4. Spec => [][Replaced]_vars
  BY <1>1, <1>3, HInvAlways, PTL DEF Spec
<1>. QED
  BY <1>4 DEF EvidenceOnlyReplacedByNewer, Replaced
=============================================================================
