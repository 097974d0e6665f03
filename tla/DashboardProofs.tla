--------------------------- MODULE DashboardProofs ---------------------------
(***************************************************************************)
(* Theorems about DashboardReads: whatever the order in which effects run, *)
(* the user acts and answers come in, a slot has one read at most, the     *)
(* read of its newest key, and what it shows is what was asked of it last. *)
(***************************************************************************)
EXTENDS DashboardReads, FiniteSetTheorems, TLAPS

-----------------------------------------------------------------------------
(* Keys only grow: a refresh or a selection adds to one of their parts.    *)
Keys == Int \X Nat

AtMost(k, l) == k[1] <= l[1] /\ k[2] <= l[2]

Outcomes == SUBSET {"answer", "timeout"}

Read ==
    [slot : Slot, key : Keys, of : Keys, waiting : SUBSET (Resource \cup {"answer"}),
     body : SUBSET (Resource \cup {"answer"}), outcomes : Outcomes]

Result == [key : Keys, of : Keys, outcomes : Outcomes]

Typed ==
    /\ refreshKey \in Nat
    /\ version \in [Panel -> Nat]
    /\ effect \in [Panel -> Keys]
    /\ DOMAIN current = Slot
    /\ result \in [Slot -> Result]
    /\ reads \subseteq Read

(* A read under way is its slot's only one and its controller's; nothing   *)
(* was shown for its key yet.                                              *)
Owned(read) ==
    /\ mounted
    /\ read.key = current[read.slot]
    /\ read.key # NoKey
    /\ read.of = read.key
    /\ \A other \in reads : other.slot = read.slot => other = read
    /\ IF read.slot = "metrics" THEN result["metrics"] = NoResult
                                ELSE result[read.slot].key # read.key

(* A panel's result is of a key its effect ran for, and no effect runs for *)
(* a key that was not asked for.                                           *)
Ordered(panel) ==
    /\ AtMost(NoKey, result[panel].key)
    /\ AtMost(result[panel].key, effect[panel])
    /\ AtMost(effect[panel], Asked(panel))
    /\ mounted => current[panel] = effect[panel]

DInv ==
    /\ Typed
    /\ \A read \in reads : Owned(read)
    /\ \A slot \in Slot : result[slot].of = result[slot].key
    /\ \A panel \in Panel : Ordered(panel)
    /\ mounted => current["metrics"] = <<refreshKey, 1>>
    /\ result["metrics"] # NoResult => result["metrics"].key = <<refreshKey, 1>>

(* The page's own slot is none of the panels'.                              *)
LEMMA Slots == "metrics" \notin Panel /\ Panel \subseteq Slot /\ "metrics" \in Slot
BY DashboardAssumption DEF Slot

(* Keys are ordered by their parts.                                         *)
LEMMA KeysGrow ==
    /\ NoKey \in Keys
    /\ \A k \in Keys : AtMost(k, k)
    /\ \A k, l \in Keys : AtMost(k, l) /\ AtMost(l, k) => k = l
    /\ \A k, l, m \in Keys : AtMost(k, l) /\ AtMost(l, m) => AtMost(k, m)
BY DEF Keys, NoKey, AtMost

(* What is asked of a slot is a key.                                        *)
LEMMA AskedKey ==
    ASSUME Typed, NEW slot \in Slot
    PROVE  Asked(slot) \in Keys
BY DEF Typed, Slot, Asked, Keys, NoKey

(* What is asked of a panel grows with refreshes and selections.            *)
LEMMA AskedGrows ==
    ASSUME Typed, Typed', NEW panel \in Panel,
           refreshKey <= refreshKey', version[panel] <= version'[panel]
    PROVE  /\ Asked(panel) \in Keys /\ Asked(panel)' \in Keys
           /\ AtMost(Asked(panel), Asked(panel)')
<1>1. /\ panel # "metrics"
      /\ refreshKey \in Nat /\ refreshKey' \in Nat
      /\ version[panel] \in Nat /\ version'[panel] \in Nat
  BY Slots DEF Typed
<1>2. Asked(panel) \in Keys /\ Asked(panel)' \in Keys
  BY <1>1 DEF Asked, Keys, NoKey
<1>3. CASE version[panel] = 0
  <2>1. Asked(panel) = <<-1, 0>>
    BY <1>1, <1>3 DEF Asked, NoKey
  <2>2. Asked(panel)'[1] >= -1 /\ Asked(panel)'[2] >= 0
    BY <1>1 DEF Asked, NoKey
  <2>. QED
    BY <1>2, <2>1, <2>2 DEF AtMost
<1>4. CASE version[panel] # 0
  <2>1. /\ Asked(panel) = <<refreshKey, version[panel]>>
        /\ Asked(panel)' = <<refreshKey', version'[panel]>>
    BY <1>1, <1>4 DEF Asked
  <2>. QED
    BY <1>1, <1>2, <2>1 DEF AtMost
<1>. QED
  BY <1>2, <1>3, <1>4

(* A read that is aborted rejects when its slot has a new owner already.   *)
LEMMA AbortKeeps ==
    ASSUME DInv, NEW slot \in Slot, NEW owner, current[slot] # owner, NEW before
    PROVE  AfterAbort(slot, owner, before) = before
<1>1. CASE ReadsOf(slot) = {}
  BY <1>1 DEF AfterAbort
<1>2. CASE ReadsOf(slot) # {}
  <2>1. PICK r : r = CHOOSE old \in ReadsOf(slot) : TRUE
    OBVIOUS
  <2>2. r \in reads /\ r.slot = slot
    BY <1>2, <2>1 DEF ReadsOf
  <2>3. ~IsCurrent(r, owner)
    BY <2>2 DEF DInv, Owned, IsCurrent
  <2>. QED
    BY <1>2, <2>1, <2>3 DEF AfterAbort
<1>. QED
  BY <1>1, <1>2

(* The page starts with no answer to anything.                              *)
LEMMA InitDInv == Init => DInv
<1>. SUFFICES ASSUME Init PROVE DInv
  OBVIOUS
<1>1. NoKey \in Keys /\ <<0, 1>> \in Keys /\ NoKey # <<0, 1>>
  BY DEF NoKey, Keys
<1>2. NoResult \in Result /\ NoResult.key = NoKey /\ NoResult.of = NoKey
  BY <1>1 DEF NoResult, Result, Outcomes
<1>3. NewRead("metrics", <<0, 1>>, <<0, 1>>) \in Read
  BY <1>1, Slots DEF NewRead, Read, Parts, Outcomes
<1>4. Typed
  BY <1>1, <1>2, <1>3 DEF Init, Typed
<1>5. \A read \in reads : Owned(read)
  BY <1>1, Slots DEF Init, Owned, NewRead
<1>6. \A panel \in Panel : Ordered(panel)
  <2>1. SUFFICES ASSUME NEW panel \in Panel PROVE Ordered(panel)
    OBVIOUS
  <2>2. /\ result[panel].key = NoKey /\ effect[panel] = NoKey
        /\ current[panel] = NoKey /\ panel # "metrics"
    BY <1>2, Slots DEF Init
  <2>3. AtMost(NoKey, Asked(panel)) /\ AtMost(NoKey, NoKey)
    BY <2>2 DEF Init, Asked, AtMost, NoKey
  <2>. QED
    BY <2>2, <2>3 DEF Ordered
<1>. QED
  BY <1>2, <1>4, <1>5, <1>6, Slots DEF Init, DInv

-----------------------------------------------------------------------------
(* The user and the effects.                                               *)

(* A selection asks for a new key; the read of the old one stays until the  *)
(* effect runs.                                                             *)
LEMMA SelectKeeps ==
    ASSUME DInv, NEW panel \in Panel, Select(panel)
    PROVE  DInv'
<1>1. /\ version' = [version EXCEPT ![panel] = @ + 1]
      /\ UNCHANGED <<mounted, refreshKey, effect, current, reads, result>>
  BY DEF Select
<1>2. Typed'
  BY <1>1 DEF DInv, Typed
<1>3. \A read \in reads : Owned(read)'
  BY <1>1 DEF DInv, Owned
<1>4. ASSUME NEW p \in Panel
      PROVE  Ordered(p)'
  <2>1. refreshKey <= refreshKey' /\ version[p] <= version'[p]
    BY <1>1 DEF DInv, Typed
  <2>2. /\ Asked(p) \in Keys /\ Asked(p)' \in Keys /\ effect[p] \in Keys
        /\ AtMost(Asked(p), Asked(p)')
    BY <1>2, <2>1, AskedGrows DEF DInv, Typed
  <2>4. AtMost(effect[p], Asked(p)')
    BY <2>2, KeysGrow DEF DInv, Ordered
  <2>. QED
    BY <1>1, <2>4 DEF DInv, Ordered
<1>. QED
  BY <1>1, <1>2, <1>3, <1>4 DEF DInv

(* A refresh clears the page's slot and starts its read, and asks every     *)
(* panel for a new key.                                                     *)
LEMMA RefreshKeeps ==
    ASSUME DInv, Refresh
    PROVE  DInv'
<1>. DEFINE key == <<refreshKey + 1, 1>>
            new == NewRead("metrics", key, key)
<1>1. /\ mounted /\ refreshKey' = refreshKey + 1 /\ refreshKey \in Nat
      /\ current' = [current EXCEPT !["metrics"] = key]
      /\ reads' = (reads \ ReadsOf("metrics")) \cup {new}
      /\ result' = [result EXCEPT !["metrics"] = AfterAbort("metrics", key, NoResult)]
      /\ UNCHANGED <<mounted, version, effect>>
  BY DEF Refresh, DInv, Typed
<1>2. current["metrics"] # key
  BY <1>1 DEF DInv
<1>3. result' = [result EXCEPT !["metrics"] = NoResult]
  BY <1>1, <1>2, AbortKeeps, Slots
<1>4. key \in Keys /\ key # NoKey /\ NoKey \in Keys
  BY <1>1 DEF Keys, NoKey
<1>5. /\ new.slot = "metrics" /\ new.key = key /\ new.of = key
      /\ new \in Read
  BY <1>4, Slots DEF NewRead, Read, Parts, Outcomes
<1>6. NoResult \in Result /\ NoResult.key = NoKey /\ NoResult.of = NoKey
  BY <1>4 DEF NoResult, Result, Outcomes
<1>. HIDE DEF new
<1>7. Typed'
  <2>1. reads' \subseteq Read
    BY <1>1, <1>5 DEF DInv, Typed
  <2>2. result' \in [Slot -> Result] /\ DOMAIN current' = Slot
    BY <1>1, <1>3, <1>6 DEF DInv, Typed
  <2>. QED
    BY <1>1, <2>1, <2>2 DEF DInv, Typed
<1>8. ASSUME NEW read \in reads'
      PROVE  Owned(read)'
  <2>1. CASE read = new
    <3>1. \A other \in reads' : other.slot = "metrics" => other = new
      BY <1>1 DEF ReadsOf
    <3>. QED
      BY <1>1, <1>3, <1>4, <1>5, <2>1, <3>1, Slots DEF Owned, DInv, Typed
  <2>2. CASE read \in reads /\ read.slot # "metrics"
    <3>1. Owned(read) /\ read.slot \in Slot
      BY <2>2 DEF DInv, Typed, Read
    <3>2. \A other \in reads' : other.slot = read.slot => other = read
      BY <1>1, <1>5, <2>2, <3>1 DEF Owned
    <3>. QED
      BY <1>1, <1>3, <2>2, <3>1, <3>2 DEF Owned, DInv, Typed
  <2>. QED
    BY <1>1, <2>1, <2>2 DEF ReadsOf
<1>9. ASSUME NEW p \in Panel
      PROVE  Ordered(p)'
  <2>1. p # "metrics" /\ p \in Slot
    BY Slots
  <2>2. refreshKey <= refreshKey' /\ version[p] <= version'[p]
    BY <1>1 DEF DInv, Typed
  <2>3. /\ Asked(p) \in Keys /\ Asked(p)' \in Keys /\ effect[p] \in Keys
        /\ AtMost(Asked(p), Asked(p)')
    BY <1>7, <2>2, AskedGrows DEF DInv, Typed
  <2>4. AtMost(effect[p], Asked(p)')
    BY <2>3, KeysGrow DEF DInv, Ordered
  <2>5. result'[p] = result[p] /\ current'[p] = current[p]
    BY <1>1, <1>3, <2>1 DEF DInv, Typed
  <2>. QED
    BY <1>1, <2>4, <2>5 DEF DInv, Ordered
<1>. QED
  BY <1>1, <1>3, <1>6, <1>7, <1>8, <1>9, Slots DEF DInv, Typed

(* An effect that runs has a key nothing was read for yet, so it loses no  *)
(* result.                                                                 *)
LEMMA EffectIsNew ==
    ASSUME DInv, NEW panel \in Panel, RunEffect(panel)
    PROVE  /\ result' = result
           /\ Key(panel) # NoKey
           /\ result[panel].key # Key(panel)
<1>1. mounted /\ effect[panel] # Key(panel) /\ panel \in Slot
  BY Slots DEF RunEffect
<1>2. /\ Key(panel) \in Keys /\ effect[panel] \in Keys /\ result[panel].key \in Keys
      /\ NoKey \in Keys
  BY <1>1, AskedKey, KeysGrow DEF Key, DInv, Typed, Result
<1>3. /\ AtMost(NoKey, result[panel].key) /\ AtMost(result[panel].key, effect[panel])
      /\ AtMost(effect[panel], Key(panel)) /\ current[panel] = effect[panel]
  BY <1>1 DEF DInv, Ordered, Key
<1>4. Key(panel) # NoKey /\ result[panel].key # Key(panel)
  BY <1>1, <1>2, <1>3, KeysGrow
<1>5. AfterAbort(panel, Key(panel), result[panel]) = result[panel]
  BY <1>1, <1>3, AbortKeeps
<1>6. result' = result
  BY <1>1, <1>5 DEF RunEffect, DInv, Typed
<1>. QED
  BY <1>4, <1>6

(* A panel's effect aborts the read of its old key and starts one of the    *)
(* new.                                                                     *)
LEMMA RunEffectKeeps ==
    ASSUME DInv, NEW panel \in Panel, RunEffect(panel)
    PROVE  DInv'
<1>. DEFINE key == Key(panel)
            new == NewRead(panel, key, Asked(panel))
<1>1. /\ mounted
      /\ effect' = [effect EXCEPT ![panel] = key]
      /\ current' = [current EXCEPT ![panel] = key]
      /\ reads' = (reads \ ReadsOf(panel)) \cup {new}
      /\ UNCHANGED <<mounted, refreshKey, version>>
  BY DEF RunEffect
<1>2. result' = result /\ key # NoKey /\ result[panel].key # key
  BY EffectIsNew
<1>3. panel \in Slot /\ panel # "metrics" /\ key = Asked(panel) /\ key \in Keys
  BY Slots, AskedKey DEF Key, DInv
<1>4. /\ new.slot = panel /\ new.key = key /\ new.of = key
      /\ new \in Read
  BY <1>3 DEF NewRead, Read, Parts, Outcomes
<1>. HIDE DEF new, key
<1>5. Typed'
  BY <1>1, <1>2, <1>3, <1>4 DEF DInv, Typed
<1>6. ASSUME NEW read \in reads'
      PROVE  Owned(read)'
  <2>1. CASE read = new
    <3>1. \A other \in reads' : other.slot = panel => other = new
      BY <1>1 DEF ReadsOf
    <3>. QED
      BY <1>1, <1>2, <1>3, <1>4, <2>1, <3>1 DEF Owned, DInv, Typed
  <2>2. CASE read \in reads /\ read.slot # panel
    <3>1. Owned(read) /\ read.slot \in Slot
      BY <2>2 DEF DInv, Typed, Read
    <3>2. \A other \in reads' : other.slot = read.slot => other = read
      BY <1>1, <1>4, <2>2, <3>1 DEF Owned
    <3>. QED
      BY <1>1, <1>2, <2>2, <3>1, <3>2 DEF Owned, DInv, Typed
  <2>. QED
    BY <1>1, <2>1, <2>2 DEF ReadsOf
<1>7. ASSUME NEW p \in Panel
      PROVE  Ordered(p)'
  <2>1. Asked(p)' = Asked(p)
    BY <1>1 DEF Asked
  <2>2. CASE p = panel
    <3>1. effect'[p] = key /\ current'[p] = key
      BY <1>1, <1>3, <2>2 DEF DInv, Typed
    <3>2. AtMost(result[p].key, key) /\ AtMost(key, key)
      <4>1. /\ result[p].key \in Keys /\ effect[p] \in Keys
            /\ AtMost(result[p].key, effect[p]) /\ AtMost(effect[p], key)
        BY <1>3, <2>2 DEF DInv, Typed, Result, Ordered
      <4>. QED
        BY <1>3, <4>1, KeysGrow
    <3>. QED
      BY <1>1, <1>2, <1>3, <2>1, <2>2, <3>1, <3>2 DEF DInv, Ordered
  <2>3. CASE p # panel
    <3>1. effect'[p] = effect[p] /\ current'[p] = current[p]
      BY <1>1, <2>3, Slots DEF DInv, Typed
    <3>. QED
      BY <1>1, <1>2, <2>1, <3>1 DEF DInv, Ordered
  <2>. QED
    BY <2>2, <2>3
<1>. QED
  BY <1>1, <1>2, <1>3, <1>5, <1>6, <1>7, Slots DEF DInv, Typed

(* Leaving the page aborts every read and changes nothing shown.            *)
LEMMA UnmountKeeps ==
    ASSUME DInv, Unmount
    PROVE  DInv' /\ result' = result
<1>1. /\ mounted /\ mounted' = FALSE
      /\ current' = [slot \in Slot |-> NoKey]
      /\ reads' = {}
      /\ result' = [slot \in Slot |-> AfterAbort(slot, NoKey, result[slot])]
      /\ UNCHANGED <<refreshKey, version, effect>>
  BY DEF Unmount
<1>2. ASSUME NEW slot \in Slot
      PROVE  AfterAbort(slot, NoKey, result[slot]) = result[slot]
  <2>1. CASE current[slot] # NoKey
    BY <2>1, AbortKeeps
  <2>2. CASE current[slot] = NoKey
    <3>1. ReadsOf(slot) = {}
      BY <2>2 DEF ReadsOf, DInv, Owned
    <3>. QED
      BY <3>1 DEF AfterAbort
  <2>. QED
    BY <2>1, <2>2
<1>3. result' = result
  BY <1>1, <1>2 DEF DInv, Typed
<1>4. Typed' /\ \A read \in reads' : Owned(read)'
  BY <1>1, <1>3 DEF DInv, Typed
<1>5. ASSUME NEW p \in Panel
      PROVE  Ordered(p)'
  BY <1>1, <1>3 DEF DInv, Ordered, Asked
<1>. QED
  BY <1>1, <1>3, <1>4, <1>5 DEF DInv

-----------------------------------------------------------------------------
(* Answers.                                                                *)

(* A read goes on with less to wait for ...                                *)
GoesOn(read, after) ==
    /\ after \in Read
    /\ after.slot = read.slot /\ after.key = read.key /\ after.of = read.of
    /\ reads' = (reads \ {read}) \cup {after}
    /\ UNCHANGED <<mounted, refreshKey, version, effect, current, result>>

(* ... or ends, and is shown.                                              *)
EndsWith(read, shown) ==
    /\ shown \in Result /\ shown.key = read.key /\ shown.of = read.of
    /\ reads' = reads \ {read}
    /\ result' = [result EXCEPT ![read.slot] = shown]
    /\ UNCHANGED <<mounted, refreshKey, version, effect, current>>

(* An answer's headers leave a read waiting for a body.                     *)
LEMMA HeadersOfRead ==
    ASSUME DInv, NEW read \in reads, NEW part \in Parts(read.slot), Headers(read, part)
    PROVE  \E after : GoesOn(read, after)
<1>1. read \in Read /\ part \in Resource \cup {"answer"}
  BY DEF DInv, Typed, Parts
<1>2. PICK after :
         after = [read EXCEPT !.waiting = @ \ {part}, !.body = @ \cup {part}]
  OBVIOUS
<1>3. /\ after \in Read
      /\ after.slot = read.slot /\ after.key = read.key /\ after.of = read.of
  BY <1>1, <1>2 DEF Read
<1>. QED
  BY <1>2, <1>3 DEF Headers, GoesOn

(* A part that ends leaves a read waiting for the others, or ends it.       *)
LEMMA SettleOfRead ==
    ASSUME DInv, NEW read \in reads, NEW part \in Parts(read.slot),
           NEW outcome \in {"answer", "timeout"}, Settle(read, part, outcome)
    PROVE  (\E after : GoesOn(read, after)) \/ (\E shown : EndsWith(read, shown))
<1>1. read \in Read /\ Owned(read)
  BY DEF DInv, Typed
<1>2. PICK after :
         after = [read EXCEPT !.waiting = @ \ {part}, !.body = @ \ {part},
                              !.outcomes = @ \cup {outcome}]
  OBVIOUS
<1>3. /\ after \in Read
      /\ after.slot = read.slot /\ after.key = read.key /\ after.of = read.of
  BY <1>1, <1>2 DEF Read, Outcomes
<1>4. CASE after.waiting \cup after.body = {}
  <2>1. /\ reads' = reads \ {read}
        /\ result' = [result EXCEPT ![read.slot] = Shown(after, current[read.slot])]
        /\ UNCHANGED <<mounted, refreshKey, version, effect, current>>
    BY <1>2, <1>4 DEF Settle
  <2>2. PICK shown :
           shown = [key |-> after.key, of |-> after.of, outcomes |-> after.outcomes]
    OBVIOUS
  <2>3. Shown(after, current[read.slot]) = shown
    BY <1>1, <1>3, <2>2 DEF Shown, IsCurrent, Owned
  <2>4. shown \in Result /\ shown.key = read.key /\ shown.of = read.of
    BY <1>3, <2>2 DEF Read, Result
  <2>. QED
    BY <2>1, <2>3, <2>4 DEF EndsWith
<1>5. CASE after.waiting \cup after.body # {}
  BY <1>2, <1>3, <1>5 DEF Settle, GoesOn
<1>. QED
  BY <1>4, <1>5

(* A read that goes on is still its slot's only one.                        *)
LEMMA GoesOnKeeps ==
    ASSUME DInv, NEW read \in reads, NEW after, GoesOn(read, after)
    PROVE  DInv'
<1>1. /\ after \in Read
      /\ after.slot = read.slot /\ after.key = read.key /\ after.of = read.of
      /\ reads' = (reads \ {read}) \cup {after}
      /\ UNCHANGED <<mounted, refreshKey, version, effect, current, result>>
  BY DEF GoesOn
<1>2. Typed'
  BY <1>1 DEF DInv, Typed
<1>3. ASSUME NEW r \in reads'
      PROVE  Owned(r)'
  <2>1. CASE r = after
    <3>1. Owned(read)
      BY DEF DInv
    <3>2. \A other \in reads' : other.slot = after.slot => other = after
      BY <1>1, <3>1 DEF Owned
    <3>. QED
      BY <1>1, <2>1, <3>1, <3>2 DEF Owned
  <2>2. CASE r \in reads /\ r # read
    <3>1. Owned(r) /\ r.slot # read.slot
      BY <2>2 DEF DInv, Owned
    <3>2. \A other \in reads' : other.slot = r.slot => other = r
      BY <1>1, <3>1 DEF Owned
    <3>. QED
      BY <1>1, <3>1, <3>2 DEF Owned
  <2>. QED
    BY <1>1, <2>1, <2>2
<1>4. \A p \in Panel : Ordered(p)'
  BY <1>1 DEF DInv, Ordered, Asked
<1>. QED
  BY <1>1, <1>2, <1>3, <1>4 DEF DInv

(* A read that ends shows what it was given, under its own key.             *)
LEMMA EndsWithKeeps ==
    ASSUME DInv, NEW read \in reads, NEW shown, EndsWith(read, shown)
    PROVE  DInv'
<1>1. /\ shown \in Result /\ shown.key = read.key /\ shown.of = read.of
      /\ reads' = reads \ {read}
      /\ result' = [result EXCEPT ![read.slot] = shown]
      /\ UNCHANGED <<mounted, refreshKey, version, effect, current>>
  BY DEF EndsWith
<1>2. /\ read \in Read /\ read.slot \in Slot
      /\ mounted /\ read.key = current[read.slot] /\ read.key # NoKey
      /\ read.of = read.key
      /\ \A other \in reads : other.slot = read.slot => other = read
  BY DEF DInv, Typed, Owned, Read
<1>3. result'[read.slot] = shown
      /\ \A slot \in Slot \ {read.slot} : result'[slot] = result[slot]
  BY <1>1, <1>2 DEF DInv, Typed
<1>4. Typed'
  BY <1>1, <1>2 DEF DInv, Typed
<1>5. ASSUME NEW r \in reads'
      PROVE  Owned(r)'
  <2>1. r \in reads /\ r # read /\ Owned(r) /\ r.slot # read.slot /\ r.slot \in Slot
    BY <1>1, <1>2 DEF DInv, Typed, Read
  <2>. QED
    BY <1>1, <1>3, <2>1, Slots DEF Owned
<1>6. ASSUME NEW p \in Panel
      PROVE  Ordered(p)'
  <2>1. Asked(p)' = Asked(p)
    BY <1>1 DEF Asked
  <2>2. CASE p = read.slot
    <3>1. result'[p].key = effect[p]
      BY <1>1, <1>2, <1>3, <2>2 DEF DInv, Ordered
    <3>2. /\ effect[p] \in Keys /\ result[p].key \in Keys
          /\ AtMost(NoKey, result[p].key) /\ AtMost(result[p].key, effect[p])
      BY Slots DEF DInv, Typed, Result, Ordered
    <3>3. AtMost(NoKey, effect[p]) /\ AtMost(effect[p], effect[p])
      BY <3>2, KeysGrow
    <3>. QED
      BY <1>1, <2>1, <3>1, <3>3 DEF DInv, Ordered
  <2>3. CASE p # read.slot
    <3>1. result'[p] = result[p]
      BY <1>3, <2>3, Slots
    <3>. QED
      BY <1>1, <2>1, <3>1 DEF DInv, Ordered
  <2>. QED
    BY <2>2, <2>3
<1>7. \A slot \in Slot : result'[slot].of = result'[slot].key
  BY <1>1, <1>2, <1>3 DEF DInv
<1>8. result'["metrics"] # NoResult => result'["metrics"].key = <<refreshKey', 1>>
  <2>1. CASE read.slot = "metrics"
    BY <1>1, <1>2, <1>3, <2>1 DEF DInv
  <2>2. CASE read.slot # "metrics"
    BY <1>1, <1>3, <2>2, Slots DEF DInv
  <2>. QED
    BY <2>1, <2>2
<1>. QED
  BY <1>1, <1>4, <1>5, <1>6, <1>7, <1>8 DEF DInv

(* Every step but the user's and the effects' is one of these two.         *)
LEMMA ReadSteps ==
    ASSUME DInv,
           \/ \E read \in reads : \E part \in Parts(read.slot) :
                  Headers(read, part) \/ Answer(read, part) \/ Fail(read, part)
           \/ TimesOut
    PROVE  \E read \in reads :
              (\E after : GoesOn(read, after)) \/ (\E shown : EndsWith(read, shown))
<1>1. ASSUME NEW read \in reads, NEW part \in Parts(read.slot), Headers(read, part)
      PROVE  \E after : GoesOn(read, after)
  BY <1>1, HeadersOfRead
<1>2. ASSUME NEW read \in reads, NEW part \in Parts(read.slot),
             NEW outcome \in {"answer", "timeout"}, Settle(read, part, outcome)
      PROVE  (\E after : GoesOn(read, after)) \/ (\E shown : EndsWith(read, shown))
  BY <1>2, SettleOfRead
<1>. QED
  BY <1>1, <1>2 DEF Answer, Fail, TimesOut, TimeOut

(* Every step of the page, the user and the server keeps the invariant.     *)
LEMMA NextDInv == DInv /\ [Next]_vars => DInv'
<1>. SUFFICES ASSUME DInv, [Next]_vars PROVE DInv'
  OBVIOUS
<1>1. CASE UNCHANGED vars
  BY <1>1 DEF vars, DInv, Typed, Owned, Ordered, Asked
<1>2. CASE \E panel \in Panel : Select(panel) \/ RunEffect(panel)
  BY <1>2, SelectKeeps, RunEffectKeeps
<1>3. CASE Refresh
  BY <1>3, RefreshKeeps
<1>4. CASE \/ \E read \in reads : \E part \in Parts(read.slot) :
                  Headers(read, part) \/ Answer(read, part) \/ Fail(read, part)
           \/ TimesOut
  BY <1>4, ReadSteps, GoesOnKeeps, EndsWithKeeps
<1>5. CASE Unmount
  BY <1>5, UnmountKeeps
<1>. QED
  BY <1>1, <1>2, <1>3, <1>4, <1>5 DEF Next

-----------------------------------------------------------------------------
(* Theorems.                                                               *)

(* What a slot shows was read for what it was asked last.                  *)
LEMMA VisibleKey ==
    ASSUME DInv, NEW slot \in Slot, Visible(slot) = "result"
    PROVE  /\ result[slot].key = Asked(slot)
           /\ slot # "metrics" =>
                  /\ effect[slot] = Asked(slot)
                  /\ version[slot] # 0
<1>1. CASE slot = "metrics"
  BY <1>1 DEF Visible, DInv, Asked
<1>2. CASE slot # "metrics"
  <2>1. slot \in Panel /\ Key(slot) # NoKey /\ result[slot].key = Asked(slot)
    BY <1>2 DEF Visible, Key, Slot
  <2>2. version[slot] # 0
    BY <1>2, <2>1 DEF Key, Asked
  <2>3. effect[slot] \in Keys /\ Asked(slot) \in Keys
    BY <2>1, AskedKey DEF DInv, Typed
  <2>4. effect[slot] = Asked(slot)
    BY <2>1, <2>3, KeysGrow DEF DInv, Ordered
  <2>. QED
    BY <2>1, <2>2, <2>4
<1>. QED
  BY <1>1, <1>2

(* A slot has one request at most, of its newest key, and none outlives    *)
(* the page, for any number of refreshes and selections (lib/api.ts,       *)
(* components/benchmark-dashboard.tsx).                                    *)
THEOREM ReadsSafety == Spec => []OnlyLatestReads
<1>1. DInv => OnlyLatestReads
  <2>. SUFFICES ASSUME DInv PROVE OnlyLatestReads
    OBVIOUS
  <2>1. ASSUME NEW slot \in Slot
        PROVE  Cardinality(ReadsOf(slot)) <= 1
    <3>1. CASE ReadsOf(slot) = {}
      BY <3>1, FS_EmptySet
    <3>2. CASE ReadsOf(slot) # {}
      <4>1. PICK read : read \in ReadsOf(slot)
        BY <3>2
      <4>2. ReadsOf(slot) = {read}
        BY <4>1 DEF ReadsOf, DInv, Owned
      <4>. QED
        BY <4>2, FS_Singleton
    <3>. QED
      BY <3>1, <3>2
  <2>. QED
    BY <2>1 DEF OnlyLatestReads, DInv, Owned
<1>. QED
  BY InitDInv, NextDInv, <1>1, PTL DEF Spec

(* A result on the screen is of a read begun after the user's last request *)
(* of its slot and never tells of a cancellation, whatever the order of    *)
(* renders, effects and answers.                                           *)
THEOREM ShownSafety == Spec => []ShownAsAsked
<1>1. DInv => ShownAsAsked
  <2>. SUFFICES ASSUME DInv, NEW slot \in Slot, Visible(slot) = "result"
                PROVE  /\ result[slot].of = Asked(slot)
                       /\ "cancelled" \notin result[slot].outcomes
    BY DEF ShownAsAsked
  <2>1. result[slot].of = Asked(slot)
    BY VisibleKey DEF DInv
  <2>2. result[slot].outcomes \in Outcomes
    BY DEF DInv, Typed, Result
  <2>. QED
    BY <2>1, <2>2 DEF Outcomes
<1>. QED
  BY InitDInv, NextDInv, <1>1, PTL DEF Spec

(* What is shown stays until the user asks for something else: no late,    *)
(* cancelled or doubled answer replaces it or takes it back to loading.    *)
THEOREM ResultsSafety == Spec => ResultsStay
<1>1. DInv /\ [Next]_vars =>
         [\A slot \in Slot :
             Visible(slot) = "result" /\ Asked(slot)' = Asked(slot)
                 => Visible(slot)' = "result" /\ result[slot]' = result[slot]]_vars
  <2>. SUFFICES ASSUME DInv, [Next]_vars, NEW slot \in Slot,
                       Visible(slot) = "result", Asked(slot)' = Asked(slot)
                PROVE  Visible(slot)' = "result" /\ result'[slot] = result[slot]
    OBVIOUS
  <2>1. SUFFICES result'[slot] = result[slot]
    BY DEF Visible, Key
  <2>2. CASE UNCHANGED vars
    BY <2>2 DEF vars
  <2>3. ASSUME NEW panel \in Panel, Select(panel) \/ RunEffect(panel)
        PROVE  result'[slot] = result[slot]
    BY <2>3, EffectIsNew DEF Select
  <2>4. CASE Refresh
    <3>1. slot # "metrics"
      BY <2>4 DEF Refresh, Asked, DInv, Typed
    <3>. QED
      BY <2>4, <3>1 DEF Refresh, DInv, Typed
  <2>5. ASSUME NEW read \in reads, NEW after, GoesOn(read, after)
        PROVE  result'[slot] = result[slot]
    BY <2>5 DEF GoesOn
  <2>6. ASSUME NEW read \in reads, NEW shown, EndsWith(read, shown)
        PROVE  result'[slot] = result[slot]
    <3>1. read.slot # slot
      <4>. SUFFICES ASSUME read.slot = slot PROVE FALSE
        OBVIOUS
      <4>1. Owned(read)
        BY DEF DInv
      <4>2. CASE slot = "metrics"
        BY <4>1, <4>2 DEF Owned, Visible
      <4>3. CASE slot # "metrics"
        <5>1. result[slot].key = effect[slot] /\ slot \in Panel
          BY <4>3, VisibleKey DEF Slot
        <5>2. read.key = effect[slot]
          BY <4>1, <5>1 DEF Owned, DInv, Ordered
        <5>. QED
          BY <4>1, <4>3, <5>1, <5>2 DEF Owned
      <4>. QED
        BY <4>2, <4>3
    <3>. QED
      BY <2>6, <3>1 DEF EndsWith, DInv, Typed
  <2>7. CASE Unmount
    BY <2>7, UnmountKeeps
  <2>. QED
    BY <2>2, <2>3, <2>4, <2>5, <2>6, <2>7, ReadSteps DEF Next
<1>. QED
  BY InitDInv, NextDInv, <1>1, PTL DEF Spec, ResultsStay
=============================================================================
