---------------------------- MODULE DashboardReads ----------------------------
(***************************************************************************)
(* How the dashboard reads and what it shows: fetchJson, LatestRequest,    *)
(* useRead and the page's load and refresh.                                *)
(*                                                                         *)
(* The page reads all metrics resources together; the benchmark panels     *)
(* have one request each.  A panel's read is begun by an effect that runs  *)
(* some time after the render that changed the panel's key; an answer may  *)
(* come in between.  Whatever a promise triggers runs to its end before    *)
(* the next event, so settling a request and showing its result are one    *)
(* step.  What the server sends is left out: an answer is data or an error *)
(* alike; a deadline or a cancellation is told apart from it.              *)
(***************************************************************************)
EXTENDS Integers, FiniteSets

CONSTANTS
    Panel,        \* the benchmark panels
    Resource,     \* the metrics resources the page reads together
    MaxAsks       \* bound: refreshes, and selections in each panel

ASSUME DashboardAssumption ==
    /\ Panel \subseteq {"runs", "detail", "quality"}
    /\ Resource # {}
    /\ MaxAsks \in Nat \ {0}

VARIABLES
    mounted,
    refreshKey,   \* benchmarkRefresh, bumped by each Refresh
    version,      \* of each panel's filters, run or target; 0 before the first
    effect,       \* the key each panel's effect last ran for
    current,      \* the read each slot's controller belongs to
    reads,        \* the requests under way
    result        \* the last result each slot was given

vars == <<mounted, refreshKey, version, effect, current, reads, result>>

Slot == Panel \cup {"metrics"}
Parts(slot) == IF slot = "metrics" THEN Resource ELSE {"answer"}

NoKey == <<-1, 0>>
NoResult == [key |-> NoKey, of |-> NoKey, outcomes |-> {}]

(* What the user has asked a slot for.                                     *)
Asked(slot) ==
    IF slot = "metrics" THEN <<refreshKey, 1>>
    ELSE IF version[slot] = 0 THEN NoKey
    ELSE <<refreshKey, version[slot]>>

(* Mutant of Key: Refresh does not change the key.                         *)
KeyWithoutRefresh(panel) ==
    IF version[panel] = 0 THEN NoKey ELSE <<0, version[panel]>>

(* The key a panel renders with.                                           *)
Key(panel) == Asked(panel)

(* What a slot shows: nothing, that it is loading, or a result.  The page  *)
(* is told to show that it is loading, a panel infers it from its key.     *)
Visible(slot) ==
    IF slot = "metrics"
    THEN IF result[slot] = NoResult THEN "loading" ELSE "result"
    ELSE IF Key(slot) = NoKey THEN "idle"
    ELSE IF result[slot].key = Key(slot) THEN "result"
    ELSE "loading"

-----------------------------------------------------------------------------
(* One read: a request for each part, first without headers.               *)
NewRead(slot, key, of) ==
    [slot |-> slot, key |-> key, of |-> of,
     waiting |-> Parts(slot), body |-> {}, outcomes |-> {}]

ReadsOf(slot) == {r \in reads : r.slot = slot}

(* isCurrent, or the page's sequence number: owner is the slot's read now. *)
IsCurrent(read, owner) == read.key = owner

Shown(read, owner) ==
    IF IsCurrent(read, owner)
    THEN [key |-> read.key, of |-> read.of, outcomes |-> read.outcomes]
    ELSE result[read.slot]

(* Aborted requests reject at once, when the slot's controller is already  *)
(* the new owner's.                                                        *)
AfterAbort(slot, owner, before) ==
    IF ReadsOf(slot) = {} THEN before
    ELSE LET r == CHOOSE r \in ReadsOf(slot) : TRUE
         IN  IF IsCurrent(r, owner)
             THEN [key |-> r.key, of |-> r.of, outcomes |-> r.outcomes \cup {"cancelled"}]
             ELSE before

-----------------------------------------------------------------------------
Init ==
    /\ mounted = TRUE
    /\ refreshKey = 0
    /\ version = [panel \in Panel |-> IF panel = "runs" THEN 1 ELSE 0]
    /\ effect = [panel \in Panel |-> NoKey]
    /\ current = [slot \in Slot |-> IF slot = "metrics" THEN <<0, 1>> ELSE NoKey]
    /\ reads = {NewRead("metrics", <<0, 1>>, <<0, 1>>)}
    /\ result = [slot \in Slot |-> NoResult]

(* Filters applied, a run of the list selected, or a target queried.       *)
Select(panel) ==
    /\ mounted
    /\ version[panel] < MaxAsks
    /\ panel = "detail" => Visible("runs") = "result"
    /\ version' = [version EXCEPT ![panel] = @ + 1]
    /\ UNCHANGED <<mounted, refreshKey, effect, current, reads, result>>

(* Mutant of RunEffect: it runs after any render, for any key.             *)
RunEveryEffect(panel) ==
    LET key == Key(panel)
    IN  /\ mounted
        /\ key # NoKey
        /\ effect' = [effect EXCEPT ![panel] = key]
        /\ current' = [current EXCEPT ![panel] = key]
        /\ reads' = (reads \ ReadsOf(panel))
                        \cup {NewRead(panel, key, Asked(panel))}
        /\ UNCHANGED <<mounted, refreshKey, version, result>>

(* useRead's effect: cancel the slot's request, begin one for the new key. *)
RunEffect(panel) ==
    LET key == Key(panel)
    IN  /\ mounted
        /\ effect[panel] # key
        /\ effect' = [effect EXCEPT ![panel] = key]
        /\ current' = [current EXCEPT ![panel] = key]
        /\ reads' = (reads \ ReadsOf(panel))
                        \cup {NewRead(panel, key, Asked(panel))}
        /\ result' = [result EXCEPT ![panel] = AfterAbort(panel, key, @)]
        /\ UNCHANGED <<mounted, refreshKey, version>>

(* The button is disabled while a resource is loading.                     *)
Refresh ==
    LET key == <<refreshKey + 1, 1>>
    IN  /\ mounted
        /\ Visible("metrics") # "loading"
        /\ refreshKey < MaxAsks
        /\ refreshKey' = refreshKey + 1
        /\ current' = [current EXCEPT !["metrics"] = key]
        /\ reads' = (reads \ ReadsOf("metrics")) \cup {NewRead("metrics", key, key)}
        /\ result' = [result EXCEPT !["metrics"] = AfterAbort("metrics", key, NoResult)]
        /\ UNCHANGED <<mounted, version, effect>>

(* The response's headers: the body is still to be read.                   *)
Headers(read, part) ==
    /\ part \in read.waiting
    /\ reads' = (reads \ {read})
           \cup {[read EXCEPT !.waiting = @ \ {part}, !.body = @ \cup {part}]}
    /\ UNCHANGED <<mounted, refreshKey, version, effect, current, result>>

(* A request of the read ends; with the last one the read is shown.        *)
Settle(read, part, outcome) ==
    LET after == [read EXCEPT !.waiting = @ \ {part}, !.body = @ \ {part},
                              !.outcomes = @ \cup {outcome}]
    IN  /\ IF after.waiting \cup after.body = {}
           THEN /\ reads' = reads \ {read}
                /\ result' = [result EXCEPT
                       ![read.slot] = Shown(after, current[read.slot])]
           ELSE /\ reads' = (reads \ {read}) \cup {after}
                /\ UNCHANGED result
        /\ UNCHANGED <<mounted, refreshKey, version, effect, current>>

(* Data, or a body that is not JSON.                                       *)
Answer(read, part) ==
    /\ part \in read.body
    /\ Settle(read, part, "answer")

(* No connection, or an error status.                                      *)
Fail(read, part) ==
    /\ part \in read.waiting
    /\ Settle(read, part, "answer")

(* Mutant of TimeOut: the deadline is for the headers only.                *)
HeadersTimeOut(read, part) ==
    /\ part \in read.waiting
    /\ Settle(read, part, "timeout")

(* The deadline: nobody answered in time, or the body did not end.         *)
TimeOut(read, part) ==
    /\ part \in read.waiting \cup read.body
    /\ Settle(read, part, "timeout")

(* Mutant of Unmount: requests are left to end by themselves.              *)
UnmountOnly ==
    /\ mounted
    /\ mounted' = FALSE
    /\ current' = [slot \in Slot |-> NoKey]
    /\ UNCHANGED <<refreshKey, version, effect, reads, result>>

(* The page is left: every slot's request is cancelled and disowned.       *)
Unmount ==
    /\ mounted
    /\ mounted' = FALSE
    /\ current' = [slot \in Slot |-> NoKey]
    /\ reads' = {}
    /\ result' = [slot \in Slot |-> AfterAbort(slot, NoKey, result[slot])]
    /\ UNCHANGED <<refreshKey, version, effect>>

TimesOut == \E read \in reads : \E part \in Parts(read.slot) : TimeOut(read, part)

Next ==
    \/ \E panel \in Panel : Select(panel) \/ RunEffect(panel)
    \/ Refresh
    \/ \E read \in reads : \E part \in Parts(read.slot) :
           Headers(read, part) \/ Answer(read, part) \/ Fail(read, part)
    \/ TimesOut
    \/ Unmount

(* React flushes effects and the browser's timers fire; the server may     *)
(* never answer and the user may never act.                                *)
Fairness ==
    /\ \A panel \in Panel : WF_vars(RunEffect(panel))
    /\ WF_vars(TimesOut)

Spec == Init /\ [][Next]_vars /\ Fairness

-----------------------------------------------------------------------------
(* A result on the screen is of a read begun after the user's last request *)
(* of that slot, Refresh included, and never tells of a cancellation.      *)
ShownAsAsked ==
    mounted => \A slot \in Slot :
        Visible(slot) = "result" =>
            /\ result[slot].of = Asked(slot)
            /\ "cancelled" \notin result[slot].outcomes

(* What is shown stays until the user asks for something else: no late,    *)
(* cancelled or doubled answer replaces it or takes it back to loading.    *)
ResultsStay ==
    [][\A slot \in Slot :
           Visible(slot) = "result" /\ Asked(slot)' = Asked(slot)
               => Visible(slot)' = "result" /\ result[slot]' = result[slot]]_vars

(* Requests under way are the newest of their slots, one each, and none    *)
(* outlives the page.                                                      *)
OnlyLatestReads ==
    /\ \A slot \in Slot : Cardinality(ReadsOf(slot)) <= 1
    /\ \A read \in reads : mounted /\ read.key = current[read.slot]

(* Loading ends: with a server that never answers, or stops in the middle  *)
(* of a body, the deadline shows an error.                                 *)
LoadingEnds ==
    \A slot \in Slot :
        mounted /\ Visible(slot) = "loading" ~> ~ mounted \/ Visible(slot) = "result"
=============================================================================
