----------------------------- MODULE CallRecords -----------------------------
(***************************************************************************)
(* From the call of a provider to its row and to the summary of the rows:  *)
(* the adapters' outcomes (module ProviderCalls), the pricing looked up    *)
(* when the call has ended, the row with its estimated cost, and           *)
(* GET /v1/metrics/summary, whose queries run in a worker thread beside    *)
(* them with no transaction around them.  All calls are to one pair.       *)
(***************************************************************************)
EXTENDS ProviderCalls, Sequences

CONSTANTS
    Call,               \* provider calls of the gateway
    Upstream,           \* the exchanges an upstream may come up with
    Price,              \* what an operator may set the pair's pricing to
    Window,             \* the summary's hours
    MaxTime,            \* bound on the clock
    StoreMayFail,       \* the pricing lookup and the row's insert may raise
    ClockMayStepBack    \* the wall clock may be set back

ASSUME CallAssumption ==
    /\ None \notin Price \cup Nat \cup ProviderErrorType
    /\ Upstream \subseteq Exchange
    /\ \A p \in Price : p.input \in Nat /\ p.output \in Nat
    /\ Window \in Nat
    /\ MaxTime \in Nat
    /\ StoreMayFail \in BOOLEAN
    /\ ClockMayStepBack \in BOOLEAN

VARIABLES
    clock,      \* datetime.now(UTC)
    pricing,    \* the pair's row in the pricing table, None without one
    call,       \* where each call is and what it has in hand
    rows,       \* the attempts table, in the order of its ids
    summary,    \* the summary being made, and the latest one
    history     \* per call: the price it started under, and whether the clock went back

vars == <<clock, pricing, call, rows, summary, history>>

NotStarted == [step |-> "new"]
Done == [step |-> "done"]
NoSummary == [step |-> "none"]
Unseen == [asked |-> None, setBack |-> FALSE]

Init ==
    /\ clock = 0
    /\ pricing \in Price \cup {None}
    /\ call = [c \in Call |-> NotStarted]
    /\ rows = <<>>
    /\ summary = NoSummary
    /\ history = [c \in Call |-> Unseen]

At(c, step) == call[c].step = step
Becomes(c, state) == call' = [call EXCEPT ![c] = state]

-----------------------------------------------------------------------------
(* start_call: both clocks are read and the exchange is awaited.           *)
Start(c) ==
    /\ At(c, "new")
    /\ Becomes(c, [step |-> "calling", started |-> clock])
    /\ history' = [history EXCEPT ![c].asked = pricing]
    /\ UNCHANGED <<clock, pricing, rows, summary>>

(* The outcome is built at this instant, or its validator refuses it.      *)
Ended(c, x, outcome) ==
    [step |-> "ended", started |-> call[c].started, finished |-> clock,
     exchange |-> x, outcome |-> outcome]

Escaped(x) == [step |-> "escaped", status |-> x.status]

(* Mutant of FailedOutcome: only errors of the HTTP client are caught.     *)
FailedUnlessUnknown(c, x, error) ==
    IF error = "unknown_error" THEN Escaped(x) ELSE Ended(c, x, Failure(error))

(* failed_outcome runs in the except clause: what it raises leaves         *)
(* complete() as an exception.                                             *)
FailedOutcome(c, x, error) ==
    IF Accepted(x, call[c].started, clock) THEN Ended(c, x, Failure(error))
    ELSE Escaped(x)

(* The exchange ends.  A success the validator refuses is caught like any  *)
(* other exception, and the clock is read again for the failure.           *)
Answer(c, x) ==
    /\ At(c, "calling")
    /\ Becomes(c, IF ~Usable(x) THEN FailedOutcome(c, x, ErrorType(x))
                  ELSE IF Accepted(x, call[c].started, clock)
                  THEN Ended(c, x, Success(x))
                  ELSE [step |-> "refused", started |-> call[c].started,
                        exchange |-> x])
    /\ UNCHANGED <<clock, pricing, rows, summary, history>>

FailInstead(c) ==
    /\ At(c, "refused")
    /\ Becomes(c, FailedOutcome(c, call[c].exchange, "invalid_response"))
    /\ UNCHANGED <<clock, pricing, rows, summary, history>>

StoreAnswers == IF StoreMayFail THEN BOOLEAN ELSE {TRUE}

(* The pair's one row as it is now.                                        *)
GetPricing == pricing

(* A lookup that raises leaves the call unpriced.                          *)
LookUpPricing(c) ==
    /\ At(c, "ended")
    /\ \E answers \in StoreAnswers :
           Becomes(c, [step |-> "priced", finished |-> call[c].finished,
                       exchange |-> call[c].exchange, outcome |-> call[c].outcome,
                       price |-> IF answers THEN GetPricing ELSE None])
    /\ UNCHANGED <<clock, pricing, rows, summary, history>>

(* attempt_from_outcome.                                                   *)
AttemptFromOutcome(c) ==
    [call |-> c,
     success |-> call[c].outcome.success,
     error |-> call[c].outcome.error,
     tokens |-> call[c].outcome.tokens,
     finished |-> call[c].finished,
     cost |-> EstimateCost(call[c].price, call[c].outcome.tokens)]

(* record_attempt; a row that cannot be written is lost.                   *)
RecordAttempt(c) ==
    /\ At(c, "priced")
    /\ \/ rows' = Append(rows, AttemptFromOutcome(c))
       \/ StoreMayFail /\ UNCHANGED rows
    /\ Becomes(c, Done)
    /\ history' = [history EXCEPT ![c] = Unseen]
    /\ UNCHANGED <<clock, pricing, summary>>

-----------------------------------------------------------------------------
(* upsert_pricing: nothing in the program calls it, an operator does.  The *)
(* new price replaces the old one.                                         *)
UpsertPricing(p) ==
    /\ pricing # p
    /\ pricing' = p
    /\ UNCHANGED <<clock, call, rows, summary, history>>

-----------------------------------------------------------------------------
(* The summary.                                                            *)
InWindow(s, row) == s.until - Window <= row.finished /\ row.finished <= s.until

Ids(s) == {i \in 1 .. Len(rows) : InWindow(s, rows[i])}

(* The endpoint reads the clock.                                           *)
Summarize ==
    /\ summary.step \in {"none", "made"}
    /\ summary' = [step |-> "asked", until |-> clock, met |-> Len(rows)]
    /\ UNCHANGED <<clock, pricing, call, rows, history>>

(* The first query counts the attempts of the window...                    *)
CountAttempts ==
    /\ summary.step = "asked"
    /\ summary' = [step |-> "counted", until |-> summary.until, met |-> summary.met,
                   counted |-> Ids(summary)]
    /\ UNCHANGED <<clock, pricing, call, rows, history>>

(* Mutant of Priced: a cost of zero is taken for none.                     *)
PricedAboveZero(ids) == {i \in ids : rows[i].cost # None /\ rows[i].cost > 0}
Priced(ids) == {i \in ids : rows[i].cost # None}

(* ...and the last one reads their costs.                                  *)
SumCosts ==
    /\ summary.step = "counted"
    /\ summary' = [step |-> "made", until |-> summary.until, met |-> summary.met,
                   counted |-> summary.counted, costed |-> Priced(Ids(summary))]
    /\ UNCHANGED <<clock, pricing, call, rows, history>>

-----------------------------------------------------------------------------
Tick ==
    /\ clock < MaxTime
    /\ clock' = clock + 1
    /\ UNCHANGED <<pricing, call, rows, summary, history>>

ClockSetBack ==
    /\ ClockMayStepBack
    /\ clock > 0
    /\ clock' = clock - 1
    /\ history' = [c \in Call |->
                      IF At(c, "calling") \/ At(c, "refused")
                      THEN [history[c] EXCEPT !.setBack = TRUE] ELSE history[c]]
    /\ UNCHANGED <<pricing, call, rows, summary>>

CallStep(c) ==
    \/ Start(c)
    \/ \E x \in Upstream : Answer(c, x)
    \/ FailInstead(c)
    \/ LookUpPricing(c)
    \/ RecordAttempt(c)

Next ==
    \/ \E c \in Call : CallStep(c)
    \/ \E p \in Price : UpsertPricing(p)
    \/ Summarize
    \/ CountAttempts
    \/ SumCosts
    \/ Tick
    \/ ClockSetBack

Spec == Init /\ [][Next]_vars

-----------------------------------------------------------------------------
(* What a row may say of the exchange x it comes from.                     *)
Truthful(row, x, price, setBack) ==
    LET usable == x.transport = "answered" /\ x.status \in 200 .. 299
                      /\ x.body /\ x.usage.valid
        both == x.usage.input # None /\ x.usage.output # None
    IN  /\ row.success => usable
        /\ usable /\ ~setBack => row.success
        /\ row.success <=> row.error = None
        /\ row.error = "authentication_error" => x.status \in {401, 403}
        /\ row.tokens = IF row.success
                        THEN [input |-> x.usage.input, output |-> x.usage.output]
                        ELSE Silent
        /\ row.cost # None <=> row.success /\ both /\ price # None
        /\ row.cost # None =>
               row.cost = x.usage.input * price.input + x.usage.output * price.output

(* Every row tells what the upstream said: a success is an answer that     *)
(* could be used, and an answer that could be used is a success unless the *)
(* clock was set back under the call; token counts are the upstream's own  *)
(* or absent; a cost is both counts times the two rates of one version of  *)
(* the pricing, and nothing is ever filled in with zero                    *)
(* (providers/base.py:113-131, metrics/costs.py:8-16, service.py:246-263,  *)
(* docs/v0.2/SCOPE.md:20).                                                 *)
RowsTellTheExchange ==
    [][\A c \in Call :
          At(c, "priced") /\ rows' # rows /\ call'[c] = Done
              => Truthful(rows'[Len(rows')], call[c].exchange, call[c].price,
                          history[c].setBack)]_vars

(* complete() of an adapter raises only for a status that ProviderOutcome  *)
(* does not know or when the clock was set back under the call; any other  *)
(* trouble, of the transport, the status, the body or the usage, becomes a *)
(* failed outcome the gateway can fall back from                           *)
(* (providers/openai_compatible.py:38-67, providers/base.py:45,62).        *)
EscapesExplained ==
    \A c \in Call :
        At(c, "escaped") =>
            history[c].setBack \/ call[c].status > 599

(* A summary leaves out no attempt of its window that was recorded when it *)
(* was asked for, counts none beyond the time it names, and its total      *)
(* covers every attempt it counts that has a cost, zero included, although *)
(* attempts are recorded between its queries                               *)
(* (metrics/sqlite_store.py:340-372,386).                                  *)
SummaryCoversCounted ==
    summary.step = "made" =>
        LET window == {i \in 1 .. Len(rows) :
                          rows[i].finished \in summary.until - Window .. summary.until}
        IN  /\ window \cap 1 .. summary.met \subseteq summary.counted
            /\ summary.counted \subseteq window
            /\ {i \in summary.counted : rows[i].cost # None} \subseteq summary.costed

(* The cost of a call is estimated with the pricing that was current when  *)
(* the call was made (docs/v0.2/ARCHITECTURE.md:71, "calculate estimated   *)
(* cost using the pricing version selected for the request timestamp").    *)
CostAtRequestTime ==
    [][\A c \in Call :
          At(c, "priced") /\ rows' # rows /\ call'[c] = Done =>
              LET row == rows'[Len(rows')]
              IN  row.cost # None =>
                      row.cost = EstimateCost(history[c].asked, row.tokens)]_vars
===============================================================================
