-------------------------- MODULE CallRecordsProofs --------------------------
(***************************************************************************)
(* Theorems about CallRecords: what an exchange becomes on its way from    *)
(* the adapter to its row, and what a summary made of several queries      *)
(* covers while rows are being written.                                    *)
(***************************************************************************)
EXTENDS CallRecords, TLAPS

-----------------------------------------------------------------------------
(* What is known of a call at each of its steps.                           *)

(* An outcome fits the exchange it was made from: an answer that could be  *)
(* used is a failure only under a clock that was set back.                 *)
Fits(outcome, x, setBack) ==
    \/ Usable(x) /\ outcome = Success(x)
    \/ ~Usable(x) /\ outcome = Failure(ErrorType(x))
    \/ setBack /\ outcome = Failure("invalid_response")

Timed(c) ==
    At(c, "calling") =>
        /\ call[c].started \in Nat
        /\ ~history[c].setBack => call[c].started <= clock

Carries(c) ==
    At(c, "ended") \/ At(c, "priced") =>
        /\ call[c].exchange \in Upstream
        /\ call[c].finished \in Nat
        /\ Fits(call[c].outcome, call[c].exchange, history[c].setBack)

Follows(c) ==
    /\ Timed(c)
    /\ Carries(c)
    /\ At(c, "refused") => call[c].exchange \in Upstream /\ history[c].setBack
    /\ At(c, "priced") => call[c].price \in Price \cup {None}
    /\ At(c, "escaped") => history[c].setBack \/ call[c].status > 599

History == [asked : Price \cup {None}, setBack : BOOLEAN]

CallsInv ==
    /\ clock \in Nat
    /\ pricing \in Price \cup {None}
    /\ DOMAIN call = Call
    /\ history \in [Call -> History]
    /\ \A c \in Call : Follows(c)

(* At first no call was made and nothing is known of any.                   *)
LEMMA InitCallsInv == Init => CallsInv
BY DEF Init, CallsInv, Follows, Timed, Carries, At, NotStarted, Unseen, History

(* Only the clock set back makes the validator refuse what it would        *)
(* otherwise accept.                                                       *)
LEMMA RefusalExplained ==
    ASSUME CallsInv, NEW c \in Call, At(c, "calling"), NEW x \in Upstream,
           ~Accepted(x, call[c].started, clock)
    PROVE  history[c].setBack \/ x.status > 599
<1>1. x.status \in Nat
  BY CallAssumption DEF Exchange
<1>. QED
  BY <1>1 DEF CallsInv, Follows, Timed, Accepted

(* What a step means to a call that is not its own.                        *)
Stands(c) == call'[c] = call[c] /\ history'[c] = history[c] /\ clock <= clock'

(* What is known of a call is about the call alone, so it survives the      *)
(* steps of others.                                                         *)
LEMMA StandsFollows ==
    ASSUME CallsInv, NEW c \in Call, Stands(c), clock' \in Nat
    PROVE  Follows(c)'
BY DEF CallsInv, Follows, Timed, Carries, At, Stands

(* start_call reads the clock before the adapter's request.                 *)
LEMMA StartFollows ==
    ASSUME CallsInv, NEW c \in Call, Start(c)
    PROVE  Follows(c)'
<1>1. call'[c] = [step |-> "calling", started |-> clock] /\ clock' = clock
  BY DEF Start, Becomes, CallsInv
<1>. QED
  BY <1>1 DEF CallsInv, Follows, Timed, Carries, At

(* The adapter's try block makes an outcome that fits the exchange, or      *)
(* raises for a status its validator refuses.                               *)
LEMMA AnswerFollows ==
    ASSUME CallsInv, NEW c \in Call, NEW x \in Upstream, Answer(c, x)
    PROVE  Follows(c)'
<1>1. /\ At(c, "calling") /\ clock \in Nat
      /\ history' = history
      /\ call'[c] = IF ~Usable(x) THEN FailedOutcome(c, x, ErrorType(x))
                    ELSE IF Accepted(x, call[c].started, clock)
                    THEN Ended(c, x, Success(x))
                    ELSE [step |-> "refused", started |-> call[c].started,
                          exchange |-> x]
  BY DEF Answer, Becomes, CallsInv
<1>2. ASSUME NEW outcome, call'[c] = Ended(c, x, outcome),
             Fits(outcome, x, history[c].setBack)
      PROVE  Follows(c)'
  BY <1>1, <1>2 DEF Ended, Follows, Timed, Carries, At
<1>3. ASSUME call'[c] = Escaped(x), history[c].setBack \/ x.status > 599
      PROVE  Follows(c)'
  BY <1>1, <1>3 DEF Escaped, Follows, Timed, Carries, At
<1>4. CASE ~Usable(x)
  BY <1>1, <1>2, <1>3, <1>4, RefusalExplained DEF FailedOutcome, Fits
<1>5. CASE Usable(x) /\ Accepted(x, call[c].started, clock)
  BY <1>1, <1>2, <1>5 DEF Fits
<1>6. CASE Usable(x) /\ ~Accepted(x, call[c].started, clock)
  <2>1. ~(x.status > 599)
    BY <1>6 DEF Usable, Succeeds
  <2>2. history[c].setBack
    BY <1>1, <1>6, <2>1, RefusalExplained
  <2>. QED
    BY <1>1, <1>6, <2>2 DEF Follows, Timed, Carries, At
<1>. QED
  BY <1>4, <1>5, <1>6

(* The except clause makes a failure of a success whose duration was        *)
(* negative, which needs a clock set back.                                  *)
LEMMA FailInsteadFollows ==
    ASSUME CallsInv, NEW c \in Call, FailInstead(c)
    PROVE  Follows(c)'
<1>. DEFINE x == call[c].exchange
<1>1. /\ x \in Upstream /\ history[c].setBack /\ clock \in Nat
      /\ history' = history
      /\ call'[c] = FailedOutcome(c, x, "invalid_response")
  BY DEF FailInstead, Becomes, CallsInv, Follows
<1>2. CASE call'[c] = Ended(c, x, Failure("invalid_response"))
  BY <1>1, <1>2 DEF Ended, Fits, Follows, Timed, Carries, At
<1>3. CASE call'[c] = Escaped(x)
  BY <1>1, <1>3 DEF Escaped, Follows, Timed, Carries, At
<1>. QED
  BY <1>1, <1>2, <1>3 DEF FailedOutcome

(* The pricing lookup adds a price or none and keeps the outcome.           *)
LEMMA LookUpFollows ==
    ASSUME CallsInv, NEW c \in Call, LookUpPricing(c)
    PROVE  Follows(c)'
<1>1. PICK answers \in StoreAnswers :
         call'[c] = [step |-> "priced", finished |-> call[c].finished,
                     exchange |-> call[c].exchange, outcome |-> call[c].outcome,
                     price |-> IF answers THEN GetPricing ELSE None]
  BY DEF LookUpPricing, Becomes, CallsInv
<1>2. /\ At(c, "ended") /\ history' = history
      /\ pricing \in Price \cup {None}
  BY DEF LookUpPricing, CallsInv
<1>. QED
  BY <1>1, <1>2 DEF GetPricing, CallsInv, Follows, Timed, Carries, At

(* The attempt's row is written and the call is over.                       *)
LEMMA RecordFollows ==
    ASSUME CallsInv, NEW c \in Call, RecordAttempt(c)
    PROVE  Follows(c)'
<1>1. call'[c] = Done
  BY DEF RecordAttempt, Becomes, CallsInv
<1>. QED
  BY <1>1 DEF Done, Follows, Timed, Carries, At

(* The clock set back is remembered by every call it can mislead.          *)
LEMMA SetBackFollows ==
    ASSUME CallsInv, NEW c \in Call, ClockSetBack
    PROVE  Follows(c)' /\ clock' \in Nat
<1>1. /\ call' = call /\ clock' = clock - 1 /\ clock > 0 /\ clock \in Nat
      /\ history'[c] = IF At(c, "calling") \/ At(c, "refused")
                       THEN [history[c] EXCEPT !.setBack = TRUE] ELSE history[c]
      /\ history[c] \in History
  BY DEF ClockSetBack, CallsInv
<1>2. At(c, "calling") \/ At(c, "refused") => history'[c].setBack = TRUE
  BY <1>1 DEF History
<1>3. ~(At(c, "calling") \/ At(c, "refused")) => history'[c] = history[c]
  BY <1>1
<1>4. Follows(c)'
  BY <1>1, <1>2, <1>3 DEF CallsInv, Follows, Timed, Carries, At
<1>. QED
  BY <1>1, <1>4

(* What is known of every call stays known.                                 *)
LEMMA CallsStep ==
    ASSUME CallsInv, [Next]_vars
    PROVE  CallsInv'
<1>1. ASSUME NEW c \in Call, CallStep(c)
      PROVE  CallsInv'
  <2>1. /\ clock' = clock /\ pricing' = pricing
        /\ DOMAIN call' = Call
        /\ history' \in [Call -> History]
        /\ \A d \in Call \ {c} : call'[d] = call[d] /\ history'[d] = history[d]
    <3>1. /\ clock' = clock /\ pricing' = pricing
          /\ \E state : call' = [call EXCEPT ![c] = state]
      BY <1>1 DEF CallStep, Start, Answer, FailInstead, LookUpPricing, RecordAttempt,
                  Becomes
    <3>2. history' \in {history, [history EXCEPT ![c].asked = pricing],
                        [history EXCEPT ![c] = Unseen]}
      BY <1>1 DEF CallStep, Start, Answer, FailInstead, LookUpPricing, RecordAttempt
    <3>3. [history[c] EXCEPT !.asked = pricing] \in History /\ Unseen \in History
      BY DEF CallsInv, History, Unseen
    <3>4. \E h \in History : history' \in {history, [history EXCEPT ![c] = h]}
      BY <3>2, <3>3 DEF CallsInv
    <3>. QED
      BY <3>1, <3>4 DEF CallsInv
  <2>2. Follows(c)'
    BY <1>1, StartFollows, AnswerFollows, FailInsteadFollows, LookUpFollows,
       RecordFollows DEF CallStep
  <2>3. \A d \in Call \ {c} : Stands(d)
    BY <2>1 DEF Stands, CallsInv
  <2>. QED
    BY <2>1, <2>2, <2>3, StandsFollows DEF CallsInv
<1>2. ASSUME NEW p \in Price, UpsertPricing(p)
      PROVE  CallsInv'
  BY <1>2, StandsFollows DEF UpsertPricing, Stands, CallsInv
<1>3. CASE Summarize \/ CountAttempts \/ SumCosts \/ UNCHANGED vars
  BY <1>3, StandsFollows DEF Summarize, CountAttempts, SumCosts, vars, Stands, CallsInv
<1>4. CASE Tick
  BY <1>4, StandsFollows DEF Tick, Stands, CallsInv
<1>5. CASE ClockSetBack
  <2>1. history' \in [Call -> History]
    BY <1>5 DEF ClockSetBack, CallsInv, History
  <2>2. clock' \in Nat
    BY <1>5 DEF ClockSetBack, CallsInv
  <2>. QED
    BY <1>5, <2>1, <2>2, SetBackFollows DEF ClockSetBack, CallsInv
<1>. QED
  BY <1>1, <1>2, <1>3, <1>4, <1>5 DEF Next

-----------------------------------------------------------------------------
(* Rows.                                                                   *)

Row == [call : Call, success : BOOLEAN, error : ProviderErrorType \cup {None},
        tokens : [input : Tokens, output : Tokens], finished : Nat,
        cost : Nat \cup {None}]

(* A cost is both counts times the two rates, or there is none.            *)
Costs(cost, price, tokens) ==
    /\ cost \in Nat \cup {None}
    /\ cost # None <=> tokens.input # None /\ tokens.output # None /\ price # None
    /\ cost # None => cost = tokens.input * price.input + tokens.output * price.output

(* estimate_cost multiplies counted tokens by one price, and returns no     *)
(* cost when the price or a count is missing.                               *)
LEMMA CostOf ==
    ASSUME NEW price \in Price \cup {None},
           NEW tokens \in [input : Tokens, output : Tokens]
    PROVE  Costs(EstimateCost(price, tokens), price, tokens)
<1>. USE DEF Costs
<1>1. CASE price # None /\ tokens.input # None /\ tokens.output # None
  <2>1. /\ price.input \in Nat /\ price.output \in Nat
        /\ tokens.input \in Nat /\ tokens.output \in Nat
    BY <1>1, CallAssumption DEF Tokens
  <2>2. \A i, j \in Nat : i * j \in Nat
    OBVIOUS
  <2>3. tokens.input * price.input + tokens.output * price.output \in Nat
    BY <2>1, <2>2
  <2>. QED
    BY <1>1, <2>3, CallAssumption DEF EstimateCost
<1>2. CASE ~(price # None /\ tokens.input # None /\ tokens.output # None)
  BY <1>2 DEF EstimateCost
<1>. QED
  BY <1>1, <1>2

(* An exchange that cannot be used has an error type of the adapters, and   *)
(* only a refused key is an authentication error.                           *)
LEMMA ErrorTypes ==
    ASSUME NEW x \in Exchange, ~Usable(x)
    PROVE  /\ ErrorType(x) \in ProviderErrorType
           /\ ErrorType(x) = "authentication_error" => x.status \in {401, 403}
<1>1. x.transport \in {"answered", "timeout", "no_connection", "broken", "unexpected"}
  BY DEF Exchange
<1>2. CASE x.transport # "answered"
  BY <1>1, <1>2 DEF ErrorType, Answered, ProviderErrorType
<1>3. CASE x.transport = "answered"
  BY <1>3 DEF ErrorType, Answered, Succeeds, ProviderErrorType
<1>. QED
  BY <1>2, <1>3

(* What an outcome that fits its exchange tells of it.                      *)
LEMMA FittingOutcome ==
    ASSUME NEW x \in Exchange, NEW outcome, NEW setBack, Fits(outcome, x, setBack)
    PROVE  /\ outcome.success \in BOOLEAN
           /\ outcome.error \in ProviderErrorType \cup {None}
           /\ outcome.tokens \in [input : Tokens, output : Tokens]
           /\ outcome.success => Usable(x)
           /\ Usable(x) /\ ~setBack => outcome.success
           /\ outcome.success <=> outcome.error = None
           /\ outcome.error = "authentication_error" => x.status \in {401, 403}
           /\ outcome.tokens = IF outcome.success THEN TokenUsage(x.usage) ELSE Silent
<1>1. Silent \in [input : Tokens, output : Tokens]
  BY DEF Silent, Tokens
<1>2. TokenUsage(x.usage) \in [input : Tokens, output : Tokens]
  BY DEF TokenUsage, Exchange
<1>3. CASE Usable(x) /\ outcome = Success(x)
  <2>1. /\ outcome.success = TRUE /\ outcome.error = None
        /\ outcome.tokens = TokenUsage(x.usage)
    BY <1>3 DEF Success
  <2>2. None # "authentication_error"
    BY CallAssumption DEF ProviderErrorType
  <2>. QED
    BY <1>2, <1>3, <2>1, <2>2
<1>4. ASSUME NEW error \in ProviderErrorType, outcome = Failure(error)
      PROVE  /\ outcome.success = FALSE
             /\ outcome.error = error /\ error # None
             /\ outcome.tokens = Silent
  BY <1>4, CallAssumption DEF Failure
<1>5. CASE ~Usable(x) /\ outcome = Failure(ErrorType(x))
  <2>1. /\ ErrorType(x) \in ProviderErrorType
        /\ ErrorType(x) = "authentication_error" => x.status \in {401, 403}
    BY <1>5, ErrorTypes
  <2>2. /\ outcome.success = FALSE /\ outcome.error = ErrorType(x)
        /\ outcome.error # None /\ outcome.tokens = Silent
    BY <1>5, <2>1, CallAssumption DEF Failure
  <2>. QED
    BY <1>1, <1>5, <2>1, <2>2
<1>6. CASE setBack /\ outcome = Failure("invalid_response")
  <2>1. "invalid_response" \in ProviderErrorType
    BY DEF ProviderErrorType
  <2>2. /\ outcome.success = FALSE /\ outcome.error = "invalid_response"
        /\ outcome.error # None /\ outcome.tokens = Silent
    BY <1>4, <1>6, <2>1
  <2>. QED
    BY <1>1, <1>6, <2>1, <2>2
<1>. QED
  BY <1>3, <1>5, <1>6 DEF Fits

(* The row of a call that was priced.                                      *)
LEMMA AttemptTruthful ==
    ASSUME CallsInv, NEW c \in Call, At(c, "priced")
    PROVE  /\ AttemptFromOutcome(c) \in Row
           /\ Truthful(AttemptFromOutcome(c), call[c].exchange, call[c].price,
                       history[c].setBack)
<1>. DEFINE x == call[c].exchange
            outcome == call[c].outcome
            setBack == history[c].setBack
            price == call[c].price
            row == AttemptFromOutcome(c)
<1>1. /\ x \in Exchange
      /\ Fits(outcome, x, setBack)
      /\ price \in Price \cup {None}
      /\ call[c].finished \in Nat
  BY CallAssumption DEF CallsInv, Follows, Carries
<1>2. /\ row.call = c
      /\ row.success = outcome.success /\ row.error = outcome.error
      /\ row.tokens = outcome.tokens /\ row.finished = call[c].finished
      /\ row.cost = EstimateCost(price, outcome.tokens)
  BY DEF AttemptFromOutcome
<1>3. row = [call |-> row.call, success |-> row.success, error |-> row.error,
             tokens |-> row.tokens, finished |-> row.finished, cost |-> row.cost]
  BY DEF AttemptFromOutcome
<1>. HIDE DEF x, outcome, setBack, price, row
<1>4. /\ outcome.success \in BOOLEAN
      /\ outcome.error \in ProviderErrorType \cup {None}
      /\ outcome.tokens \in [input : Tokens, output : Tokens]
      /\ outcome.success => Usable(x)
      /\ Usable(x) /\ ~setBack => outcome.success
      /\ outcome.success <=> outcome.error = None
      /\ outcome.error = "authentication_error" => x.status \in {401, 403}
      /\ outcome.tokens = IF outcome.success THEN TokenUsage(x.usage) ELSE Silent
  BY <1>1, FittingOutcome
<1>5. Costs(row.cost, price, outcome.tokens)
  BY <1>1, <1>2, <1>4, CostOf
<1>6. row \in Row
  BY <1>1, <1>2, <1>3, <1>4, <1>5 DEF Row, Costs
<1>7. /\ Silent.input = None /\ Silent.output = None
      /\ TokenUsage(x.usage).input = x.usage.input
      /\ TokenUsage(x.usage).output = x.usage.output
      /\ TokenUsage(x.usage) = [input |-> x.usage.input, output |-> x.usage.output]
  BY DEF Silent, TokenUsage
<1>8. Truthful(row, x, price, setBack)
  BY <1>2, <1>4, <1>5, <1>7 DEF Truthful, Usable, Answered, Succeeds, Costs
<1>. QED
  BY <1>6, <1>8 DEF row, x, price, setBack

-----------------------------------------------------------------------------
(* The summary.                                                            *)

(* The rows of the window that were there when the summary was asked for   *)
(* are counted, and only rows of the window are.                           *)
Counts ==
    /\ summary.counted \subseteq Ids(summary)
    /\ Ids(summary) \cap 1 .. summary.met \subseteq summary.counted

SummaryInv ==
    /\ summary.step \in {"none", "asked", "counted", "made"}
    /\ summary.step # "none" => summary.until \in Nat /\ summary.met \in 0 .. Len(rows)
    /\ summary.step \in {"counted", "made"} => Counts
    /\ summary.step = "made" =>
           {i \in summary.counted : rows[i].cost # None} \subseteq summary.costed

RecordsInv == CallsInv /\ rows \in Seq(Row) /\ SummaryInv

(* What a step does to the rows: it leaves those there are.                *)
RowsKept ==
    /\ rows' \in Seq(Row)
    /\ Len(rows) <= Len(rows')
    /\ \A i \in 1 .. Len(rows) : rows'[i] = rows[i]

(* Rows are only added, and the row added tells of its call's exchange and  *)
(* price.                                                                   *)
LEMMA RowsStep ==
    ASSUME CallsInv, rows \in Seq(Row), [Next]_vars
    PROVE  RowsKept
<1>1. CASE rows' = rows
  BY <1>1 DEF RowsKept
<1>2. ASSUME NEW c \in Call, RecordAttempt(c)
      PROVE  RowsKept
  <2>1. CASE rows' = Append(rows, AttemptFromOutcome(c))
    <3>1. AttemptFromOutcome(c) \in Row
      BY <1>2, AttemptTruthful DEF RecordAttempt
    <3>. QED
      BY <2>1, <3>1 DEF RowsKept
  <2>. QED
    BY <1>1, <1>2, <2>1 DEF RecordAttempt
<1>. QED
  BY <1>1, <1>2 DEF Next, CallStep, Start, Answer, FailInstead, LookUpPricing,
                    UpsertPricing, Summarize, CountAttempts, SumCosts, Tick,
                    ClockSetBack, vars

(* A summary that is being made stays right while rows are added.          *)
LEMMA SummaryStays ==
    ASSUME rows \in Seq(Row), SummaryInv, RowsKept, summary' = summary
    PROVE  SummaryInv'
<1>1. Len(rows) \in Nat /\ Len(rows') \in Nat /\ Len(rows) <= Len(rows')
  BY DEF RowsKept
<1>2. \A i \in 1 .. Len(rows) : i \in 1 .. Len(rows') /\ rows'[i] = rows[i]
  BY <1>1 DEF RowsKept
<1>3. Ids(summary) \subseteq 1 .. Len(rows)
  BY DEF Ids
<1>4. \A i \in 1 .. Len(rows) : i \in Ids(summary)' <=> i \in Ids(summary)
  BY <1>2 DEF Ids, InWindow
<1>5. Ids(summary)' \subseteq 1 .. Len(rows')
  BY DEF Ids
<1>6. summary.step # "none" => summary'.met \in 0 .. Len(rows')
  BY <1>1 DEF SummaryInv
<1>7. ASSUME summary.step \in {"counted", "made"}
      PROVE  Counts'
  <2>1. 1 .. summary.met \subseteq 1 .. Len(rows)
    BY <1>1, <1>7 DEF SummaryInv
  <2>2. Counts
    BY <1>7 DEF SummaryInv
  <2>. QED
    BY <1>3, <1>4, <2>1, <2>2 DEF Counts
<1>8. ASSUME summary.step = "made"
      PROVE  {i \in summary'.counted : rows'[i].cost # None} \subseteq summary'.costed
  <2>1. summary.counted \subseteq 1 .. Len(rows)
    BY <1>3, <1>8 DEF SummaryInv, Counts
  <2>. QED
    BY <1>2, <1>8, <2>1 DEF SummaryInv
<1>. QED
  BY <1>6, <1>7, <1>8 DEF SummaryInv

(* What the summary has counted stays covered by the rows while it runs     *)
(* its later queries.                                                       *)
LEMMA SummaryStep ==
    ASSUME CallsInv, rows \in Seq(Row), SummaryInv, [Next]_vars
    PROVE  SummaryInv'
<1>1. Len(rows) \in Nat /\ clock \in Nat
  BY DEF CallsInv
<1>2. CASE summary' = summary
  BY <1>2, RowsStep, SummaryStays
<1>3. CASE Summarize
  BY <1>1, <1>3 DEF Summarize, SummaryInv
<1>4. CASE CountAttempts
  <2>1. /\ summary'.step = "counted" /\ summary'.until = summary.until
        /\ summary'.met = summary.met /\ summary'.counted = Ids(summary)
        /\ rows' = rows
    BY <1>4 DEF CountAttempts
  <2>2. Ids(summary)' = Ids(summary)
    BY <2>1 DEF Ids, InWindow
  <2>. QED
    BY <1>4, <2>1, <2>2 DEF CountAttempts, SummaryInv, Counts
<1>5. CASE SumCosts
  <2>1. /\ summary'.step = "made" /\ summary'.until = summary.until
        /\ summary'.met = summary.met /\ summary'.counted = summary.counted
        /\ summary'.costed = Priced(Ids(summary))
        /\ rows' = rows
    BY <1>5 DEF SumCosts
  <2>2. Ids(summary)' = Ids(summary)
    BY <2>1 DEF Ids, InWindow
  <2>3. Counts
    BY <1>5 DEF SumCosts, SummaryInv
  <2>4. Counts'
    BY <2>1, <2>2, <2>3 DEF Counts
  <2>5. {i \in summary'.counted : rows'[i].cost # None} \subseteq summary'.costed
    BY <2>1, <2>3 DEF Counts, Priced
  <2>. QED
    BY <1>5, <2>1, <2>4, <2>5 DEF SumCosts, SummaryInv
<1>. QED
  BY <1>2, <1>3, <1>4, <1>5 DEF Next, CallStep, Start, Answer, FailInstead,
      LookUpPricing, RecordAttempt, UpsertPricing, Tick, ClockSetBack, vars

-----------------------------------------------------------------------------
(* Theorems.                                                               *)

(* No row, no summary: the invariant holds at first.                        *)
LEMMA InitRecordsInv == Init => RecordsInv
<1>. SUFFICES ASSUME Init PROVE RecordsInv
  OBVIOUS
<1>1. rows \in Seq(Row) /\ summary.step = "none"
  BY DEF Init, NoSummary
<1>. QED
  BY <1>1, InitCallsInv DEF RecordsInv, SummaryInv

(* Every step keeps the calls', the rows' and the summary's parts.          *)
LEMMA NextRecordsInv == RecordsInv /\ [Next]_vars => RecordsInv'
BY CallsStep, RowsStep, SummaryStep DEF RecordsInv, RowsKept

(* complete() of an adapter raises only for a status ProviderOutcome does  *)
(* not know or when the clock was set back under the call, for any number  *)
(* of calls and whatever the upstream comes up with                        *)
(* (openai_compatible.py:38-67, providers/base.py:45,62).                  *)
THEOREM EscapesSafety == Spec => []EscapesExplained
<1>1. RecordsInv => EscapesExplained
  BY DEF RecordsInv, CallsInv, Follows, EscapesExplained
<1>. QED
  BY InitRecordsInv, NextRecordsInv, <1>1, PTL DEF Spec

(* A summary leaves out no attempt of its window that was there when it    *)
(* was asked for, counts none beyond it, and its total covers all it       *)
(* counts (sqlite_store.py:340-372,386).                                   *)
THEOREM SummarySafety == Spec => []SummaryCoversCounted
<1>1. RecordsInv => SummaryCoversCounted
  <2>. SUFFICES ASSUME RecordsInv, summary.step = "made"
                PROVE  LET window == {i \in 1 .. Len(rows) :
                              rows[i].finished \in summary.until - Window .. summary.until}
                       IN  /\ window \cap 1 .. summary.met \subseteq summary.counted
                           /\ summary.counted \subseteq window
                           /\ {i \in summary.counted : rows[i].cost # None}
                                  \subseteq summary.costed
    BY DEF SummaryCoversCounted
  <2>1. Ids(summary) = {i \in 1 .. Len(rows) :
                          rows[i].finished \in summary.until - Window .. summary.until}
    <3>1. \A i \in 1 .. Len(rows) : rows[i].finished \in Nat
      <4>1. \A i \in 1 .. Len(rows) : rows[i] \in Row
        BY DEF RecordsInv
      <4>. QED
        BY <4>1 DEF Row
    <3>2. summary.until \in Nat /\ Window \in Nat
      BY CallAssumption DEF RecordsInv, SummaryInv
    <3>. QED
      BY <3>1, <3>2 DEF Ids, InWindow
  <2>. QED
    BY <2>1 DEF RecordsInv, SummaryInv, Counts
<1>. QED
  BY InitRecordsInv, NextRecordsInv, <1>1, PTL DEF Spec

(* Every row tells what the upstream said: tokens are its own or absent, a *)
(* cost is both counts times one version of the prices, and an answer that *)
(* could be used is a success unless the clock was set back                *)
(* (providers/base.py:113-131, metrics/costs.py:8-16, service.py:246-263). *)
THEOREM RowsTruth == Spec => RowsTellTheExchange
<1>1. RecordsInv /\ [Next]_vars =>
         [\A c \in Call :
             At(c, "priced") /\ rows' # rows /\ call'[c] = Done
                 => Truthful(rows'[Len(rows')], call[c].exchange, call[c].price,
                             history[c].setBack)]_vars
  <2>. SUFFICES ASSUME RecordsInv, [Next]_vars, NEW c \in Call,
                       At(c, "priced"), rows' # rows, call'[c] = Done
                PROVE  Truthful(rows'[Len(rows')], call[c].exchange, call[c].price,
                                history[c].setBack)
    OBVIOUS
  <2>1. PICK d \in Call : RecordAttempt(d) /\ rows' = Append(rows, AttemptFromOutcome(d))
    BY DEF Next, CallStep, Start, Answer, FailInstead, LookUpPricing, RecordAttempt,
           UpsertPricing, Summarize, CountAttempts, SumCosts, Tick, ClockSetBack, vars
  <2>2. d = c
    BY <2>1 DEF RecordAttempt, Becomes, At, Done, RecordsInv, CallsInv
  <2>3. AttemptFromOutcome(c) \in Row
        /\ Truthful(AttemptFromOutcome(c), call[c].exchange, call[c].price,
                    history[c].setBack)
    BY AttemptTruthful DEF RecordsInv
  <2>4. rows'[Len(rows')] = AttemptFromOutcome(c)
    BY <2>1, <2>2, <2>3 DEF RecordsInv
  <2>. QED
    BY <2>3, <2>4
<1>. QED
  BY InitRecordsInv, NextRecordsInv, <1>1, PTL DEF Spec, RowsTellTheExchange
=============================================================================
