---------------------------- MODULE HealthApiProofs ----------------------------
(***************************************************************************)
(* Theorems about HealthApi: the endpoint leaves the control plane's       *)
(* guarantees as they are, and what it lists is the health of the instant  *)
(* it asked for.  AInv says that history and table agree on every record   *)
(* the endpoint would not refuse: a record that changes while the clock    *)
(* shows a later time than the one asked carries that later time.          *)
(***************************************************************************)
EXTENDS HealthApi, HealthControlProofs

(* The control plane and the endpoint interleave: a step of either is one  *)
(* of the control plane or leaves it alone.                                *)
LEMMA ApiStepIsControlStep == [ApiNext]_apiVars => [Next]_vars
BY DEF ApiNext, LoopStep, RestartAll, Ask, ReadRecord, ReadLease, Answer,
       Next, apiVars, vars

(* Every theorem about the control plane holds beside the endpoint.        *)
THEOREM ApiKeepsControl == ApiSpec => Spec
<1>1. ApiInit => Init
  BY DEF ApiInit
<1>. QED
  BY <1>1, ApiStepIsControlStep, PTL DEF ApiSpec, Spec

-----------------------------------------------------------------------------
(* A record that changes is stamped with the time of the change.           *)
LEMMA UpdatedIsStamped ==
    ASSUME NEW h \in ProviderHealth \cup {None}, NEW outcome \in Outcome,
           NEW now \in Time, NEW answers \in BOOLEAN
    PROVE  LET u == UpdatedHealth(h, outcome, now, answers)
           IN  u = h \/ (u # None /\ u.updated_at = now)
<1>. DEFINE current == IF h = None THEN Initial(now) ELSE h
            u == UpdatedHealth(h, outcome, now, answers)
<1>1. CASE ~answers \/ Rejects(current, outcome, now)
  BY <1>1 DEF UpdatedHealth
<1>2. CASE ~(~answers \/ Rejects(current, outcome, now))
  <2>1. u = Recorded(current, outcome, now)
    BY <1>2 DEF UpdatedHealth
  <2>2. current \in ProviderHealth
    BY DEF Initial, ProviderHealth, CircuitState, Time
  <2>3. h = None => current.updated_at = now
    BY DEF Initial
  <2>4. h # None => current = h
    OBVIOUS
  <2>. HIDE DEF current, u
  <2>5. \/ Advance(current, now) = current
        \/ Advance(current, now).updated_at = now
    BY <2>2 DEF Advance, ProviderHealth
  <2>6. Advance(current, now) \in ProviderHealth
    BY <2>2 DEF Advance, ProviderHealth, CircuitState, Time
  <2>7. u = current \/ u.updated_at = now
    <3>1. CASE outcome = UncountedFailure
      BY <2>1, <2>5, <3>1 DEF Recorded, Outcome, CountedFailure, UncountedFailure
    <3>2. CASE outcome = "success"
      BY <2>1, <2>6, <3>2
         DEF Recorded, RecordSuccess, ProviderHealth,
             CountedFailure, UncountedFailure
    <3>3. CASE outcome = CountedFailure
      BY <2>1, <2>6, <3>3
         DEF Recorded, RecordFailure, ProviderHealth,
             CountedFailure, UncountedFailure
    <3>. QED
      BY <3>1, <3>2, <3>3 DEF Outcome
  <2>8. u \in ProviderHealth
    <3>1. CASE outcome = UncountedFailure
      BY <2>1, <2>6, <3>1 DEF Recorded, Outcome, CountedFailure, UncountedFailure
    <3>2. CASE outcome = "success"
      BY <2>1, <2>6, <3>2
         DEF Recorded, RecordSuccess, ProviderHealth, CircuitState, Time,
             CountedFailure, UncountedFailure
    <3>3. CASE outcome = CountedFailure
      <4>1. /\ now \in Nat
            /\ now + Cooldown \in Nat
            /\ Advance(current, now).consecutive_failures + 1 \in Nat
        BY <2>6, PolicyAssumption DEF ProviderHealth, Time
      <4>2. RecordFailure(Advance(current, now), now) \in ProviderHealth
        BY <2>6, <4>1 DEF RecordFailure, ProviderHealth, CircuitState, Time
      <4>3. u = RecordFailure(Advance(current, now), now)
        BY <2>1, <3>3 DEF Recorded, CountedFailure, UncountedFailure
      <4>. QED
        BY <4>2, <4>3
    <3>. QED
      BY <3>1, <3>2, <3>3 DEF Outcome
  <2>9. u # None
    BY <2>8, NoneIsNoRecord
  <2>10. u = h \/ (u # None /\ u.updated_at = now)
    BY <2>3, <2>4, <2>7, <2>9
  <2>. QED
    BY <2>10 DEF u
<1>. QED
  BY <1>1, <1>2

(* In a step of the event loop a record stays or is stamped by the clock.  *)
LEMMA LoopStamps ==
    ASSUME TypeOK, LoopStep, NEW k \in Candidate
    PROVE  \/ health'[k] = health[k]
           \/ clock' = clock /\ health'[k] # None /\ health'[k].updated_at = clock
<1>1. CASE health' = health
  BY <1>1
<1>2. ASSUME NEW c \in Call, NEW outcome \in Results, Returns(c, outcome),
             health' # health
      PROVE  \/ health'[k] = health[k]
             \/ clock' = clock /\ health'[k] # None /\ health'[k].updated_at = clock
  <2>1. outcome \in Outcome
    BY <1>2 DEF Returns, Results
  <2>2. PICK answers \in StoreAnswers :
           health' = [health EXCEPT ![target[c]] =
                         UpdatedHealth(@, outcome, clock, answers)]
    BY <1>2 DEF Returns
  <2>3. answers \in BOOLEAN
    BY <2>2, ControlAssumption DEF StoreAnswers
  <2>4. clock \in Time /\ clock' = clock
    BY <1>2, ControlAssumption DEF TypeOK, Time, Returns
  <2>5. CASE k # target[c]
    BY <2>2, <2>5 DEF TypeOK
  <2>6. CASE k = target[c]
    <3>1. health'[k] = UpdatedHealth(health[k], outcome, clock, answers)
      BY <2>2, <2>6 DEF TypeOK
    <3>2. health[k] \in ProviderHealth \cup {None}
      BY DEF TypeOK
    <3>. QED
      BY <2>1, <2>3, <2>4, <3>1, <3>2, UpdatedIsStamped
  <2>. QED
    BY <2>5, <2>6
<1>. QED
  BY <1>1, <1>2
     DEF LoopStep, Return, Begin, Settle, SettleAndFallBack, Abort, Tick

-----------------------------------------------------------------------------
(* Where history and table agree, for the time asked.                      *)
Agreed(k) ==
    \/ health[k] # None /\ ~OnTime(health[k], asked)
    \/ told[k] = HealthEligibility(health[k], asked)

AInv ==
    /\ TypeOK
    /\ asked \in Time \cup {NoTime}
    /\ DOMAIN read = Listed
    /\ asked # NoTime => \A k \in Listed : Agreed(k)

(* The history and the table agree after every step on what the endpoint    *)
(* would not refuse.                                                        *)
LEMMA NextAInv == AInv /\ TypeOK' /\ [ApiNext]_apiVars => AInv'
<1>. SUFFICES ASSUME AInv, TypeOK', [ApiNext]_apiVars PROVE AInv'
  OBVIOUS
<1>0. clock \in Time /\ clock' \in Time /\ NoTime \notin Time
  BY ControlAssumption DEF AInv, TypeOK, Time, NoTime
<1>1. CASE Ask
  BY <1>0, <1>1 DEF Ask, AInv, Agreed, Told, vars
<1>2. ASSUME Answer PROVE AInv'
  BY <1>2 DEF Answer, AInv, Unread
<1>3. ASSUME NEW j \in Listed, ReadRecord(j) PROVE AInv'
  BY <1>2, <1>3 DEF ReadRecord, AInv, Agreed, vars
<1>4. ASSUME NEW j \in Listed, ReadLease(j) PROVE AInv'
  BY <1>2, <1>4 DEF ReadLease, AInv, Agreed, vars
<1>5. CASE LoopStep
  <2>1. asked' = asked /\ read' = read
    BY <1>5 DEF LoopStep, endpoint
  <2>2. ASSUME asked # NoTime, NEW k \in Listed PROVE Agreed(k)'
    <3>1. asked \in Time
      BY <2>2 DEF AInv
    <3>2. CASE clock' <= asked
      BY <1>5, <2>1, <2>2, <3>2 DEF LoopStep, Told, Agreed
    <3>3. CASE ~(clock' <= asked)
      <4>1. told' = told
        BY <1>5, <3>3 DEF LoopStep
      <4>2. k \in Candidate
        BY ListedAssumption
      <4>3. CASE health'[k] = health[k]
        BY <2>1, <2>2, <4>1, <4>3 DEF AInv, Agreed
      <4>4. CASE health'[k] # None /\ health'[k].updated_at = clock /\ clock' = clock
        BY <1>0, <2>1, <3>1, <3>3, <4>4 DEF Agreed, OnTime, Time
      <4>. QED
        BY <1>5, <4>2, <4>3, <4>4, LoopStamps DEF AInv
    <3>. QED
      BY <3>2, <3>3
  <2>. QED
    BY <2>1, <2>2 DEF AInv
<1>6. CASE RestartAll
  BY <1>2, <1>6 DEF RestartAll
<1>7. CASE UNCHANGED apiVars
  BY <1>7 DEF apiVars, endpoint, vars, AInv, Agreed
<1>. QED
  BY <1>1, <1>3, <1>4, <1>5, <1>6, <1>7 DEF ApiNext

(* Whatever the loop records and wherever the clock is set between the     *)
(* endpoint's reads, each entry is the health of the instant it asked for. *)
THEOREM ListsOneInstant == ApiSpec => ListsTheInstantAsked
<1>1. ApiInit => AInv /\ IInv
  <2>. SUFFICES ASSUME ApiInit PROVE AInv /\ IInv
    OBVIOUS
  <2>1. IInv
    BY InitIInv DEF ApiInit
  <2>. QED
    BY <2>1 DEF ApiInit, AInv, IInv, Unread
<1>2. AInv /\ IInv /\ [ApiNext]_apiVars => (AInv /\ IInv)'
  BY ApiStepIsControlStep, NextIInv, NextAInv DEF IInv
<1>3. ASSUME AInv, [ApiNext]_apiVars, NEW k \in Listed,
             read[k] = None, read'[k] # None
      PROVE  read'[k] = told[k]
  <2>1. ~Answer /\ read' # read
    BY <1>3 DEF Answer, Unread
  <2>2. CASE \E j \in Listed : ReadRecord(j)
    <3>1. PICK j \in Listed : ReadRecord(j)
      BY <2>2
    <3>2. /\ asked # NoTime
          /\ \E answers \in StoreAnswers : ~EvaluationRaises(health[j], asked, answers)
          /\ read' = [read EXCEPT ![j] = HealthEligibility(health[j], asked)]
      BY <2>1, <3>1 DEF ReadRecord
    <3>3. k = j
      BY <1>3, <3>2 DEF AInv
    <3>4. told[k] = HealthEligibility(health[k], asked)
      BY <1>3, <3>2, <3>3 DEF AInv, Agreed, EvaluationRaises
    <3>. QED
      BY <1>3, <3>2, <3>3, <3>4 DEF AInv
  <2>3. CASE \E j \in Listed : ReadLease(j)
    <3>1. PICK j \in Listed : ReadLease(j)
      BY <2>3
    <3>2. read[j] # None
      BY <3>1 DEF ReadLease
    <3>. QED
      BY <1>3, <2>1, <3>1, <3>2 DEF ReadLease, AInv
  <2>. QED
    BY <1>3, <2>1, <2>2, <2>3
       DEF ApiNext, LoopStep, RestartAll, Ask, apiVars, endpoint
<1>4. AInv /\ [ApiNext]_apiVars =>
         [\A k \in Listed :
             read[k] = None /\ read'[k] # None => read'[k] = told[k]]_apiVars
  BY <1>3
<1>. QED
  BY <1>1, <1>2, <1>4, PTL DEF ApiSpec, ListsTheInstantAsked
===============================================================================
