--------------------------- MODULE GatewayProofs ---------------------------
(***************************************************************************)
(* Theorems about Gateway: every one of its steps is a HealthControl step  *)
(* or leaves the control plane alone, so the theorems of                   *)
(* HealthControlProofs hold of the whole gateway; a request walks its      *)
(* ranking once and in order, as do its attempts and its attempt rows; and *)
(* what it leaves behind, its explanation, its decision and its entry in   *)
(* the log, tells what was executed and forgets no candidate.              *)
(***************************************************************************)
EXTENDS Gateway, HealthControlProofs, FunctionTheorems

-----------------------------------------------------------------------------
(* Rankings.                                                               *)

(* A sequence of different pairs.                                          *)
Ranking(s) ==
    /\ s \in Seq(Candidate)
    /\ \A m, n \in 1 .. Len(s) : s[m] = s[n] => m = n

(* Every order of a set of pairs is a ranking.                              *)
LEMMA OrdersRank ==
    ASSUME NEW S \in SUBSET Candidate, NEW order \in Orders(S)
    PROVE  Ranking(order)
<1>1. IsFiniteSet(S)
  BY GatewayAssumption, FS_Subset
<1>2. Cardinality(S) \in Nat
  BY <1>1, FS_CardinalityType
<1>. DEFINE n == Cardinality(S)
<1>3. /\ order \in [1 .. n -> S]
      /\ \A i, j \in 1 .. n : i # j => order[i] # order[j]
  BY DEF Orders, SetToSeqs
<1>4. order \in Seq(Candidate) /\ Len(order) = n
  <2>. HIDE DEF n
  <2>1. n \in Nat
    BY <1>2 DEF n
  <2>2. order \in [1 .. n -> Candidate]
    BY <1>3
  <2>. QED
    BY <2>1, <2>2
<1>. QED
  BY <1>3, <1>4 DEF Ranking

(* The router ranks configured pairs only.                                  *)
LEMMA AvailablePairs ==
    ASSUME NEW model, NEW found
    PROVE  Available(model, found) \in SUBSET Candidate
BY DEF Available

OnCalls ==
    \A f \in {requested, ranked, position, attempts, rows} : DOMAIN f = Call

(* Every request has a place in a ranking of its own: none while it calls  *)
(* nobody, its target's while it does.                                     *)
Placed ==
    /\ OnCalls
    /\ \A r \in Call :
           /\ Ranking(ranked[r])
           /\ position[r] \in 0 .. Len(ranked[r])
           /\ position[r] = 0 <=> target[r] = None
           /\ position[r] # 0 => ranked[r][position[r]] = target[r]
           /\ requested[r] = None => position[r] = 0

-----------------------------------------------------------------------------
(* Composition.                                                            *)

(* Every step of the gateway is a step of the control plane.               *)
LEMMA GatewayStepsControl ==
    ASSUME Placed, [GatewayNext]_gatewayVars
    PROVE  [Next]_vars
<1>1. ASSUME NEW r \in Call, NEW model \in Model \cup {"auto"}, Arrive(r, model)
      PROVE  [Next]_vars
  <2>1. PICK found \in Evidence(model) :
           \E order \in Orders(Available(model, found)) :
           \E j \in 1 .. Len(order) + 1 :
              (j <= Len(order) /\ Begin(r, order[j])) \/ UNCHANGED vars
    BY <1>1 DEF Arrive
  <2>2. PICK order \in Orders(Available(model, found)) :
           \E j \in 1 .. Len(order) + 1 :
              (j <= Len(order) /\ Begin(r, order[j])) \/ UNCHANGED vars
    BY <2>1
  <2>3. order \in Seq(Candidate)
    BY AvailablePairs, OrdersRank DEF Ranking
  <2>4. PICK j \in 1 .. Len(order) + 1 :
           (j <= Len(order) /\ Begin(r, order[j])) \/ UNCHANGED vars
    BY <2>2
  <2>5. j <= Len(order) => order[j] \in Candidate
    BY <2>3
  <2>. QED
    BY <2>4, <2>5 DEF Next
<1>2. ASSUME NEW r \in Call, Serve(r)
      PROVE  [Next]_vars
  <2>1. PICK outcome \in {"success", "unmeasured"} : Settle(r, outcome)
    BY <1>2 DEF Serve
  <2>. QED
    BY <2>1 DEF Next, Return, Results, Outcome
<1>3. ASSUME NEW r \in Call, FallBack(r)
      PROVE  [Next]_vars
  <2>1. PICK outcome \in Failures, j \in Later(r) :
           SettleAndFallBack(r, outcome, ranked[r][j])
    BY <1>3 DEF FallBack
  <2>2. outcome \in Results
    BY DEF Failures, Results, Outcome
  <2>3. ranked[r][j] \in Candidate
    BY DEF Placed, OnCalls, Ranking, Later
  <2>. QED
    BY <2>1, <2>2, <2>3 DEF Next, Return
<1>4. ASSUME NEW r \in Call, Exhaust(r)
      PROVE  [Next]_vars
  <2>1. PICK outcome \in Failures : Settle(r, outcome)
    BY <1>4 DEF Exhaust
  <2>2. outcome \in Results
    BY DEF Failures, Results, Outcome
  <2>. QED
    BY <2>1, <2>2 DEF Next, Return
<1>5. ASSUME NEW r \in Call, Cancel(r)
      PROVE  [Next]_vars
  BY <1>5 DEF Cancel, Next, Return
<1>6. CASE GatewayRestart
  BY <1>6 DEF GatewayRestart, Next
<1>7. CASE Tick
  BY <1>7 DEF Next
<1>8. CASE UNCHANGED gatewayVars
  BY <1>8 DEF gatewayVars
<1>. QED
  BY <1>1, <1>2, <1>3, <1>4, <1>5, <1>6, <1>7, <1>8 DEF GatewayNext

(* What the control plane's part of a step does to the targets.            *)
LEMMA TargetsMove ==
    ASSUME TypeOK, NEW c \in Call
    PROVE  /\ \A k : Begin(c, k) => target' = [target EXCEPT ![c] = k]
           /\ \A outcome : Settle(c, outcome) => target' = [target EXCEPT ![c] = None]
           /\ \A outcome, k : SettleAndFallBack(c, outcome, k) =>
                 target' = [target EXCEPT ![c] = k]
           /\ Abort(c) => target' = [target EXCEPT ![c] = None]
           /\ Restart => target' = [d \in Call |-> None]
BY DEF Begin, Settle, SettleAndFallBack, Abort, Restart, Start, Stop

(* Request r's share of a step: it keeps what it has ...                   *)
Keeps(r) ==
    /\ requested'[r] = requested[r]
    /\ ranked'[r] = ranked[r]
    /\ attempts'[r] = attempts[r]
    /\ rows'[r] = rows[r]

Waits(r) == Keeps(r) /\ position'[r] = position[r] /\ target'[r] = target[r]

(* ... or is dropped, keeping its books ...                                *)
Drops(r) == Keeps(r) /\ position'[r] = 0 /\ target'[r] = None

(* ... or arrives ...                                                      *)
Arrives(r) ==
    /\ requested[r] = None
    /\ requested'[r] # None
    /\ Ranking(ranked'[r])
    /\ attempts'[r] = attempts[r]
    /\ rows'[r] = rows[r]
    /\ \/ /\ position'[r] \in 1 .. Len(ranked'[r])
          /\ target'[r] = ranked'[r][position'[r]]
       \/ position'[r] = position[r] /\ target'[r] = target[r]

(* ... or its call returns, and it ends or falls back.                     *)
NewRow(r, success) ==
    [index |-> position[r], candidate |-> target[r], success |-> success]

Moves(r, success) ==
    /\ target[r] # None
    /\ requested'[r] = requested[r]
    /\ ranked'[r] = ranked[r]
    /\ attempts'[r] = WithAttempt(r, success)
    /\ rows'[r] \in {rows[r], rows[r] \cup {NewRow(r, success)}}
    /\ \/ position'[r] = 0 /\ target'[r] = None
       \/ /\ ~success
          /\ position'[r] \in position[r] + 1 .. Len(ranked[r])
          /\ target'[r] = ranked[r][position'[r]]

(* record_attempt writes the attempt's row or, when the store fails, none,  *)
(* and no row of another request.                                           *)
LEMMA RowOfAttempt ==
    ASSUME Placed, NEW r \in Call, NEW outcome, RecordAttempt(r, outcome)
    PROVE  /\ DOMAIN rows' = Call
           /\ rows'[r] \in {rows[r], rows[r] \cup {NewRow(r, outcome = "success")}}
           /\ \A q \in Call \ {r} : rows'[q] = rows[q]
BY DEF RecordAttempt, NewRow, Placed, OnCalls

(* A request's arrival places it at the first candidate it may call and     *)
(* leaves the others alone.                                                 *)
LEMMA ArriveStep ==
    ASSUME TypeOK, Placed, NEW r \in Call, NEW model \in Model \cup {"auto"},
           Arrive(r, model)
    PROVE  /\ OnCalls'
           /\ Arrives(r)
           /\ \A q \in Call \ {r} : Waits(q)
<1>1. PICK found \in Evidence(model) :
         \E order \in Orders(Available(model, found)) :
         \E j \in 1 .. Len(order) + 1 :
            /\ ranked' = [ranked EXCEPT ![r] = order]
            /\ \/ /\ j <= Len(order)
                  /\ Begin(r, order[j])
                  /\ position' = [position EXCEPT ![r] = j]
               \/ UNCHANGED <<vars, position>>
  BY DEF Arrive
<1>2. PICK order \in Orders(Available(model, found)) :
         \E j \in 1 .. Len(order) + 1 :
            /\ ranked' = [ranked EXCEPT ![r] = order]
            /\ \/ /\ j <= Len(order)
                  /\ Begin(r, order[j])
                  /\ position' = [position EXCEPT ![r] = j]
               \/ UNCHANGED <<vars, position>>
  BY <1>1
<1>3. Ranking(order)
  BY AvailablePairs, OrdersRank
<1>4. PICK j \in 1 .. Len(order) + 1 :
            /\ ranked' = [ranked EXCEPT ![r] = order]
            /\ \/ /\ j <= Len(order)
                  /\ Begin(r, order[j])
                  /\ position' = [position EXCEPT ![r] = j]
               \/ UNCHANGED <<vars, position>>
  BY <1>2
<1>5. Len(order) \in Nat
  BY <1>3 DEF Ranking
<1>6. /\ requested[r] = None
      /\ requested' = [requested EXCEPT ![r] = model]
      /\ UNCHANGED <<attempts, rows>>
  BY DEF Arrive
<1>7. model # None
  BY GatewayAssumption
<1>8. DOMAIN target = Call
  BY DEF TypeOK
<1>9. CASE j <= Len(order) /\ Begin(r, order[j]) /\ position' = [position EXCEPT ![r] = j]
  <2>1. target' = [target EXCEPT ![r] = order[j]]
    BY <1>9, TargetsMove
  <2>2. j \in 1 .. Len(order)
    BY <1>5, <1>9
  <2>. QED
    BY <1>3, <1>4, <1>6, <1>7, <1>8, <1>9, <2>1, <2>2 DEF Placed, OnCalls, Arrives, Waits, Keeps
<1>10. CASE UNCHANGED <<vars, position>>
  BY <1>3, <1>4, <1>6, <1>7, <1>10 DEF vars, callVars, Placed, OnCalls, Arrives, Waits, Keeps
<1>. QED
  BY <1>4, <1>9, <1>10

(* A served request ends with its attempt at the place of its call.         *)
LEMMA ServeStep ==
    ASSUME TypeOK, Placed, NEW r \in Call, Serve(r)
    PROVE  /\ OnCalls'
           /\ Moves(r, TRUE)
           /\ \A q \in Call \ {r} : Waits(q)
<1>1. PICK outcome \in {"success", "unmeasured"} :
         /\ Settle(r, outcome)
         /\ RecordAttempt(r, outcome)
  BY DEF Serve
<1>2. /\ position' = [position EXCEPT ![r] = 0]
      /\ attempts' = [attempts EXCEPT ![r] = WithAttempt(r, TRUE)]
      /\ UNCHANGED <<requested, ranked>>
  BY DEF Serve
<1>3. target' = [target EXCEPT ![r] = None]
  BY <1>1, TargetsMove
<1>4. /\ DOMAIN rows' = Call
      /\ rows'[r] \in {rows[r], rows[r] \cup {NewRow(r, TRUE)}}
      /\ \A q \in Call \ {r} : rows'[q] = rows[q]
  <2>1. CASE outcome = "success"
    BY <1>1, <2>1, RowOfAttempt
  <2>2. CASE outcome = "unmeasured"
    BY <1>1, <2>2 DEF RecordAttempt, Placed, OnCalls
  <2>. QED
    BY <2>1, <2>2
<1>5. target[r] # None /\ DOMAIN target = Call
  BY <1>1 DEF Settle, Returns, TypeOK
<1>. QED
  BY <1>2, <1>3, <1>4, <1>5 DEF Placed, OnCalls, Moves, Waits, Keeps

(* The row of a failed attempt says so.                                     *)
LEMMA FailureRow ==
    ASSUME Placed, NEW r \in Call, NEW outcome \in Failures, RecordAttempt(r, outcome)
    PROVE  /\ DOMAIN rows' = Call
           /\ rows'[r] \in {rows[r], rows[r] \cup {NewRow(r, FALSE)}}
           /\ \A q \in Call \ {r} : rows'[q] = rows[q]
<1>1. outcome # "success"
  BY DEF Failures, CountedFailure, UncountedFailure
<1>2. (outcome = "success") = FALSE
  BY <1>1
<1>. QED
  BY <1>2, RowOfAttempt

(* A fallback moves a request to a later place of its ranking.              *)
LEMMA FallBackStep ==
    ASSUME TypeOK, Placed, NEW r \in Call, FallBack(r)
    PROVE  /\ OnCalls'
           /\ Moves(r, FALSE)
           /\ \A q \in Call \ {r} : Waits(q)
<1>1. PICK outcome \in Failures, j \in Later(r) :
         /\ SettleAndFallBack(r, outcome, ranked[r][j])
         /\ RecordAttempt(r, outcome)
         /\ position' = [position EXCEPT ![r] = j]
         /\ attempts' = [attempts EXCEPT ![r] = WithAttempt(r, FALSE)]
         /\ UNCHANGED <<requested, ranked>>
  BY DEF FallBack
<1>2. target' = [target EXCEPT ![r] = ranked[r][j]]
  BY <1>1, TargetsMove
<1>3. /\ DOMAIN rows' = Call
      /\ rows'[r] \in {rows[r], rows[r] \cup {NewRow(r, FALSE)}}
      /\ \A q \in Call \ {r} : rows'[q] = rows[q]
  BY <1>1, FailureRow
<1>4. target[r] # None /\ DOMAIN target = Call
  BY <1>1 DEF SettleAndFallBack, Returns, TypeOK
<1>. QED
  BY <1>1, <1>2, <1>3, <1>4 DEF Later, Placed, OnCalls, Moves, Waits, Keeps

(* A request without a further candidate ends with its last attempt at the  *)
(* place of its call.                                                       *)
LEMMA ExhaustStep ==
    ASSUME TypeOK, Placed, NEW r \in Call, Exhaust(r)
    PROVE  /\ OnCalls'
           /\ Moves(r, FALSE)
           /\ \A q \in Call \ {r} : Waits(q)
<1>1. PICK outcome \in Failures :
         /\ Settle(r, outcome)
         /\ RecordAttempt(r, outcome)
         /\ position' = [position EXCEPT ![r] = 0]
         /\ attempts' = [attempts EXCEPT ![r] = WithAttempt(r, FALSE)]
         /\ UNCHANGED <<requested, ranked>>
  BY DEF Exhaust
<1>2. target' = [target EXCEPT ![r] = None]
  BY <1>1, TargetsMove
<1>3. /\ DOMAIN rows' = Call
      /\ rows'[r] \in {rows[r], rows[r] \cup {NewRow(r, FALSE)}}
      /\ \A q \in Call \ {r} : rows'[q] = rows[q]
  BY <1>1, FailureRow
<1>4. target[r] # None /\ DOMAIN target = Call
  BY <1>1 DEF Settle, Returns, TypeOK
<1>. QED
  BY <1>1, <1>2, <1>3, <1>4 DEF Placed, OnCalls, Moves, Waits, Keeps

(* What any step of the gateway means to each request.                     *)
LEMMA StepOfRequest ==
    ASSUME TypeOK, Placed, [GatewayNext]_gatewayVars
    PROVE  /\ OnCalls'
           /\ \A r \in Call :
                 \/ Waits(r) \/ Drops(r) \/ Arrives(r)
                 \/ Moves(r, TRUE) \/ Moves(r, FALSE)
<1>1. ASSUME NEW r \in Call, Cancel(r)
      PROVE  /\ OnCalls'
             /\ Drops(r)
             /\ \A q \in Call \ {r} : Waits(q)
  <2>1. target' = [target EXCEPT ![r] = None] /\ DOMAIN target = Call
    BY <1>1, TargetsMove DEF Cancel, TypeOK
  <2>. QED
    BY <1>1, <2>1 DEF Cancel, Placed, OnCalls, Drops, Waits, Keeps
<1>2. CASE GatewayRestart
  <2>1. target' = [d \in Call |-> None]
    <3>. SUFFICES Restart
      BY DEF Restart
    <3>. QED
      BY <1>2 DEF GatewayRestart
  <2>2. \A r \in Call : Drops(r)
    BY <1>2, <2>1 DEF GatewayRestart, Drops, Keeps
  <2>. QED
    BY <1>2, <2>2 DEF GatewayRestart, Placed, OnCalls
<1>3. CASE Tick /\ UNCHANGED bookVars
  BY <1>3 DEF Tick, callVars, bookVars, Placed, OnCalls, Waits, Keeps
<1>4. CASE UNCHANGED gatewayVars
  BY <1>4 DEF gatewayVars, vars, callVars, bookVars, Placed, OnCalls, Waits, Keeps
<1>5. CASE \E r \in Call, model \in Model \cup {"auto"} : Arrive(r, model)
  BY <1>5, ArriveStep
<1>6. CASE \E r \in Call : Serve(r)
  BY <1>6, ServeStep
<1>7. CASE \E r \in Call : FallBack(r)
  BY <1>7, FallBackStep
<1>8. CASE \E r \in Call : Exhaust(r)
  BY <1>8, ExhaustStep
<1>9. CASE \E r \in Call : Cancel(r)
  BY <1>9, <1>1
<1>. QED
  BY <1>2, <1>3, <1>4, <1>5, <1>6, <1>7, <1>8, <1>9 DEF GatewayNext

-----------------------------------------------------------------------------
(* The walk along the ranking.                                             *)

AttemptEntry == [candidate : Candidate, success : BOOLEAN]

(* Attempt i of request r was made at position m of its ranking, before    *)
(* the one it is at now.                                                   *)
MadeAt(r, i, m) ==
    /\ m \in 1 .. Len(ranked[r])
    /\ ranked[r][m] = attempts[r][i].candidate
    /\ position[r] # 0 => m < position[r]

Walk(r) ==
    /\ attempts[r] \in Seq(AttemptEntry)
    /\ requested[r] = None => attempts[r] = <<>>
    /\ \A i \in 1 .. Len(attempts[r]) : \E m : MadeAt(r, i, m)
    /\ \A i, j \in 1 .. Len(attempts[r]) :
           i < j => \E m, n \in 1 .. Len(ranked[r]) :
                       /\ m < n
                       /\ ranked[r][m] = attempts[r][i].candidate
                       /\ ranked[r][n] = attempts[r][j].candidate

WalkInv == \A r \in Call : Walk(r)

(* Every step leaves each request at the place of the candidate it calls.   *)
LEMMA PlacedStep ==
    ASSUME TypeOK, Placed, [GatewayNext]_gatewayVars
    PROVE  Placed'
<1>1. OnCalls'
  BY StepOfRequest
<1>2. ASSUME NEW r \in Call
      PROVE  /\ Ranking(ranked'[r])
             /\ position'[r] \in 0 .. Len(ranked'[r])
             /\ position'[r] = 0 <=> target'[r] = None
             /\ position'[r] # 0 => ranked'[r][position'[r]] = target'[r]
             /\ requested'[r] = None => position'[r] = 0
  <2>1. CASE Waits(r) \/ Drops(r)
    BY <2>1 DEF Waits, Drops, Keeps, Placed, OnCalls, Ranking
  <2>2. CASE Arrives(r)
    <3>1. Ranking(ranked'[r]) /\ Len(ranked'[r]) \in Nat
      BY <2>2 DEF Arrives, Ranking
    <3>2. position[r] = 0 /\ target[r] = None /\ requested'[r] # None
      BY <2>2 DEF Arrives, Placed, OnCalls
    <3>3. CASE position'[r] = position[r] /\ target'[r] = target[r]
      BY <3>1, <3>2, <3>3
    <3>4. CASE /\ position'[r] \in 1 .. Len(ranked'[r])
               /\ target'[r] = ranked'[r][position'[r]]
      <4>1. target'[r] \in Candidate
        BY <3>1, <3>4 DEF Ranking
      <4>. QED
        BY <3>1, <3>2, <3>4, <4>1, ControlAssumption
    <3>. QED
      BY <2>2, <3>3, <3>4 DEF Arrives
  <2>3. ASSUME NEW success \in BOOLEAN, Moves(r, success)
        PROVE  /\ Ranking(ranked'[r])
               /\ position'[r] \in 0 .. Len(ranked'[r])
               /\ position'[r] = 0 <=> target'[r] = None
               /\ position'[r] # 0 => ranked'[r][position'[r]] = target'[r]
               /\ requested'[r] = None => position'[r] = 0
    <3>1. /\ Ranking(ranked[r]) /\ ranked'[r] = ranked[r]
          /\ Len(ranked[r]) \in Nat
          /\ position[r] \in 0 .. Len(ranked[r])
      BY <2>3 DEF Moves, Placed, OnCalls, Ranking
    <3>2. position[r] # 0 /\ requested'[r] # None
      BY <2>3 DEF Moves, Placed, OnCalls
    <3>3. CASE position'[r] = 0 /\ target'[r] = None
      BY <3>1, <3>2, <3>3
    <3>4. CASE /\ position'[r] \in position[r] + 1 .. Len(ranked[r])
               /\ target'[r] = ranked[r][position'[r]]
      <4>1. target'[r] \in Candidate
        BY <3>1, <3>4 DEF Ranking
      <4>. QED
        BY <3>1, <3>2, <3>4, <4>1, ControlAssumption
    <3>. QED
      BY <2>3, <3>3, <3>4 DEF Moves
  <2>. QED
    BY <2>1, <2>2, <2>3, StepOfRequest
<1>. QED
  BY <1>1, <1>2 DEF Placed, OnCalls

(* An attempt is appended: the earlier ones keep their places, it stands   *)
(* at the request's position.                                              *)
LEMMA WalkMoves ==
    ASSUME TypeOK, Placed, NEW r \in Call, Walk(r), NEW success \in BOOLEAN,
           Moves(r, success)
    PROVE  Walk(r)'
<1>. DEFINE n == Len(attempts[r])
            e == [candidate |-> target[r], success |-> success]
<1>1. /\ attempts[r] \in Seq(AttemptEntry)
      /\ n \in Nat
  BY DEF Walk
<1>2. /\ target[r] \in Candidate
      /\ ranked[r] \in Seq(Candidate) /\ ranked'[r] = ranked[r]
      /\ Len(ranked[r]) \in Nat
      /\ position[r] \in 1 .. Len(ranked[r])
      /\ ranked[r][position[r]] = target[r]
      /\ requested'[r] = requested[r] /\ requested[r] # None
  BY DEF Moves, Placed, OnCalls, Ranking, TypeOK
<1>3. /\ attempts'[r] = Append(attempts[r], e)
      /\ e \in AttemptEntry
  BY <1>2 DEF Moves, WithAttempt, AttemptEntry
<1>4. /\ attempts'[r] \in Seq(AttemptEntry)
      /\ Len(attempts'[r]) = n + 1
      /\ \A i \in 1 .. n : attempts'[r][i] = attempts[r][i]
      /\ attempts'[r][n + 1].candidate = target[r]
  <2>. HIDE DEF e
  <2>1. /\ attempts'[r] \in Seq(AttemptEntry)
        /\ Len(attempts'[r]) = n + 1
        /\ \A i \in 1 .. n : attempts'[r][i] = attempts[r][i]
        /\ attempts'[r][n + 1] = e
    BY <1>1, <1>3
  <2>. QED
    BY <2>1 DEF e
<1>. PICK p \in 1 .. Len(ranked[r]) : p = position[r]
  BY <1>2
<1>5. \A i \in 1 .. n : \E m \in 1 .. Len(ranked[r]) :
         m < p /\ ranked[r][m] = attempts[r][i].candidate
  <2>. SUFFICES ASSUME NEW i \in 1 .. n
                PROVE  \E m \in 1 .. Len(ranked[r]) :
                          m < p /\ ranked[r][m] = attempts[r][i].candidate
    OBVIOUS
  <2>1. PICK m : MadeAt(r, i, m)
    BY DEF Walk
  <2>2. position[r] # 0
    BY <1>2
  <2>. QED
    BY <2>1, <2>2 DEF MadeAt
<1>6. position'[r] # 0 => position'[r] \in Nat /\ p < position'[r]
  BY <1>2 DEF Moves
<1>. HIDE DEF n, e
<1>7. ASSUME NEW i \in 1 .. n + 1
      PROVE  \E m : MadeAt(r, i, m)'
  <2>1. CASE i \in 1 .. n
    <3>1. PICK m \in 1 .. Len(ranked[r]) :
             m < p /\ ranked[r][m] = attempts[r][i].candidate
      BY <1>5, <2>1
    <3>2. MadeAt(r, i, m)'
      BY <1>2, <1>4, <1>6, <2>1, <3>1 DEF MadeAt
    <3>. QED
      BY <3>2
  <2>2. CASE i = n + 1
    <3>1. MadeAt(r, i, p)'
      BY <1>2, <1>4, <1>6, <2>2 DEF MadeAt
    <3>. QED
      BY <3>1
  <2>. QED
    BY <1>1, <2>1, <2>2 DEF n
<1>8. ASSUME NEW i \in 1 .. n + 1, NEW j \in 1 .. n + 1, i < j
      PROVE  \E m, q \in 1 .. Len(ranked[r]) :
                /\ m < q
                /\ ranked[r][m] = attempts'[r][i].candidate
                /\ ranked[r][q] = attempts'[r][j].candidate
  <2>1. i \in 1 .. n
    BY <1>1, <1>8 DEF n
  <2>2. CASE j \in 1 .. n
    <3>1. PICK m \in 1 .. Len(ranked[r]), q \in 1 .. Len(ranked[r]) :
             /\ m < q
             /\ ranked[r][m] = attempts[r][i].candidate
             /\ ranked[r][q] = attempts[r][j].candidate
      BY <1>8, <2>1, <2>2 DEF Walk, n
    <3>2. attempts'[r][i] = attempts[r][i] /\ attempts'[r][j] = attempts[r][j]
      BY <1>4, <2>1, <2>2
    <3>. QED
      BY <3>1, <3>2
  <2>3. CASE j = n + 1
    <3>1. PICK m \in 1 .. Len(ranked[r]) :
             m < p /\ ranked[r][m] = attempts[r][i].candidate
      BY <1>5, <2>1
    <3>2. p \in 1 .. Len(ranked[r]) /\ ranked[r][p] = attempts'[r][j].candidate
      BY <1>2, <1>4, <2>3
    <3>3. ranked[r][m] = attempts'[r][i].candidate
      BY <1>4, <2>1, <3>1
    <3>. QED
      BY <3>1, <3>2, <3>3
  <2>. QED
    <3>1. j \in 1 .. n \/ j = n + 1
      BY <1>1 DEF n
    <3>. QED
      BY <2>2, <2>3, <3>1
<1>9. (requested[r] = None => attempts[r] = <<>>)'
  BY <1>2
<1>. QED
  BY <1>2, <1>4, <1>7, <1>8, <1>9 DEF Walk

(* Every step leaves the attempts at earlier places, each once and in       *)
(* order.                                                                   *)
LEMMA WalkStep ==
    ASSUME TypeOK, Placed, WalkInv, [GatewayNext]_gatewayVars
    PROVE  WalkInv'
<1>. SUFFICES ASSUME NEW r \in Call
              PROVE  Walk(r)'
  BY DEF WalkInv
<1>1. Walk(r)
  BY DEF WalkInv
<1>2. CASE Waits(r) \/ Drops(r)
  <2>1. \A i, m : MadeAt(r, i, m) => MadeAt(r, i, m)'
    BY <1>2 DEF Waits, Drops, Keeps, MadeAt
  <2>2. /\ requested'[r] = requested[r] /\ ranked'[r] = ranked[r]
        /\ attempts'[r] = attempts[r]
    BY <1>2 DEF Waits, Drops, Keeps
  <2>3. \A i \in 1 .. Len(attempts[r]) : \E m : MadeAt(r, i, m)'
    BY <1>1, <2>1 DEF Walk
  <2>. QED
    BY <1>1, <2>2, <2>3 DEF Walk
<1>4. CASE Arrives(r)
  <2>1. attempts'[r] = <<>> /\ Len(attempts'[r]) = 0
    BY <1>1, <1>4 DEF Arrives, Walk
  <2>2. attempts'[r] \in Seq(AttemptEntry)
    BY <1>1, <1>4 DEF Arrives, Walk
  <2>. QED
    BY <2>1, <2>2 DEF Walk
<1>5. CASE Moves(r, TRUE) \/ Moves(r, FALSE)
  BY <1>1, <1>5, WalkMoves
<1>. QED
  BY <1>2, <1>4, <1>5, StepOfRequest

-----------------------------------------------------------------------------
(* Attempt rows.                                                           *)

Tells(r, row) ==
    \E i \in 1 .. Len(attempts[r]) :
        attempts[r][i] = [candidate |-> row.candidate, success |-> row.success]

RowPlaced(r, row) ==
    /\ row.index \in 1 .. Len(ranked[r])
    /\ ranked[r][row.index] = row.candidate
    /\ position[r] # 0 => row.index < position[r] /\ ~row.success

RowsInv ==
    \A r \in Call :
        /\ requested[r] = None => rows[r] = {}
        /\ \A row \in rows[r] :
               /\ RowPlaced(r, row)
               /\ Tells(r, row)
               /\ \A other \in rows[r] :
                      other # row => /\ other.index # row.index
                                     /\ row.success => other.index < row.index

(* The row of a returning call stands after the rows there are.            *)
LEMMA RowsMove ==
    ASSUME TypeOK, Placed, WalkInv, RowsInv, NEW r \in Call,
           NEW success \in BOOLEAN, Moves(r, success)
    PROVE  \A row \in rows'[r] :
              /\ RowPlaced(r, row)'
              /\ Tells(r, row)'
              /\ \A other \in rows'[r] :
                     other # row => /\ other.index # row.index
                                    /\ row.success => other.index < row.index
<1>. DEFINE new == NewRow(r, success)
<1>1. PICK p \in 1 .. Len(ranked[r]) : p = position[r]
  BY DEF Moves, Placed, Ranking
<1>2. /\ target[r] \in Candidate
      /\ ranked[r][p] = target[r]
      /\ Len(ranked[r]) \in Nat
      /\ ranked'[r] = ranked[r]
  BY <1>1 DEF Moves, Placed, Ranking, TypeOK
<1>3. /\ new.index = p /\ new.candidate = target[r] /\ new.success = success
      /\ rows'[r] \subseteq rows[r] \cup {new}
  BY <1>1 DEF Moves, NewRow
<1>4. \A row \in rows[r] :
         /\ row.index \in 1 .. Len(ranked[r]) /\ row.index < p
         /\ ranked[r][row.index] = row.candidate
         /\ ~row.success
  BY <1>1 DEF RowsInv, RowPlaced
<1>5. position'[r] # 0 => position'[r] \in Nat /\ p < position'[r] /\ ~success
  BY <1>1 DEF Moves
<1>6. /\ \A i \in 1 .. Len(attempts[r]) :
            i \in 1 .. Len(attempts'[r]) /\ attempts'[r][i] = attempts[r][i]
      /\ \E i \in 1 .. Len(attempts'[r]) :
            attempts'[r][i] = [candidate |-> target[r], success |-> success]
  <2>. DEFINE e == [candidate |-> target[r], success |-> success]
  <2>1. attempts[r] \in Seq(AttemptEntry) /\ e \in AttemptEntry
    BY <1>2 DEF WalkInv, Walk, AttemptEntry
  <2>2. attempts'[r] = Append(attempts[r], e)
    BY DEF Moves, WithAttempt
  <2>. HIDE DEF e
  <2>3. Len(attempts[r]) \in Nat
    BY <2>1
  <2>4. /\ Len(attempts'[r]) = Len(attempts[r]) + 1
        /\ attempts'[r][Len(attempts[r]) + 1] = e
        /\ \A i \in 1 .. Len(attempts[r]) : attempts'[r][i] = attempts[r][i]
    BY <2>1, <2>2
  <2>5. \E i \in 1 .. Len(attempts'[r]) : attempts'[r][i] = e
    BY <2>3, <2>4
  <2>. QED
    BY <2>3, <2>4, <2>5 DEF e
<1>. HIDE DEF new
<1>. SUFFICES ASSUME NEW row \in rows'[r]
              PROVE  /\ RowPlaced(r, row)'
                     /\ Tells(r, row)'
                     /\ \A other \in rows'[r] :
                            other # row => /\ other.index # row.index
                                           /\ row.success => other.index < row.index
  OBVIOUS
<1>7. RowPlaced(r, row)'
  BY <1>1, <1>2, <1>3, <1>4, <1>5 DEF RowPlaced
<1>8. Tells(r, row)'
  <2>1. CASE row \in rows[r]
    <3>1. PICK i \in 1 .. Len(attempts[r]) :
             attempts[r][i] = [candidate |-> row.candidate, success |-> row.success]
      BY <2>1 DEF RowsInv, Tells
    <3>. QED
      BY <1>6, <3>1 DEF Tells
  <2>2. CASE row = new
    BY <1>3, <1>6, <2>2 DEF Tells
  <2>. QED
    BY <1>3, <2>1, <2>2
<1>9. ASSUME NEW other \in rows'[r], other # row
      PROVE  other.index # row.index /\ (row.success => other.index < row.index)
  <2>1. CASE row \in rows[r] /\ other \in rows[r]
    BY <1>4, <1>9, <2>1 DEF RowsInv
  <2>2. CASE row = new /\ other \in rows[r]
    BY <1>1, <1>3, <1>4, <2>2
  <2>3. CASE row \in rows[r] /\ other = new
    BY <1>1, <1>3, <1>4, <2>3
  <2>. QED
    BY <1>3, <1>9, <2>1, <2>2, <2>3
<1>. QED
  BY <1>7, <1>8, <1>9

(* Every step leaves a request's rows those of its attempts, at their       *)
(* places.                                                                  *)
LEMMA RowsStep ==
    ASSUME TypeOK, Placed, WalkInv, RowsInv, [GatewayNext]_gatewayVars
    PROVE  RowsInv'
<1>. SUFFICES ASSUME NEW r \in Call
              PROVE  /\ requested'[r] = None => rows'[r] = {}
                     /\ \A row \in rows'[r] :
                            /\ RowPlaced(r, row)'
                            /\ Tells(r, row)'
                            /\ \A other \in rows'[r] :
                                   other # row =>
                                       /\ other.index # row.index
                                       /\ row.success => other.index < row.index
  BY DEF RowsInv
<1>1. CASE Waits(r) \/ Drops(r)
  <2>1. /\ requested'[r] = requested[r] /\ ranked'[r] = ranked[r]
        /\ attempts'[r] = attempts[r] /\ rows'[r] = rows[r]
        /\ position'[r] \in {0, position[r]}
    BY <1>1 DEF Waits, Drops, Keeps
  <2>2. \A row : RowPlaced(r, row) => RowPlaced(r, row)'
    BY <2>1 DEF RowPlaced
  <2>3. \A row : Tells(r, row) => Tells(r, row)'
    BY <2>1 DEF Tells
  <2>. QED
    BY <2>1, <2>2, <2>3 DEF RowsInv
<1>2. CASE Arrives(r)
  BY <1>2 DEF Arrives, RowsInv
<1>3. CASE Moves(r, TRUE) \/ Moves(r, FALSE)
  <2>1. requested'[r] # None
    BY <1>3 DEF Moves, Placed
  <2>. QED
    BY <1>3, <2>1, RowsMove
<1>. QED
  BY <1>1, <1>2, <1>3, StepOfRequest

-----------------------------------------------------------------------------
(* What the books of a request tell, at every moment.                      *)

BookDomains ==
    /\ DOMAIN evidence = Call /\ DOMAIN result = Call /\ DOMAIN decision = Call
    /\ \A r \in Call : DOMAIN evidence[r] = Candidate

(* A pair that is not in the ranking could not have served the request.    *)
TellsRanking(r) ==
    requested[r] # None =>
        \A k \in Candidate :
            (\A n \in 1 .. Len(ranked[r]) : ranked[r][n] # k) =>
                IF Automatic(r) THEN ~Eligible(evidence[r][k])
                                ELSE ModelOf[k] # requested[r]

(* The loop has the place n of the ranking behind it.                      *)
Passed(r, n) ==
    \/ ranked[r][n] \in Attempted(r)
    \/ Automatic(r) /\ ~Eligible(evidence[r][ranked[r][n]])

Reached(r) == IF position[r] # 0 THEN position[r] ELSE Len(ranked[r]) + 1

TellsWalk(r) ==
    position[r] # 0 \/ result[r] \in {"all_failed", "no_provider"} =>
        \A n \in 1 .. Reached(r) - 1 : Passed(r, n)

(* The pair that was, or is being, tried first: all before it are barred.  *)
FirstTried(r) == IF attempts[r] = <<>> THEN target[r] ELSE attempts[r][1].candidate

Leads(order, found, k) ==
    \E p \in 1 .. Len(order) :
        /\ order[p] = k
        /\ \A n \in 1 .. p - 1 : ~Eligible(found[order[n]])

TellsTried(r) ==
    Automatic(r) =>
        /\ \A k \in Attempted(r) : Eligible(evidence[r][k])
        /\ position[r] # 0 => Eligible(evidence[r][target[r]])
        /\ result[r] \notin {"cancelled", "lost"} =>
               \A k \in Candidate :
                   evidence[r][k] = Probe =>
                       k \in Attempted(r) \/ (position[r] # 0 /\ k = target[r])
        /\ attempts[r] # <<>> \/ position[r] # 0 =>
               Leads(ranked[r], evidence[r], FirstTried(r))

TellsResult(r) ==
    /\ requested[r] = None => result[r] = "none" /\ decision[r] = None
    /\ position[r] # 0 => result[r] = "none" /\ decision[r] = None
    /\ result[r] \in Answered => attempts[r] # <<>>
    /\ decision[r] # None =>
           /\ Automatic(r)
           /\ result[r] \in Answered
           /\ decision[r].selected = attempts[r][1].candidate
           /\ LET last == attempts[r][Len(attempts[r])]
              IN  decision[r].served = IF last.success THEN last.candidate ELSE None

Tale(r) == TellsRanking(r) /\ TellsWalk(r) /\ TellsTried(r) /\ TellsResult(r)

TaleInv == BookDomains /\ \A r \in Call : Tale(r)

-----------------------------------------------------------------------------
(* What a step adds to the books of request r: nothing ...                 *)
Same(r) ==
    /\ requested'[r] = requested[r] /\ ranked'[r] = ranked[r]
    /\ attempts'[r] = attempts[r] /\ evidence'[r] = evidence[r]
    /\ decision'[r] = decision[r]

Rests(r) ==
    /\ Same(r)
    /\ position'[r] = position[r] /\ target'[r] = target[r] /\ result'[r] = result[r]

(* ... or that it was given up ...                                         *)
Quits(r) ==
    /\ Same(r)
    /\ position'[r] = 0
    /\ position[r] # 0 => result'[r] \in {"cancelled", "lost"}
    /\ position[r] = 0 => result'[r] = result[r]

(* The places from a up to b are barred for an automatic request; one that *)
(* names its model skips none.                                             *)
Skips(model, order, found, a, b) ==
    \A n \in a .. b - 1 : model = "auto" /\ ~Eligible(found[order[n]])

(* ... or its ranking and how far it got ...                               *)
Comes(r) ==
    LET model == requested'[r]
        order == ranked'[r]
        found == evidence'[r]
    IN  /\ requested[r] = None
        /\ model # None
        /\ Ranking(order)
        /\ attempts'[r] = attempts[r] /\ decision'[r] = decision[r]
        /\ \A k \in Candidate :
               (\A n \in 1 .. Len(order) : order[n] # k) =>
                   IF model = "auto" THEN ~Eligible(found[k]) ELSE ModelOf[k] # model
        /\ \E j \in 1 .. Len(order) + 1 :
               /\ Skips(model, order, found, 1, j)
               /\ \/ /\ j <= Len(order)
                     /\ position'[r] = j
                     /\ target'[r] = order[j]
                     /\ result'[r] = result[r]
                     /\ Eligible(found[order[j]]) \/ model # "auto"
                     /\ \A k \in Candidate : found[k] = Probe => k = order[j]
                  \/ /\ j = Len(order) + 1
                     /\ position'[r] = position[r]
                     /\ result'[r] = "no_provider"
                     /\ \A k \in Candidate : found[k] # Probe

(* ... or one more attempt, and what admission said of the places from the *)
(* attempt's on to the place next.                                         *)
Updates(r, next) ==
    LET order == ranked[r]
        found == evidence'[r]
    IN  /\ requested'[r] = requested[r] /\ ranked'[r] = ranked[r]
        /\ Skips(requested[r], order, found, position[r] + 1, next)
        /\ \A k \in Candidate :
               (\A n \in position[r] + 1 .. next : n <= Len(order) => order[n] # k)
                   => found[k] = evidence[r][k]
        /\ \A k \in Candidate :
               found[k] = Probe =>
                   \/ evidence[r][k] = Probe
                   \/ next <= Len(order) /\ k = order[next]

Continues(r) ==
    /\ target[r] # None
    /\ attempts'[r] = WithAttempt(r, FALSE)
    /\ position'[r] \in position[r] + 1 .. Len(ranked[r])
    /\ target'[r] = ranked[r][position'[r]]
    /\ result'[r] = result[r] /\ decision'[r] = decision[r]
    /\ Updates(r, position'[r])
    /\ Automatic(r) => Eligible(evidence'[r][target'[r]])

Decides(r, found, served) ==
    decision'[r] # decision[r] =>
        /\ Automatic(r)
        /\ decision'[r] = [selected |-> Selected(r, found), served |-> served]

Fails(r) ==
    /\ target[r] # None
    /\ attempts'[r] = WithAttempt(r, FALSE)
    /\ position'[r] = 0
    /\ result'[r] = "all_failed"
    /\ Updates(r, Len(ranked[r]) + 1)
    /\ Decides(r, evidence'[r], None)

Serves(r) ==
    /\ target[r] # None
    /\ requested'[r] = requested[r] /\ ranked'[r] = ranked[r]
    /\ evidence'[r] = evidence[r]
    /\ attempts'[r] = WithAttempt(r, TRUE)
    /\ position'[r] = 0
    /\ result'[r] \in {"served", "raised"}
    /\ Decides(r, evidence[r], target[r])

-----------------------------------------------------------------------------
(* The steps that add it.                                                  *)

(* A ranking holds every pair that is available.                           *)
LEMMA OrdersCover ==
    ASSUME NEW S \in SUBSET Candidate, NEW order \in Orders(S), NEW k \in S
    PROVE  \E n \in 1 .. Len(order) : order[n] = k
<1>. DEFINE m == Cardinality(S)
<1>1. IsFiniteSet(S) /\ m \in Nat
  BY GatewayAssumption, FS_Subset, FS_CardinalityType
<1>2. /\ order \in [1 .. m -> S]
      /\ \A i, j \in 1 .. m : order[i] = order[j] => i = j
  BY DEF Orders, SetToSeqs
<1>3. order \in Injection(1 .. m, S)
  BY <1>2, Fun_IsInj
<1>4. Cardinality(1 .. m) = m
  BY <1>1, FS_Interval, 1 \in Int, m \in Int
<1>5. order \in Surjection(1 .. m, S)
  BY <1>1, <1>3, <1>4, FS_Injection
<1>6. Len(order) = m
  <2>. HIDE DEF m
  <2>. QED
    BY <1>1, <1>2
<1>. QED
  BY <1>5, <1>6, Fun_SurjectionProperties

(* The evaluation of a pair's health never reserves a probe: only the       *)
(* coordinator does.                                                        *)
LEMMA EvaluationIsNoProbe ==
    ASSUME NEW h \in ProviderHealth \cup {None}, NEW now \in Time, NEW answers
    PROVE  EvaluateHealth(h, now, answers) # Probe
<1>1. h # None => Advance(h, now).state \in CircuitState
  BY DEF Advance, ProviderHealth, CircuitState
<1>. QED
  BY <1>1 DEF EvaluateHealth, HealthEligibility, CircuitState, Probe

(* The places from a up to b are places of the ranking.                    *)
Stretch(order, a, b) ==
    Ranking(order) /\ a \in Nat \ {0} /\ b \in 1 .. Len(order) + 1

(* updated tells of those places that they are barred, and of the pairs    *)
(* elsewhere what found told.                                              *)
Bars(model, order, found, updated, a, b) ==
    /\ DOMAIN updated = Candidate
    /\ Skips(model, order, updated, a, b)
    /\ \A k \in Candidate :
           (\A n \in a .. b - 1 : order[n] # k) => updated[k] = found[k]
    /\ \A k \in Candidate : updated[k] = Probe => found[k] = Probe

(* The updates for the places the loop steps over bar their pairs and      *)
(* leave the others alone.                                                 *)
LEMMA UpdatesBar ==
    ASSUME NEW model, NEW order, NEW found, NEW h, NEW l, NEW a, NEW b,
           Stretch(order, a, b),
           Reaches(model, order, h, l, a, b)
    PROVE  Bars(model, order, found, WithUpdates(found, order, h, l, a, b), a, b)
<1>. DEFINE updated == WithUpdates(found, order, h, l, a, b)
<1>. USE DEF Stretch
<1>1. order \in Seq(Candidate) /\ Len(order) \in Nat
  BY DEF Ranking
<1>2. ASSUME NEW n \in a .. b - 1
      PROVE  /\ order[n] \in Candidate
             /\ model = "auto"
             /\ updated[order[n]] = Admission(h[order[n]], l[order[n]], clock, TRUE)
             /\ ~Eligible(updated[order[n]])
  <2>1. n \in 1 .. Len(order)
    BY <1>1
  <2>2. order[n] \in Candidate
    BY <1>1, <2>1
  <2>3. model = "auto" /\ Barred(h, l, order[n])
    BY DEF Reaches
  <2>4. updated[order[n]] = Admission(h[order[n]], l[order[n]], clock, TRUE)
    BY <2>2 DEF WithUpdates
  <2>. QED
    BY <2>2, <2>3, <2>4 DEF Barred
<1>3. DOMAIN updated = Candidate
  BY DEF WithUpdates
<1>4. Skips(model, order, updated, a, b)
  BY <1>2 DEF Skips
<1>5. ASSUME NEW k \in Candidate, \A n \in a .. b - 1 : order[n] # k
      PROVE  updated[k] = found[k]
  BY <1>5 DEF WithUpdates
<1>6. Eligible(Probe)
  BY DEF Eligible, Probe
<1>. HIDE DEF updated
<1>7. ASSUME NEW k \in Candidate, updated[k] = Probe
      PROVE  found[k] = Probe
  BY <1>2, <1>5, <1>6, <1>7
<1>. QED
  BY <1>3, <1>4, <1>5, <1>7 DEF Bars, updated

(* The choices of a request's arrival.                                     *)
Lands(r, model, found, order, j) ==
    LET updated == WithUpdates(found, order, health, leases, 1, j)
    IN  /\ Reaches(model, order, health, leases, 1, j)
        /\ ranked' = [ranked EXCEPT ![r] = order]
        /\ \/ /\ j <= Len(order)
              /\ Begin(r, order[j])
              /\ position' = [position EXCEPT ![r] = j]
              /\ evidence' = [evidence EXCEPT ![r] =
                     IF model = "auto" THEN [updated EXCEPT ![order[j]] = via'[r]]
                                       ELSE updated]
              /\ UNCHANGED result
           \/ /\ j = Len(order) + 1
              /\ evidence' = [evidence EXCEPT ![r] = updated]
              /\ result' = [result EXCEPT ![r] = "no_provider"]
              /\ UNCHANGED <<vars, position>>

(* Whoever starts a call was admitted.                                     *)
LEMMA StartedEligible ==
    ASSUME NEW c \in Call, DOMAIN via = Call
    PROVE  /\ \A k : Begin(c, k) => Eligible(via'[c])
           /\ \A outcome, k : SettleAndFallBack(c, outcome, k) => Eligible(via'[c])
<1>1. \A h, l, k : \A as \in Admissions(h, l, k) : Eligible(as)
  BY DEF Admissions, Eligible, Explicit
<1>. QED
  BY <1>1 DEF Begin, SettleAndFallBack, Start

(* What a ranking reads of the health of the pairs.                        *)
LEMMA EvidenceFound ==
    ASSUME TypeOK, NEW model, NEW found \in Evidence(model)
    PROVE  DOMAIN found = Candidate /\ \A k \in Candidate : found[k] # Probe
<1>1. CASE model = "auto"
  <2>1. PICK unread : found = [k \in Candidate |->
                                 EvaluateHealth(health[k], clock, k \notin unread)]
    BY <1>1 DEF Evidence
  <2>2. clock \in Time /\ \A k \in Candidate : health[k] \in ProviderHealth \cup {None}
    BY ControlAssumption DEF TypeOK, Time
  <2>. QED
    BY <2>1, <2>2, EvaluationIsNoProbe
<1>2. CASE model # "auto"
  BY <1>2 DEF Evidence, NotEvaluated, Probe
<1>. QED
  BY <1>1, <1>2

(* An arriving request's explanation tells of every configured pair what    *)
(* the router found.                                                        *)
LEMMA ArriveTale ==
    ASSUME TypeOK, Placed, BookDomains, NEW r \in Call,
           NEW model \in Model \cup {"auto"}, Arrive(r, model)
    PROVE  /\ BookDomains'
           /\ Comes(r)
           /\ \A q \in Call \ {r} : Rests(q)
<1>1. PICK found \in Evidence(model) :
         \E order \in Orders(Available(model, found)) :
         \E j \in 1 .. Len(order) + 1 : Lands(r, model, found, order, j)
  BY DEF Arrive, Lands
<1>2. PICK order \in Orders(Available(model, found)) :
         \E j \in 1 .. Len(order) + 1 : Lands(r, model, found, order, j)
  BY <1>1
<1>3. PICK j \in 1 .. Len(order) + 1 : Lands(r, model, found, order, j)
  BY <1>2
<1>. DEFINE updated == WithUpdates(found, order, health, leases, 1, j)
<1>4. Ranking(order) /\ Len(order) \in Nat
  BY AvailablePairs, OrdersRank DEF Ranking
<1>5. ASSUME NEW k \in Candidate, \A n \in 1 .. Len(order) : order[n] # k
      PROVE  IF model = "auto" THEN ~Eligible(found[k]) ELSE ModelOf[k] # model
  BY <1>5, AvailablePairs, OrdersCover DEF Available
<1>6. DOMAIN found = Candidate /\ \A k \in Candidate : found[k] # Probe
  BY EvidenceFound
<1>7. /\ DOMAIN updated = Candidate
      /\ Skips(model, order, updated, 1, j)
      /\ \A k \in Candidate :
             (\A n \in 1 .. j - 1 : order[n] # k) => updated[k] = found[k]
      /\ \A k \in Candidate : updated[k] # Probe
  <2>1. Stretch(order, 1, j)
    BY <1>4 DEF Stretch
  <2>2. Bars(model, order, found, updated, 1, j)
    BY <1>3, <2>1, UpdatesBar DEF Lands
  <2>. QED
    BY <1>6, <2>2 DEF Bars
<1>8. \A k \in Candidate :
         (\A n \in 1 .. Len(order) : order[n] # k) => updated[k] = found[k]
  BY <1>4, <1>7
<1>9. /\ requested[r] = None /\ model # None
      /\ requested' = [requested EXCEPT ![r] = model]
      /\ UNCHANGED <<attempts, decision>>
      /\ ranked' = [ranked EXCEPT ![r] = order]
  BY <1>3, GatewayAssumption DEF Arrive, Lands
<1>10. /\ requested'[r] = model /\ ranked'[r] = order
       /\ attempts'[r] = attempts[r] /\ decision'[r] = decision[r]
       /\ DOMAIN target = Call /\ DOMAIN via = Call
  BY <1>9 DEF Placed, OnCalls, TypeOK
<1>11. CASE j <= Len(order)
  <2>1. /\ Begin(r, order[j])
        /\ position' = [position EXCEPT ![r] = j]
        /\ evidence' = [evidence EXCEPT ![r] =
               IF model = "auto" THEN [updated EXCEPT ![order[j]] = via'[r]] ELSE updated]
        /\ UNCHANGED result
    BY <1>3, <1>4, <1>11 DEF Lands
  <2>. DEFINE final == IF model = "auto" THEN [updated EXCEPT ![order[j]] = via'[r]]
                                         ELSE updated
  <2>2. order[j] \in Candidate
    BY <1>4, <1>11 DEF Ranking
  <2>3. target' = [target EXCEPT ![r] = order[j]] /\ Eligible(via'[r])
    BY <1>10, <2>1, TargetsMove, StartedEligible
  <2>4. DOMAIN final = Candidate
    BY <1>7
  <2>5. \A k \in Candidate : k # order[j] => final[k] = updated[k]
    BY <1>7, <2>2
  <2>6. model = "auto" => final[order[j]] = via'[r]
    BY <1>7, <2>2
  <2>7. evidence' = [evidence EXCEPT ![r] = final]
    BY <2>1
  <2>. HIDE DEF final, updated
  <2>8. Skips(model, order, final, 1, j)
    BY <1>4, <1>7, <1>11, <2>5 DEF Skips, Ranking
  <2>9. \A k \in Candidate : final[k] = Probe => k = order[j]
    BY <1>7, <2>5
  <2>10. ASSUME NEW k \in Candidate, \A n \in 1 .. Len(order) : order[n] # k
         PROVE  IF model = "auto" THEN ~Eligible(final[k]) ELSE ModelOf[k] # model
    <3>1. k # order[j]
      BY <1>4, <1>11, <2>10
    <3>. QED
      BY <1>5, <1>8, <2>5, <2>10, <3>1
  <2>11. evidence'[r] = final /\ position'[r] = j /\ target'[r] = order[j]
         /\ result'[r] = result[r]
    BY <2>1, <2>3, <2>7, <1>10 DEF BookDomains, Placed, OnCalls
  <2>12. Comes(r)
    BY <1>4, <1>9, <1>10, <1>11, <2>3, <2>6, <2>8, <2>9, <2>10, <2>11 DEF Comes
  <2>13. BookDomains'
    BY <1>9, <2>1, <2>4, <2>7 DEF BookDomains
  <2>14. \A q \in Call \ {r} : Rests(q)
    BY <1>9, <2>1, <2>3, <2>7, <1>10 DEF BookDomains, Placed, OnCalls, Rests, Same
  <2>. QED
    BY <2>12, <2>13, <2>14
<1>12. CASE j = Len(order) + 1
  <2>1. /\ evidence' = [evidence EXCEPT ![r] = updated]
        /\ result' = [result EXCEPT ![r] = "no_provider"]
        /\ UNCHANGED <<vars, position>>
    BY <1>3, <1>4, <1>12 DEF Lands
  <2>. HIDE DEF updated
  <2>2. evidence'[r] = updated /\ result'[r] = "no_provider" /\ position'[r] = position[r]
    BY <2>1 DEF BookDomains
  <2>3. Comes(r)
    BY <1>4, <1>5, <1>7, <1>8, <1>9, <1>10, <1>12, <2>2 DEF Comes
  <2>4. BookDomains'
    BY <1>7, <1>9, <2>1 DEF BookDomains
  <2>5. \A q \in Call \ {r} : Rests(q)
    BY <1>9, <2>1 DEF BookDomains, Placed, OnCalls, Rests, Same, vars, callVars
  <2>. QED
    BY <2>3, <2>4, <2>5
<1>. QED
  BY <1>4, <1>11, <1>12

(* What the end of a call does to the decision.                            *)
LEMMA DecisionOf ==
    ASSUME BookDomains, NEW r \in Call, NEW found, NEW served,
           RecordDecision(r, found, served)
    PROVE  /\ DOMAIN decision' = Call
           /\ Decides(r, found, served)
           /\ \A q \in Call \ {r} : decision'[q] = decision[q]
BY DEF RecordDecision, Decides, BookDomains

(* A served request's books: its last attempt's health update, its          *)
(* decision, its end.                                                       *)
LEMMA ServeTale ==
    ASSUME TypeOK, Placed, BookDomains, NEW r \in Call, Serve(r)
    PROVE  /\ BookDomains'
           /\ Serves(r)
           /\ \A q \in Call \ {r} : Rests(q)
<1>1. PICK outcome \in {"success", "unmeasured"} : Settle(r, outcome)
  BY DEF Serve
<1>2. PICK end \in {"served", "raised"} : result' = [result EXCEPT ![r] = end]
  BY DEF Serve
<1>3. /\ position' = [position EXCEPT ![r] = 0]
      /\ attempts' = [attempts EXCEPT ![r] = WithAttempt(r, TRUE)]
      /\ RecordDecision(r, evidence[r], target[r])
      /\ UNCHANGED <<requested, ranked, evidence>>
  BY DEF Serve
<1>4. target' = [target EXCEPT ![r] = None]
  BY <1>1, TargetsMove
<1>5. target[r] # None /\ DOMAIN target = Call
  BY <1>1 DEF Settle, Returns, TypeOK
<1>6. /\ DOMAIN decision' = Call
      /\ Decides(r, evidence[r], target[r])
      /\ \A q \in Call \ {r} : decision'[q] = decision[q]
  BY <1>3, DecisionOf
<1>7. BookDomains'
  BY <1>2, <1>3, <1>6 DEF BookDomains
<1>8. Serves(r)
  BY <1>2, <1>3, <1>5, <1>6 DEF Serves, BookDomains, Placed, OnCalls
<1>9. \A q \in Call \ {r} : Rests(q)
  BY <1>2, <1>3, <1>4, <1>5, <1>6 DEF Rests, Same, BookDomains, Placed, OnCalls
<1>. QED
  BY <1>7, <1>8, <1>9

(* The updates of a failed attempt of an automatic request...              *)
LEMMA UpdatesOfFailure ==
    ASSUME BookDomains, NEW r \in Call, NEW h, NEW l, NEW a, NEW b,
           Stretch(ranked[r], a, b),
           Reaches(requested[r], ranked[r], h, l, a, b)
    PROVE  Bars(requested[r], ranked[r], evidence[r],
                IF Automatic(r) THEN WithUpdates(evidence[r], ranked[r], h, l, a, b)
                                ELSE evidence[r],
                a, b)
<1>1. CASE Automatic(r)
  BY <1>1, UpdatesBar
<1>2. CASE ~Automatic(r)
  BY <1>2 DEF Bars, Stretch, Reaches, Skips, Automatic, BookDomains
<1>. QED
  BY <1>1, <1>2

(* A fallback's books: the failed attempt's health update and the           *)
(* candidates passed over.                                                  *)
LEMMA FallBackTale ==
    ASSUME TypeOK, Placed, BookDomains, NEW r \in Call, FallBack(r)
    PROVE  /\ BookDomains'
           /\ Continues(r)
           /\ \A q \in Call \ {r} : Rests(q)
<1>. DEFINE l == Released(leases, r, target[r])
            updated(j) == WithUpdates(evidence[r], ranked[r], health', l,
                                      position[r] + 1, j)
<1>1. PICK outcome \in Failures, j \in Later(r) :
         /\ SettleAndFallBack(r, outcome, ranked[r][j])
         /\ Reaches(requested[r], ranked[r], health', l, position[r] + 1, j)
         /\ position' = [position EXCEPT ![r] = j]
         /\ attempts' = [attempts EXCEPT ![r] = WithAttempt(r, FALSE)]
         /\ evidence' = [evidence EXCEPT ![r] =
                IF Automatic(r) THEN [updated(j) EXCEPT ![ranked[r][j]] = via'[r]]
                                ELSE evidence[r]]
         /\ UNCHANGED <<requested, ranked, result, decision>>
  BY DEF FallBack, BookDomains
<1>2. /\ target' = [target EXCEPT ![r] = ranked[r][j]]
      /\ Eligible(via'[r])
      /\ target[r] # None /\ DOMAIN target = Call
  <2>1. DOMAIN via = Call /\ DOMAIN target = Call
    BY DEF TypeOK
  <2>2. SettleAndFallBack(r, outcome, ranked[r][j])
    BY <1>1
  <2>3. target' = [target EXCEPT ![r] = ranked[r][j]]
    BY <2>2, TargetsMove
  <2>4. Eligible(via'[r])
    BY <2>1, <2>2, StartedEligible
  <2>5. target[r] # None
    BY <2>2 DEF SettleAndFallBack, Returns
  <2>. QED
    BY <2>1, <2>3, <2>4, <2>5
<1>. DEFINE before == IF Automatic(r) THEN updated(j) ELSE evidence[r]
            final == IF Automatic(r) THEN [updated(j) EXCEPT ![ranked[r][j]] = via'[r]]
                                     ELSE evidence[r]
<1>3. /\ position[r] # 0
      /\ position[r] \in Nat
      /\ Len(ranked[r]) \in Nat
      /\ j \in position[r] + 1 .. Len(ranked[r])
      /\ ranked[r][j] \in Candidate
      /\ Ranking(ranked[r])
  BY <1>2 DEF Placed, OnCalls, Ranking, Later
<1>4. /\ DOMAIN before = Candidate
      /\ Skips(requested[r], ranked[r], before, position[r] + 1, j)
      /\ \A k \in Candidate :
             (\A n \in position[r] + 1 .. j - 1 : ranked[r][n] # k)
                 => before[k] = evidence[r][k]
      /\ \A k \in Candidate : before[k] = Probe => evidence[r][k] = Probe
  <2>1. Stretch(ranked[r], position[r] + 1, j)
    BY <1>3 DEF Stretch
  <2>2. Bars(requested[r], ranked[r], evidence[r], before, position[r] + 1, j)
    BY <1>1, <2>1, UpdatesOfFailure
  <2>. QED
    BY <2>2 DEF Bars
<1>5. /\ DOMAIN final = Candidate
      /\ \A k \in Candidate : k # ranked[r][j] => final[k] = before[k]
      /\ Automatic(r) => final[ranked[r][j]] = via'[r]
      /\ ~Automatic(r) => final = before
  BY <1>3, <1>4
<1>6. evidence' = [evidence EXCEPT ![r] = final]
  BY <1>1
<1>. HIDE DEF final, before, updated
<1>7. /\ evidence'[r] = final
      /\ position'[r] = j
      /\ target'[r] = ranked[r][j]
      /\ requested'[r] = requested[r] /\ ranked'[r] = ranked[r]
      /\ result'[r] = result[r] /\ decision'[r] = decision[r]
      /\ attempts'[r] = WithAttempt(r, FALSE)
  BY <1>1, <1>2, <1>6 DEF BookDomains, Placed, OnCalls
<1>8. Skips(requested[r], ranked[r], final, position[r] + 1, j)
  BY <1>3, <1>4, <1>5 DEF Skips, Ranking
<1>9. ASSUME NEW k \in Candidate,
             \A n \in position[r] + 1 .. j : n <= Len(ranked[r]) => ranked[r][n] # k
      PROVE  final[k] = evidence[r][k]
  <2>1. k # ranked[r][j] /\ \A n \in position[r] + 1 .. j - 1 : ranked[r][n] # k
    BY <1>3, <1>9
  <2>. QED
    BY <1>4, <1>5, <2>1
<1>10. ASSUME NEW k \in Candidate, final[k] = Probe
       PROVE  evidence[r][k] = Probe \/ (j <= Len(ranked[r]) /\ k = ranked[r][j])
  BY <1>3, <1>4, <1>5, <1>10
<1>11. Updates(r, position'[r])
  BY <1>7, <1>8, <1>9, <1>10 DEF Updates
<1>12. Continues(r)
  BY <1>2, <1>3, <1>5, <1>7, <1>11 DEF Continues
<1>13. BookDomains'
  BY <1>1, <1>5, <1>6 DEF BookDomains
<1>14. \A q \in Call \ {r} : Rests(q)
  BY <1>1, <1>2, <1>6 DEF Rests, Same, BookDomains, Placed, OnCalls
<1>. QED
  BY <1>12, <1>13, <1>14

(* An exhausted request's books: the failed attempt's update and every      *)
(* candidate left.                                                          *)
LEMMA ExhaustTale ==
    ASSUME TypeOK, Placed, BookDomains, NEW r \in Call, Exhaust(r)
    PROVE  /\ BookDomains'
           /\ Fails(r)
           /\ \A q \in Call \ {r} : Rests(q)
<1>. DEFINE l == Released(leases, r, target[r])
            last == Len(ranked[r]) + 1
            final == IF Automatic(r)
                     THEN WithUpdates(evidence[r], ranked[r], health', l,
                                      position[r] + 1, last)
                     ELSE evidence[r]
<1>1. PICK outcome \in Failures :
         /\ Settle(r, outcome)
         /\ Reaches(requested[r], ranked[r], health', l, position[r] + 1, last)
         /\ position' = [position EXCEPT ![r] = 0]
         /\ attempts' = [attempts EXCEPT ![r] = WithAttempt(r, FALSE)]
         /\ evidence' = [evidence EXCEPT ![r] = final]
         /\ RecordDecision(r, evidence'[r], None)
         /\ result' = [result EXCEPT ![r] = "all_failed"]
         /\ UNCHANGED <<requested, ranked>>
  BY DEF Exhaust, BookDomains
<1>2. /\ target' = [target EXCEPT ![r] = None]
      /\ target[r] # None /\ DOMAIN target = Call
  BY <1>1, TargetsMove DEF Settle, Returns, TypeOK
<1>3. /\ position[r] # 0
      /\ position[r] \in Nat
      /\ Len(ranked[r]) \in Nat
      /\ last \in position[r] + 1 .. Len(ranked[r]) + 1
      /\ Ranking(ranked[r])
  BY <1>2 DEF Placed, OnCalls, Ranking
<1>4. /\ DOMAIN final = Candidate
      /\ Skips(requested[r], ranked[r], final, position[r] + 1, last)
      /\ \A k \in Candidate :
             (\A n \in position[r] + 1 .. last - 1 : ranked[r][n] # k)
                 => final[k] = evidence[r][k]
      /\ \A k \in Candidate : final[k] = Probe => evidence[r][k] = Probe
  <2>1. Stretch(ranked[r], position[r] + 1, last)
    BY <1>3 DEF Stretch
  <2>2. Bars(requested[r], ranked[r], evidence[r], final, position[r] + 1, last)
    BY <1>1, <2>1, UpdatesOfFailure
  <2>. QED
    BY <2>2 DEF Bars
<1>. HIDE DEF final
<1>5. /\ evidence'[r] = final
      /\ requested'[r] = requested[r] /\ ranked'[r] = ranked[r]
      /\ attempts'[r] = WithAttempt(r, FALSE)
      /\ position'[r] = 0 /\ result'[r] = "all_failed"
  BY <1>1 DEF BookDomains, Placed, OnCalls
<1>6. ASSUME NEW k \in Candidate,
             \A n \in position[r] + 1 .. last : n <= Len(ranked[r]) => ranked[r][n] # k
      PROVE  final[k] = evidence[r][k]
  BY <1>3, <1>4, <1>6
<1>7. Updates(r, last)
  BY <1>4, <1>5, <1>6 DEF Updates
<1>8. /\ DOMAIN decision' = Call
      /\ Decides(r, evidence'[r], None)
      /\ \A q \in Call \ {r} : decision'[q] = decision[q]
  BY <1>1, DecisionOf
<1>9. Fails(r)
  BY <1>2, <1>5, <1>7, <1>8 DEF Fails
<1>10. BookDomains'
  BY <1>1, <1>4, <1>8 DEF BookDomains
<1>11. \A q \in Call \ {r} : Rests(q)
  BY <1>1, <1>2, <1>8 DEF Rests, Same, BookDomains, Placed, OnCalls
<1>. QED
  BY <1>9, <1>10, <1>11

(* What any step of the gateway adds to the books of each request.         *)
LEMMA TaleOfStep ==
    ASSUME TypeOK, Placed, BookDomains, [GatewayNext]_gatewayVars
    PROVE  /\ BookDomains'
           /\ \A r \in Call :
                 Rests(r) \/ Quits(r) \/ Comes(r) \/ Continues(r) \/ Fails(r) \/ Serves(r)
<1>1. ASSUME NEW r \in Call, Cancel(r)
      PROVE  /\ BookDomains'
             /\ Quits(r)
             /\ \A q \in Call \ {r} : Rests(q)
  <2>1. target' = [target EXCEPT ![r] = None] /\ DOMAIN target = Call
    BY <1>1, TargetsMove DEF Cancel, TypeOK
  <2>2. position[r] # 0
    BY <1>1 DEF Cancel, Abort, Placed
  <2>. QED
    BY <1>1, <2>1, <2>2 DEF Cancel, Placed, OnCalls, BookDomains, Quits, Rests, Same
<1>2. CASE GatewayRestart
  BY <1>2 DEF GatewayRestart, Placed, OnCalls, BookDomains, Quits, Same
<1>3. CASE Tick /\ UNCHANGED bookVars
  BY <1>3 DEF Tick, callVars, bookVars, BookDomains, Rests, Same
<1>4. CASE UNCHANGED gatewayVars
  BY <1>4 DEF gatewayVars, vars, callVars, bookVars, BookDomains, Rests, Same
<1>5. CASE \E r \in Call, model \in Model \cup {"auto"} : Arrive(r, model)
  BY <1>5, ArriveTale
<1>6. CASE \E r \in Call : Serve(r)
  BY <1>6, ServeTale
<1>7. CASE \E r \in Call : FallBack(r)
  BY <1>7, FallBackTale
<1>8. CASE \E r \in Call : Exhaust(r)
  BY <1>8, ExhaustTale
<1>9. CASE \E r \in Call : Cancel(r)
  BY <1>9, <1>1
<1>. QED
  BY <1>2, <1>3, <1>4, <1>5, <1>6, <1>7, <1>8, <1>9 DEF GatewayNext

-----------------------------------------------------------------------------
(* The books stay true.                                                    *)

(* The pair that leads the ranking is the one the final explanation names. *)
LEMMA SelectedLeads ==
    ASSUME NEW r \in Call, Ranking(ranked[r]), NEW found, NEW k,
           Eligible(found[k]), Leads(ranked[r], found, k)
    PROVE  Explained(r, found) # {} /\ Selected(r, found) = k
<1>1. PICK p \in 1 .. Len(ranked[r]) :
         /\ ranked[r][p] = k
         /\ \A n \in 1 .. p - 1 : ~Eligible(found[ranked[r][n]])
  BY DEF Leads
<1>2. DOMAIN ranked[r] = 1 .. Len(ranked[r]) /\ Len(ranked[r]) \in Nat
  BY DEF Ranking
<1>. DEFINE E == Explained(r, found)
            c == CHOOSE i \in E : \A j \in E : i <= j
<1>3. E \subseteq 1 .. Len(ranked[r]) /\ p \in E
  BY <1>1, <1>2 DEF Explained
<1>4. \A j \in E : p <= j
  BY <1>1, <1>2 DEF Explained
<1>5. c \in E /\ \A j \in E : c <= j
  <2>. HIDE DEF E
  <2>. QED
    BY <1>3, <1>4
<1>6. c = p
  <2>. HIDE DEF E, c
  <2>1. c \in 1 .. Len(ranked[r]) /\ c <= p /\ p <= c
    BY <1>3, <1>4, <1>5
  <2>. QED
    BY <1>2, <2>1
<1>7. Selected(r, found) = ranked[r][c]
  BY DEF Selected
<1>. QED
  BY <1>1, <1>3, <1>6, <1>7

(* One more attempt is made, on the target.                                *)
LEMMA AttemptsGrow ==
    ASSUME TypeOK, NEW r \in Call, Walk(r), target[r] # None, NEW success \in BOOLEAN,
           attempts'[r] = WithAttempt(r, success)
    PROVE  /\ Attempted(r)' = Attempted(r) \cup {target[r]}
           /\ attempts'[r] # <<>>
           /\ attempts'[r][1].candidate = FirstTried(r)
           /\ LET last == attempts'[r][Len(attempts'[r])]
              IN  last.success = success /\ last.candidate = target[r]
<1>. DEFINE e == [candidate |-> target[r], success |-> success]
            n == Len(attempts[r])
<1>1. attempts[r] \in Seq(AttemptEntry) /\ e \in AttemptEntry
  BY DEF Walk, AttemptEntry, TypeOK
<1>2. attempts'[r] = Append(attempts[r], e)
  BY DEF WithAttempt
<1>3. e.candidate = target[r] /\ e.success = success
  OBVIOUS
<1>. HIDE DEF e
<1>4. /\ n \in Nat
      /\ DOMAIN attempts[r] = 1 .. n
      /\ DOMAIN attempts'[r] = 1 .. n + 1
      /\ Len(attempts'[r]) = n + 1
      /\ \A i \in 1 .. n : attempts'[r][i] = attempts[r][i]
      /\ attempts'[r][n + 1] = e
  BY <1>1, <1>2
<1>. HIDE DEF n
<1>5. Attempted(r)' = Attempted(r) \cup {target[r]}
  <2>1. \A i \in 1 .. n + 1 : i \in 1 .. n \/ i = n + 1
    BY <1>4
  <2>2. \A i \in 1 .. n : i \in 1 .. n + 1
    BY <1>4
  <2>3. n + 1 \in 1 .. n + 1
    BY <1>4
  <2>. QED
    BY <1>3, <1>4, <2>1, <2>2, <2>3 DEF Attempted
<1>6. attempts'[r] # <<>>
  BY <1>4
<1>7. attempts'[r][1].candidate = FirstTried(r)
  <2>1. CASE attempts[r] = <<>>
    <3>1. n = 0
      BY <2>1 DEF n
    <3>. QED
      BY <1>3, <1>4, <2>1, <3>1 DEF FirstTried
  <2>2. CASE attempts[r] # <<>>
    <3>1. n # 0
      BY <1>1, <2>2 DEF n
    <3>. QED
      BY <1>4, <2>2, <3>1 DEF FirstTried
  <2>. QED
    BY <2>1, <2>2
<1>. QED
  BY <1>3, <1>4, <1>5, <1>6, <1>7

(* What an update tells of the places behind the loop, and of the pairs    *)
(* outside the ranking, is what was told of them before.                   *)
LEMMA UpdatesKeep ==
    ASSUME Placed, NEW r \in Call, position[r] # 0, NEW next, Updates(r, next)
    PROVE  /\ \A n \in 1 .. position[r] :
                  evidence'[r][ranked[r][n]] = evidence[r][ranked[r][n]]
           /\ \A k \in Candidate : (\A n \in 1 .. Len(ranked[r]) : ranked[r][n] # k)
                  => evidence'[r][k] = evidence[r][k]
<1>1. /\ Ranking(ranked[r]) /\ ranked[r] \in Seq(Candidate) /\ Len(ranked[r]) \in Nat
      /\ position[r] \in 1 .. Len(ranked[r])
  BY DEF Placed, Ranking
<1>2. \A k \in Candidate :
         (\A m \in position[r] + 1 .. next : m <= Len(ranked[r]) => ranked[r][m] # k)
             => evidence'[r][k] = evidence[r][k]
  BY DEF Updates
<1>3. ASSUME NEW n \in 1 .. position[r]
      PROVE  evidence'[r][ranked[r][n]] = evidence[r][ranked[r][n]]
  <2>1. n \in 1 .. Len(ranked[r]) /\ ranked[r][n] \in Candidate
    BY <1>1
  <2>2. ASSUME NEW m \in position[r] + 1 .. next, m <= Len(ranked[r])
        PROVE  ranked[r][m] # ranked[r][n]
    <3>1. m \in 1 .. Len(ranked[r]) /\ m # n
      BY <1>1, <2>2
    <3>. QED
      BY <1>1, <2>1, <3>1 DEF Ranking
  <2>. QED
    BY <1>2, <2>1, <2>2
<1>4. ASSUME NEW k \in Candidate, \A n \in 1 .. Len(ranked[r]) : ranked[r][n] # k
      PROVE  evidence'[r][k] = evidence[r][k]
  <2>1. ASSUME NEW m \in position[r] + 1 .. next, m <= Len(ranked[r])
        PROVE  ranked[r][m] # k
    <3>1. m \in 1 .. Len(ranked[r])
      BY <1>1, <2>1
    <3>. QED
      BY <1>4, <3>1
  <2>. QED
    BY <1>2, <2>1
<1>. QED
  BY <1>3, <1>4

(* A request that rests keeps its tale ...                                 *)
LEMMA RestsTale ==
    ASSUME NEW r \in Call, Tale(r), Rests(r)
    PROVE  Tale(r)'
<1>1. Attempted(r)' = Attempted(r) /\ Automatic(r)' = Automatic(r)
      /\ FirstTried(r)' = FirstTried(r)
  BY DEF Rests, Same, Attempted, Automatic, FirstTried
<1>2. TellsRanking(r)'
  BY <1>1 DEF Tale, TellsRanking, Rests, Same
<1>3. TellsWalk(r)'
  <2>1. Reached(r)' = Reached(r)
    BY DEF Reached, Rests, Same
  <2>2. \A n : Passed(r, n) => Passed(r, n)'
    BY <1>1 DEF Passed, Rests, Same
  <2>. QED
    BY <2>1, <2>2 DEF Tale, TellsWalk, Rests, Same
<1>4. TellsTried(r)'
  BY <1>1 DEF Tale, TellsTried, Rests, Same
<1>5. TellsResult(r)'
  BY <1>1 DEF Tale, TellsResult, Rests, Same
<1>. QED
  BY <1>2, <1>3, <1>4, <1>5 DEF Tale

(* ... and so does one that is given up ...                                *)
LEMMA QuitsTale ==
    ASSUME Placed, NEW r \in Call, Tale(r), Quits(r)
    PROVE  Tale(r)'
<1>1. /\ Attempted(r)' = Attempted(r) /\ Automatic(r)' = Automatic(r)
      /\ attempts[r] # <<>> => FirstTried(r)' = FirstTried(r)
      /\ position'[r] = 0
  BY DEF Quits, Same, Attempted, Automatic, FirstTried
<1>2. \/ position[r] = 0 /\ result'[r] = result[r]
      \/ /\ requested[r] # None /\ decision[r] = None
         /\ result'[r] \in {"cancelled", "lost"}
  BY DEF Quits, Placed, Tale, TellsResult
<1>3. TellsRanking(r)'
  BY <1>1 DEF Tale, TellsRanking, Quits, Same
<1>4. TellsWalk(r)'
  <2>1. Reached(r)' = Len(ranked[r]) + 1
    BY <1>1 DEF Reached, Quits, Same
  <2>2. \A n : Passed(r, n) => Passed(r, n)'
    BY <1>1 DEF Passed, Quits, Same
  <2>3. CASE position[r] = 0 /\ result'[r] = result[r]
    BY <1>1, <2>1, <2>2, <2>3 DEF Tale, TellsWalk, Reached
  <2>4. CASE result'[r] \in {"cancelled", "lost"}
    BY <1>1, <2>4 DEF TellsWalk
  <2>. QED
    BY <1>2, <2>3, <2>4
<1>5. TellsTried(r)'
  BY <1>1, <1>2 DEF Tale, TellsTried, Quits, Same
<1>6. TellsResult(r)'
  BY <1>1, <1>2 DEF Tale, TellsResult, Quits, Same, Answered
<1>. QED
  BY <1>3, <1>4, <1>5, <1>6 DEF Tale

(* ... or one that is ranked ...                                           *)
LEMMA ComesTale ==
    ASSUME TypeOK, Placed, NEW r \in Call, Walk(r), Tale(r), Comes(r)
    PROVE  Tale(r)'
<1>1. /\ requested[r] = None /\ requested'[r] # None
      /\ position[r] = 0
      /\ attempts'[r] = <<>>
      /\ result[r] = "none" /\ decision'[r] = None
      /\ Ranking(ranked'[r]) /\ Len(ranked'[r]) \in Nat
  BY DEF Comes, Placed, Walk, Tale, TellsResult, Ranking
<1>2. Attempted(r)' = {} /\ (Automatic(r)' <=> requested'[r] = "auto")
      /\ FirstTried(r)' = target'[r]
  BY <1>1 DEF Attempted, Automatic, FirstTried
<1>3. TellsRanking(r)'
  BY <1>2 DEF Comes, TellsRanking
<1>4. PICK j \in 1 .. Len(ranked'[r]) + 1 :
         /\ Skips(requested'[r], ranked'[r], evidence'[r], 1, j)
         /\ \/ /\ j <= Len(ranked'[r])
               /\ position'[r] = j
               /\ target'[r] = ranked'[r][j]
               /\ result'[r] = result[r]
               /\ Eligible(evidence'[r][ranked'[r][j]]) \/ requested'[r] # "auto"
               /\ \A k \in Candidate : evidence'[r][k] = Probe => k = ranked'[r][j]
            \/ /\ j = Len(ranked'[r]) + 1
               /\ position'[r] = position[r]
               /\ result'[r] = "no_provider"
               /\ \A k \in Candidate : evidence'[r][k] # Probe
  BY DEF Comes
<1>5. \A n \in 1 .. j - 1 :
         Passed(r, n)' /\ ~Eligible(evidence'[r][ranked'[r][n]])
  BY <1>2, <1>4 DEF Skips, Passed
<1>6. j # 0 /\ Reached(r)' = j
  BY <1>1, <1>4 DEF Reached
<1>7. TellsWalk(r)'
  BY <1>5, <1>6 DEF TellsWalk
<1>8. TellsTried(r)'
  <2>1. position'[r] # 0 => Leads(ranked'[r], evidence'[r], target'[r])
    BY <1>1, <1>4, <1>5 DEF Leads
  <2>2. /\ position'[r] # 0 /\ requested'[r] = "auto" => Eligible(evidence'[r][target'[r]])
        /\ \A k \in Candidate :
               evidence'[r][k] = Probe => position'[r] # 0 /\ k = target'[r]
    BY <1>1, <1>4, <1>6
  <2>. QED
    BY <1>1, <1>2, <2>1, <2>2 DEF TellsTried
<1>9. TellsResult(r)'
  BY <1>1, <1>4 DEF TellsResult, Answered
<1>. QED
  BY <1>3, <1>7, <1>8, <1>9 DEF Tale

(* ... or whose call failed, whether another follows or not ...            *)
LEMMA UpdatesTale ==
    ASSUME TypeOK, Placed, NEW r \in Call, Walk(r), Tale(r), target[r] # None,
           attempts'[r] = WithAttempt(r, FALSE), NEW next, Updates(r, next)
    PROVE  /\ TellsRanking(r)'
           /\ next \in Nat => \A n \in 1 .. next - 1 : Passed(r, n)'
           /\ Automatic(r) =>
                  /\ \A k \in Attempted(r)' : Eligible(evidence'[r][k])
                  /\ Leads(ranked[r], evidence'[r], FirstTried(r))
                  /\ \A k \in Candidate :
                         evidence'[r][k] = Probe =>
                             \/ k \in Attempted(r)'
                             \/ next <= Len(ranked[r]) /\ k = ranked[r][next]
<1>1. /\ Ranking(ranked[r]) /\ ranked[r] \in Seq(Candidate) /\ Len(ranked[r]) \in Nat
      /\ position[r] \in 1 .. Len(ranked[r]) /\ position[r] # 0
      /\ ranked[r][position[r]] = target[r]
      /\ requested[r] # None
  BY DEF Placed, Ranking
<1>2. /\ requested'[r] = requested[r] /\ ranked'[r] = ranked[r]
      /\ Automatic(r)' = Automatic(r)
  BY DEF Updates, Automatic
<1>3. /\ \A n \in 1 .. position[r] :
             evidence'[r][ranked[r][n]] = evidence[r][ranked[r][n]]
      /\ \A k \in Candidate : (\A n \in 1 .. Len(ranked[r]) : ranked[r][n] # k)
             => evidence'[r][k] = evidence[r][k]
  BY <1>1, UpdatesKeep
<1>4. Attempted(r)' = Attempted(r) \cup {target[r]}
  BY AttemptsGrow
<1>5. TellsRanking(r)'
  BY <1>2, <1>3 DEF Tale, TellsRanking
<1>6. ASSUME next \in Nat, NEW n \in 1 .. next - 1
      PROVE  Passed(r, n)'
  <2>1. CASE n < position[r]
    <3>1. Passed(r, n)
      BY <1>1, <2>1 DEF Tale, TellsWalk, Reached
    <3>2. evidence'[r][ranked[r][n]] = evidence[r][ranked[r][n]]
      BY <1>1, <1>3, <2>1
    <3>. QED
      BY <1>2, <1>4, <3>1, <3>2 DEF Passed
  <2>2. CASE n = position[r]
    BY <1>1, <1>2, <1>4, <2>2 DEF Passed
  <2>3. CASE n > position[r]
    <3>1. n \in position[r] + 1 .. next - 1
      BY <1>1, <1>6, <2>3
    <3>2. requested[r] = "auto" /\ ~Eligible(evidence'[r][ranked[r][n]])
      BY <3>1 DEF Updates, Skips
    <3>. QED
      BY <1>2, <3>2 DEF Passed, Automatic
  <2>. QED
    BY <1>1, <2>1, <2>2, <2>3
<1>7. ASSUME Automatic(r)
      PROVE  /\ \A k \in Attempted(r)' : Eligible(evidence'[r][k])
             /\ Leads(ranked[r], evidence'[r], FirstTried(r))
             /\ \A k \in Candidate :
                    evidence'[r][k] = Probe =>
                        \/ k \in Attempted(r)'
                        \/ next <= Len(ranked[r]) /\ k = ranked[r][next]
  <2>1. /\ \A k \in Attempted(r) : Eligible(evidence[r][k])
        /\ Eligible(evidence[r][target[r]])
        /\ \A k \in Candidate :
               evidence[r][k] = Probe => k \in Attempted(r) \/ k = target[r]
        /\ Leads(ranked[r], evidence[r], FirstTried(r))
    BY <1>1, <1>7 DEF Tale, TellsTried, TellsResult
  <2>2. /\ attempts[r] \in Seq(AttemptEntry)
        /\ DOMAIN attempts[r] = 1 .. Len(attempts[r])
        /\ \A i \in 1 .. Len(attempts[r]) : \E m : MadeAt(r, i, m)
    BY DEF Walk
  <2>3. ASSUME NEW i \in 1 .. Len(attempts[r])
        PROVE  \E m \in 1 .. position[r] - 1 : ranked[r][m] = attempts[r][i].candidate
    <3>1. PICK m : MadeAt(r, i, m)
      BY <2>2
    <3>2. m \in 1 .. position[r] - 1
      BY <1>1, <3>1 DEF MadeAt
    <3>. QED
      BY <3>1, <3>2 DEF MadeAt
  <2>4. ASSUME NEW k \in Attempted(r)'
        PROVE  Eligible(evidence'[r][k])
    <3>1. CASE k = target[r]
      BY <1>1, <1>3, <2>1, <3>1
    <3>2. CASE k \in Attempted(r)
      <4>1. PICK i \in 1 .. Len(attempts[r]) : attempts[r][i].candidate = k
        BY <2>2, <3>2 DEF Attempted
      <4>2. PICK m \in 1 .. position[r] - 1 : ranked[r][m] = k
        BY <2>3, <4>1
      <4>3. m \in 1 .. position[r]
        BY <1>1
      <4>. QED
        BY <1>3, <2>1, <3>2, <4>2, <4>3
    <3>. QED
      BY <1>4, <3>1, <3>2
  <2>5. PICK p \in 1 .. Len(ranked[r]) :
           /\ ranked[r][p] = FirstTried(r)
           /\ \A n \in 1 .. p - 1 : ~Eligible(evidence[r][ranked[r][n]])
    BY <2>1 DEF Leads
  <2>6. p <= position[r]
    <3>1. \E m \in 1 .. position[r] : ranked[r][m] = FirstTried(r)
      <4>1. CASE attempts[r] = <<>>
        BY <1>1, <4>1 DEF FirstTried
      <4>2. CASE attempts[r] # <<>>
        <5>1. 1 \in 1 .. Len(attempts[r])
          BY <2>2, <4>2
        <5>2. PICK m \in 1 .. position[r] - 1 : ranked[r][m] = attempts[r][1].candidate
          BY <2>3, <5>1
        <5>3. m \in 1 .. position[r]
          BY <1>1
        <5>. QED
          BY <4>2, <5>2, <5>3 DEF FirstTried
      <4>. QED
        BY <4>1, <4>2
    <3>2. PICK m \in 1 .. position[r] : ranked[r][m] = FirstTried(r)
      BY <3>1
    <3>3. m \in 1 .. Len(ranked[r]) /\ m = p
      BY <1>1, <2>5, <3>2 DEF Ranking
    <3>. QED
      BY <1>1, <3>3
  <2>7. \A n \in 1 .. p - 1 : ~Eligible(evidence'[r][ranked[r][n]])
    <3>1. \A n \in 1 .. p - 1 : n \in 1 .. position[r]
      BY <1>1, <2>6
    <3>. QED
      BY <1>3, <2>5, <3>1
  <2>8. Leads(ranked[r], evidence'[r], FirstTried(r))
    BY <2>5, <2>7 DEF Leads
  <2>9. ASSUME NEW k \in Candidate, evidence'[r][k] = Probe
        PROVE  \/ k \in Attempted(r)'
               \/ next <= Len(ranked[r]) /\ k = ranked[r][next]
    BY <1>4, <2>1, <2>9 DEF Updates
  <2>. QED
    BY <2>4, <2>8, <2>9
<1>. QED
  BY <1>5, <1>6, <1>7

(* The tale of a request that falls back stays true.                        *)
LEMMA ContinuesTale ==
    ASSUME TypeOK, Placed, NEW r \in Call, Walk(r), Tale(r), Continues(r)
    PROVE  Tale(r)'
<1>. DEFINE next == position'[r]
<1>1. /\ target[r] # None
      /\ attempts'[r] = WithAttempt(r, FALSE)
      /\ Updates(r, next)
  BY DEF Continues
<1>2. /\ Ranking(ranked[r]) /\ Len(ranked[r]) \in Nat
      /\ position[r] \in 1 .. Len(ranked[r]) /\ position[r] # 0
      /\ requested[r] # None
      /\ result[r] = "none" /\ decision[r] = None
  BY <1>1 DEF Placed, Ranking, Tale, TellsResult
<1>3. /\ requested'[r] = requested[r] /\ ranked'[r] = ranked[r]
      /\ Automatic(r)' = Automatic(r)
      /\ result'[r] = "none" /\ decision'[r] = None
  BY <1>1, <1>2 DEF Updates, Continues, Automatic
<1>4. /\ next \in 1 .. Len(ranked[r]) /\ next \in Nat /\ next # 0
      /\ target'[r] = ranked[r][next]
  BY <1>2 DEF Continues
<1>5. /\ Attempted(r)' = Attempted(r) \cup {target[r]}
      /\ attempts'[r] # <<>>
      /\ attempts'[r][1].candidate = FirstTried(r)
  BY <1>1, AttemptsGrow
<1>6. FirstTried(r)' = FirstTried(r)
  BY <1>5 DEF FirstTried
<1>. HIDE DEF next
<1>7. /\ TellsRanking(r)'
      /\ \A n \in 1 .. next - 1 : Passed(r, n)'
      /\ Automatic(r) =>
             /\ \A k \in Attempted(r)' : Eligible(evidence'[r][k])
             /\ Leads(ranked[r], evidence'[r], FirstTried(r))
             /\ \A k \in Candidate :
                    evidence'[r][k] = Probe =>
                        \/ k \in Attempted(r)'
                        \/ next <= Len(ranked[r]) /\ k = ranked[r][next]
  BY <1>1, <1>4, UpdatesTale
<1>8. TellsWalk(r)'
  <2>1. Reached(r)' = next
    BY <1>4 DEF Reached, next
  <2>. QED
    BY <1>7, <2>1 DEF TellsWalk
<1>9. TellsTried(r)'
  <2>1. Automatic(r) => Eligible(evidence'[r][target'[r]])
    BY DEF Continues
  <2>2. position'[r] # 0
    BY <1>4 DEF next
  <2>. QED
    BY <1>3, <1>4, <1>5, <1>6, <1>7, <2>1, <2>2 DEF TellsTried
<1>10. TellsResult(r)'
  BY <1>2, <1>3 DEF TellsResult, Answered
<1>. QED
  BY <1>7, <1>8, <1>9, <1>10 DEF Tale

(* A decision recorded at the end names the pair tried first.              *)
LEMMA DecidesTale ==
    ASSUME TypeOK, Placed, NEW r \in Call, Walk(r), Tale(r), target[r] # None,
           NEW success \in BOOLEAN, attempts'[r] = WithAttempt(r, success),
           requested'[r] = requested[r], position'[r] = 0, result'[r] \in Answered,
           NEW found,
           Automatic(r) => /\ \A k \in Attempted(r)' : Eligible(found[k])
                           /\ Leads(ranked[r], found, FirstTried(r)),
           Decides(r, found, IF success THEN target[r] ELSE None)
    PROVE  TellsResult(r)'
<1>1. /\ attempts'[r] # <<>>
      /\ attempts'[r][1].candidate = FirstTried(r)
      /\ Attempted(r)' = Attempted(r) \cup {target[r]}
  BY AttemptsGrow
<1>2. LET last == attempts'[r][Len(attempts'[r])]
      IN  last.success = success /\ last.candidate = target[r]
  BY AttemptsGrow
<1>3. /\ requested[r] # None /\ decision[r] = None /\ Ranking(ranked[r])
      /\ Automatic(r)' = Automatic(r)
  BY DEF Placed, Tale, TellsResult, Automatic
<1>4. ASSUME decision'[r] # None
      PROVE  /\ Automatic(r)
             /\ decision'[r].selected = attempts'[r][1].candidate
             /\ decision'[r].served = IF success THEN target[r] ELSE None
  <2>1. /\ Automatic(r)
        /\ decision'[r] = [selected |-> Selected(r, found),
                           served |-> IF success THEN target[r] ELSE None]
    BY <1>3, <1>4 DEF Decides
  <2>2. FirstTried(r) \in Attempted(r)'
    <3>1. CASE attempts[r] = <<>>
      BY <1>1, <3>1 DEF FirstTried
    <3>2. CASE attempts[r] # <<>>
      <4>1. attempts[r] \in Seq(AttemptEntry)
        BY DEF Walk
      <4>2. 1 \in DOMAIN attempts[r]
        BY <3>2, <4>1
      <4>. QED
        BY <1>1, <3>2, <4>2 DEF FirstTried, Attempted
    <3>. QED
      BY <3>1, <3>2
  <2>3. Selected(r, found) = FirstTried(r)
    BY <1>3, <2>1, <2>2, SelectedLeads
  <2>. QED
    BY <1>1, <2>1, <2>3
<1>. QED
  BY <1>1, <1>2, <1>3, <1>4 DEF TellsResult

(* The tale of a request that fails stays true.                             *)
LEMMA FailsTale ==
    ASSUME TypeOK, Placed, NEW r \in Call, Walk(r), Tale(r), Fails(r)
    PROVE  Tale(r)'
<1>. DEFINE next == Len(ranked[r]) + 1
<1>1. /\ target[r] # None
      /\ attempts'[r] = WithAttempt(r, FALSE)
      /\ Updates(r, next)
      /\ position'[r] = 0 /\ result'[r] = "all_failed"
  BY DEF Fails
<1>2. Len(ranked[r]) \in Nat /\ next \in Nat /\ ~(next <= Len(ranked[r]))
  <2>1. Len(ranked[r]) \in Nat
    BY DEF Placed, Ranking
  <2>. QED
    BY <2>1
<1>3. /\ requested'[r] = requested[r] /\ ranked'[r] = ranked[r]
      /\ Automatic(r)' = Automatic(r)
  BY <1>1 DEF Updates, Automatic
<1>4. /\ attempts'[r] # <<>>
      /\ attempts'[r][1].candidate = FirstTried(r)
  BY <1>1, AttemptsGrow
<1>5. FirstTried(r)' = FirstTried(r) /\ Reached(r)' = next
  BY <1>1, <1>3, <1>4 DEF FirstTried, Reached
<1>. HIDE DEF next
<1>6. /\ TellsRanking(r)'
      /\ \A n \in 1 .. next - 1 : Passed(r, n)'
      /\ Automatic(r) =>
             /\ \A k \in Attempted(r)' : Eligible(evidence'[r][k])
             /\ Leads(ranked[r], evidence'[r], FirstTried(r))
             /\ \A k \in Candidate : evidence'[r][k] = Probe => k \in Attempted(r)'
  BY <1>1, <1>2, UpdatesTale
<1>7. TellsWalk(r)'
  BY <1>5, <1>6 DEF TellsWalk
<1>8. TellsTried(r)'
  BY <1>1, <1>3, <1>5, <1>6 DEF TellsTried
<1>9. TellsResult(r)'
  <2>1. Decides(r, evidence'[r], IF FALSE THEN target[r] ELSE None)
    BY DEF Fails
  <2>2. result'[r] \in Answered
    BY <1>1 DEF Answered
  <2>. QED
    BY <1>1, <1>3, <1>6, <2>1, <2>2, DecidesTale
<1>. QED
  BY <1>6, <1>7, <1>8, <1>9 DEF Tale

(* ... or that is answered.                                                *)
LEMMA ServesTale ==
    ASSUME TypeOK, Placed, NEW r \in Call, Walk(r), Tale(r), Serves(r)
    PROVE  Tale(r)'
<1>1. /\ target[r] # None
      /\ requested'[r] = requested[r] /\ ranked'[r] = ranked[r]
      /\ evidence'[r] = evidence[r]
      /\ attempts'[r] = WithAttempt(r, TRUE)
      /\ position'[r] = 0
      /\ result'[r] \in {"served", "raised"}
      /\ Automatic(r)' = Automatic(r)
  BY DEF Serves, Automatic
<1>2. position[r] # 0 /\ result[r] = "none"
  BY <1>1 DEF Placed, Tale, TellsResult
<1>3. /\ Attempted(r)' = Attempted(r) \cup {target[r]}
      /\ attempts'[r] # <<>>
      /\ attempts'[r][1].candidate = FirstTried(r)
  BY <1>1, AttemptsGrow
<1>4. FirstTried(r)' = FirstTried(r)
  BY <1>3 DEF FirstTried
<1>5. Automatic(r) =>
         /\ \A k \in Attempted(r)' : Eligible(evidence[r][k])
         /\ Leads(ranked[r], evidence[r], FirstTried(r))
         /\ \A k \in Candidate : evidence[r][k] = Probe => k \in Attempted(r)'
  BY <1>2, <1>3 DEF Tale, TellsTried
<1>6. TellsRanking(r)'
  BY <1>1 DEF Tale, TellsRanking
<1>7. TellsWalk(r)'
  BY <1>1 DEF TellsWalk
<1>8. TellsTried(r)'
  BY <1>1, <1>4, <1>5 DEF TellsTried
<1>9. TellsResult(r)'
  <2>1. Decides(r, evidence[r], IF TRUE THEN target[r] ELSE None)
    BY DEF Serves
  <2>2. result'[r] \in Answered
    BY <1>1 DEF Answered
  <2>. QED
    BY <1>1, <1>5, <2>1, <2>2, DecidesTale
<1>. QED
  BY <1>6, <1>7, <1>8, <1>9 DEF Tale

(* Every step keeps the books of every request true.                        *)
LEMMA TaleStep ==
    ASSUME TypeOK, Placed, WalkInv, TaleInv, [GatewayNext]_gatewayVars
    PROVE  TaleInv'
<1>1. BookDomains'
  BY TaleOfStep DEF TaleInv
<1>2. ASSUME NEW r \in Call
      PROVE  Tale(r)'
  <2>1. Walk(r) /\ Tale(r)
    BY DEF WalkInv, TaleInv
  <2>2. Rests(r) \/ Quits(r) \/ Comes(r) \/ Continues(r) \/ Fails(r) \/ Serves(r)
    BY TaleOfStep DEF TaleInv
  <2>. QED
    BY <2>1, <2>2, RestsTale, QuitsTale, ComesTale, ContinuesTale, FailsTale, ServesTale
<1>. QED
  BY <1>1, <1>2 DEF TaleInv

-----------------------------------------------------------------------------
(* The request log.                                                        *)

LogEntry == [request : Call, success : BOOLEAN, selected : Candidate \cup {None},
             attempts : Nat]

(* An entry says what its request came to.                                 *)
Reports(entry) ==
    LET r == entry.request
    IN  /\ IF entry.success THEN result[r] \in {"served", "raised"}
                            ELSE result[r] = "all_failed"
        /\ entry.attempts = Len(attempts[r])
        /\ entry.success => entry.selected = attempts[r][Len(attempts[r])].candidate

Entries ==
    /\ Len(logs) <= LogLimit
    /\ \A i \in 1 .. Len(logs) :
           /\ Reports(logs[i])
           /\ \A j \in 1 .. Len(logs) : logs[j].request = logs[i].request => i = j

(* An answered request has an entry, or there is a reason why not.         *)
Accounted(r) ==
    \/ \E i \in 1 .. Len(logs) : logs[i].request = r
    \/ Len(logs) = LogLimit
    \/ \E lost \in Call : result[lost] = "lost"

LogsInv ==
    /\ logs \in Seq(LogEntry)
    /\ Entries
    /\ \A r \in Call : result[r] \in Answered => Accounted(r)

(* The deque takes the entry first and drops what is over its limit.       *)
LEMMA LoggedEntries ==
    ASSUME logs \in Seq(LogEntry), Len(logs) <= LogLimit, NEW entry \in LogEntry,
           logs' = Logged(entry)
    PROVE  /\ logs' \in Seq(LogEntry)
           /\ Len(logs') <= LogLimit
           /\ Len(logs') = IF Len(logs) < LogLimit THEN Len(logs) + 1 ELSE LogLimit
           /\ \A i \in 1 .. Len(logs') :
                  logs'[i] = IF i = 1 THEN entry ELSE logs[i - 1]
<1>. DEFINE n == IF Len(logs) < LogLimit THEN Len(logs) + 1 ELSE LogLimit
            long == <<entry>> \o logs
<1>1. Len(logs) \in Nat /\ LogLimit \in Nat /\ n \in 0 .. Len(logs) + 1 /\ n <= LogLimit
  BY GatewayAssumption
<1>2. /\ long \in Seq(LogEntry)
      /\ Len(long) = Len(logs) + 1
      /\ \A i \in 1 .. Len(logs) + 1 : long[i] = IF i = 1 THEN entry ELSE logs[i - 1]
  OBVIOUS
<1>3. logs' = SubSeq(long, 1, n)
  BY DEF Logged
<1>. HIDE DEF n, long
<1>4. /\ logs' \in Seq(LogEntry)
      /\ Len(logs') = n
      /\ \A i \in 1 .. n : logs'[i] = long[i]
  BY <1>1, <1>2, <1>3
<1>5. \A i \in 1 .. n : i \in 1 .. Len(logs) + 1
  BY <1>1
<1>. QED
  BY <1>1, <1>2, <1>4, <1>5 DEF n

(* What a request came to does not change, and neither do its attempts.    *)
LEMMA EndedStays ==
    ASSUME TypeOK, Placed, TaleInv, [GatewayNext]_gatewayVars,
           NEW r \in Call, result[r] # "none"
    PROVE  result'[r] = result[r] /\ attempts'[r] = attempts[r]
<1>1. Tale(r)
  BY DEF TaleInv
<1>2. position[r] = 0 /\ target[r] = None /\ requested[r] # None
  BY <1>1 DEF Tale, TellsResult, Placed
<1>3. Rests(r) \/ Quits(r)
  BY <1>2, TaleOfStep DEF TaleInv, Comes, Continues, Fails, Serves
<1>. QED
  BY <1>2, <1>3 DEF Rests, Quits, Same

(* What a step does to the log: nothing, and nobody is answered ...        *)
Unlogged == logs' = logs /\ \A r \in Call : result'[r] \in Answered => result[r] \in Answered

(* ... or it is lost with a request in flight ...                          *)
Cleared == logs' = <<>> /\ \E lost \in Call : result'[lost] = "lost"

(* ... or it takes the entry of the request that ends.                     *)
Takes(entry) ==
    /\ entry \in LogEntry
    /\ logs' = Logged(entry)
    /\ result[entry.request] = "none"
    /\ Reports(entry)'
    /\ \A q \in Call \ {entry.request} : result'[q] = result[q]

(* A served request appends one entry to the log.                           *)
LEMMA ServeLogs ==
    ASSUME TypeOK, Placed, WalkInv, TaleInv, NEW r \in Call, Serve(r)
    PROVE  \E entry : Takes(entry)
<1>1. PICK entry :
         /\ entry = [request |-> r, success |-> TRUE, selected |-> target[r],
                     attempts |-> Len(attempts[r]) + 1]
         /\ logs' = Logged(entry)
  BY DEF Serve
<1>2. Serves(r) /\ \A q \in Call \ {r} : Rests(q)
  BY ServeTale DEF TaleInv
<1>3. /\ target[r] \in Candidate /\ target[r] # None /\ position[r] # 0
      /\ result[r] = "none"
      /\ attempts[r] \in Seq(AttemptEntry)
      /\ attempts'[r] = WithAttempt(r, TRUE)
      /\ result'[r] \in {"served", "raised"}
  BY <1>2 DEF Serves, TypeOK, Placed, TaleInv, Tale, TellsResult, WalkInv, Walk
<1>4. /\ Len(attempts[r]) \in Nat
      /\ Len(attempts'[r]) = Len(attempts[r]) + 1
  BY <1>3 DEF WithAttempt, AttemptEntry
<1>5. attempts'[r][Len(attempts'[r])].candidate = target[r]
  BY <1>3, AttemptsGrow DEF WalkInv
<1>6. /\ entry \in LogEntry
      /\ entry.request = r /\ entry.success = TRUE /\ entry.selected = target[r]
      /\ entry.attempts = Len(attempts[r]) + 1
  BY <1>1, <1>3, <1>4 DEF LogEntry
<1>7. Reports(entry)'
  BY <1>3, <1>4, <1>5, <1>6 DEF Reports
<1>8. Takes(entry)
  BY <1>1, <1>2, <1>3, <1>6, <1>7 DEF Takes, Rests
<1>. QED
  BY <1>8

(* A failed request appends one entry to the log.                           *)
LEMMA ExhaustLogs ==
    ASSUME TypeOK, Placed, WalkInv, TaleInv, NEW r \in Call, Exhaust(r)
    PROVE  \E entry : Takes(entry)
<1>1. PICK entry :
         /\ entry = [request |-> r, success |-> FALSE, selected |-> None,
                     attempts |-> Len(attempts[r]) + 1]
         /\ logs' = Logged(entry)
  BY DEF Exhaust
<1>2. Fails(r) /\ \A q \in Call \ {r} : Rests(q)
  BY ExhaustTale DEF TaleInv
<1>3. /\ target[r] \in Candidate /\ target[r] # None /\ position[r] # 0
      /\ result[r] = "none"
      /\ attempts[r] \in Seq(AttemptEntry)
      /\ attempts'[r] = WithAttempt(r, FALSE)
      /\ result'[r] = "all_failed"
  BY <1>2 DEF Fails, TypeOK, Placed, TaleInv, Tale, TellsResult, WalkInv, Walk
<1>4. /\ Len(attempts[r]) \in Nat
      /\ Len(attempts'[r]) = Len(attempts[r]) + 1
  BY <1>3 DEF WithAttempt, AttemptEntry
<1>5. /\ entry \in LogEntry
      /\ entry.request = r /\ entry.success = FALSE
      /\ entry.attempts = Len(attempts[r]) + 1
  BY <1>1, <1>4 DEF LogEntry
<1>6. Reports(entry)'
  BY <1>3, <1>4, <1>5 DEF Reports
<1>7. Takes(entry)
  BY <1>1, <1>2, <1>3, <1>5, <1>6 DEF Takes, Rests
<1>. QED
  BY <1>7

(* A step leaves the log alone, empties it or appends one entry.            *)
LEMMA LogOfStep ==
    ASSUME TypeOK, Placed, WalkInv, TaleInv, [GatewayNext]_gatewayVars
    PROVE  Unlogged \/ Cleared \/ \E entry : Takes(entry)
<1>1. ASSUME NEW r \in Call, NEW model \in Model \cup {"auto"}, Arrive(r, model)
      PROVE  Unlogged
  <2>1. \A q \in Call : result'[q] \in {result[q], "no_provider"}
    <3>1. UNCHANGED result \/ result' = [result EXCEPT ![r] = "no_provider"]
      BY <1>1 DEF Arrive
    <3>. QED
      BY <3>1 DEF TaleInv, BookDomains
  <2>2. logs' = logs
    BY <1>1 DEF Arrive
  <2>. QED
    BY <2>1, <2>2 DEF Unlogged, Answered
<1>2. CASE \E r \in Call : Serve(r)
  BY <1>2, ServeLogs
<1>3. ASSUME NEW r \in Call, FallBack(r)
      PROVE  Unlogged
  BY <1>3 DEF FallBack, Unlogged
<1>4. CASE \E r \in Call : Exhaust(r)
  BY <1>4, ExhaustLogs
<1>5. ASSUME NEW r \in Call, Cancel(r)
      PROVE  Unlogged
  BY <1>5 DEF Cancel, Unlogged, Answered, TaleInv, BookDomains
<1>6. CASE GatewayRestart
  <2>1. PICK c \in Call : target[c] # None
    BY <1>6 DEF GatewayRestart, Restart
  <2>2. result'[c] = "lost"
    BY <1>6, <2>1 DEF GatewayRestart, Placed
  <2>. QED
    BY <1>6, <2>2 DEF GatewayRestart, Cleared
<1>7. CASE Tick /\ UNCHANGED bookVars
  BY <1>7 DEF bookVars, Unlogged
<1>8. CASE UNCHANGED gatewayVars
  BY <1>8 DEF gatewayVars, bookVars, Unlogged
<1>. QED
  BY <1>1, <1>2, <1>3, <1>4, <1>5, <1>6, <1>7, <1>8 DEF GatewayNext

(* Every step keeps the entries those of the requests that ended.           *)
LEMMA LogsStep ==
    ASSUME TypeOK, Placed, WalkInv, TaleInv, LogsInv, [GatewayNext]_gatewayVars
    PROVE  LogsInv'
<1>1. logs \in Seq(LogEntry) /\ Len(logs) \in Nat /\ LogLimit \in Nat
  BY GatewayAssumption DEF LogsInv
<1>2. ASSUME NEW i \in 1 .. Len(logs)
      PROVE  /\ logs[i] \in LogEntry /\ logs[i].request \in Call
             /\ result[logs[i].request] # "none"
             /\ \A entry : entry = logs[i] => Reports(entry)'
  <2>1. logs[i] \in LogEntry /\ logs[i].request \in Call
    <3>1. logs[i] \in LogEntry
      BY <1>1
    <3>. QED
      BY <3>1 DEF LogEntry
  <2>2. Reports(logs[i])
    BY DEF LogsInv, Entries
  <2>3. result[logs[i].request] # "none"
    BY <2>2 DEF Reports
  <2>4. ASSUME NEW entry, entry = logs[i]
        PROVE  Reports(entry)'
    <3>1. /\ result'[entry.request] = result[entry.request]
          /\ attempts'[entry.request] = attempts[entry.request]
      BY <2>1, <2>3, <2>4, EndedStays
    <3>. QED
      BY <2>2, <2>4, <3>1 DEF Reports
  <2>. QED
    BY <2>1, <2>3, <2>4
<1>3. (\E lost \in Call : result[lost] = "lost")
          => \E lost \in Call : result'[lost] = "lost"
  BY EndedStays
<1>4. CASE Unlogged
  <2>1. logs' = logs
    BY <1>4 DEF Unlogged
  <2>2. \A i \in 1 .. Len(logs') : Reports(logs[i])'
    BY <1>2, <2>1
  <2>3. Entries'
    BY <2>1, <2>2 DEF LogsInv, Entries
  <2>4. \A r \in Call : result'[r] \in Answered => Accounted(r)'
    BY <1>3, <1>4, <2>1 DEF LogsInv, Unlogged, Accounted
  <2>. QED
    BY <1>1, <2>1, <2>3, <2>4 DEF LogsInv
<1>5. CASE Cleared
  <2>1. logs' = <<>> /\ \E lost \in Call : result'[lost] = "lost"
    BY <1>5 DEF Cleared
  <2>2. logs' \in Seq(LogEntry) /\ Len(logs') = 0 /\ 0 <= LogLimit
    BY <1>1, <2>1
  <2>3. Entries'
    BY <2>2 DEF Entries
  <2>4. \A r \in Call : Accounted(r)'
    BY <2>1 DEF Accounted
  <2>. QED
    BY <2>2, <2>3, <2>4 DEF LogsInv
<1>6. ASSUME NEW entry, Takes(entry)
      PROVE  LogsInv'
  <2>1. /\ entry \in LogEntry /\ entry.request \in Call
        /\ logs' = Logged(entry)
        /\ result[entry.request] = "none"
        /\ Reports(entry)'
        /\ \A q \in Call \ {entry.request} : result'[q] = result[q]
    BY <1>6 DEF Takes, LogEntry
  <2>2. /\ logs' \in Seq(LogEntry)
        /\ Len(logs') <= LogLimit
        /\ Len(logs') = IF Len(logs) < LogLimit THEN Len(logs) + 1 ELSE LogLimit
        /\ \A i \in 1 .. Len(logs') :
               logs'[i] = IF i = 1 THEN entry ELSE logs[i - 1]
    BY <2>1, LoggedEntries DEF LogsInv, Entries
  <2>3. Len(logs) <= LogLimit
    BY DEF LogsInv, Entries
  <2>4. \A i \in 1 .. Len(logs') : i # 1 => i - 1 \in 1 .. Len(logs)
    BY <1>1, <2>2, <2>3
  <2>5. \A i \in 1 .. Len(logs') :
           i # 1 => /\ logs'[i] = logs[i - 1]
                    /\ logs'[i].request # entry.request
    <3>. SUFFICES ASSUME NEW i \in 1 .. Len(logs'), i # 1
                  PROVE  logs'[i] = logs[i - 1] /\ logs'[i].request # entry.request
      OBVIOUS
    <3>1. logs'[i] = logs[i - 1]
      BY <2>2
    <3>2. result[logs[i - 1].request] # "none"
      BY <1>2, <2>4
    <3>. QED
      BY <2>1, <3>1, <3>2
  <2>6. ASSUME NEW i \in 1 .. Len(logs')
        PROVE  \A e : e = logs'[i] => Reports(e)'
    BY <1>2, <2>1, <2>2, <2>4, <2>6
  <2>7. ASSUME NEW i \in 1 .. Len(logs'), NEW j \in 1 .. Len(logs'),
               logs'[j].request = logs'[i].request
        PROVE  i = j
    <3>1. CASE i = 1 \/ j = 1
      BY <2>2, <2>5, <2>7, <3>1
    <3>2. CASE i # 1 /\ j # 1
      <4>1. i - 1 \in 1 .. Len(logs) /\ j - 1 \in 1 .. Len(logs)
        BY <2>4, <3>2
      <4>2. logs[j - 1].request = logs[i - 1].request
        BY <2>5, <2>7, <3>2
      <4>3. i - 1 = j - 1
        BY <4>1, <4>2 DEF LogsInv, Entries
      <4>. QED
        BY <4>3
    <3>. QED
      BY <3>1, <3>2
  <2>8. Entries'
    <3>1. \A i \in 1 .. Len(logs') : Reports(logs[i])'
      BY <2>6
    <3>. QED
      BY <2>2, <2>7, <3>1 DEF Entries
  <2>9. ASSUME NEW r \in Call, result'[r] \in Answered, Len(logs') # LogLimit
        PROVE  \/ \E i \in 1 .. Len(logs') : logs'[i].request = r
               \/ \E lost \in Call : result'[lost] = "lost"
    <3>1. Len(logs') = Len(logs) + 1 /\ Len(logs) # LogLimit
      BY <1>1, <2>2, <2>3, <2>9
    <3>2. CASE r = entry.request
      <4>1. 1 \in 1 .. Len(logs')
        BY <1>1, <3>1
      <4>. QED
        BY <2>2, <3>2, <4>1
    <3>3. CASE r # entry.request
      <4>1. Accounted(r)
        BY <2>1, <2>9, <3>3 DEF LogsInv
      <4>2. ASSUME NEW i \in 1 .. Len(logs), logs[i].request = r
            PROVE  \E n \in 1 .. Len(logs') : logs'[n].request = r
        <5>1. i + 1 \in 1 .. Len(logs') /\ i + 1 # 1 /\ (i + 1) - 1 = i
          BY <1>1, <3>1
        <5>2. logs'[i + 1] = logs[i]
          BY <2>5, <5>1
        <5>. QED
          BY <4>2, <5>1, <5>2
      <4>. QED
        BY <1>3, <3>1, <4>1, <4>2 DEF Accounted
    <3>. QED
      BY <3>2, <3>3
  <2>10. \A r \in Call : result'[r] \in Answered => Accounted(r)'
    BY <2>9 DEF Accounted
  <2>. QED
    BY <2>2, <2>8, <2>10 DEF LogsInv
<1>. QED
  BY <1>4, <1>5, <1>6, LogOfStep

-----------------------------------------------------------------------------
(* Theorems.                                                               *)

GInv == IInv /\ Placed /\ WalkInv /\ RowsInv /\ TaleInv /\ LogsInv

(* No request has arrived; a circuit may be open from before.               *)
LEMMA InitGInv == GatewayInit => GInv
<1>. SUFFICES ASSUME GatewayInit PROVE GInv
  OBVIOUS
<1>1. IInv
  BY InitIInv DEF GatewayInit
<1>2. \A r \in Call : Ranking(<<>>)
  BY DEF Ranking
<1>3. Placed
  BY <1>2 DEF Placed, OnCalls, GatewayInit, Init
<1>4. WalkInv
  BY DEF WalkInv, Walk, GatewayInit
<1>5. RowsInv
  BY DEF RowsInv, GatewayInit
<1>6. TaleInv
  <2>1. BookDomains
    BY DEF BookDomains, GatewayInit
  <2>2. ASSUME NEW r \in Call
        PROVE  Tale(r)
    <3>1. /\ requested[r] = None /\ attempts[r] = <<>> /\ position[r] = 0
          /\ result[r] = "none" /\ decision[r] = None
          /\ evidence[r] = [k \in Candidate |-> NotEvaluated]
      BY DEF GatewayInit
    <3>2. Attempted(r) = {}
      BY <3>1 DEF Attempted
    <3>. QED
      BY <3>1, <3>2 DEF Tale, TellsRanking, TellsWalk, TellsTried, TellsResult,
                        Answered, NotEvaluated, Probe
  <2>. QED
    BY <2>1, <2>2 DEF TaleInv
<1>7. LogsInv
  <2>1. logs = <<>> /\ logs \in Seq(LogEntry) /\ Len(logs) = 0 /\ 0 <= LogLimit
    BY GatewayAssumption DEF GatewayInit
  <2>2. \A r \in Call : result[r] \notin Answered
    BY DEF GatewayInit, Answered
  <2>. QED
    BY <2>1, <2>2 DEF LogsInv, Entries
<1>. QED
  BY <1>1, <1>3, <1>4, <1>5, <1>6, <1>7 DEF GInv

(* Every step of the gateway keeps the invariant.                           *)
LEMMA NextGInv == GInv /\ [GatewayNext]_gatewayVars => GInv'
<1>. SUFFICES ASSUME GInv, [GatewayNext]_gatewayVars PROVE GInv'
  OBVIOUS
<1>1. TypeOK
  BY DEF GInv, IInv
<1>2. IInv'
  BY NextIInv, GatewayStepsControl DEF GInv
<1>. QED
  BY <1>1, <1>2, PlacedStep, WalkStep, RowsStep, TaleStep, LogsStep DEF GInv

(* Seen from the control plane, the gateway is one of its behaviours: what *)
(* HealthControlProofs shows of the circuits and leases holds while whole  *)
(* requests are served (service.py:57-211).                                *)
THEOREM GatewayImplementsControl == GatewaySpec => Spec
<1>1. GatewayInit => Init
  BY DEF GatewayInit
<1>2. GInv /\ [GatewayNext]_gatewayVars => [Next]_vars
  BY GatewayStepsControl DEF GInv
<1>. QED
  BY InitGInv, NextGInv, <1>1, <1>2, PTL DEF GatewaySpec, Spec

(* A request tries each pair at most once, in the order it ranked them     *)
(* (router.py:151-152, service.py:72).                                     *)
THEOREM AttemptsSafety == GatewaySpec => []AttemptsFollowRanking
<1>1. GInv => AttemptsFollowRanking
  <2>. SUFFICES ASSUME GInv, NEW r \in Call,
                       NEW i \in DOMAIN attempts[r], NEW j \in DOMAIN attempts[r], i < j
                PROVE  \E m, n \in DOMAIN ranked[r] :
                          /\ m < n
                          /\ ranked[r][m] = attempts[r][i].candidate
                          /\ ranked[r][n] = attempts[r][j].candidate
                          /\ ranked[r][m] # ranked[r][n]
    BY DEF AttemptsFollowRanking
  <2>1. /\ DOMAIN attempts[r] = 1 .. Len(attempts[r])
        /\ DOMAIN ranked[r] = 1 .. Len(ranked[r])
    BY DEF GInv, Placed, Ranking, WalkInv, Walk
  <2>2. PICK m \in 1 .. Len(ranked[r]), n \in 1 .. Len(ranked[r]) :
           /\ m < n
           /\ ranked[r][m] = attempts[r][i].candidate
           /\ ranked[r][n] = attempts[r][j].candidate
    <3>1. Walk(r) /\ i \in 1 .. Len(attempts[r]) /\ j \in 1 .. Len(attempts[r])
      BY <2>1 DEF GInv, WalkInv
    <3>2. \E m, n \in 1 .. Len(ranked[r]) :
             /\ m < n
             /\ ranked[r][m] = attempts[r][i].candidate
             /\ ranked[r][n] = attempts[r][j].candidate
      BY <3>1 DEF Walk
    <3>. QED
      BY <3>2
  <2>3. ranked[r][m] # ranked[r][n]
    BY <2>2 DEF GInv, Placed, Ranking
  <2>. QED
    BY <2>1, <2>2, <2>3
<1>. QED
  BY InitGInv, NextGInv, <1>1, PTL DEF GatewaySpec

(* Attempt rows stand at their pair's place in the ranking, tell of an     *)
(* attempt that was made, and never collide (service.py:205-206).          *)
THEOREM RowsSafety == GatewaySpec => []RowsMatchAttempts
<1>1. GInv => RowsMatchAttempts
  <2>. SUFFICES ASSUME GInv, NEW r \in Call, NEW row \in rows[r]
                PROVE  /\ row.index \in DOMAIN ranked[r]
                       /\ ranked[r][row.index] = row.candidate
                       /\ [candidate |-> row.candidate, success |-> row.success]
                              \in {attempts[r][i] : i \in DOMAIN attempts[r]}
                       /\ \A other \in rows[r] :
                              other # row => /\ other.index # row.index
                                             /\ row.success => other.index < row.index
    BY DEF RowsMatchAttempts
  <2>1. /\ DOMAIN attempts[r] = 1 .. Len(attempts[r])
        /\ DOMAIN ranked[r] = 1 .. Len(ranked[r])
    BY DEF GInv, Placed, Ranking, WalkInv, Walk
  <2>2. RowPlaced(r, row) /\ Tells(r, row)
    BY DEF GInv, RowsInv
  <2>3. \A other \in rows[r] :
           other # row => /\ other.index # row.index
                          /\ row.success => other.index < row.index
    BY DEF GInv, RowsInv
  <2>4. PICK i \in 1 .. Len(attempts[r]) :
           attempts[r][i] = [candidate |-> row.candidate, success |-> row.success]
    BY <2>2 DEF Tells
  <2>. QED
    BY <2>1, <2>2, <2>3, <2>4 DEF RowPlaced
<1>. QED
  BY InitGInv, NextGInv, <1>1, PTL DEF GatewaySpec

(* A request is refused or fails only when every pair that could serve it  *)
(* was tried or was ineligible at its turn: none is lost between the       *)
(* ranking, the admission check and the fallback loop (service.py:72-160). *)
THEOREM CandidatesSafety == GatewaySpec => []NoCandidateForgotten
<1>1. GInv => NoCandidateForgotten
  <2>. SUFFICES ASSUME GInv, NEW r \in Call,
                       result[r] \in {"all_failed", "no_provider"},
                       NEW k \in Candidate \ Attempted(r)
                PROVE  IF Automatic(r) THEN ~Eligible(evidence[r][k])
                                       ELSE ModelOf[k] # requested[r]
    BY DEF NoCandidateForgotten
  <2>1. Tale(r)
    BY DEF GInv, TaleInv
  <2>2. position[r] = 0 /\ requested[r] # None
    BY <2>1 DEF Tale, TellsResult
  <2>3. Len(ranked[r]) \in Nat
    BY DEF GInv, Placed, Ranking
  <2>4. \A n \in 1 .. Len(ranked[r]) : Passed(r, n)
    BY <2>1, <2>2, <2>3 DEF Tale, TellsWalk, Reached
  <2>5. CASE \E n \in 1 .. Len(ranked[r]) : ranked[r][n] = k
    BY <2>4, <2>5 DEF Passed
  <2>6. CASE \A n \in 1 .. Len(ranked[r]) : ranked[r][n] # k
    BY <2>1, <2>2, <2>6 DEF Tale, TellsRanking
  <2>. QED
    BY <2>5, <2>6
<1>. QED
  BY InitGInv, NextGInv, <1>1, PTL DEF GatewaySpec

(* The final explanation names as selected the pair tried first, keeps     *)
(* every pair tried, and calls no pair a probe that was not called, so     *)
(* with_health_updates never turns an answer into an error                 *)
(* (metrics/models.py:188-256).                                            *)
THEOREM ExplanationSafety == GatewaySpec => []ExplanationMatchesExecution
<1>1. GInv => ExplanationMatchesExecution
  <2>. SUFFICES ASSUME GInv, NEW r \in Call, Automatic(r), result[r] \in Answered
                PROVE  /\ Explained(r, evidence[r]) # {}
                       /\ Selected(r, evidence[r]) = attempts[r][1].candidate
                       /\ \A k \in Attempted(r) : Eligible(evidence[r][k])
                       /\ \A k \in Candidate :
                              evidence[r][k] = Probe => k \in Attempted(r)
    BY DEF ExplanationMatchesExecution
  <2>1. Tale(r)
    BY DEF GInv, TaleInv
  <2>2. /\ position[r] = 0 /\ attempts[r] # <<>>
        /\ result[r] \notin {"cancelled", "lost"}
    BY <2>1 DEF Tale, TellsResult, Answered
  <2>3. /\ \A k \in Attempted(r) : Eligible(evidence[r][k])
        /\ \A k \in Candidate : evidence[r][k] = Probe => k \in Attempted(r)
        /\ Leads(ranked[r], evidence[r], attempts[r][1].candidate)
    BY <2>1, <2>2 DEF Tale, TellsTried, FirstTried
  <2>4. attempts[r][1].candidate \in Attempted(r)
    <3>1. attempts[r] \in Seq(AttemptEntry)
      BY DEF GInv, WalkInv, Walk
    <3>2. 1 \in DOMAIN attempts[r]
      BY <2>2, <3>1
    <3>. QED
      BY <3>2 DEF Attempted
  <2>5. Ranking(ranked[r])
    BY DEF GInv, Placed
  <2>. QED
    BY <2>3, <2>4, <2>5, SelectedLeads
<1>. QED
  BY InitGInv, NextGInv, <1>1, PTL DEF GatewaySpec

(* A stored decision names the pair tried first and the one that answered, *)
(* and no unanswered request has one (service.py:133-138,168-169).         *)
THEOREM DecisionSafety == GatewaySpec => []DecisionMatchesAttempts
<1>1. GInv => DecisionMatchesAttempts
  BY DEF GInv, TaleInv, Tale, TellsResult, DecisionMatchesAttempts
<1>. QED
  BY InitGInv, NextGInv, <1>1, PTL DEF GatewaySpec

(* The request log holds each answered request once, with the outcome its  *)
(* client saw, and misses one only when it is full or was emptied by a     *)
(* restart (logging.py:7-18, service.py:124-167).                          *)
THEOREM LogsSafety == GatewaySpec => []LogsMatchResults
<1>1. GInv => LogsMatchResults
  <2>. SUFFICES ASSUME GInv PROVE LogsMatchResults
    OBVIOUS
  <2>1. DOMAIN logs = 1 .. Len(logs)
    BY DEF GInv, LogsInv
  <2>2. Entries /\ \A r \in Call : result[r] \in Answered => Accounted(r)
    BY DEF GInv, LogsInv
  <2>. QED
    BY <2>1, <2>2 DEF LogsMatchResults, Entries, Reports, Accounted
<1>. QED
  BY InitGInv, NextGInv, <1>1, PTL DEF GatewaySpec

=============================================================================
