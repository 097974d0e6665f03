------------------------------- MODULE Gateway -------------------------------
(***************************************************************************)
(* GatewayService.complete over the health control plane: a request ranks  *)
(* its candidates once, tries them in that order, and leaves behind an     *)
(* answer, a request log entry, attempt rows and a routing decision.       *)
(*                                                                         *)
(* Every action conjoins the HealthControl step its calls take with the    *)
(* bookkeeping of the request, so this module's specification composes     *)
(* with HealthControl's and inherits its invariants.  A request has an id  *)
(* of its own (uuid4) and arrives once; Call is the set of requests.       *)
(***************************************************************************)
EXTENDS HealthControl, SequencesExt

CONSTANTS
    ModelOf,        \* the model of each candidate pair
    Model,          \* model names a client may ask for
    LogLimit        \* RequestLogStore's limit

ASSUME GatewayAssumption ==
    /\ IsFiniteSet(Candidate)
    /\ ModelOf \in [Candidate -> Model]
    /\ "auto" \notin Model
    /\ None \notin Model \cup {"auto"}
    /\ LogLimit \in Nat

VARIABLES
    requested,      \* the requested model, None before the request arrives
    ranked,         \* its ranked candidates
    evidence,       \* health evidence by pair, as the final explanation has it
    position,       \* index in ranked of the call in flight, 0 if there is none
    attempts,       \* the AttemptLog list
    result,         \* how the request ended, "none" until it has
    logs,           \* RequestLogStore: newest entry first
    rows,           \* provider_attempts rows stored for the request
    decision        \* the routing decision stored for it, None if there is none

bookVars == <<requested, ranked, evidence, position, attempts, result,
              logs, rows, decision>>
gatewayVars == <<vars, bookVars>>

NotEvaluated == "not_evaluated"

AttemptRow == [index : Nat, candidate : Candidate, success : BOOLEAN]

GatewayInit ==
    /\ Init
    /\ requested = [r \in Call |-> None]
    /\ ranked = [r \in Call |-> <<>>]
    /\ evidence = [r \in Call |-> [k \in Candidate |-> NotEvaluated]]
    /\ position = [r \in Call |-> 0]
    /\ attempts = [r \in Call |-> <<>>]
    /\ result = [r \in Call |-> "none"]
    /\ logs = <<>>
    /\ rows = [r \in Call |-> {}]
    /\ decision = [r \in Call |-> None]

Automatic(r) == requested[r] = "auto"

-----------------------------------------------------------------------------
(* Ranking.  Scores, and so the order, depend on measurements and          *)
(* preferences outside this module: any order is possible.                 *)

(* The health evidence of a ranking: each pair's record is read once, and  *)
(* each read may fail.                                                     *)
Evidence(model) ==
    IF model # "auto" THEN {[k \in Candidate |-> NotEvaluated]}
    ELSE {[k \in Candidate |-> EvaluateHealth(health[k], clock, k \notin unread)] :
             unread \in IF StoreMayFail THEN SUBSET Candidate ELSE {{}}}

Available(model, found) ==
    IF model = "auto" THEN {k \in Candidate : Eligible(found[k])}
    ELSE {k \in Candidate : ModelOf[k] = model}

(* Mutant of Orders: a pair configured twice is ranked twice.              *)
OrdersWithDuplicates(available) == [1 .. Cardinality(available) -> available]

(* Each available pair has one place in the ranking.                       *)
Orders(available) == SetToSeqs(available)

(* The candidate at position i is passed over: its circuit blocks it now,  *)
(* or another request is probing it.                                       *)
Barred(h, l, k) == ~Eligible(Admission(h[k], l[k], clock, TRUE))

(* Mutant of Reaches: the loop may step over one candidate unasked.        *)
ReachesTooFar(model, order, h, l, i, j) ==
    \A n \in i .. j - 2 : model = "auto" /\ Barred(h, l, order[n])

(* The loop from position i on, over the health and leases of the moment,  *)
(* reaches position j (one past the end when every candidate is barred).   *)
Reaches(model, order, h, l, i, j) ==
    \A n \in i .. j - 1 : model = "auto" /\ Barred(h, l, order[n])

(* Mutant of WithUpdates: the ranking's own evidence is kept.              *)
WithoutUpdates(found, order, h, l, i, j) == found

(* health_updates, as with_health_updates merges them into the ranking's   *)
(* evidence when the request ends.                                         *)
WithUpdates(found, order, h, l, i, j) ==
    [k \in Candidate |->
        IF \E n \in i .. j - 1 : order[n] = k
        THEN Admission(h[k], l[k], clock, TRUE)
        ELSE found[k]]

(* Mutant of RecordAttempt: rows are numbered by attempt, not by rank.     *)
RecordAttemptByCount(r, outcome) ==
    IF outcome = "unmeasured" THEN UNCHANGED rows
    ELSE rows' = [rows EXCEPT ![r] = @ \cup
                    {[index |-> Len(attempts[r]) + 1, candidate |-> target[r],
                      success |-> outcome = "success"]}]

(* _record_provider_attempt: only a ProviderOutcome leaves a row, and a    *)
(* store error leaves none.                                                *)
RecordAttempt(r, outcome) ==
    IF outcome = "unmeasured" THEN UNCHANGED rows
    ELSE \E stored \in StoreAnswers :
            rows' = IF ~stored THEN rows
                    ELSE [rows EXCEPT ![r] = @ \cup
                            {[index |-> position[r], candidate |-> target[r],
                              success |-> outcome = "success"]}]

(* Mutant of WithAttempt: failed attempts are not listed.                  *)
WithSuccessOnly(r, success) ==
    IF success THEN Append(attempts[r], [candidate |-> target[r], success |-> TRUE])
    ELSE attempts[r]

WithAttempt(r, success) ==
    Append(attempts[r], [candidate |-> target[r], success |-> success])

(* RequestLogStore.append: a deque that keeps the newest LogLimit entries. *)
Logged(entry) == SubSeq(<<entry>> \o logs, 1, IF Len(logs) < LogLimit
                                              THEN Len(logs) + 1 ELSE LogLimit)

(* The places of the ranking that the final explanation keeps: all but     *)
(* those that admission found ineligible.                                  *)
Explained(r, found) == {i \in DOMAIN ranked[r] : Eligible(found[ranked[r][i]])}

(* The candidate it names as selected: the first that is left.             *)
Selected(r, found) ==
    ranked[r][CHOOSE i \in Explained(r, found) :
                 \A j \in Explained(r, found) : i <= j]

(* Mutant of RecordDecision: the decision is the ranking's, not the final  *)
(* explanation's.                                                          *)
RecordRankedFirst(r, found, served) ==
    IF ~Automatic(r) THEN UNCHANGED decision
    ELSE decision' = [decision EXCEPT ![r] =
                        [selected |-> ranked[r][1], served |-> served]]

(* _record_routing_decision: nothing for an explicit model or without a    *)
(* selected candidate; a store error is swallowed.                         *)
RecordDecision(r, found, served) ==
    IF ~Automatic(r) \/ Explained(r, found) = {} THEN UNCHANGED decision
    ELSE \E stored \in StoreAnswers :
            decision' = IF ~stored THEN decision
                        ELSE [decision EXCEPT ![r] =
                                [selected |-> Selected(r, found), served |-> served]]

-----------------------------------------------------------------------------

(* The request arrives and is ranked; its first admitted candidate, if any *)
(* is left, is called before any other task runs.                          *)
Arrive(r, model) ==
    /\ requested[r] = None
    /\ result[r] = "none"
    /\ requested' = [requested EXCEPT ![r] = model]
    /\ \E found \in Evidence(model) :
       \E order \in Orders(Available(model, found)) :
       \E j \in 1 .. Len(order) + 1 :
          /\ Reaches(model, order, health, leases, 1, j)
          /\ ranked' = [ranked EXCEPT ![r] = order]
          /\ LET updated == WithUpdates(found, order, health, leases, 1, j)
             IN  \/ /\ j <= Len(order)
                    /\ Begin(r, order[j])
                    /\ via'[r] = Explicit <=> model # "auto"
                    /\ position' = [position EXCEPT ![r] = j]
                    /\ evidence' = [evidence EXCEPT ![r] =
                           IF model = "auto"
                           THEN [updated EXCEPT ![order[j]] = via'[r]]
                           ELSE updated]
                    /\ UNCHANGED result
                 \/ /\ j = Len(order) + 1
                    /\ evidence' = [evidence EXCEPT ![r] = updated]
                    /\ result' = [result EXCEPT ![r] = "no_provider"]
                    /\ UNCHANGED <<vars, position>>
    /\ UNCHANGED <<attempts, logs, rows, decision>>

(* The call returns a response.  The request is logged and its decision    *)
(* recorded before the response's own "modelpilot" member is extended,     *)
(* which raises when the upstream sent one that is not an object.          *)
Serve(r) ==
    \E outcome \in {"success", "unmeasured"} :
       /\ Settle(r, outcome)
       /\ RecordAttempt(r, outcome)
       /\ position' = [position EXCEPT ![r] = 0]
       /\ attempts' = [attempts EXCEPT ![r] = WithAttempt(r, TRUE)]
       /\ logs' = Logged([request |-> r, success |-> TRUE, selected |-> target[r],
                          attempts |-> Len(attempts[r]) + 1])
       /\ RecordDecision(r, evidence[r], target[r])
       /\ result' \in {[result EXCEPT ![r] = end] : end \in {"served", "raised"}}
       /\ UNCHANGED <<requested, ranked, evidence>>

Failures == {CountedFailure, UncountedFailure, "unmeasured"}

(* The positions the loop has still to visit.                              *)
Later(r) == position[r] + 1 .. Len(ranked[r])

(* Mutant of FallBack: the loop starts over and forgets what it tried.     *)
FallBackAround(r) ==
    \E outcome \in Failures, j \in DOMAIN ranked[r] :
       /\ SettleAndFallBack(r, outcome, ranked[r][j])
       /\ position' = [position EXCEPT ![r] = j]
       /\ UNCHANGED <<requested, ranked, evidence, attempts, result, logs, rows, decision>>

(* The call fails and the loop goes on to the next admitted candidate.     *)
FallBack(r) ==
    \E outcome \in Failures, j \in Later(r) :
       LET l == Released(leases, r, target[r])
       IN  /\ SettleAndFallBack(r, outcome, ranked[r][j])
           /\ Reaches(requested[r], ranked[r], health', l, position[r] + 1, j)
           /\ RecordAttempt(r, outcome)
           /\ position' = [position EXCEPT ![r] = j]
           /\ attempts' = [attempts EXCEPT ![r] = WithAttempt(r, FALSE)]
           /\ LET updated == WithUpdates(evidence[r], ranked[r], health', l,
                                         position[r] + 1, j)
              IN  evidence' = [evidence EXCEPT ![r] =
                      IF Automatic(r)
                      THEN [updated EXCEPT ![ranked[r][j]] = via'[r]]
                      ELSE @]
           /\ UNCHANGED <<requested, ranked, result, logs, decision>>

(* The call fails and no admitted candidate is left.                       *)
Exhaust(r) ==
    \E outcome \in Failures :
       LET l == Released(leases, r, target[r])
           last == Len(ranked[r]) + 1
       IN  /\ Settle(r, outcome)
           /\ Reaches(requested[r], ranked[r], health', l, position[r] + 1, last)
           /\ RecordAttempt(r, outcome)
           /\ position' = [position EXCEPT ![r] = 0]
           /\ attempts' = [attempts EXCEPT ![r] = WithAttempt(r, FALSE)]
           /\ evidence' = [evidence EXCEPT ![r] =
                  IF Automatic(r)
                  THEN WithUpdates(@, ranked[r], health', l, position[r] + 1, last)
                  ELSE @]
           /\ logs' = Logged([request |-> r, success |-> FALSE, selected |-> None,
                              attempts |-> Len(attempts[r]) + 1])
           /\ RecordDecision(r, evidence'[r], None)
           /\ result' = [result EXCEPT ![r] = "all_failed"]
           /\ UNCHANGED <<requested, ranked>>

(* The client goes away or an exception leaves complete().                 *)
Cancel(r) ==
    /\ Abort(r)
    /\ position' = [position EXCEPT ![r] = 0]
    /\ result' = [result EXCEPT ![r] = "cancelled"]
    /\ UNCHANGED <<requested, ranked, evidence, attempts, logs, rows, decision>>

(* The request log and the requests in flight are lost with the process;   *)
(* rows and decisions are not.                                             *)
GatewayRestart ==
    /\ Restart
    /\ position' = [r \in Call |-> 0]
    /\ result' = [r \in Call |-> IF position[r] # 0 THEN "lost" ELSE result[r]]
    /\ logs' = <<>>
    /\ UNCHANGED <<requested, ranked, evidence, attempts, rows, decision>>

GatewayNext ==
    \/ \E r \in Call, model \in Model \cup {"auto"} : Arrive(r, model)
    \/ \E r \in Call : Serve(r) \/ FallBack(r) \/ Exhaust(r) \/ Cancel(r)
    \/ GatewayRestart
    \/ Tick /\ UNCHANGED bookVars

GatewaySpec == GatewayInit /\ [][GatewayNext]_gatewayVars

(* Every provider call ends (see HealthControl); arrivals are not promised.*)
Finish(r) == Serve(r) \/ FallBack(r) \/ Exhaust(r) \/ Cancel(r)

FairGatewaySpec ==
    GatewaySpec /\ \A r \in Call : WF_gatewayVars(Finish(r))

-----------------------------------------------------------------------------
(* Properties.                                                             *)

Answered == {"served", "raised", "all_failed"}

Attempted(r) == {attempts[r][i].candidate : i \in DOMAIN attempts[r]}

(* A request tries each pair at most once and in the order it ranked them, *)
(* whatever is skipped in between (router.py:151-152, service.py:72).      *)
AttemptsFollowRanking ==
    \A r \in Call :
        \A i, j \in DOMAIN attempts[r] :
            i < j => \E m, n \in DOMAIN ranked[r] :
                        /\ m < n
                        /\ ranked[r][m] = attempts[r][i].candidate
                        /\ ranked[r][n] = attempts[r][j].candidate
                        /\ ranked[r][m] # ranked[r][n]

(* A request is refused or fails only when every pair that could serve it  *)
(* was tried or was ineligible when its turn came: no candidate is lost    *)
(* between the ranking, the admission check and the fallback loop          *)
(* (service.py:72-160).                                                    *)
NoCandidateForgotten ==
    \A r \in Call :
        result[r] \in {"all_failed", "no_provider"} =>
            \A k \in Candidate \ Attempted(r) :
                IF Automatic(r) THEN ~Eligible(evidence[r][k])
                                ELSE ModelOf[k] # requested[r]

(* The final explanation tells what was executed: each pair that was tried *)
(* is a ranked candidate of it, one that was skipped is an exclusion, one  *)
(* marked as a probe was called, and selected is the first pair tried.     *)
(* with_health_updates therefore never raises, and never turns an answer   *)
(* already received into an error (metrics/models.py:188-256).             *)
ExplanationMatchesExecution ==
    \A r \in Call :
        Automatic(r) /\ result[r] \in Answered =>
            /\ Explained(r, evidence[r]) # {}
            /\ Selected(r, evidence[r]) = attempts[r][1].candidate
            /\ \A k \in Attempted(r) : Eligible(evidence[r][k])
            /\ \A k \in Candidate : evidence[r][k] = Probe => k \in Attempted(r)

(* A stored decision names the pair tried first as selected and the pair   *)
(* that answered as served, and exists for no request that went unanswered *)
(* (service.py:133-138,168-169).                                           *)
DecisionMatchesAttempts ==
    \A r \in Call :
        decision[r] # None =>
            /\ Automatic(r)
            /\ result[r] \in Answered
            /\ decision[r].selected = attempts[r][1].candidate
            /\ LET last == attempts[r][Len(attempts[r])]
               IN  decision[r].served = IF last.success THEN last.candidate ELSE None

(* Each attempt row stands at the index of its pair in the ranking and     *)
(* tells of an attempt the request made, at most one of them a success and *)
(* none after it; the unique index on request and attempt index is never   *)
(* hit (service.py:205-206, sqlite_store.py:100-127).                      *)
RowsMatchAttempts ==
    \A r \in Call : \A row \in rows[r] :
        /\ row.index \in DOMAIN ranked[r]
        /\ ranked[r][row.index] = row.candidate
        /\ [candidate |-> row.candidate, success |-> row.success]
               \in {attempts[r][i] : i \in DOMAIN attempts[r]}
        /\ \A other \in rows[r] :
               other # row => /\ other.index # row.index
                              /\ row.success => other.index < row.index

(* The request log holds answered requests only, each once and with the    *)
(* outcome its client saw or would have seen, and misses one only when it  *)
(* is full or a restart emptied it (logging.py:7-18, service.py:124-167).  *)
LogsMatchResults ==
    /\ Len(logs) <= LogLimit
    /\ \A i \in DOMAIN logs :
           LET r == logs[i].request
           IN  /\ IF logs[i].success THEN result[r] \in {"served", "raised"}
                                     ELSE result[r] = "all_failed"
               /\ logs[i].attempts = Len(attempts[r])
               /\ logs[i].success =>
                      logs[i].selected = attempts[r][Len(attempts[r])].candidate
               /\ \A j \in DOMAIN logs : logs[j].request = r => i = j
    /\ \A r \in Call :
           result[r] \in Answered =>
               \/ \E i \in DOMAIN logs : logs[i].request = r
               \/ Len(logs) = LogLimit
               \/ \E lost \in Call : result[lost] = "lost"

(* Every request that arrives ends, however often it has to fall back.     *)
RequestsEnd == \A r \in Call : requested[r] # None ~> result[r] # "none"
=============================================================================
