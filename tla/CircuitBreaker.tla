--------------------------- MODULE CircuitBreaker ---------------------------
(***************************************************************************)
(* The circuit of one provider/model pair: the immutable ProviderHealth    *)
(* record of health/models.py, its three transitions, and the read-only    *)
(* eligibility decision of health/eligibility.py.                          *)
(*                                                                         *)
(* Timestamps are naturals (UTC instants) and NoTime stands for Python's   *)
(* None.  A transition that raises ValueError in the code is a predicate   *)
(* here (Rejects), so that its callers can model what they do then.        *)
(***************************************************************************)
EXTENDS Integers

CONSTANTS
    FailureThreshold,   \* counted failures in a row that open a CLOSED circuit
    Cooldown,           \* how long an OPEN circuit blocks automatic traffic
    None                \* no record, no lease, no candidate

ASSUME PolicyAssumption ==
    /\ FailureThreshold \in Nat \ {0}
    /\ Cooldown \in Nat

NoTime == -1

Time == Nat

CircuitState == {"CLOSED", "OPEN", "HALF_OPEN"}

ProviderHealth ==
    [state : CircuitState,
     consecutive_failures : Nat,
     opened_at : Time \cup {NoTime},
     cooldown_until : Time \cup {NoTime},
     last_failure_at : Time \cup {NoTime},
     last_success_at : Time \cup {NoTime},
     updated_at : Time]

ASSUME NoneIsNoRecord == None \notin ProviderHealth

-----------------------------------------------------------------------------
(* What the health manager can be told about a finished call.  The six     *)
(* error types of CIRCUIT_FAILURE_TYPES are treated alike by every         *)
(* transition and are one value here.                                      *)

CountedFailure == "counted_failure"
UncountedFailure == "authentication_error"
Outcome == {"success", CountedFailure, UncountedFailure}

-----------------------------------------------------------------------------

Initial(now) ==
    [state |-> "CLOSED",
     consecutive_failures |-> 0,
     opened_at |-> NoTime,
     cooldown_until |-> NoTime,
     last_failure_at |-> NoTime,
     last_success_at |-> NoTime,
     updated_at |-> now]

(* _transition_time refuses a clock reading older than the record.         *)
OnTime(h, now) == now >= h.updated_at

(* Mutants of Advance: one instant early; closing without a probe.         *)
AdvanceEarly(h, now) ==
    IF h.state = "OPEN" /\ now + 1 >= h.cooldown_until
    THEN [h EXCEPT !.state = "HALF_OPEN", !.updated_at = now]
    ELSE h

AdvanceToClosed(h, now) ==
    IF h.state = "OPEN" /\ now >= h.cooldown_until
    THEN [h EXCEPT !.state = "CLOSED", !.opened_at = NoTime,
                   !.cooldown_until = NoTime, !.updated_at = now]
    ELSE h

Advance(h, now) ==
    IF h.state = "OPEN" /\ now >= h.cooldown_until
    THEN [h EXCEPT !.state = "HALF_OPEN", !.updated_at = now]
    ELSE h

(* Mutant of RecordSuccess: counts down instead of resetting.              *)
SuccessCountsDown(h, now) ==
    [h EXCEPT !.state = "CLOSED",
              !.consecutive_failures = @ - 1,
              !.opened_at = NoTime,
              !.cooldown_until = NoTime,
              !.last_success_at = now,
              !.updated_at = now]

RecordSuccess(h, now) ==
    [h EXCEPT !.state = "CLOSED",
              !.consecutive_failures = 0,
              !.opened_at = NoTime,
              !.cooldown_until = NoTime,
              !.last_success_at = now,
              !.updated_at = now]

(* Mutant of ShouldOpen: one failure late.                                 *)
OpensLate(h) ==
    \/ h.state = "HALF_OPEN"
    \/ h.consecutive_failures + 1 > FailureThreshold

(* A counted failure against a circuit that Advance has already been       *)
(* applied to: it opens from HALF_OPEN at once, from CLOSED at the         *)
(* threshold.                                                              *)
ShouldOpen(h) ==
    \/ h.state = "HALF_OPEN"
    \/ h.consecutive_failures + 1 >= FailureThreshold

RecordFailure(h, now) ==
    IF ShouldOpen(h)
    THEN [h EXCEPT !.state = "OPEN",
                   !.consecutive_failures = @ + 1,
                   !.opened_at = now,
                   !.cooldown_until = now + Cooldown,
                   !.last_failure_at = now,
                   !.updated_at = now]
    ELSE [h EXCEPT !.consecutive_failures = @ + 1,
                   !.last_failure_at = now,
                   !.updated_at = now]

(* Mutant of Rejects: only stale clocks.                                   *)
RejectsStaleOnly(h, outcome, now) == ~OnTime(h, now)

(* The calls of record_success and record_failure that raise ValueError: a *)
(* stale clock always, and an outcome that would change a circuit whose    *)
(* cooldown is still running.                                              *)
Rejects(h, outcome, now) ==
    \/ ~OnTime(h, now)
    \/ outcome # UncountedFailure /\ Advance(h, now).state = "OPEN"

Recorded(h, outcome, now) ==
    LET current == Advance(h, now)
    IN  CASE outcome = "success"       -> RecordSuccess(current, now)
          [] outcome = CountedFailure   -> RecordFailure(current, now)
          [] outcome = UncountedFailure -> current

-----------------------------------------------------------------------------
(* What routing is told about a pair.  A reason determines the eligibility *)
(* and the state that the code carries next to it.                         *)

Reason ==
    {"healthy", "circuit_open", "half_open_probe_eligible",
     "half_open_probe_acquired", "half_open_probe_in_flight",
     "health_unknown", "health_store_unavailable"}

Eligible(reason) ==
    reason \notin {"circuit_open", "half_open_probe_in_flight"}

HealthEligibility(h, now) ==
    IF h = None THEN "health_unknown"
    ELSE CASE Advance(h, now).state = "OPEN"      -> "circuit_open"
           [] Advance(h, now).state = "HALF_OPEN" -> "half_open_probe_eligible"
           [] Advance(h, now).state = "CLOSED"    -> "healthy"

(* The validator every record passes through when it is built or read      *)
(* back: a record that fails it is dropped by the caller.                  *)
ValidRecord(h) ==
    LET open_window == h.opened_at # NoTime /\ h.cooldown_until # NoTime
    IN  /\ h.state = "CLOSED" =>
               h.opened_at = NoTime /\ h.cooldown_until = NoTime
        /\ h.state # "CLOSED" => open_window
        /\ open_window => h.opened_at <= h.cooldown_until
        /\ \A t \in {h.opened_at, h.last_failure_at, h.last_success_at} :
               t <= h.updated_at

(* What the three transitions keep true of every record they produce: the  *)
(* validator, the failure count on the right side of the threshold for the *)
(* state, a cooldown of the configured length.                             *)
RecordSound(h) ==
    /\ ValidRecord(h)
    /\ h.state = "CLOSED" <=> h.consecutive_failures < FailureThreshold
    /\ h.state # "CLOSED" => h.cooldown_until = h.opened_at + Cooldown
    /\ h.consecutive_failures > 0 => h.last_failure_at >= h.last_success_at
=============================================================================
