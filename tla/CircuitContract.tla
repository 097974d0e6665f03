--------------------------- MODULE CircuitContract ---------------------------
(***************************************************************************)
(* What the circuit breaker promises the rest of the gateway: the          *)
(* transition table of the circuit that routing observes, with no records, *)
(* timestamps, stores, leases or calls.  HealthControl implements it, its  *)
(* stored records advanced to the present standing for phase.              *)
(***************************************************************************)
EXTENDS Naturals

CONSTANTS Candidate, FailureThreshold

VARIABLES phase, failures

circuit == <<phase, failures>>

Phase == {"CLOSED", "OPEN", "HALF_OPEN"}

(* A gateway may start on the circuits an earlier process left behind.     *)
Init ==
    /\ phase \in [Candidate -> Phase]
    /\ failures \in [Candidate -> Nat]
    /\ \A k \in Candidate :
           phase[k] = "CLOSED" <=> failures[k] < FailureThreshold

Become(k, state, count) ==
    /\ phase' = [phase EXCEPT ![k] = state]
    /\ failures' = [failures EXCEPT ![k] = count]

Succeed(k) ==
    /\ phase[k] # "OPEN"
    /\ Become(k, "CLOSED", 0)

FailBelowThreshold(k) ==
    /\ phase[k] = "CLOSED"
    /\ failures[k] + 1 < FailureThreshold
    /\ Become(k, "CLOSED", failures[k] + 1)

Trip(k) ==
    /\ \/ phase[k] = "CLOSED" /\ failures[k] + 1 = FailureThreshold
       \/ phase[k] = "HALF_OPEN"
    /\ Become(k, "OPEN", failures[k] + 1)

(* The clock passes the cooldown deadline of every pair in ready.          *)
CoolDown(ready) ==
    /\ \A k \in ready : phase[k] = "OPEN"
    /\ phase' = [k \in Candidate |-> IF k \in ready THEN "HALF_OPEN" ELSE phase[k]]
    /\ UNCHANGED failures

Next ==
    \/ \E k \in Candidate : Succeed(k) \/ FailBelowThreshold(k) \/ Trip(k)
    \/ \E ready \in SUBSET Candidate : CoolDown(ready)

Spec == Init /\ [][Next]_circuit
=============================================================================
