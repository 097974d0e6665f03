------------------------------ MODULE MCGateway ------------------------------
EXTENDS Gateway

(* Every pair offers the one model that clients name; nobody offers the    *)
(* other one.                                                              *)
MCModel == {"offered", "unknown"}
MCModelOf == [k \in Candidate |-> "offered"]

(* A circuit an earlier process left open at the moment this one starts.   *)
OpenAtStart ==
    [Initial(0) EXCEPT !.state = "OPEN",
                       !.consecutive_failures = FailureThreshold,
                       !.opened_at = 0,
                       !.cooldown_until = Cooldown,
                       !.last_failure_at = 0]

FreshOrOpen == {None, OpenAtStart}

Symmetry == Permutations(Call) \cup Permutations(Candidate)
=============================================================================
