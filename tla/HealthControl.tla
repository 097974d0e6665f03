---------------------------- MODULE HealthControl ----------------------------
(***************************************************************************)
(* The health control plane of the gateway: what the provider calls of     *)
(* concurrent requests do to the stored circuits (ProviderHealthManager),  *)
(* to the half-open probe leases (HalfOpenProbeCoordinator) and to each    *)
(* other, with everything else a request does left to module Gateway.      *)
(*                                                                         *)
(* All requests run on one event loop, so a step here is the code a        *)
(* request runs between two awaits of provider.complete: Begin ends at the *)
(* first await; Settle starts when that await returns and runs through the *)
(* health update, the release of the lease and, when the request falls     *)
(* back, the admission of its next candidate.                              *)
(***************************************************************************)
EXTENDS CircuitBreaker, FiniteSets

CONSTANTS
    Candidate,          \* configured provider/model pairs, duplicates removed
    Call,               \* tasks that may have a provider call in flight
    Persisted,          \* what the database may hold when the gateway starts
    MaxTime,            \* bound on the clock
    StoreMayFail,       \* health reads and writes may raise
    ClockMayStepBack    \* the wall clock may be set back

ASSUME ControlAssumption ==
    /\ None \notin Candidate
    /\ None \notin Call
    /\ MaxTime \in Nat
    /\ Persisted \subseteq ProviderHealth \cup {None}
    /\ \A h \in Persisted \ {None} : RecordSound(h) /\ h.updated_at = 0
    /\ StoreMayFail \in BOOLEAN
    /\ ClockMayStepBack \in BOOLEAN

VARIABLES
    clock,      \* datetime.now(UTC)
    health,     \* the provider_health table
    leases,     \* the coordinator's claims: which call holds the pair's probe
    target,     \* the pair a task is calling, None when it is not calling
    via,        \* how that call was admitted
    started     \* when that call started (ProviderOutcome.started_at)

vars == <<clock, health, leases, target, via, started>>
callVars == <<target, via, started>>

(* A request that names a model is not subject to health filtering.        *)
Explicit == "explicit_model"
NotCalling == "not_calling"
Probe == "half_open_probe_acquired"
Via == Reason \cup {Explicit, NotCalling}

(* Whether a read or write of the health store succeeds.                   *)
StoreAnswers == IF StoreMayFail THEN BOOLEAN ELSE {TRUE}

TypeOK ==
    /\ clock \in 0 .. MaxTime
    /\ health \in [Candidate -> ProviderHealth \cup {None}]
    /\ leases \in [Candidate -> Call \cup {None}]
    /\ target \in [Call -> Candidate \cup {None}]
    /\ via \in [Call -> Via]
    /\ started \in [Call -> 0 .. MaxTime]

Init ==
    /\ clock = 0
    /\ health \in [Candidate -> Persisted]
    /\ leases = [k \in Candidate |-> None]
    /\ target = [c \in Call |-> None]
    /\ via = [c \in Call |-> NotCalling]
    /\ started = [c \in Call |-> 0]

-----------------------------------------------------------------------------
(* ModelRouter.evaluate_health for one pair.  Any exception, a record      *)
(* newer than the clock included, makes the pair eligible with no state.   *)
EvaluateHealth(h, now, answers) ==
    IF ~answers \/ (h # None /\ ~OnTime(h, now))
    THEN "health_store_unavailable"
    ELSE HealthEligibility(h, now)

(* Mutant of Admission: nobody asks who else is probing.                   *)
AdmissionUnleased(h, lease, now, answers) ==
    LET evidence == EvaluateHealth(h, now, answers)
    IN  IF evidence # "half_open_probe_eligible" THEN evidence ELSE Probe

(* GatewayService._admit_probe: evaluate again, and claim the pair's lease *)
(* when its circuit is half open.                                          *)
Admission(h, lease, now, answers) ==
    LET evidence == EvaluateHealth(h, now, answers)
    IN  IF evidence # "half_open_probe_eligible" THEN evidence
        ELSE IF lease = None THEN Probe
        ELSE "half_open_probe_in_flight"

(* ProviderHealthManager.update as GatewayService calls it: a failed read  *)
(* or write and a rejected transition all leave the stored record alone.   *)
UpdatedHealth(h, outcome, now, answers) ==
    LET current == IF h = None THEN Initial(now) ELSE h
    IN  IF ~answers \/ Rejects(current, outcome, now) THEN h
        ELSE Recorded(current, outcome, now)

(* HalfOpenProbeCoordinator.release: only the lease's own holder.          *)
Released(l, c, k) == [l EXCEPT ![k] = IF @ = c THEN None ELSE @]

(* Task c starts calling k, admitted with reason as, given the leases l    *)
(* left by what the task did before in the same step.                      *)
Start(l, c, k, as) ==
    /\ leases' = IF as = Probe THEN [l EXCEPT ![k] = c] ELSE l
    /\ target' = [target EXCEPT ![c] = k]
    /\ via' = [via EXCEPT ![c] = as]
    /\ started' = [started EXCEPT ![c] = clock]

Stop(l, c) ==
    /\ leases' = l
    /\ target' = [target EXCEPT ![c] = None]
    /\ via' = [via EXCEPT ![c] = NotCalling]
    /\ started' = [started EXCEPT ![c] = 0]

(* The ways a task may be admitted to call k, given health h, leases l.    *)
Admissions(h, l, k) ==
    {Explicit} \cup
    {as \in {Admission(h[k], l[k], clock, answers) : answers \in StoreAnswers} :
        Eligible(as)}

-----------------------------------------------------------------------------

(* A request reaches its first admitted candidate.                         *)
Begin(c, k) ==
    /\ target[c] = None
    /\ \E as \in Admissions(health, leases, k) : Start(leases, c, k, as)
    /\ UNCHANGED <<clock, health>>

(* The call of c returns.  A ProviderOutcome updates the pair's circuit; a *)
(* V0.1 provider's payload or ProviderError ("unmeasured") does not.  An   *)
(* outcome cannot be built when the clock is behind its own start.         *)
Returns(c, outcome) ==
    /\ target[c] # None
    /\ outcome # "unmeasured" => started[c] <= clock
    /\ IF outcome = "unmeasured" THEN UNCHANGED health
       ELSE \E answers \in StoreAnswers :
                health' = [health EXCEPT ![target[c]] =
                              UpdatedHealth(@, outcome, clock, answers)]
    /\ UNCHANGED clock

Settle(c, outcome) ==
    /\ Returns(c, outcome)
    /\ Stop(Released(leases, c, target[c]), c)

(* The request falls back: its next call starts before any other task runs *)
SettleAndFallBack(c, outcome, k) ==
    /\ outcome # "success"
    /\ Returns(c, outcome)
    /\ k # target[c]
    /\ LET l == Released(leases, c, target[c])
       IN  \E as \in Admissions(health', l, k) :
               /\ as = Explicit <=> via[c] = Explicit
               /\ Start(l, c, k, as)

(* Mutant of Abort: the lease is released on the normal path only.         *)
AbortWithoutRelease(c) ==
    /\ target[c] # None
    /\ Stop(leases, c)
    /\ UNCHANGED <<clock, health>>

(* Cancellation of the request or an exception the service does not catch: *)
(* the finally clause releases the lease, nothing is recorded.             *)
Abort(c) ==
    /\ target[c] # None
    /\ Stop(Released(leases, c, target[c]), c)
    /\ UNCHANGED <<clock, health>>

(* The process stops and starts again on the same database.                *)
Restart ==
    /\ \E c \in Call : target[c] # None
    /\ leases' = [k \in Candidate |-> None]
    /\ target' = [c \in Call |-> None]
    /\ via' = [c \in Call |-> NotCalling]
    /\ started' = [c \in Call |-> 0]
    /\ UNCHANGED <<clock, health>>

(* The wall clock moves on by one instant, or is set back by one.          *)
Tick ==
    /\ clock' \in 0 .. MaxTime
    /\ clock' = clock + 1 \/ (ClockMayStepBack /\ clock' = clock - 1)
    /\ UNCHANGED <<health, leases, callVars>>

Results == Outcome \cup {"unmeasured"}

Return(c) ==
    \/ \E outcome \in Results : Settle(c, outcome)
    \/ \E outcome \in Results, k \in Candidate : SettleAndFallBack(c, outcome, k)
    \/ Abort(c)

Next ==
    \/ \E c \in Call, k \in Candidate : Begin(c, k)
    \/ \E c \in Call : Return(c)
    \/ Restart
    \/ Tick

Spec == Init /\ [][Next]_vars

(* Every provider call ends: the HTTP client the adapters share has a      *)
(* timeout, after which they return a failed outcome.  No other step is    *)
(* promised.                                                               *)
FairSpec == Spec /\ \A c \in Call : WF_vars(Return(c))

-----------------------------------------------------------------------------
(* Properties.                                                             *)

(* The coordinator's table and the tasks agree at all times: a pair's      *)
(* lease is held by exactly the task whose call to that pair is the probe. *)
(* A lease that outlived its call would bar the pair from recovery for     *)
(* good; a probe without its lease would let a second one in               *)
(* (probes.py:18-32, service.py:197-211).                                  *)
LeaseHeldByProbe ==
    \A k \in Candidate, c \in Call :
        leases[k] = c <=> target[c] = k /\ via[c] = Probe

(* Whatever outcomes arrive and in whatever order, even with failing reads  *)
(* and writes, lost processes and a clock that is set back, every stored   *)
(* record is sound (health/models.py:59-139).                              *)
RecordsSound == \A k \in Candidate : health[k] # None => RecordSound(health[k])

(* With a clock that never goes back no record is newer than the clock, so *)
(* the transitions' time check and the fail-open of routing stay unused.   *)
RecordsInThePast ==
    \A k \in Candidate : health[k] # None => health[k].updated_at <= clock

(* The circuit of pair k blocks automatic traffic at this instant.         *)
Blocked(k) ==
    health[k] # None /\ health[k].state = "OPEN" /\ clock < health[k].cooldown_until

(* While the cooldown runs nothing changes the record: an outcome of a     *)
(* call that was in flight when the circuit opened neither closes it, nor  *)
(* counts, nor extends the cooldown (health/models.py:95,119).             *)
OpenRecordUntouched ==
    [][\A k \in Candidate : Blocked(k) => health'[k] = health[k]]_vars

(* No transition takes a record back in time, even when the clock is set   *)
(* back or the process restarts (health/models.py:141-147).                *)
RecordsOnlyAdvance ==
    [][\A k \in Candidate :
          health[k] # None =>
              /\ health'[k] # None
              /\ health'[k].updated_at >= health[k].updated_at]_vars

(* A step in which task c starts an automatic call to k.                   *)
StartsAutomatic(c, k) ==
    /\ target'[c] = k
    /\ target[c] # k
    /\ via'[c] # Explicit

(* No automatic call starts on a pair whose circuit is open and cooling    *)
(* down, including the call a request falls back to after its own failure  *)
(* or another's opened that circuit (docs/v0.3/CIRCUIT_BREAKER.md:6,94-96).*)
NoAutomaticCallWhileOpen ==
    [][\A c \in Call, k \in Candidate : StartsAutomatic(c, k) => ~Blocked(k)']_vars

(* The automatic calls to k that started after its current outage's        *)
(* cooldown.                                                               *)
RecoveryCalls(k) ==
    {c \in Call :
        /\ target[c] = k
        /\ via[c] # Explicit
        /\ started[c] >= health[k].cooldown_until}

(* Single flight: however many requests arrive at a circuit that is not    *)
(* closed, at most one automatic call tries it out at a time               *)
(* (docs/v0.3/CIRCUIT_BREAKER.md:59-60).                                   *)
SingleFlight ==
    \A k \in Candidate :
        health[k] # None /\ health[k].state # "CLOSED"
            => Cardinality(RecoveryCalls(k)) <= 1

(* A pair's probe lease always comes free again, so recovery can never be  *)
(* barred for good (service.py:209-211).                                   *)
LeaseComesFree ==
    \A k \in Candidate : leases[k] # None ~> leases[k] = None

(* A probe that succeeds closes its circuit (docs/v0.3/SCOPE.md:51).       *)
ProbeSuccessCloses ==
    [][\A c \in Call :
          via[c] = Probe /\ Settle(c, "success")
              => health'[target[c]].state = "CLOSED"]_vars

-----------------------------------------------------------------------------
(* The contract of docs/v0.3/CIRCUIT_BREAKER.md: what routing sees of a    *)
(* stored record is the record advanced to the present.                    *)
EffectiveState(h) == IF h = None THEN "CLOSED" ELSE Advance(h, clock).state

Contract == INSTANCE CircuitContract WITH
    phase <- [k \in Candidate |-> EffectiveState(health[k])],
    failures <- [k \in Candidate |->
                    IF health[k] = None THEN 0
                    ELSE health[k].consecutive_failures]

ImplementsContract == Contract!Spec
=============================================================================
