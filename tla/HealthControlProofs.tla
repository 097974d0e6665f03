------------------------ MODULE HealthControlProofs ------------------------
(***************************************************************************)
(* Theorems about CircuitBreaker and HealthControl, for every set of pairs *)
(* and of concurrent tasks, every threshold and cooldown: what the         *)
(* transitions of one circuit return; the invariant IInv (types, the       *)
(* leases matching the probes, sound records) and what follows from it;    *)
(* and that HealthControl implements CircuitContract.                      *)
(***************************************************************************)
EXTENDS HealthControl, FiniteSetTheorems, TLAPS

-----------------------------------------------------------------------------
(* The transitions of one circuit.                                         *)

(* A fresh record is sound.                                                *)
LEMMA InitialSound ==
    ASSUME NEW now \in Time
    PROVE  /\ Initial(now) \in ProviderHealth
           /\ RecordSound(Initial(now))
           /\ Initial(now).updated_at = now
BY PolicyAssumption
   DEF Initial, ProviderHealth, RecordSound, ValidRecord, CircuitState, Time, NoTime

(* Advancing a sound record to the present keeps it sound, leaves all but  *)
(* its state and update time alone, and never takes it back in time.       *)
LEMMA AdvanceSound ==
    ASSUME NEW h \in ProviderHealth, RecordSound(h),
           NEW now \in Time, OnTime(h, now)
    PROVE  LET a == Advance(h, now)
           IN  /\ a \in ProviderHealth
               /\ RecordSound(a)
               /\ OnTime(a, now)
               /\ a.updated_at >= h.updated_at
               /\ a.consecutive_failures = h.consecutive_failures
               /\ a.state = "OPEN" => now < a.cooldown_until
<1>1. CASE h.state = "OPEN" /\ now >= h.cooldown_until
  <2>. DEFINE a == [h EXCEPT !.state = "HALF_OPEN", !.updated_at = now]
  <2>1. Advance(h, now) = a
    BY <1>1 DEF Advance
  <2>2. /\ a \in ProviderHealth
        /\ a.state = "HALF_OPEN"
        /\ a.updated_at = now
        /\ a.opened_at = h.opened_at
        /\ a.cooldown_until = h.cooldown_until
        /\ a.last_failure_at = h.last_failure_at
        /\ a.last_success_at = h.last_success_at
        /\ a.consecutive_failures = h.consecutive_failures
    BY DEF ProviderHealth, CircuitState, Time
  <2>3. RecordSound(a)
    <3>. HIDE DEF a
    <3>. QED
      BY <1>1, <2>2, PolicyAssumption
         DEF RecordSound, ValidRecord, ProviderHealth, OnTime, Time, NoTime
  <2>4. now >= now /\ now >= h.updated_at
    BY DEF OnTime, Time
  <2>. HIDE DEF a
  <2>. QED
    BY <2>1, <2>2, <2>3, <2>4 DEF OnTime
<1>2. CASE ~(h.state = "OPEN" /\ now >= h.cooldown_until)
  <2>1. Advance(h, now) = h
    BY <1>2 DEF Advance
  <2>2. h.state = "OPEN" => now < h.cooldown_until
    BY <1>2 DEF RecordSound, ValidRecord, ProviderHealth, CircuitState, Time, NoTime
  <2>. QED
    BY <2>1, <2>2 DEF ProviderHealth, Time
<1>. QED
  BY <1>1, <1>2

(* An accepted success gives a sound closed record with no failures,        *)
(* stamped now.                                                             *)
LEMMA SuccessSound ==
    ASSUME NEW h \in ProviderHealth, RecordSound(h),
           NEW now \in Time, OnTime(h, now)
    PROVE  /\ RecordSuccess(h, now) \in ProviderHealth
           /\ RecordSound(RecordSuccess(h, now))
           /\ RecordSuccess(h, now).state = "CLOSED"
           /\ RecordSuccess(h, now).consecutive_failures = 0
           /\ RecordSuccess(h, now).updated_at = now
<1>. DEFINE s == RecordSuccess(h, now)
<1>1. /\ s \in ProviderHealth
      /\ s.state = "CLOSED"
      /\ s.consecutive_failures = 0
      /\ s.opened_at = NoTime
      /\ s.cooldown_until = NoTime
      /\ s.last_failure_at = h.last_failure_at
      /\ s.last_success_at = now
      /\ s.updated_at = now
  BY DEF RecordSuccess, ProviderHealth, CircuitState, Time
<1>2. RecordSound(s)
  <2>. HIDE DEF s
  <2>. QED
    BY <1>1, PolicyAssumption
       DEF RecordSound, ValidRecord, ProviderHealth, OnTime, Time, NoTime
<1>. QED
  BY <1>1, <1>2

(* A counted failure opens the circuit exactly when it must, with a full   *)
(* cooldown from now.                                                      *)
LEMMA FailureSound ==
    ASSUME NEW h \in ProviderHealth, RecordSound(h), h.state # "OPEN",
           NEW now \in Time, OnTime(h, now)
    PROVE  LET f == RecordFailure(h, now)
           IN  /\ f \in ProviderHealth
               /\ RecordSound(f)
               /\ f.updated_at = now
               /\ f.consecutive_failures = h.consecutive_failures + 1
               /\ f.state = IF ShouldOpen(h) THEN "OPEN" ELSE "CLOSED"
               /\ ShouldOpen(h) => f.cooldown_until = now + Cooldown
<1>. DEFINE f == RecordFailure(h, now)
<1>0. h.state \in {"CLOSED", "HALF_OPEN"}
  BY DEF ProviderHealth, CircuitState
<1>1. CASE ShouldOpen(h)
  <2>1. /\ f \in ProviderHealth
        /\ f.state = "OPEN"
        /\ f.consecutive_failures = h.consecutive_failures + 1
        /\ f.opened_at = now
        /\ f.cooldown_until = now + Cooldown
        /\ f.last_failure_at = now
        /\ f.last_success_at = h.last_success_at
        /\ f.updated_at = now
    <3>1. /\ now + Cooldown \in Nat
          /\ h.consecutive_failures + 1 \in Nat
      BY PolicyAssumption DEF ProviderHealth, Time
    <3>2. f = [h EXCEPT !.state = "OPEN",
                        !.consecutive_failures = h.consecutive_failures + 1,
                        !.opened_at = now,
                        !.cooldown_until = now + Cooldown,
                        !.last_failure_at = now,
                        !.updated_at = now]
      BY <1>1 DEF RecordFailure
    <3>. HIDE DEF f
    <3>. QED
      BY <3>1, <3>2 DEF ProviderHealth, CircuitState, Time
  <2>2. f.consecutive_failures >= FailureThreshold
    <3>1. h.state = "HALF_OPEN" => h.consecutive_failures >= FailureThreshold
      BY PolicyAssumption DEF RecordSound, ProviderHealth
    <3>. HIDE DEF f
    <3>. QED
      BY <1>1, <2>1, <3>1, PolicyAssumption DEF ShouldOpen, ProviderHealth
  <2>3. RecordSound(f)
    <3>. HIDE DEF f
    <3>. QED
      BY <2>1, <2>2, PolicyAssumption
         DEF RecordSound, ValidRecord, ProviderHealth, OnTime, Time, NoTime
  <2>. QED
    BY <1>1, <2>1, <2>3
<1>2. CASE ~ShouldOpen(h)
  <2>1. h.state = "CLOSED" /\ h.consecutive_failures + 1 < FailureThreshold
    BY <1>0, <1>2, PolicyAssumption DEF ShouldOpen, ProviderHealth
  <2>2. /\ f \in ProviderHealth
        /\ f.state = h.state
        /\ f.consecutive_failures = h.consecutive_failures + 1
        /\ f.opened_at = h.opened_at
        /\ f.cooldown_until = h.cooldown_until
        /\ f.last_failure_at = now
        /\ f.last_success_at = h.last_success_at
        /\ f.updated_at = now
    <3>1. h.consecutive_failures + 1 \in Nat
      BY DEF ProviderHealth
    <3>2. f = [h EXCEPT !.consecutive_failures = h.consecutive_failures + 1,
                        !.last_failure_at = now,
                        !.updated_at = now]
      BY <1>2 DEF RecordFailure
    <3>. HIDE DEF f
    <3>. QED
      BY <3>1, <3>2 DEF ProviderHealth, CircuitState, Time
  <2>3. RecordSound(f)
    <3>. HIDE DEF f
    <3>. QED
      BY <2>1, <2>2, PolicyAssumption
         DEF RecordSound, ValidRecord, ProviderHealth, OnTime, Time, NoTime
  <2>. QED
    BY <1>2, <2>1, <2>2, <2>3
<1>. QED
  BY <1>1, <1>2

(* Every accepted outcome turns a sound record into a sound record that is *)
(* not older and not newer than the outcome.                               *)
THEOREM RecordedSound ==
    ASSUME NEW h \in ProviderHealth, RecordSound(h),
           NEW outcome \in Outcome, NEW now \in Time,
           ~Rejects(h, outcome, now)
    PROVE  LET r == Recorded(h, outcome, now)
           IN  /\ r \in ProviderHealth
               /\ RecordSound(r)
               /\ h.updated_at <= r.updated_at
               /\ r.updated_at <= now
<1>1. OnTime(h, now)
  BY DEF Rejects
<1>. DEFINE a == Advance(h, now)
<1>2. /\ a \in ProviderHealth
      /\ RecordSound(a)
      /\ OnTime(a, now)
      /\ a.updated_at >= h.updated_at
  BY <1>1, AdvanceSound
<1>3. outcome # UncountedFailure => a.state # "OPEN"
  BY DEF Rejects
<1>4. h.updated_at \in Nat /\ a.updated_at \in Nat /\ now \in Nat
  BY <1>2 DEF ProviderHealth, Time
<1>. HIDE DEF a
<1>5. CASE outcome = "success"
  <2>1. Recorded(h, outcome, now) = RecordSuccess(a, now)
    BY <1>5 DEF Recorded, a, CountedFailure, UncountedFailure
  <2>. QED
    BY <1>1, <1>2, <1>4, <2>1, SuccessSound DEF OnTime
<1>6. CASE outcome = CountedFailure
  <2>1. Recorded(h, outcome, now) = RecordFailure(a, now)
    BY <1>6 DEF Recorded, a, CountedFailure, UncountedFailure
  <2>2. a.state # "OPEN"
    BY <1>3, <1>6 DEF CountedFailure, UncountedFailure
  <2>3. /\ RecordFailure(a, now) \in ProviderHealth
        /\ RecordSound(RecordFailure(a, now))
        /\ RecordFailure(a, now).updated_at = now
    BY <1>2, <2>2, FailureSound
  <2>. QED
    BY <1>1, <1>4, <2>1, <2>3 DEF OnTime
<1>7. CASE outcome = UncountedFailure
  <2>1. Recorded(h, outcome, now) = a
    BY <1>7 DEF Recorded, a, CountedFailure, UncountedFailure
  <2>. QED
    BY <1>2, <1>4, <2>1 DEF OnTime
<1>. QED
  BY <1>5, <1>6, <1>7 DEF Outcome

(* Before the cooldown ends an accepted outcome can only be an uncounted   *)
(* failure, and it leaves the record as it is.                             *)
THEOREM OpenRecordKept ==
    ASSUME NEW h \in ProviderHealth, NEW outcome \in Outcome, NEW now \in Time,
           h.state = "OPEN", now < h.cooldown_until,
           ~Rejects(h, outcome, now)
    PROVE  Recorded(h, outcome, now) = h
<1>1. h.cooldown_until \in Int
  BY DEF ProviderHealth, Time, NoTime
<1>2. Advance(h, now) = h
  BY <1>1 DEF Advance, Time
<1>3. outcome = UncountedFailure
  BY <1>2 DEF Rejects
<1>. QED
  BY <1>2, <1>3 DEF Recorded, UncountedFailure, CountedFailure

-----------------------------------------------------------------------------
(* The control plane.  The lemmas first say what admission, the health     *)
(* update and the two ways a task changes its call (Start, Stop) do.       *)

IInv == TypeOK /\ LeaseHeldByProbe /\ RecordsSound

-----------------------------------------------------------------------------
(* Admission and the health update.                                        *)

(* An automatic call is admitted as a probe only when the coordinator has   *)
(* no lease for its pair.                                                   *)
LEMMA AdmissionIsReason ==
    ASSUME NEW h \in ProviderHealth \cup {None}, NEW lease,
           NEW now \in Time, NEW answers \in BOOLEAN
    PROVE  /\ Admission(h, lease, now, answers) \in Reason
           /\ Admission(h, lease, now, answers) = Probe => lease = None
<1>1. h # None => Advance(h, now).state \in CircuitState
  <2>. SUFFICES ASSUME h # None PROVE Advance(h, now).state \in CircuitState
    OBVIOUS
  <2>1. h \in ProviderHealth
    OBVIOUS
  <2>2. CASE h.state = "OPEN" /\ now >= h.cooldown_until
    BY <2>1, <2>2 DEF Advance, ProviderHealth, CircuitState
  <2>3. CASE ~(h.state = "OPEN" /\ now >= h.cooldown_until)
    BY <2>1, <2>3 DEF Advance, ProviderHealth, CircuitState
  <2>. QED
    BY <2>2, <2>3
<1>2. HealthEligibility(h, now) \in
         {"health_unknown", "circuit_open", "half_open_probe_eligible", "healthy"}
  BY <1>1 DEF HealthEligibility, CircuitState
<1>. QED
  BY <1>2 DEF Admission, EvaluateHealth, Reason, Probe

(* Whatever the admission reads, it admits a call in one of the known       *)
(* ways, and as a probe only without a lease.                               *)
LEMMA AdmissionsAdmit ==
    ASSUME NEW h \in [Candidate -> ProviderHealth \cup {None}], NEW l,
           NEW k \in Candidate, clock \in Time,
           NEW as \in Admissions(h, l, k)
    PROVE  /\ as \in Via
           /\ as = Probe => l[k] = None
<1>1. CASE as = Explicit
  BY <1>1 DEF Via, Explicit, Probe
<1>2. CASE as # Explicit
  <2>1. PICK answers \in StoreAnswers : as = Admission(h[k], l[k], clock, answers)
    BY <1>2 DEF Admissions
  <2>2. answers \in BOOLEAN
    BY <2>1, ControlAssumption DEF StoreAnswers
  <2>. QED
    BY <2>1, <2>2, AdmissionIsReason DEF Via
<1>. QED
  BY <1>1, <1>2

(* What an outcome makes of a record, sound before, is sound, not older,    *)
(* and the same when the circuit is open.                                   *)
LEMMA UpdatedHealthSound ==
    ASSUME NEW h \in ProviderHealth \cup {None}, h # None => RecordSound(h),
           NEW outcome \in Outcome, NEW now \in Time, NEW answers \in BOOLEAN
    PROVE  LET u == UpdatedHealth(h, outcome, now, answers)
           IN  /\ u \in ProviderHealth \cup {None}
               /\ u # None => RecordSound(u)
               /\ h # None => u # None /\ u.updated_at >= h.updated_at
               /\ h # None /\ h.state = "OPEN" /\ now < h.cooldown_until => u = h
               /\ u # None /\ u # h => u.updated_at <= now
<1>. DEFINE current == IF h = None THEN Initial(now) ELSE h
            u == UpdatedHealth(h, outcome, now, answers)
<1>1. current \in ProviderHealth /\ RecordSound(current)
  BY InitialSound
<1>2. CASE ~answers \/ Rejects(current, outcome, now)
  <2>1. u = h
    BY <1>2 DEF UpdatedHealth
  <2>2. h # None => h.updated_at >= h.updated_at
    BY DEF ProviderHealth, Time
  <2>. QED
    BY <2>1, <2>2
<1>3. CASE ~(~answers \/ Rejects(current, outcome, now))
  <2>1. u = Recorded(current, outcome, now)
    BY <1>3 DEF UpdatedHealth
  <2>. HIDE DEF current, u
  <2>2. /\ u \in ProviderHealth
        /\ RecordSound(u)
        /\ current.updated_at <= u.updated_at
        /\ u.updated_at <= now
    BY <1>1, <1>3, <2>1, RecordedSound
  <2>3. h # None => current = h
    BY DEF current
  <2>4. h # None /\ h.state = "OPEN" /\ now < h.cooldown_until => u = h
    BY <1>3, <2>1, <2>3, OpenRecordKept
  <2>5. u # None
    BY <2>2, NoneIsNoRecord
  <2>6. current.updated_at \in Nat /\ u.updated_at \in Nat
    BY <1>1, <2>2 DEF ProviderHealth, Time
  <2>. QED
    BY <2>2, <2>3, <2>4, <2>5, <2>6 DEF u
<1>. QED
  BY <1>2, <1>3

-----------------------------------------------------------------------------
(* What a return does to the health table: at most one record changes, and *)
(* as UpdatedHealthSound says.                                             *)

(* An outcome changes its own pair's record only, to a sound one that is    *)
(* not older.                                                               *)
LEMMA ReturnKeepsHealthSound ==
    ASSUME TypeOK, RecordsSound, NEW c \in Call, NEW outcome \in Results,
           Returns(c, outcome)
    PROVE  /\ health' \in [Candidate -> ProviderHealth \cup {None}]
           /\ RecordsSound'
           /\ \A k \in Candidate :
                 /\ k # target[c] => health'[k] = health[k]
                 /\ health[k] # None =>
                       health'[k] # None /\ health'[k].updated_at >= health[k].updated_at
                 /\ Blocked(k) => health'[k] = health[k]
                 /\ health'[k] # None /\ health'[k] # health[k]
                       => health'[k].updated_at <= clock
<1>1. \A k \in Candidate :
         health[k] # None => health[k].updated_at >= health[k].updated_at
  BY DEF TypeOK, ProviderHealth, Time
<1>2. CASE outcome = "unmeasured"
  <2>1. health' = health
    BY <1>2 DEF Returns
  <2>. QED
    BY <1>1, <2>1 DEF TypeOK, RecordsSound
<1>3. CASE outcome # "unmeasured"
  <2>1. outcome \in Outcome
    BY <1>3 DEF Results
  <2>2. PICK answers \in StoreAnswers :
           health' = [health EXCEPT ![target[c]] =
                         UpdatedHealth(@, outcome, clock, answers)]
    BY <1>3 DEF Returns
  <2>3. answers \in BOOLEAN
    BY <2>2, ControlAssumption DEF StoreAnswers
  <2>4. target[c] \in Candidate
    BY DEF TypeOK, Returns
  <2>5. clock \in Time
    BY ControlAssumption DEF TypeOK, Time
  <2>. DEFINE t == target[c]
              u == UpdatedHealth(health[t], outcome, clock, answers)
  <2>6. health[t] \in ProviderHealth \cup {None} /\ (health[t] # None => RecordSound(health[t]))
    BY <2>4 DEF TypeOK, RecordsSound
  <2>7. /\ u \in ProviderHealth \cup {None}
        /\ u # None => RecordSound(u)
        /\ health[t] # None => u # None /\ u.updated_at >= health[t].updated_at
        /\ health[t] # None /\ health[t].state = "OPEN" /\ clock < health[t].cooldown_until
              => u = health[t]
        /\ u # None /\ u # health[t] => u.updated_at <= clock
    BY <2>1, <2>3, <2>5, <2>6, UpdatedHealthSound
  <2>8. health' = [health EXCEPT ![t] = u]
    BY <2>2
  <2>. HIDE DEF u, t
  <2>9. health'[t] = u /\ \A k \in Candidate : k # t => health'[k] = health[k]
    BY <2>4, <2>8 DEF TypeOK, t
  <2>10. health' \in [Candidate -> ProviderHealth \cup {None}]
    BY <2>4, <2>7, <2>8 DEF TypeOK, t
  <2>11. RecordsSound'
    BY <2>7, <2>9 DEF RecordsSound
  <2>. QED
    BY <1>1, <2>7, <2>9, <2>10, <2>11 DEF Blocked, t
<1>. QED
  BY <1>2, <1>3

-----------------------------------------------------------------------------
(* What starting and stopping a call does to leases and tasks.             *)

(* The leases l are those of the tasks other than c, which holds none.     *)
LeasesOfOthers(l, c) ==
    /\ l \in [Candidate -> Call \cup {None}]
    /\ \A k \in Candidate, d \in Call :
          l[k] = d <=> d # c /\ target[d] = k /\ via[d] = Probe

(* A call that releases its lease in its finally clause leaves those of     *)
(* others.                                                                  *)
LEMMA ReleasedLeavesOthers ==
    ASSUME TypeOK, LeaseHeldByProbe, NEW c \in Call, target[c] # None
    PROVE  LeasesOfOthers(Released(leases, c, target[c]), c)
<1>1. target[c] \in Candidate
  BY DEF TypeOK
<1>2. leases \in [Candidate -> Call \cup {None}]
  BY DEF TypeOK
<1>3. Released(leases, c, target[c]) =
         [leases EXCEPT ![target[c]] = IF leases[target[c]] = c THEN None
                                       ELSE leases[target[c]]]
  BY DEF Released
<1>4. Released(leases, c, target[c]) \in [Candidate -> Call \cup {None}]
  BY <1>1, <1>2, <1>3
<1>5. ASSUME NEW k \in Candidate, NEW d \in Call
      PROVE  Released(leases, c, target[c])[k] = d
                <=> d # c /\ target[d] = k /\ via[d] = Probe
  BY <1>1, <1>2, <1>3, ControlAssumption DEF LeaseHeldByProbe
<1>. QED
  BY <1>4, <1>5 DEF LeasesOfOthers

(* A task without a call has no lease to leave behind.                      *)
LEMMA IdleLeavesOthers ==
    ASSUME TypeOK, LeaseHeldByProbe, NEW c \in Call, target[c] = None
    PROVE  LeasesOfOthers(leases, c)
BY ControlAssumption DEF TypeOK, LeaseHeldByProbe, LeasesOfOthers

(* A call that starts takes a lease exactly when it is a probe.             *)
LEMMA StartKeepsLeases ==
    ASSUME TypeOK, NEW c \in Call, NEW k \in Candidate, NEW l, NEW as \in Via,
           LeasesOfOthers(l, c), as = Probe => l[k] = None,
           Start(l, c, k, as), clock' = clock
    PROVE  /\ leases' \in [Candidate -> Call \cup {None}]
           /\ target' \in [Call -> Candidate \cup {None}]
           /\ via' \in [Call -> Via]
           /\ started' \in [Call -> 0 .. MaxTime]
           /\ LeaseHeldByProbe'
<1>1. /\ target' = [target EXCEPT ![c] = k]
      /\ via' = [via EXCEPT ![c] = as]
      /\ started' = [started EXCEPT ![c] = clock]
      /\ leases' = IF as = Probe THEN [l EXCEPT ![k] = c] ELSE l
  BY DEF Start
<1>2. /\ leases' \in [Candidate -> Call \cup {None}]
      /\ target' \in [Call -> Candidate \cup {None}]
      /\ via' \in [Call -> Via]
      /\ started' \in [Call -> 0 .. MaxTime]
  BY <1>1 DEF TypeOK, LeasesOfOthers
<1>3. ASSUME NEW j \in Candidate, NEW d \in Call
      PROVE  leases'[j] = d <=> target'[d] = j /\ via'[d] = Probe
  <2>0. l \in [Candidate -> Call \cup {None}]
    BY DEF LeasesOfOthers
  <2>1. CASE d = c
    <3>1. target'[d] = k /\ via'[d] = as
      BY <1>1, <2>1 DEF TypeOK
    <3>2. l[j] # d
      BY <2>1 DEF LeasesOfOthers
    <3>3. CASE as = Probe
      BY <1>1, <2>0, <2>1, <3>1, <3>2, <3>3
    <3>4. CASE as # Probe
      BY <1>1, <3>1, <3>2, <3>4
    <3>. QED
      BY <3>3, <3>4
  <2>2. CASE d # c
    <3>1. target'[d] = target[d] /\ via'[d] = via[d]
      BY <1>1, <2>2 DEF TypeOK
    <3>2. l[j] = d <=> target[d] = j /\ via[d] = Probe
      BY <2>2 DEF LeasesOfOthers
    <3>3. leases'[j] = d <=> l[j] = d
      <4>1. CASE as = Probe /\ j = k
        <5>1. leases'[j] = c
          BY <1>1, <2>0, <4>1
        <5>. QED
          BY <2>2, <4>1, <5>1, ControlAssumption
      <4>2. CASE ~(as = Probe /\ j = k)
        BY <1>1, <2>0, <4>2
      <4>. QED
        BY <4>1, <4>2
    <3>. QED
      BY <3>1, <3>2, <3>3
  <2>. QED
    BY <2>1, <2>2
<1>. QED
  BY <1>2, <1>3 DEF LeaseHeldByProbe

(* A call that ends leaves no lease of its own.                             *)
LEMMA StopKeepsLeases ==
    ASSUME TypeOK, NEW c \in Call, NEW l, LeasesOfOthers(l, c), Stop(l, c)
    PROVE  /\ leases' \in [Candidate -> Call \cup {None}]
           /\ target' \in [Call -> Candidate \cup {None}]
           /\ via' \in [Call -> Via]
           /\ started' \in [Call -> 0 .. MaxTime]
           /\ LeaseHeldByProbe'
<1>1. /\ target' = [target EXCEPT ![c] = None]
      /\ via' = [via EXCEPT ![c] = NotCalling]
      /\ started' = [started EXCEPT ![c] = 0]
      /\ leases' = l
  BY DEF Stop
<1>2. /\ leases' \in [Candidate -> Call \cup {None}]
      /\ target' \in [Call -> Candidate \cup {None}]
      /\ via' \in [Call -> Via]
      /\ started' \in [Call -> 0 .. MaxTime]
  BY <1>1, ControlAssumption DEF TypeOK, LeasesOfOthers, Via
<1>3. ASSUME NEW j \in Candidate, NEW d \in Call
      PROVE  leases'[j] = d <=> target'[d] = j /\ via'[d] = Probe
  <2>1. CASE d = c
    BY <1>1, <2>1, ControlAssumption DEF TypeOK, LeasesOfOthers
  <2>2. CASE d # c
    BY <1>1, <2>2 DEF TypeOK, LeasesOfOthers
  <2>. QED
    BY <2>1, <2>2
<1>. QED
  BY <1>2, <1>3 DEF LeaseHeldByProbe

-----------------------------------------------------------------------------
(* The invariant.                                                          *)

(* Fresh or stored circuits, no call and no lease.                          *)
LEMMA InitIInv == Init => IInv
<1>. SUFFICES ASSUME Init PROVE IInv
  OBVIOUS
<1>1. health \in [Candidate -> Persisted] /\ RecordsSound
  BY ControlAssumption DEF Init, RecordsSound
<1>2. health \in [Candidate -> ProviderHealth \cup {None}]
  BY <1>1, ControlAssumption
<1>3. TypeOK
  BY <1>2, ControlAssumption DEF Init, TypeOK, Via, NotCalling
<1>4. LeaseHeldByProbe
  BY ControlAssumption DEF Init, LeaseHeldByProbe
<1>. QED
  BY <1>1, <1>3, <1>4 DEF IInv

(* Every step of the control plane keeps the invariant.                     *)
LEMMA NextIInv == IInv /\ [Next]_vars => IInv'
<1>. SUFFICES ASSUME IInv, [Next]_vars PROVE IInv'
  OBVIOUS
<1>. USE DEF IInv
<1>0. clock \in Time
  BY ControlAssumption DEF TypeOK, Time
<1>1. ASSUME NEW c \in Call, NEW k \in Candidate, Begin(c, k)
      PROVE  IInv'
  <2>1. PICK as \in Admissions(health, leases, k) : Start(leases, c, k, as)
    BY <1>1 DEF Begin
  <2>2. as \in Via /\ (as = Probe => leases[k] = None)
    BY <1>0, AdmissionsAdmit DEF TypeOK
  <2>3. LeasesOfOthers(leases, c)
    BY <1>1, IdleLeavesOthers DEF Begin
  <2>4. clock' = clock /\ health' = health
    BY <1>1 DEF Begin
  <2>. QED
    BY <2>1, <2>2, <2>3, <2>4, StartKeepsLeases DEF TypeOK, RecordsSound
<1>2. ASSUME NEW c \in Call, NEW outcome \in Results, Settle(c, outcome)
      PROVE  IInv'
  <2>1. Returns(c, outcome) /\ target[c] # None /\ clock' = clock
    BY <1>2 DEF Settle, Returns
  <2>2. LeasesOfOthers(Released(leases, c, target[c]), c)
    BY <2>1, ReleasedLeavesOthers
  <2>3. Stop(Released(leases, c, target[c]), c)
    BY <1>2 DEF Settle
  <2>. QED
    BY <2>1, <2>2, <2>3, StopKeepsLeases, ReturnKeepsHealthSound DEF TypeOK
<1>3. ASSUME NEW c \in Call, NEW outcome \in Results, NEW k \in Candidate,
             SettleAndFallBack(c, outcome, k)
      PROVE  IInv'
  <2>. DEFINE l == Released(leases, c, target[c])
  <2>1. Returns(c, outcome) /\ target[c] # None /\ clock' = clock
    BY <1>3 DEF SettleAndFallBack, Returns
  <2>2. LeasesOfOthers(l, c)
    BY <2>1, ReleasedLeavesOthers
  <2>3. PICK as \in Admissions(health', l, k) : Start(l, c, k, as)
    BY <1>3 DEF SettleAndFallBack
  <2>4. health' \in [Candidate -> ProviderHealth \cup {None}] /\ RecordsSound'
    BY <2>1, ReturnKeepsHealthSound
  <2>. HIDE DEF l
  <2>5. as \in Via /\ (as = Probe => l[k] = None)
    BY <1>0, <2>4, AdmissionsAdmit
  <2>. QED
    BY <2>1, <2>2, <2>3, <2>4, <2>5, StartKeepsLeases DEF TypeOK
<1>4. ASSUME NEW c \in Call, Abort(c)
      PROVE  IInv'
  <2>1. target[c] # None /\ clock' = clock /\ health' = health
    BY <1>4 DEF Abort
  <2>2. LeasesOfOthers(Released(leases, c, target[c]), c)
    BY <2>1, ReleasedLeavesOthers
  <2>3. Stop(Released(leases, c, target[c]), c)
    BY <1>4 DEF Abort
  <2>. QED
    BY <2>1, <2>2, <2>3, StopKeepsLeases DEF TypeOK, RecordsSound
<1>5. CASE Restart
  <2>1. TypeOK'
    BY <1>5, ControlAssumption DEF Restart, TypeOK, Via
  <2>2. LeaseHeldByProbe'
    BY <1>5, ControlAssumption DEF Restart, LeaseHeldByProbe
  <2>. QED
    BY <1>5, <2>1, <2>2 DEF Restart, RecordsSound
<1>6. CASE Tick
  BY <1>6, ControlAssumption
     DEF Tick, callVars, TypeOK, LeaseHeldByProbe, RecordsSound
<1>7. CASE UNCHANGED vars
  BY <1>7 DEF vars, TypeOK, LeaseHeldByProbe, RecordsSound
<1>. QED
  BY <1>1, <1>2, <1>3, <1>4, <1>5, <1>6, <1>7 DEF Next, Return

(* Every variable keeps its type.                                          *)
THEOREM TypeCorrect == Spec => []TypeOK
<1>1. IInv => TypeOK
  BY DEF IInv
<1>. QED
  BY InitIInv, NextIInv, <1>1, PTL DEF Spec

(* A pair's lease is held by exactly the task that probes it, through      *)
(* failures of the store, cancellations, restarts and clock steps.         *)
THEOREM LeaseSafety == Spec => []LeaseHeldByProbe
<1>1. IInv => LeaseHeldByProbe
  BY DEF IInv
<1>. QED
  BY InitIInv, NextIInv, <1>1, PTL DEF Spec

(* Every record ever stored is sound, under the same faults.               *)
THEOREM RecordSafety == Spec => []RecordsSound
<1>1. IInv => RecordsSound
  BY DEF IInv
<1>. QED
  BY InitIInv, NextIInv, <1>1, PTL DEF Spec

-----------------------------------------------------------------------------
(* What any step does to the stored records.                               *)

(* What a step may do to a stored record.                                   *)
LEMMA StepOnRecords ==
    ASSUME IInv, [Next]_vars
    PROVE  \A k \in Candidate :
              /\ health[k] # None =>
                    health'[k] # None /\ health'[k].updated_at >= health[k].updated_at
              /\ Blocked(k) => health'[k] = health[k]
              /\ health'[k] # None /\ health'[k] # health[k]
                    => health'[k].updated_at <= clock
<1>. USE DEF IInv
<1>1. CASE health' = health
  BY <1>1 DEF TypeOK, ProviderHealth, Time
<1>2. ASSUME NEW c \in Call, NEW outcome \in Results, Returns(c, outcome)
      PROVE  \A k \in Candidate :
                /\ health[k] # None =>
                      health'[k] # None /\ health'[k].updated_at >= health[k].updated_at
                /\ Blocked(k) => health'[k] = health[k]
                /\ health'[k] # None /\ health'[k] # health[k]
                      => health'[k].updated_at <= clock
  BY <1>2, ReturnKeepsHealthSound
<1>. QED
  BY <1>1, <1>2
     DEF Next, Return, Begin, Settle, SettleAndFallBack, Abort, Restart, Tick, vars

(* No outcome changes the record of a circuit whose cooldown is running.   *)
THEOREM OpenUntouched == Spec => OpenRecordUntouched
<1>1. IInv /\ [Next]_vars =>
         [\A k \in Candidate : Blocked(k) => health'[k] = health[k]]_vars
  BY StepOnRecords
<1>. QED
  BY InitIInv, NextIInv, <1>1, PTL DEF Spec, OpenRecordUntouched

(* No record is deleted or replaced by an older one.                       *)
THEOREM NoTimeReversal == Spec => RecordsOnlyAdvance
<1>1. IInv /\ [Next]_vars =>
         [\A k \in Candidate :
             health[k] # None =>
                 /\ health'[k] # None
                 /\ health'[k].updated_at >= health[k].updated_at]_vars
  BY StepOnRecords
<1>. QED
  BY InitIInv, NextIInv, <1>1, PTL DEF Spec, RecordsOnlyAdvance

-----------------------------------------------------------------------------
(* With a clock that only moves on.                                        *)

(* The stored records are of the past at first.                             *)
LEMMA InitPast == Init => RecordsInThePast
<1>. SUFFICES ASSUME Init, NEW k \in Candidate, health[k] # None
              PROVE  health[k].updated_at <= clock
  BY DEF RecordsInThePast
<1>1. health[k] \in Persisted \ {None}
  BY DEF Init
<1>2. health[k].updated_at = 0 /\ clock = 0
  BY <1>1, ControlAssumption DEF Init
<1>. QED
  BY <1>2

(* A clock that is not set back never falls.                                *)
LEMMA ClockMovesOn ==
    ASSUME IInv, ~ClockMayStepBack, [Next]_vars
    PROVE  clock \in Nat /\ clock' \in Nat /\ clock <= clock'
BY ControlAssumption
   DEF IInv, TypeOK, Next, Return, Begin, Settle, SettleAndFallBack, Returns,
       Abort, Restart, Tick, vars

(* Records are stamped with the present, so they stay in the past of a      *)
(* clock that moves on.                                                     *)
LEMMA NextPast ==
    ASSUME IInv, IInv', RecordsInThePast, ~ClockMayStepBack, [Next]_vars
    PROVE  RecordsInThePast'
<1>. SUFFICES ASSUME NEW k \in Candidate, health'[k] # None
              PROVE  health'[k].updated_at <= clock'
  BY DEF RecordsInThePast
<1>1. health'[k].updated_at <= clock
  BY StepOnRecords DEF RecordsInThePast
<1>2. health'[k].updated_at \in Nat
  BY DEF IInv, TypeOK, ProviderHealth, Time
<1>. QED
  BY <1>1, <1>2, ClockMovesOn

(* A record is never newer than a clock that only moves on.                *)
THEOREM PastSafety == ASSUME ~ClockMayStepBack PROVE Spec => []RecordsInThePast
<1>1. IInv /\ RecordsInThePast /\ [Next]_vars => RecordsInThePast'
  BY NextPast, NextIInv
<1>. QED
  BY InitIInv, NextIInv, InitPast, <1>1, PTL DEF Spec

(* What an admission means for an automatic call when reads succeed.       *)
LEMMA AdmittedAutomatic ==
    ASSUME ~StoreMayFail, clock \in Time,
           NEW h \in [Candidate -> ProviderHealth \cup {None}], NEW l,
           NEW k \in Candidate, h[k] # None, RecordSound(h[k]),
           h[k].updated_at <= clock,
           NEW as \in Admissions(h, l, k), as # Explicit
    PROVE  /\ ~(h[k].state = "OPEN" /\ clock < h[k].cooldown_until)
           /\ h[k].state # "CLOSED" => as = Probe
<1>1. as = Admission(h[k], l[k], clock, TRUE) /\ Eligible(as)
  BY DEF Admissions, StoreAnswers
<1>2. h[k] \in ProviderHealth /\ OnTime(h[k], clock)
  BY DEF OnTime, ProviderHealth, Time
<1>3. EvaluateHealth(h[k], clock, TRUE) = HealthEligibility(h[k], clock)
  BY <1>2 DEF EvaluateHealth
<1>4. Advance(h[k], clock).state # "OPEN"
  BY <1>1, <1>3 DEF HealthEligibility, Admission, Eligible
<1>5. ~(h[k].state = "OPEN" /\ clock < h[k].cooldown_until)
  BY <1>2, <1>4 DEF Advance, ProviderHealth, Time, NoTime
<1>6. ASSUME h[k].state # "CLOSED" PROVE as = Probe
  <2>1. Advance(h[k], clock).state = "HALF_OPEN"
    <3>1. CASE h[k].state = "OPEN" /\ clock >= h[k].cooldown_until
      BY <1>2, <3>1 DEF Advance, ProviderHealth
    <3>2. CASE ~(h[k].state = "OPEN" /\ clock >= h[k].cooldown_until)
      BY <1>2, <1>4, <1>6, <3>2 DEF Advance, ProviderHealth, CircuitState
    <3>. QED
      BY <3>1, <3>2
  <2>2. HealthEligibility(h[k], clock) = "half_open_probe_eligible"
    BY <2>1 DEF HealthEligibility
  <2>. QED
    BY <1>1, <1>3, <2>2 DEF Admission, Eligible
<1>. QED
  BY <1>5, <1>6

(* Which calls a step may start: only admitted ones, and no other task's   *)
(* call changes.                                                           *)
LEMMA StepOnCalls ==
    ASSUME IInv, [Next]_vars, NEW c \in Call, NEW k \in Candidate, target'[c] = k
    PROVE  \/ target[c] = k /\ via'[c] = via[c] /\ started'[c] = started[c]
           \/ clock' = clock /\ \E l : via'[c] \in Admissions(health', l, k)
<1>. USE DEF IInv
<1>. DEFINE Same == target[c] = k /\ via'[c] = via[c] /\ started'[c] = started[c]
            Admitted == clock' = clock /\ \E l : via'[c] \in Admissions(health', l, k)
<1>0. ASSUME NEW d \in Call, NEW j \in Candidate, NEW l, NEW as,
             as \in Admissions(health', l, j), Start(l, d, j, as), clock' = clock
      PROVE  Same \/ Admitted
  <2>1. CASE d = c
    BY <1>0, <2>1 DEF Start, TypeOK
  <2>2. CASE d # c
    BY <1>0, <2>2 DEF Start, TypeOK
  <2>. QED
    BY <2>1, <2>2
<1>1. ASSUME NEW d \in Call, NEW l, Stop(l, d)
      PROVE  Same \/ Admitted
  BY <1>1, ControlAssumption DEF Stop, TypeOK
<1>2. ASSUME NEW d \in Call, NEW j \in Candidate, Begin(d, j)
      PROVE  Same \/ Admitted
  <2>1. health' = health /\ clock' = clock
    BY <1>2 DEF Begin
  <2>2. PICK as \in Admissions(health, leases, j) : Start(leases, d, j, as)
    BY <1>2 DEF Begin
  <2>3. as \in Admissions(health', leases, j)
    BY <2>1, <2>2
  <2>. QED
    BY <1>0, <2>1, <2>2, <2>3
<1>3. ASSUME NEW d \in Call, NEW outcome \in Results, NEW j \in Candidate,
             SettleAndFallBack(d, outcome, j)
      PROVE  Same \/ Admitted
  BY <1>0, <1>3 DEF SettleAndFallBack, Returns
<1>4. ASSUME NEW d \in Call, NEW outcome \in Results, Settle(d, outcome)
      PROVE  Same \/ Admitted
  BY <1>1, <1>4 DEF Settle
<1>5. ASSUME NEW d \in Call, Abort(d)
      PROVE  Same \/ Admitted
  BY <1>1, <1>5 DEF Abort
<1>6. CASE Restart
  BY <1>6, ControlAssumption DEF Restart
<1>7. CASE UNCHANGED callVars
  BY <1>7 DEF callVars
<1>. QED
  BY <1>2, <1>3, <1>4, <1>5, <1>6, <1>7
     DEF Next, Return, Tick, vars, callVars

(* No automatic call starts on an open circuit before its deadline, as     *)
(* long as the store answers and the clock only moves on.                  *)
THEOREM OpenBlocksTraffic ==
    ASSUME ~StoreMayFail, ~ClockMayStepBack
    PROVE  Spec => NoAutomaticCallWhileOpen
<1>1. IInv /\ RecordsInThePast /\ [Next]_vars =>
         [\A c \in Call, k \in Candidate :
             StartsAutomatic(c, k) => ~Blocked(k)']_vars
  <2>. SUFFICES ASSUME IInv, RecordsInThePast, [Next]_vars,
                       NEW c \in Call, NEW k \in Candidate, StartsAutomatic(c, k),
                       Blocked(k)'
                PROVE  FALSE
    OBVIOUS
  <2>1. IInv' /\ RecordsInThePast'
    BY NextIInv, NextPast
  <2>2. target'[c] = k /\ target[c] # k /\ via'[c] # Explicit
    BY DEF StartsAutomatic
  <2>3. clock' = clock
    BY <2>2, StepOnCalls
  <2>4. PICK l : via'[c] \in Admissions(health', l, k)
    BY <2>2, StepOnCalls
  <2>5. /\ health'[k] # None
        /\ health'[k].state = "OPEN"
        /\ clock < health'[k].cooldown_until
    BY <2>3 DEF Blocked
  <2>6. /\ health' \in [Candidate -> ProviderHealth \cup {None}]
        /\ RecordSound(health'[k])
        /\ health'[k].updated_at <= clock
    BY <2>1, <2>3, <2>5 DEF IInv, TypeOK, RecordsSound, RecordsInThePast
  <2>7. clock \in Time
    BY ControlAssumption DEF IInv, TypeOK, Time
  <2>. QED
    BY <2>2, <2>4, <2>5, <2>6, <2>7, AdmittedAutomatic
<1>2. IInv /\ RecordsInThePast /\ [Next]_vars => RecordsInThePast'
  BY NextPast, NextIInv
<1>. QED
  BY InitIInv, NextIInv, InitPast, <1>1, <1>2, PTL
     DEF Spec, NoAutomaticCallWhileOpen

-----------------------------------------------------------------------------
(* Single flight.  The invariant says why it holds: a call that started    *)
(* after the cooldown of the outage was admitted as the probe, and the     *)
(* lease makes the probe unique.                                           *)

StartedInThePast == \A c \in Call : started[c] <= clock

RecoveryCallsProbe ==
    \A c \in Call, k \in Candidate :
        /\ target[c] = k
        /\ via[c] # Explicit
        /\ health[k] # None
        /\ health[k].state # "CLOSED"
        /\ started[c] >= health[k].cooldown_until
        => via[c] = Probe

FlightInv == IInv /\ RecordsInThePast /\ StartedInThePast /\ RecoveryCallsProbe

(* An outcome that changes a record closes the circuit, starts a cooldown  *)
(* that is still to run, or keeps the one that ran before.                 *)
LEMMA UpdatedWindow ==
    ASSUME Cooldown > 0,
           NEW h \in ProviderHealth \cup {None}, h # None => RecordSound(h),
           NEW outcome \in Outcome, NEW now \in Time, NEW answers \in BOOLEAN
    PROVE  LET u == UpdatedHealth(h, outcome, now, answers)
           IN  \/ u = h
               \/ u.state = "CLOSED"
               \/ now < u.cooldown_until
               \/ /\ h # None
                  /\ h.state # "CLOSED"
                  /\ u.cooldown_until = h.cooldown_until
<1>. DEFINE current == IF h = None THEN Initial(now) ELSE h
            u == UpdatedHealth(h, outcome, now, answers)
            a == Advance(current, now)
<1>1. CASE ~answers \/ Rejects(current, outcome, now)
  BY <1>1 DEF UpdatedHealth
<1>2. CASE ~(~answers \/ Rejects(current, outcome, now))
  <2>1. u = Recorded(current, outcome, now)
    BY <1>2 DEF UpdatedHealth
  <2>2. current \in ProviderHealth /\ RecordSound(current) /\ OnTime(current, now)
    BY <1>2, InitialSound DEF Rejects
  <2>3. a \in ProviderHealth /\ RecordSound(a) /\ OnTime(a, now)
    BY <2>2, AdvanceSound
  <2>4. CASE outcome = "success"
    <3>1. u = RecordSuccess(a, now)
      BY <2>1, <2>4 DEF Recorded, CountedFailure, UncountedFailure
    <3>. HIDE DEF a, u
    <3>. QED
      BY <2>3, <3>1, SuccessSound DEF u
  <2>5. CASE outcome = CountedFailure
    <3>1. u = RecordFailure(a, now)
      BY <2>1, <2>5 DEF Recorded, CountedFailure, UncountedFailure
    <3>2. a.state # "OPEN"
      BY <1>2, <2>5 DEF Rejects, CountedFailure, UncountedFailure
    <3>. HIDE DEF a
    <3>3. \/ RecordFailure(a, now).state = "CLOSED"
          \/ RecordFailure(a, now).cooldown_until = now + Cooldown
      BY <2>3, <3>2, FailureSound
    <3>4. now < now + Cooldown
      BY PolicyAssumption DEF Time
    <3>. HIDE DEF u
    <3>. QED
      BY <3>1, <3>3, <3>4 DEF u
  <2>6. CASE outcome = UncountedFailure
    <3>1. u = a
      BY <2>1, <2>6 DEF Recorded, CountedFailure, UncountedFailure
    <3>2. h = None => a.state = "CLOSED"
      BY DEF Advance, Initial
    <3>3. a.cooldown_until = current.cooldown_until
      BY <2>2 DEF Advance, ProviderHealth
    <3>4. a.state # "CLOSED" => current.state # "CLOSED"
      BY <2>2 DEF Advance, ProviderHealth
    <3>. HIDE DEF a, u
    <3>. QED
      BY <3>1, <3>2, <3>3, <3>4 DEF u
  <2>. QED
    BY <2>4, <2>5, <2>6 DEF Outcome
<1>. QED
  BY <1>1, <1>2

(* A record changes only into a closed one, into one opened now, or         *)
(* keeping its deadline.                                                    *)
LEMMA StepOnWindows ==
    ASSUME IInv, [Next]_vars, Cooldown > 0, NEW k \in Candidate, health'[k] # None
    PROVE  \/ health'[k] = health[k]
           \/ health'[k].state = "CLOSED"
           \/ clock' = clock /\ clock < health'[k].cooldown_until
           \/ /\ health[k] # None
              /\ health[k].state # "CLOSED"
              /\ health'[k].cooldown_until = health[k].cooldown_until
<1>. USE DEF IInv
<1>1. CASE health' = health
  BY <1>1
<1>2. ASSUME NEW c \in Call, NEW outcome \in Results, Returns(c, outcome)
      PROVE  \/ health'[k] = health[k]
             \/ health'[k].state = "CLOSED"
             \/ clock' = clock /\ clock < health'[k].cooldown_until
             \/ /\ health[k] # None
                /\ health[k].state # "CLOSED"
                /\ health'[k].cooldown_until = health[k].cooldown_until
  <2>1. CASE k # target[c]
    BY <1>2, <2>1, ReturnKeepsHealthSound
  <2>2. CASE outcome = "unmeasured"
    BY <1>2, <2>2 DEF Returns
  <2>3. CASE k = target[c] /\ outcome # "unmeasured"
    <3>1. PICK answers \in StoreAnswers :
             health' = [health EXCEPT ![target[c]] =
                           UpdatedHealth(@, outcome, clock, answers)]
      BY <1>2, <2>3 DEF Returns
    <3>2. health'[k] = UpdatedHealth(health[k], outcome, clock, answers)
      BY <2>3, <3>1 DEF TypeOK
    <3>3. /\ answers \in BOOLEAN
          /\ clock \in Time
          /\ outcome \in Outcome
          /\ clock' = clock
      <4>1. answers \in BOOLEAN
        BY <3>1, ControlAssumption DEF StoreAnswers
      <4>2. clock \in Time
        BY ControlAssumption DEF TypeOK, Time
      <4>3. outcome \in Outcome
        BY <2>3 DEF Results
      <4>4. clock' = clock
        BY <1>2 DEF Returns
      <4>. QED
        BY <4>1, <4>2, <4>3, <4>4
    <3>4. health[k] \in ProviderHealth \cup {None} /\ (health[k] # None => RecordSound(health[k]))
      BY DEF TypeOK, RecordsSound
    <3>. QED
      BY <3>2, <3>3, <3>4, UpdatedWindow
  <2>. QED
    BY <2>1, <2>2, <2>3
<1>. QED
  BY <1>1, <1>2
     DEF Next, Return, Begin, Settle, SettleAndFallBack, Abort, Restart, Tick, vars

(* Calls stay in the past of a clock that moves on.                         *)
LEMMA NextStarted ==
    ASSUME IInv, StartedInThePast, ~ClockMayStepBack, [Next]_vars
    PROVE  StartedInThePast'
<1>. USE DEF IInv
<1>1. ASSUME NEW d \in Call, NEW j \in Candidate, NEW l, NEW as,
             Start(l, d, j, as), clock' = clock
      PROVE  StartedInThePast'
  BY <1>1, ControlAssumption DEF Start, StartedInThePast, TypeOK
<1>2. ASSUME NEW d \in Call, NEW l, Stop(l, d), clock' = clock
      PROVE  StartedInThePast'
  BY <1>2, ControlAssumption DEF Stop, StartedInThePast, TypeOK
<1>3. CASE Restart
  BY <1>3, ControlAssumption DEF Restart, StartedInThePast, TypeOK
<1>4. CASE UNCHANGED callVars
  BY <1>4, ClockMovesOn DEF callVars, StartedInThePast, TypeOK
<1>. QED
  BY <1>1, <1>2, <1>3, <1>4
     DEF Next, Return, Begin, Settle, SettleAndFallBack, Returns, Abort, Tick, vars, callVars

(* Two automatic calls past a deadline would need the one lease, at every   *)
(* step.                                                                    *)
LEMMA NextFlight ==
    ASSUME FlightInv, ~StoreMayFail, ~ClockMayStepBack, Cooldown > 0, [Next]_vars
    PROVE  FlightInv'
<1>. USE DEF FlightInv
<1>1. IInv' /\ RecordsInThePast' /\ StartedInThePast'
  BY NextIInv, NextPast, NextStarted
<1>2. ASSUME NEW c \in Call, NEW k \in Candidate,
             target'[c] = k, via'[c] # Explicit,
             health'[k] # None, health'[k].state # "CLOSED",
             started'[c] >= health'[k].cooldown_until
      PROVE  via'[c] = Probe
  <2>1. CASE target[c] = k /\ via'[c] = via[c] /\ started'[c] = started[c]
    <3>1. CASE clock' = clock /\ clock < health'[k].cooldown_until
      <4>1. started[c] \in Nat /\ clock \in Nat /\ started[c] <= clock
        BY ControlAssumption DEF IInv, TypeOK, StartedInThePast
      <4>2. health'[k].cooldown_until \in Int
        BY <1>1, <1>2 DEF IInv, TypeOK, ProviderHealth, Time, NoTime
      <4>. QED
        BY <1>2, <2>1, <3>1, <4>1, <4>2
    <3>2. CASE health'[k] = health[k]
      BY <1>2, <2>1, <3>2 DEF RecoveryCallsProbe
    <3>3. CASE /\ health[k] # None
               /\ health[k].state # "CLOSED"
               /\ health'[k].cooldown_until = health[k].cooldown_until
      BY <1>2, <2>1, <3>3 DEF RecoveryCallsProbe
    <3>. QED
      BY <1>2, <3>1, <3>2, <3>3, StepOnWindows
  <2>2. CASE clock' = clock /\ \E l : via'[c] \in Admissions(health', l, k)
    <3>1. PICK l : via'[c] \in Admissions(health', l, k)
      BY <2>2
    <3>2. /\ health' \in [Candidate -> ProviderHealth \cup {None}]
          /\ RecordSound(health'[k])
          /\ health'[k].updated_at <= clock
          /\ clock \in Time
      BY <1>1, <1>2, <2>2, ControlAssumption
         DEF IInv, TypeOK, RecordsSound, RecordsInThePast, Time
    <3>. QED
      BY <1>2, <3>1, <3>2, AdmittedAutomatic
  <2>. QED
    BY <1>2, <2>1, <2>2, StepOnCalls
<1>. QED
  BY <1>1, <1>2 DEF RecoveryCallsProbe

(* No call is in flight at first.                                           *)
LEMMA InitFlight == Init => FlightInv
<1>. SUFFICES ASSUME Init PROVE FlightInv
  OBVIOUS
<1>1. IInv /\ RecordsInThePast
  BY InitIInv, InitPast
<1>2. StartedInThePast
  BY DEF Init, StartedInThePast
<1>3. RecoveryCallsProbe
  BY ControlAssumption DEF Init, RecoveryCallsProbe
<1>. QED
  BY <1>1, <1>2, <1>3 DEF FlightInv

(* At most one automatic call at a time tries a circuit out after its      *)
(* cooldown, however many requests arrive and however they end.            *)
THEOREM SingleFlightSafety ==
    ASSUME ~StoreMayFail, ~ClockMayStepBack, Cooldown > 0
    PROVE  Spec => []SingleFlight
<1>1. FlightInv /\ [Next]_vars => FlightInv'
  BY NextFlight
<1>2. FlightInv => SingleFlight
  <2>. SUFFICES ASSUME FlightInv, NEW k \in Candidate,
                       health[k] # None, health[k].state # "CLOSED"
                PROVE  Cardinality(RecoveryCalls(k)) <= 1
    BY DEF SingleFlight
  <2>1. \A c \in RecoveryCalls(k) : leases[k] = c
    BY DEF FlightInv, RecoveryCallsProbe, RecoveryCalls, IInv, LeaseHeldByProbe
  <2>2. RecoveryCalls(k) = {} \/ RecoveryCalls(k) = {leases[k]}
    BY <2>1
  <2>3. Cardinality({}) = 0 /\ Cardinality({leases[k]}) = 1
    BY FS_EmptySet, FS_Singleton
  <2>. QED
    BY <2>2, <2>3
<1>. QED
  BY InitFlight, <1>1, <1>2, PTL DEF Spec

-----------------------------------------------------------------------------
(* The contract: seen through routing's eyes, every step of the control    *)
(* plane is a row of the transition table or changes nothing, whatever the *)
(* store and the tasks do, as long as the clock only moves on and the      *)
(* cooldown is not zero (with a zero cooldown a circuit that opens is half *)
(* open at once).                                                          *)

(* The circuit of pair k as routing sees it, now and after the step.       *)
Seen(k) == EffectiveState(health[k])
CountOf(k) == IF health[k] = None THEN 0 ELSE health[k].consecutive_failures

(* The effect of one outcome on a circuit seen at a fixed time.            *)
SeenAt(h, now) == IF h = None THEN "CLOSED" ELSE Advance(h, now).state
FailuresOf(h) == IF h = None THEN 0 ELSE h.consecutive_failures

(* As seen at the present, an outcome leaves a circuit alone or follows     *)
(* one row of the transition table.                                         *)
LEMMA UpdateFollowsTable ==
    ASSUME Cooldown > 0,
           NEW h \in ProviderHealth \cup {None}, h # None => RecordSound(h),
           NEW outcome \in Outcome, NEW now \in Time, NEW answers \in BOOLEAN
    PROVE  LET u == UpdatedHealth(h, outcome, now, answers)
               seen == SeenAt(h, now)
               count == FailuresOf(h)
           IN  \/ SeenAt(u, now) = seen /\ FailuresOf(u) = count
               \/ /\ seen # "OPEN"
                  /\ SeenAt(u, now) = "CLOSED" /\ FailuresOf(u) = 0
               \/ /\ seen = "CLOSED" /\ count + 1 < FailureThreshold
                  /\ SeenAt(u, now) = "CLOSED" /\ FailuresOf(u) = count + 1
               \/ /\ \/ seen = "CLOSED" /\ count + 1 = FailureThreshold
                     \/ seen = "HALF_OPEN"
                  /\ SeenAt(u, now) = "OPEN" /\ FailuresOf(u) = count + 1
<1>. DEFINE current == IF h = None THEN Initial(now) ELSE h
            u == UpdatedHealth(h, outcome, now, answers)
            a == Advance(current, now)
<1>1. CASE ~answers \/ Rejects(current, outcome, now)
  BY <1>1 DEF UpdatedHealth
<1>2. CASE ~(~answers \/ Rejects(current, outcome, now))
  <2>1. u = Recorded(current, outcome, now)
    BY <1>2 DEF UpdatedHealth
  <2>2. current \in ProviderHealth /\ RecordSound(current) /\ OnTime(current, now)
    BY <1>2, InitialSound DEF Rejects
  <2>3. /\ a \in ProviderHealth
        /\ RecordSound(a)
        /\ OnTime(a, now)
        /\ a.consecutive_failures = current.consecutive_failures
    BY <2>2, AdvanceSound
  <2>4. SeenAt(h, now) = a.state /\ FailuresOf(h) = a.consecutive_failures
    <3>1. CASE h = None
      <4>1. a = Initial(now)
        BY <3>1 DEF Advance, Initial
      <4>. QED
        BY <3>1, <4>1 DEF SeenAt, FailuresOf, Initial
    <3>2. CASE h # None
      BY <2>3, <3>2 DEF SeenAt, FailuresOf
    <3>. QED
      BY <3>1, <3>2
  <2>. HIDE DEF current, a, u
  <2>5. CASE outcome = "success"
    <3>1. u = RecordSuccess(a, now) /\ a.state # "OPEN"
      BY <1>2, <2>1, <2>5
         DEF Recorded, Rejects, CountedFailure, UncountedFailure, a
    <3>2. u \in ProviderHealth /\ u.state = "CLOSED" /\ u.consecutive_failures = 0
      BY <2>3, <3>1, SuccessSound
    <3>3. u # None
      BY <3>2, NoneIsNoRecord
    <3>4. Advance(u, now).state = "CLOSED"
      BY <3>2 DEF Advance
    <3>. QED
      BY <2>4, <3>1, <3>2, <3>3, <3>4 DEF SeenAt, FailuresOf, u
  <2>6. CASE outcome = CountedFailure
    <3>1. u = RecordFailure(a, now) /\ a.state # "OPEN"
      BY <1>2, <2>1, <2>6
         DEF Recorded, Rejects, CountedFailure, UncountedFailure, a
    <3>2. /\ u \in ProviderHealth
          /\ u.consecutive_failures = a.consecutive_failures + 1
          /\ u.state = IF ShouldOpen(a) THEN "OPEN" ELSE "CLOSED"
          /\ ShouldOpen(a) => u.cooldown_until = now + Cooldown
      BY <2>3, <3>1, FailureSound
    <3>3. u # None
      BY <3>2, NoneIsNoRecord
    <3>4. Advance(u, now).state = u.state
      <4>1. ShouldOpen(a) => ~(now >= u.cooldown_until)
        BY <3>2, PolicyAssumption DEF Time
      <4>. QED
        BY <3>2, <4>1 DEF Advance
    <3>5. SeenAt(u, now) = u.state /\ FailuresOf(u) = a.consecutive_failures + 1
      BY <3>2, <3>3, <3>4 DEF SeenAt, FailuresOf
    <3>6. a.state \in {"CLOSED", "HALF_OPEN"} /\ a.consecutive_failures \in Nat
      BY <2>3, <3>1 DEF ProviderHealth, CircuitState
    <3>7. a.state = "CLOSED" => a.consecutive_failures < FailureThreshold
      BY <2>3 DEF RecordSound
    <3>8. ShouldOpen(a) <=> a.state = "HALF_OPEN"
                             \/ a.consecutive_failures + 1 >= FailureThreshold
      BY DEF ShouldOpen
    <3>9. \/ /\ a.state = "CLOSED" /\ a.consecutive_failures + 1 < FailureThreshold
             /\ u.state = "CLOSED"
          \/ /\ \/ a.state = "CLOSED" /\ a.consecutive_failures + 1 = FailureThreshold
                \/ a.state = "HALF_OPEN"
             /\ u.state = "OPEN"
      BY <3>2, <3>6, <3>7, <3>8, PolicyAssumption
    <3>. QED
      BY <2>4, <3>5, <3>9 DEF u
  <2>7. CASE outcome = UncountedFailure
    <3>1. u = a
      BY <2>1, <2>7 DEF Recorded, CountedFailure, UncountedFailure, a
    <3>2. u # None
      BY <2>3, <3>1, NoneIsNoRecord
    <3>3. Advance(a, now).state = a.state
      BY <2>2 DEF a, Advance
    <3>. QED
      BY <2>4, <3>1, <3>2, <3>3 DEF SeenAt, FailuresOf, u
  <2>. QED
    BY <2>5, <2>6, <2>7 DEF Outcome
<1>. QED
  BY <1>1, <1>2

-----------------------------------------------------------------------------
(* The initial states map to initial states.                               *)

(* A circuit is seen at first as the contract starts it.                    *)
LEMMA InitContract ==
    ASSUME Cooldown > 0
    PROVE  Init => Contract!Init
<1>. SUFFICES ASSUME Init PROVE Contract!Init
  OBVIOUS
<1>1. IInv /\ RecordsInThePast /\ clock \in Time
  BY InitIInv, InitPast DEF Init, Time
<1>2. ASSUME NEW k \in Candidate
      PROVE  /\ Seen(k) \in CircuitState
             /\ CountOf(k) \in Nat
             /\ Seen(k) = "CLOSED" <=> CountOf(k) < FailureThreshold
  <2>1. CASE health[k] = None
    BY <2>1, PolicyAssumption DEF Seen, CountOf, EffectiveState, CircuitState
  <2>2. CASE health[k] # None
    <3>1. /\ health[k] \in ProviderHealth
          /\ RecordSound(health[k])
          /\ OnTime(health[k], clock)
      BY <1>1, <2>2
         DEF IInv, TypeOK, RecordsSound, RecordsInThePast, OnTime, ProviderHealth, Time
    <3>. DEFINE a == Advance(health[k], clock)
    <3>2. a \in ProviderHealth /\ RecordSound(a)
          /\ a.consecutive_failures = health[k].consecutive_failures
      BY <1>1, <3>1, AdvanceSound
    <3>3. Seen(k) = a.state /\ CountOf(k) = a.consecutive_failures
      BY <2>2, <3>2 DEF Seen, CountOf, EffectiveState
    <3>. HIDE DEF a
    <3>. QED
      BY <3>2, <3>3 DEF ProviderHealth, RecordSound
  <2>. QED
    BY <2>1, <2>2
<1>. QED
  BY <1>2 DEF Contract!Init, Contract!Phase, Seen, CountOf, CircuitState

-----------------------------------------------------------------------------
(* Every step maps to a step or to a stutter.                              *)

(* The passing of time cools down the circuits whose deadline it reaches.   *)
LEMMA TickContract ==
    ASSUME IInv, ~ClockMayStepBack, Tick
    PROVE  Contract!Next
<1>. DEFINE ready == {k \in Candidate : Seen(k) = "OPEN" /\ Seen(k)' = "HALF_OPEN"}
<1>1. health' = health /\ clock' = clock + 1 /\ clock \in Nat
  BY ControlAssumption DEF Tick, IInv, TypeOK
<1>2. ASSUME NEW k \in Candidate
      PROVE  Seen(k)' = IF k \in ready THEN "HALF_OPEN" ELSE Seen(k)
  <2>1. CASE health[k] = None
    BY <1>1, <2>1 DEF Seen, EffectiveState
  <2>2. CASE health[k] # None
    <3>1. health[k] \in ProviderHealth
      BY <2>2 DEF IInv, TypeOK
    <3>2. CASE health[k].state = "OPEN"
      <4>1. health[k].cooldown_until \in Int
        BY <3>1 DEF ProviderHealth, Time, NoTime
      <4>2. Seen(k) = IF clock >= health[k].cooldown_until THEN "HALF_OPEN" ELSE "OPEN"
        BY <2>2, <3>1, <3>2 DEF Seen, EffectiveState, Advance, ProviderHealth
      <4>3. Seen(k)' = IF clock + 1 >= health[k].cooldown_until
                       THEN "HALF_OPEN" ELSE "OPEN"
        BY <1>1, <2>2, <3>1, <3>2 DEF Seen, EffectiveState, Advance, ProviderHealth
      <4>. QED
        BY <1>1, <4>1, <4>2, <4>3
    <3>3. CASE health[k].state # "OPEN"
      <4>1. Seen(k) = health[k].state /\ Seen(k)' = health[k].state
        BY <1>1, <2>2, <3>3 DEF Seen, EffectiveState, Advance
      <4>. QED
        BY <3>3, <4>1
    <3>. QED
      BY <3>2, <3>3
  <2>. QED
    BY <2>1, <2>2
<1>3. \A k \in Candidate : CountOf(k)' = CountOf(k)
  BY <1>1 DEF CountOf
<1>4. \A k \in ready : Seen(k) = "OPEN" /\ k \in Candidate
  OBVIOUS
<1>. HIDE DEF ready
<1>5. Contract!CoolDown(ready)
  BY <1>2, <1>3, <1>4 DEF Contract!CoolDown, Seen, CountOf
<1>6. ready \in SUBSET Candidate
  BY <1>4
<1>. QED
  BY <1>5, <1>6 DEF Contract!Next

(* An outcome is one transition of one pair, or nothing.                    *)
LEMMA ReturnContract ==
    ASSUME IInv, Cooldown > 0, NEW c \in Call, NEW outcome \in Results,
           Returns(c, outcome)
    PROVE  Contract!Next \/ UNCHANGED Contract!circuit
<1>0. PICK t \in Candidate : t = target[c]
  BY DEF Returns, IInv, TypeOK
<1>1. clock' = clock /\ clock \in Time
  BY ControlAssumption DEF Returns, IInv, TypeOK, Time
<1>2. CASE outcome = "unmeasured"
  BY <1>1, <1>2 DEF Returns, Contract!circuit, EffectiveState
<1>3. CASE outcome # "unmeasured"
  <2>1. PICK answers \in StoreAnswers :
           health' = [health EXCEPT ![t] = UpdatedHealth(@, outcome, clock, answers)]
    BY <1>0, <1>3 DEF Returns
  <2>. DEFINE u == UpdatedHealth(health[t], outcome, clock, answers)
  <2>2. health'[t] = u /\ \A k \in Candidate : k # t => health'[k] = health[k]
    BY <1>1, <2>1 DEF IInv, TypeOK
  <2>3. answers \in BOOLEAN
    BY <2>1, ControlAssumption DEF StoreAnswers
  <2>4. outcome \in Outcome
    BY <1>3 DEF Results
  <2>5. health[t] \in ProviderHealth \cup {None} /\ (health[t] # None => RecordSound(health[t]))
    BY <1>1 DEF IInv, TypeOK, RecordsSound
  <2>6. \A k \in Candidate :
           /\ Seen(k) = SeenAt(health[k], clock) /\ CountOf(k) = FailuresOf(health[k])
           /\ Seen(k)' = SeenAt(health'[k], clock) /\ CountOf(k)' = FailuresOf(health'[k])
    BY <1>1 DEF Seen, SeenAt, CountOf, FailuresOf, EffectiveState
  <2>7. \A k \in Candidate : k # t => Seen(k)' = Seen(k) /\ CountOf(k)' = CountOf(k)
    BY <2>2, <2>6
  <2>8. \/ Seen(t)' = Seen(t) /\ CountOf(t)' = CountOf(t)
        \/ Seen(t) # "OPEN" /\ Seen(t)' = "CLOSED" /\ CountOf(t)' = 0
        \/ /\ Seen(t) = "CLOSED" /\ CountOf(t) + 1 < FailureThreshold
           /\ Seen(t)' = "CLOSED" /\ CountOf(t)' = CountOf(t) + 1
        \/ /\ \/ Seen(t) = "CLOSED" /\ CountOf(t) + 1 = FailureThreshold
              \/ Seen(t) = "HALF_OPEN"
           /\ Seen(t)' = "OPEN" /\ CountOf(t)' = CountOf(t) + 1
    <3>1. /\ Seen(t) = SeenAt(health[t], clock) /\ CountOf(t) = FailuresOf(health[t])
          /\ Seen(t)' = SeenAt(u, clock) /\ CountOf(t)' = FailuresOf(u)
      BY <1>1, <2>2, <2>6
    <3>. QED
      BY <1>1, <2>3, <2>4, <2>5, <3>1, UpdateFollowsTable
  <2>. HIDE DEF u
  <2>9. ASSUME NEW state, NEW count, Seen(t)' = state, CountOf(t)' = count
        PROVE  Contract!Become(t, state, count)
    BY <1>1, <2>7, <2>9 DEF Contract!Become, Seen, CountOf
  <2>10. CASE Seen(t)' = Seen(t) /\ CountOf(t)' = CountOf(t)
    <3>1. \A k \in Candidate : Seen(k)' = Seen(k) /\ CountOf(k)' = CountOf(k)
      BY <2>7, <2>10
    <3>. QED
      BY <3>1 DEF Contract!circuit, Seen, CountOf
  <2>11. CASE Seen(t) # "OPEN" /\ Seen(t)' = "CLOSED" /\ CountOf(t)' = 0
    <3>1. Contract!Succeed(t)
      BY <1>1, <2>9, <2>11 DEF Contract!Succeed, Seen
    <3>. QED
      BY <1>1, <3>1 DEF Contract!Next
  <2>12. CASE /\ Seen(t) = "CLOSED" /\ CountOf(t) + 1 < FailureThreshold
              /\ Seen(t)' = "CLOSED" /\ CountOf(t)' = CountOf(t) + 1
    <3>0. PICK count : count = CountOf(t)
      OBVIOUS
    <3>1. Contract!Become(t, "CLOSED", count + 1)
      BY <2>9, <2>12, <3>0
    <3>2. Contract!FailBelowThreshold(t)
      BY <2>12, <3>0, <3>1 DEF Contract!FailBelowThreshold, Contract!Become, Seen, CountOf
    <3>. QED
      BY <3>2 DEF Contract!Next
  <2>13. CASE /\ \/ Seen(t) = "CLOSED" /\ CountOf(t) + 1 = FailureThreshold
                 \/ Seen(t) = "HALF_OPEN"
              /\ Seen(t)' = "OPEN" /\ CountOf(t)' = CountOf(t) + 1
    <3>0. PICK count : count = CountOf(t)
      OBVIOUS
    <3>1. Contract!Become(t, "OPEN", count + 1)
      BY <2>9, <2>13, <3>0
    <3>2. Contract!Trip(t)
      BY <2>13, <3>0, <3>1 DEF Contract!Trip, Contract!Become, Seen, CountOf
    <3>. QED
      BY <3>2 DEF Contract!Next
  <2>. QED
    BY <2>8, <2>10, <2>11, <2>12, <2>13
<1>. QED
  BY <1>2, <1>3

(* Every step of the control plane is a step of the contract or stutters.   *)
LEMMA NextContract ==
    ASSUME IInv, ~ClockMayStepBack, Cooldown > 0, [Next]_vars
    PROVE  Contract!Next \/ UNCHANGED Contract!circuit
<1>1. CASE health' = health /\ clock' = clock
  BY <1>1 DEF Contract!circuit, EffectiveState
<1>. QED
  BY <1>1, TickContract, ReturnContract
     DEF Next, Return, Begin, Settle, SettleAndFallBack, Abort, Restart,
         vars

(* The control plane implements the documented transition table.           *)
THEOREM ContractImplemented ==
    ASSUME ~ClockMayStepBack, Cooldown > 0
    PROVE  Spec => ImplementsContract
<1>1. Init => Contract!Init
  BY InitContract
<1>2. IInv /\ [Next]_vars => [Contract!Next]_Contract!circuit
  BY NextContract
<1>. QED
  BY InitIInv, NextIInv, <1>1, <1>2, PTL DEF Spec, ImplementsContract, Contract!Spec
=============================================================================
