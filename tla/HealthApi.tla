------------------------------- MODULE HealthApi -------------------------------
(***************************************************************************)
(* GET /v1/health/providers beside the control plane.  The endpoint runs   *)
(* in a worker thread: it reads the clock once and then, pair by pair, the *)
(* stored record and the probe lease, while the event loop goes on         *)
(* recording outcomes.  It changes nothing the control plane reads, and    *)
(* keeps of a record what routing would make of it.                        *)
(***************************************************************************)
EXTENDS HealthControl

CONSTANT Listed     \* the pairs the endpoint reads

ASSUME ListedAssumption == Listed \subseteq Candidate

VARIABLES
    asked,      \* the endpoint's one clock reading, NoTime when it is idle
    read,       \* what it made of the record of each pair, None while unread
    leased      \* the pairs whose probe lease it has looked up as well

endpoint == <<asked, read, leased>>

(* History: what the table says of each pair for the time asked, as of the *)
(* last step at which the clock showed that time or an earlier one.        *)
VARIABLE told

apiVars == <<vars, endpoint, told>>

Unread == [k \in Listed |-> None]

ApiInit ==
    /\ Init
    /\ asked = NoTime
    /\ read = Unread
    /\ leased = {}
    /\ told = Unread

Told(h, now) == [k \in Listed |-> HealthEligibility(h[k], now)]

(* A request arrives and reads the clock.                                  *)
Ask ==
    /\ asked = NoTime
    /\ asked' = clock
    /\ told' = Told(health, clock)
    /\ UNCHANGED <<vars, read, leased>>

(* Mutant of EvaluationRaises: every record found is evaluated.            *)
NeverOvertaken(h, now, answers) == ~answers

(* What makes the handler answer 503: the read raises, or the record is    *)
(* newer than the clock reading and health_eligibility refuses it.         *)
EvaluationRaises(h, now, answers) == ~answers \/ (h # None /\ ~OnTime(h, now))

(* The request is answered, with a list or with 503, or lost.              *)
Answer ==
    /\ asked' = NoTime
    /\ read' = Unread
    /\ leased' = {}
    /\ told' = Unread

(* The pairs are read in the order of their names, which mean nothing      *)
(* here: any order is allowed.                                             *)
ReadRecord(k) ==
    /\ asked # NoTime
    /\ read[k] = None
    /\ \A j \in Listed : read[j] # None => j \in leased
    /\ \E answers \in StoreAnswers :
           IF EvaluationRaises(health[k], asked, answers) THEN Answer
           ELSE /\ read' = [read EXCEPT ![k] = HealthEligibility(health[k], asked)]
                /\ UNCHANGED <<asked, leased, told>>
    /\ UNCHANGED vars

(* The probe lease is read after the record: the loop may run in between.  *)
(* The last pair's is followed by the answer.                              *)
ReadLease(k) ==
    /\ read[k] # None
    /\ k \notin leased
    /\ IF leased \cup {k} = Listed THEN Answer
       ELSE /\ leased' = leased \cup {k}
            /\ read' = IF read[k] = "half_open_probe_eligible" /\ leases[k] # None
                       THEN [read EXCEPT ![k] = "half_open_probe_in_flight"]
                       ELSE read
            /\ UNCHANGED <<asked, told>>
    /\ UNCHANGED vars

(* A step of the event loop while the endpoint stands where it stands.     *)
LoopStep ==
    /\ \/ \E c \in Call, k \in Candidate : Begin(c, k)
       \/ \E c \in Call : Return(c)
       \/ Tick
    /\ told' = IF asked # NoTime /\ clock' <= asked
               THEN Told(health', asked) ELSE told
    /\ UNCHANGED endpoint

(* A restart of the process ends the request as well.                      *)
RestartAll == Restart /\ Answer

ApiNext ==
    \/ LoopStep
    \/ RestartAll
    \/ Ask
    \/ \E k \in Listed : ReadRecord(k) \/ ReadLease(k)

ApiSpec == ApiInit /\ [][ApiNext]_apiVars

FairApiSpec == ApiSpec /\ \A c \in Call : WF_vars(Return(c))

-----------------------------------------------------------------------------
(* What the endpoint makes of a record is what the table said of that pair *)
(* when the clock last showed the time the endpoint took as its present:   *)
(* the list is the health of that instant, however long the reads take,    *)
(* whatever the loop records meanwhile and wherever the clock is set: a    *)
(* later record is refused, never taken for one of that instant            *)
(* (health/api.py:44-48, health/models.py:141-147).                        *)
ListsTheInstantAsked ==
    [][\A k \in Listed :
          read[k] = None /\ read'[k] # None => read'[k] = told[k]]_apiVars
=============================================================================
