----------------------------- MODULE EmailDelivery -----------------------------
(* The way of a mail: the dispatcher puts it on the BullMQ queue, or sends it  *)
(* from memory if the queue refuses it (the module's fallback) or if there is  *)
(* no queue; every attempt goes through the circuit breaker.  A mail that is   *)
(* over frees its slot for the next one.                                       *)
EXTENDS CircuitBreaker

CONSTANTS MaxAttempts,  \* DEFAULT_ATTEMPTS of a job, maxAttempts of withRetry
          Concurrency,  \* DEFAULT_CONCURRENCY of the queue's worker
          MaxCrashes    \* bound: crashes; 1 keeps every job within the one stall
                        \* that BullMQ forgives

Mails == Calls

ASSUME DeliveryLimits == MaxAttempts \in Nat \ {0} /\ Concurrency \in Nat \ {0}
ASSUME CrashBound == MaxCrashes \in 0..1

VARIABLES hasQueue,  \* Redis is configured
          route,     \* how each mail is sent
          attempts,  \* its failed attempts
          crashes    \* history: crashes

deliveryVars == <<breaker, hasQueue, route, attempts, crashes>>

Routes == {"none", "queue", "fallback", "direct"}

DeliveryTypeOK ==
    /\ BreakerTypeOK
    /\ hasQueue \in BOOLEAN
    /\ route \in [Mails -> Routes]
    /\ attempts \in [Mails -> 0..(MaxAttempts - 1)]
    /\ crashes \in 0..MaxCrashes

DeliveryInit ==
    /\ BreakerInit
    /\ hasQueue \in BOOLEAN
    /\ route = [m \in Mails |-> "none"]
    /\ attempts = [m \in Mails |-> 0]
    /\ crashes = 0

(* send of the dispatcher; addJob falls back when the queue rejects the job.   *)
Send(m) ==
    /\ route[m] = "none"
    /\ \E via \in IF hasQueue THEN {"queue", "fallback"} ELSE {"direct"} :
           route' = [route EXCEPT ![m] = via]
    /\ UNCHANGED <<breaker, hasQueue, attempts, crashes>>

Waiting(m) == route[m] # "none" /\ m \notin inFlight

OnQueue(calls) == {m \in calls : route[m] = "queue"}

(* The worker has a slot for a queued mail; other mails need none.             *)
MayRun(m) ==
    /\ Waiting(m)
    /\ route[m] = "queue" => Cardinality(OnQueue(inFlight)) < Concurrency

(* The mail is over: sent, given up, or lost.                                  *)
Over(m) ==
    /\ route' = [route EXCEPT ![m] = "none"]
    /\ attempts' = [attempts EXCEPT ![m] = 0]

(* Defect: the attempt is not counted, as if a retry ran execute(attempt).     *)
RetryAlways(m, retry) ==
    IF retry THEN UNCHANGED <<route, attempts>> ELSE Over(m)

(* An attempt failed: try again after a back-off, or give up.                  *)
AttemptFailed(m, retry) ==
    IF ~retry \/ attempts[m] + 1 = MaxAttempts
    THEN Over(m)
    ELSE attempts' = [attempts EXCEPT ![m] = @ + 1] /\ UNCHANGED route

(* An attempt reaches the transport ...                                        *)
Call(m) ==
    /\ MayRun(m)
    /\ Execute(m)
    /\ UNCHANGED <<hasQueue, route, attempts, crashes>>

(* ... or is refused.  Only a direct send does not retry a refusal; for a job  *)
(* and for the fallback it is a failed attempt like any other.                 *)
Refused(m) ==
    /\ MayRun(m)
    /\ Refuses
    /\ AttemptFailed(m, route[m] # "direct")
    /\ UNCHANGED <<breaker, hasQueue, crashes>>

Sent(m) ==
    /\ OnSuccess(m)
    /\ Over(m)
    /\ UNCHANGED <<hasQueue, crashes>>

SendFailed(m) ==
    /\ OnFailure(m)
    /\ AttemptFailed(m, TRUE)
    /\ UNCHANGED <<hasQueue, crashes>>

TimePasses ==
    /\ CoolDown
    /\ UNCHANGED <<hasQueue, route, attempts, crashes>>

(* A crash loses the breaker's state and the mails held in memory.  A queued   *)
(* mail stays in Redis; if it was being sent, it will be sent again.           *)
Crash ==
    /\ crashes < MaxCrashes
    /\ Restart
    /\ route' = [m \in Mails |-> IF route[m] = "queue" THEN "queue" ELSE "none"]
    /\ attempts' = [m \in Mails |-> IF route[m] = "queue" THEN attempts[m] ELSE 0]
    /\ crashes' = crashes + 1
    /\ UNCHANGED hasQueue

Attempt(m) == Call(m) \/ Refused(m)
Ended(m)   == Sent(m) \/ SendFailed(m)

DeliveryNext ==
    \/ \E m \in Mails : Send(m) \/ Attempt(m) \/ Ended(m)
    \/ TimePasses
    \/ Crash

DeliverySpec == DeliveryInit /\ [][DeliveryNext]_deliveryVars

(* The transport has connection, greeting and socket timeouts, so a call ends. *)
(* BullMQ hands out jobs first in, first out, so a mail gets its turn however  *)
(* often the worker's slots fill up; a timer of withRetry always fires.        *)
FairDeliverySpec ==
    /\ DeliverySpec
    /\ \A m \in Mails : SF_deliveryVars(Attempt(m)) /\ WF_deliveryVars(Ended(m))
    /\ WF_deliveryVars(TimePasses)

-------------------------------------------------------------------------------
(* Properties.                                                                 *)

(* Every mail is over at last: sent, or given up after its attempts, however   *)
(* the breaker opens, probes and closes meanwhile and wherever it crashes.     *)
MailsSettle ==
    \A m \in Mails : route[m] # "none" ~> route[m] = "none"

(* A HALF_OPEN breaker decides: it does not stay half-open for ever.           *)
HalfOpenEnds ==
    state = "HALF_OPEN" ~> state # "HALF_OPEN"

(* circuit-breaker.ts, the diagram: OPEN is only left for HALF_OPEN, and only  *)
(* a successful probe closes the circuit.  A process that goes on running      *)
(* never closes an OPEN breaker directly.                                      *)
ClosesThroughProbe ==
    [][state = "OPEN" /\ crashes' = crashes => state' # "CLOSED"]_deliveryVars
===============================================================================
