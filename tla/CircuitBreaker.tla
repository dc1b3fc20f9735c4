---------------------------- MODULE CircuitBreaker ----------------------------
(* The circuit breaker around the mail transport.  A call runs through         *)
(* `execute` up to its await, and again when the transport has answered; other *)
(* calls run in between, so an answer may find the breaker in another state    *)
(* than its call left it in.                                                   *)
EXTENDS Naturals, FiniteSets

CONSTANTS Calls,      \* calls of the transport
          Threshold,  \* failureThreshold
          MaxProbes   \* halfOpenMaxAttempts

ASSUME BreakerLimits == Threshold \in Nat \ {0} /\ MaxProbes \in Nat \ {0}

VARIABLES state,             \* CLOSED, OPEN or HALF_OPEN
          failureCount,      \* failures since a success, counted up to Threshold
          halfOpenAttempts,  \* calls let through while HALF_OPEN
          cooled,            \* resetTimeoutMs have passed since lastFailureTime
          inFlight,          \* calls the transport has not answered
          probes             \* history: calls let through in this HALF_OPEN period

breaker == <<state, failureCount, halfOpenAttempts, cooled, inFlight, probes>>

BreakerTypeOK ==
    /\ state \in {"CLOSED", "OPEN", "HALF_OPEN"}
    /\ failureCount \in 0..Threshold
    /\ halfOpenAttempts \in 0..MaxProbes
    /\ cooled \in BOOLEAN
    /\ inFlight \subseteq Calls
    /\ probes \subseteq Calls

(* A new process has a new breaker.                                            *)
BreakerInit ==
    /\ state = "CLOSED"
    /\ failureCount = 0
    /\ halfOpenAttempts = 0
    /\ cooled = FALSE
    /\ inFlight = {} /\ probes = {}

-------------------------------------------------------------------------------
(* execute, up to its await.                                                   *)

(* Defect: one probe too many.                                                 *)
QuotaLeftAfter(attempts) == attempts <= MaxProbes

QuotaLeft(attempts) == attempts < MaxProbes

Probe(c, attempts, others) ==
    /\ state' = "HALF_OPEN"
    /\ halfOpenAttempts' = attempts + 1
    /\ probes' = others \cup {c}

(* The call is let through.                                                    *)
Execute(c) ==
    /\ c \notin inFlight
    /\ \/ state = "CLOSED" /\ UNCHANGED <<state, halfOpenAttempts, probes>>
       \/ state = "OPEN" /\ cooled /\ Probe(c, 0, {})
       \/ state = "HALF_OPEN" /\ QuotaLeft(halfOpenAttempts)
            /\ Probe(c, halfOpenAttempts, probes)
    /\ inFlight' = inFlight \cup {c}
    /\ UNCHANGED <<failureCount, cooled>>

(* The call is refused with a CircuitOpenError.                                *)
Refuses ==
    \/ state = "OPEN" /\ ~cooled
    \/ state = "HALF_OPEN" /\ ~QuotaLeft(halfOpenAttempts)

-------------------------------------------------------------------------------
(* execute, when the transport has answered.                                   *)

Answered(c) == c \in inFlight /\ inFlight' = inFlight \ {c}

(* Defect: failures before a success still count.                              *)
SuccessKeepsCount(c) ==
    /\ Answered(c)
    /\ state' = "CLOSED"
    /\ halfOpenAttempts' = 0
    /\ probes' = {}
    /\ UNCHANGED <<failureCount, cooled>>

OnSuccess(c) ==
    /\ Answered(c)
    /\ state' = "CLOSED"
    /\ failureCount' = 0
    /\ halfOpenAttempts' = 0
    /\ probes' = {}
    /\ UNCHANGED cooled

(* Only `>= failureThreshold` is ever asked of the count.                      *)
CountFailure ==
    failureCount' = IF failureCount < Threshold THEN failureCount + 1 ELSE Threshold

(* Defect: a failed probe leaves the breaker as it is.                         *)
FailureIgnoresProbe(c) ==
    /\ Answered(c)
    /\ CountFailure
    /\ cooled' = FALSE
    /\ state' = IF failureCount' = Threshold /\ state = "CLOSED" THEN "OPEN" ELSE state
    /\ UNCHANGED <<halfOpenAttempts, probes>>

(* Any failure that arrives in HALF_OPEN reopens, also that of an older call.  *)
OnFailure(c) ==
    /\ Answered(c)
    /\ CountFailure
    /\ cooled' = FALSE
    /\ \/ /\ state = "HALF_OPEN"
          /\ state' = "OPEN"
          /\ halfOpenAttempts' = 0
          /\ probes' = {}
       \/ /\ state # "HALF_OPEN"
          /\ state' = IF failureCount' = Threshold THEN "OPEN" ELSE state
          /\ UNCHANGED <<halfOpenAttempts, probes>>

(* resetTimeoutMs pass.                                                        *)
CoolDown ==
    /\ state = "OPEN" /\ ~cooled
    /\ cooled' = TRUE
    /\ UNCHANGED <<state, failureCount, halfOpenAttempts, inFlight, probes>>

(* The process stops and another one starts.                                   *)
Restart ==
    /\ state' = "CLOSED"
    /\ failureCount' = 0
    /\ halfOpenAttempts' = 0
    /\ cooled' = FALSE
    /\ inFlight' = {} /\ probes' = {}

BreakerNext ==
    \/ \E c \in Calls : Execute(c) \/ OnSuccess(c) \/ OnFailure(c)
    \/ CoolDown
    \/ Restart

BreakerSpec == BreakerInit /\ [][BreakerNext]_breaker

-------------------------------------------------------------------------------
(* Properties.                                                                 *)

(* The breaker refuses calls exactly after Threshold failures without a        *)
(* success in between, whatever order the answers arrive in; it is never OPEN  *)
(* with a forgotten count nor CLOSED with an exhausted one.                    *)
OpensOnThreshold ==
    state # "CLOSED" <=> failureCount = Threshold

(* A HALF_OPEN breaker waits for calls that are really in flight: those it let *)
(* through in this period, as many as it has counted.  It cannot be left with  *)
(* a used-up quota and nobody to report, refusing every mail from then on,     *)
(* although answers of older calls reset the count under its feet.             *)
ProbesAreInFlight ==
    IF state = "HALF_OPEN"
    THEN /\ probes \subseteq inFlight
         /\ Cardinality(probes) = halfOpenAttempts
         /\ halfOpenAttempts \in 1..MaxProbes
    ELSE probes = {} /\ halfOpenAttempts = 0
===============================================================================
