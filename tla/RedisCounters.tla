----------------------------- MODULE RedisCounters -----------------------------
(* Counters kept in Redis: attempts in a window, resends in a window.  A       *)
(* counter whose key is missing reads as zero.                                 *)
EXTENDS Naturals

(* A counter is made by INCR, without an expiry; EXPIRE gives it one.          *)
Counters == [count : Nat, expires : BOOLEAN]

Missing == [count |-> 0, expires |-> FALSE]

Incr(counter) == [count |-> counter.count + 1, expires |-> counter.expires]

(* Defect: EXPIRE is sent for another key.                                     *)
ExpireOther(counter) == counter

(* EXPIRE does nothing to a key that is missing.                               *)
Expire(counter) ==
    [count |-> counter.count, expires |-> counter.count > 0]

(* Defect: one more is let through.                                            *)
LimitPassed(counter, limit) == counter.count > limit

(* isLocked, hasExceededResendLimit.                                           *)
LimitReached(counter, limit) == counter.count >= limit
===============================================================================
