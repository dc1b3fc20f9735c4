---------------------------- MODULE PasswordLockout ----------------------------
(* Failed password logins of one account, the lockout they lead to, and the    *)
(* unlocking of the account by a temporary password sent by e-mail.  Redis     *)
(* keeps the counters and the lock, the auths document the temporary password. *)
(*                                                                             *)
(* A request takes one step per database answer; a reset of the counters is    *)
(* left behind by a successful login and may be retried.                       *)
EXTENDS AuthRecord, RedisCounters, FiniteSets

CONSTANTS Requests,     \* slots for requests and for what they leave behind
          MaxAttempts,  \* LOGIN_LOCKOUT.MAX_ATTEMPTS
          MaxRequests,  \* MAX_REQUESTS_PER_HOUR
          MaxTries,     \* withRetry: maxAttempts
          MaxCount,     \* bound: failures counted
          MaxFaults     \* bound: errors and crashes

ASSUME LockoutLimits ==
    /\ MaxAttempts \in Nat /\ MaxAttempts > 1
    /\ {MaxRequests, MaxTries} \subseteq Nat \ {0}
ASSUME LockoutBounds == {MaxCount, MaxFaults} \subseteq Nat
ASSUME RequestsAreFinite == IsFiniteSet(Requests)

VARIABLES doc,       \* the auths document
          attempts,  \* login:failed-attempts
          lock,      \* login:lockout exists
          rate,      \* unlock requests this hour
          cooldown,  \* the cooldown key of unlock requests exists
          pc,        \* where each request waits
          held,      \* the temporary password it presents or has stored
          reset,     \* tries left for the reset of counter and lock
          guesses,   \* history: wrong passwords since a fresh counter or the end of a lock
          mails,     \* history: temporary passwords mailed in this rate window
          uses,      \* history: sessions opened by each temporary password
          faults     \* history: errors and crashes

limits == <<attempts, lock, rate, cooldown>>
history == <<guesses, mails, uses, faults>>
vars == <<doc, limits, pc, held, reset, history>>

Waits == {"idle", "account", "track", "midnight", "lock",
          "rate", "hour", "find", "locked", "store", "cooldown", "use"}

TypeOK ==
    /\ doc \in AuthDocs
    /\ attempts \in Counters /\ rate \in Counters
    /\ lock \in BOOLEAN /\ cooldown \in BOOLEAN
    /\ pc \in [Requests -> Waits]
    /\ held \in [Requests -> TempPasswords \cup {NoTemp}]
    /\ reset \in [Requests -> 0..MaxTries]
    /\ guesses \in Nat /\ mails \in Nat /\ faults \in Nat
    /\ uses \in [TempPasswords -> Nat]

Init ==
    /\ \E p \in Passwords : doc = NewAuth(p)
    /\ attempts = Missing /\ lock = FALSE
    /\ rate = Missing /\ cooldown = FALSE
    /\ pc = [r \in Requests |-> "idle"]
    /\ held = [r \in Requests |-> NoTemp]
    /\ reset = [r \in Requests |-> 0]
    /\ guesses = 0 /\ mails = 0 /\ faults = 0
    /\ uses = [t \in TempPasswords |-> 0]

Hold(r, to, temp) ==
    /\ pc' = [pc EXCEPT ![r] = to]
    /\ held' = [held EXCEPT ![r] = temp]

Go(r, to) == Hold(r, to, NoTemp)
Done(r)   == Hold(r, "idle", NoTemp)

Free(r) == pc[r] = "idle" /\ reset[r] = 0

(* withRetry: nobody waits for the reset.                                      *)
LeaveReset(r) == reset' = [reset EXCEPT ![r] = MaxTries]

-------------------------------------------------------------------------------
(* Password login.                                                             *)

(* Defect: a locked account is let through.                                    *)
AttemptUnchecked(r) ==
    /\ Free(r)
    /\ Go(r, "account")
    /\ UNCHANGED <<doc, limits, reset, history>>

(* checkLockout: the guard reads the lock, not the counter.                    *)
Attempt(r) ==
    /\ Free(r)
    /\ ~lock
    /\ Go(r, "account")
    /\ UNCHANGED <<doc, limits, reset, history>>

(* The account is read; a locked-out administrator's lock rejects it.          *)
Reject(r) ==
    /\ pc[r] = "account"
    /\ ~AuthActive(doc)
    /\ Done(r)
    /\ UNCHANGED <<doc, limits, reset, history>>

RightPassword(r) ==
    /\ pc[r] = "account"
    /\ AuthActive(doc)
    /\ Done(r)
    /\ LeaveReset(r)
    /\ UNCHANGED <<doc, limits, history>>

WrongPassword(r) ==
    /\ pc[r] = "account"
    /\ AuthActive(doc)
    /\ guesses' = guesses + 1
    /\ Go(r, "track")
    /\ UNCHANGED <<doc, limits, reset, mails, uses, faults>>

(* trackAttempt: INCR; the first failure sets the expiry at midnight, and one  *)
(* at or over the limit sets the lock.                                         *)
Track(r) ==
    /\ pc[r] = "track"
    /\ attempts.count < MaxCount
    /\ attempts' = Incr(attempts)
    /\ Go(r, IF attempts'.count = 1 THEN "midnight"
             ELSE IF LimitReached(attempts', MaxAttempts) THEN "lock" ELSE "idle")
    /\ UNCHANGED <<doc, lock, rate, cooldown, reset, history>>

ExpireAtMidnight(r) ==
    /\ pc[r] = "midnight"
    /\ attempts' = Expire(attempts)
    /\ Done(r)
    /\ UNCHANGED <<doc, lock, rate, cooldown, reset, history>>

SetLock(r) ==
    /\ pc[r] = "lock"
    /\ lock' = TRUE
    /\ Done(r)
    /\ UNCHANGED <<doc, attempts, rate, cooldown, reset, history>>

(* resetAll deletes counter and lock; `gone` are those that take effect.       *)
Delete(gone) ==
    /\ attempts' = IF "attempts" \in gone THEN Missing ELSE attempts
    /\ lock' = (lock /\ "lock" \notin gone)
    /\ guesses' = IF "attempts" \in gone \/ (lock /\ "lock" \in gone) THEN 0 ELSE guesses

BothKeys == {"attempts", "lock"}

ResetAll(r) ==
    /\ reset[r] > 0
    /\ Delete(BothKeys)
    /\ reset' = [reset EXCEPT ![r] = 0]
    /\ UNCHANGED <<doc, rate, cooldown, pc, held, mails, uses, faults>>

-------------------------------------------------------------------------------
(* unlockRequest.                                                              *)

RequestUnlock(r) ==
    /\ Free(r)
    /\ ~cooldown
    /\ Go(r, "rate")
    /\ UNCHANGED <<doc, limits, reset, history>>

(* Defect: the count is compared and not raised.                               *)
CompareOnly(r) ==
    /\ pc[r] = "rate"
    /\ Go(r, IF rate.count > MaxRequests THEN "idle" ELSE "find")
    /\ UNCHANGED <<doc, limits, reset, history>>

(* The rate guard counts first and compares the count it was given.  Above the *)
(* limit nothing more is ever asked of the count.                              *)
CountRequest(r) ==
    /\ pc[r] = "rate"
    /\ rate' = IF rate.count > MaxRequests THEN rate ELSE Incr(rate)
    /\ Go(r, IF rate'.count = 1 THEN "hour"
             ELSE IF rate'.count > MaxRequests THEN "idle" ELSE "find")
    /\ UNCHANGED <<doc, attempts, lock, cooldown, reset, history>>

ExpireRate(r) ==
    /\ pc[r] = "hour"
    /\ rate' = Expire(rate)
    /\ Go(r, "find")
    /\ UNCHANGED <<doc, attempts, lock, cooldown, reset, history>>

FindAccount(r) ==
    /\ pc[r] = "find"
    /\ Go(r, IF AuthActive(doc) THEN "locked" ELSE "idle")
    /\ UNCHANGED <<doc, limits, reset, history>>

(* isEmailLocked: only a locked-out account gets a temporary password.         *)
CheckLocked(r) ==
    /\ pc[r] = "locked"
    /\ Go(r, IF lock THEN "store" ELSE "idle")
    /\ UNCHANGED <<doc, limits, reset, history>>

(* The password is random: no request in flight holds the same.  One that is   *)
(* overwritten will not be seen again, so its model value may stand for a new  *)
(* one.                                                                        *)
StoreTemp(r, temp) ==
    /\ pc[r] = "store"
    /\ \A s \in Requests : held[s] # temp
    /\ doc' = StoreTempPassword(doc, temp)
    /\ uses' = [uses EXCEPT ![temp] = 0]
    /\ Hold(r, "cooldown", temp)
    /\ UNCHANGED <<limits, reset, guesses, mails, faults>>

(* The mail is dispatched, and the cooldown set.                               *)
MailTemp(r) ==
    /\ pc[r] = "cooldown"
    /\ mails' = mails + 1
    /\ cooldown' = TRUE
    /\ Done(r)
    /\ UNCHANGED <<doc, attempts, lock, rate, reset, guesses, uses, faults>>

-------------------------------------------------------------------------------
(* unlockVerify.                                                               *)

(* The guard decides on the document read, and a reset is left behind.  Wrong  *)
(* or stale temporary passwords are rejected without being counted.            *)
PresentTemp(r, temp) ==
    /\ Free(r)
    /\ TempPasswordValid(doc, temp)
    /\ Hold(r, "use", temp)
    /\ LeaveReset(r)
    /\ UNCHANGED <<doc, limits, history>>

(* The password is marked used and a session is opened.                        *)
UseTemp(r) ==
    /\ pc[r] = "use"
    /\ doc' = MarkTempPasswordUsed(doc)
    /\ uses' = [uses EXCEPT ![held[r]] = @ + 1]
    /\ Done(r)
    /\ UNCHANGED <<limits, reset, guesses, mails, faults>>

-------------------------------------------------------------------------------
(* Errors, crashes and time.                                                   *)

Fault == faults < MaxFaults /\ faults' = faults + 1

ResetFails(r) ==
    /\ reset[r] > 0
    /\ \E gone \in SUBSET BothKeys : Delete(gone)
    /\ reset' = [reset EXCEPT ![r] = @ - 1]
    /\ Fault
    /\ UNCHANGED <<doc, rate, cooldown, pc, held, mails, uses>>

Abort(r) ==
    /\ pc[r] # "idle"
    /\ Done(r)
    /\ Fault
    /\ UNCHANGED <<doc, limits, reset, guesses, mails, uses>>

Crash ==
    /\ pc' = [r \in Requests |-> "idle"]
    /\ held' = [r \in Requests |-> NoTemp]
    /\ reset' = [r \in Requests |-> 0]
    /\ Fault
    /\ UNCHANGED <<doc, limits, guesses, mails, uses>>

LockExpires ==
    /\ lock
    /\ lock' = FALSE
    /\ guesses' = 0
    /\ UNCHANGED <<doc, attempts, rate, cooldown, pc, held, reset, mails, uses, faults>>

Midnight ==
    /\ attempts.expires
    /\ attempts' = Missing
    /\ guesses' = 0
    /\ UNCHANGED <<doc, lock, rate, cooldown, pc, held, reset, mails, uses, faults>>

HourPasses ==
    /\ rate.expires
    /\ rate' = Missing
    /\ mails' = 0
    /\ UNCHANGED <<doc, attempts, lock, cooldown, pc, held, reset, guesses, uses, faults>>

CooldownExpires ==
    /\ cooldown' = FALSE
    /\ UNCHANGED <<doc, attempts, lock, rate, pc, held, reset, history>>

TempExpires ==
    /\ doc' = [doc EXCEPT !.tempExpired = TRUE]
    /\ UNCHANGED <<limits, pc, held, reset, history>>

(* An administrator locks or unlocks the account.                              *)
SetUserActive ==
    /\ doc' = SetActive(doc, ~doc.isActive)
    /\ UNCHANGED <<limits, pc, held, reset, history>>

-------------------------------------------------------------------------------
Continue(r) ==
    \/ Reject(r) \/ RightPassword(r) \/ WrongPassword(r)
    \/ Track(r) \/ ExpireAtMidnight(r) \/ SetLock(r) \/ ResetAll(r)
    \/ CountRequest(r) \/ ExpireRate(r) \/ FindAccount(r) \/ CheckLocked(r)
    \/ \E t \in TempPasswords : StoreTemp(r, t)
    \/ MailTemp(r) \/ UseTemp(r)

Next ==
    \/ \E r \in Requests :
        \/ Attempt(r)
        \/ RequestUnlock(r)
        \/ \E t \in TempPasswords : PresentTemp(r, t)
        \/ Continue(r)
        \/ ResetFails(r) \/ Abort(r)
    \/ Crash
    \/ LockExpires \/ Midnight \/ HourPasses \/ CooldownExpires \/ TempExpires
    \/ SetUserActive

Spec == Init /\ [][Next]_vars
-------------------------------------------------------------------------------
(* Properties.                                                                 *)

Others == Cardinality(Requests) - 1

(* A fault may lose what every request in flight was about to count.           *)
Lost == faults * Cardinality(Requests)

(* Wrong passwords compared before a lock stops them and while it lasts: the   *)
(* guard reads the lock two awaits before a failure is counted and three       *)
(* before the lock is set, so only requests already past the guard exceed the  *)
(* limit; the counter outlives the lock, and the next failure sets it again.   *)
GuessesBounded ==
    guesses <= MaxAttempts + Others + Lost

(* A counter without an expiry is about to get one.                            *)
CountersWillExpire ==
    faults = 0 =>
        /\ attempts.count > 0 /\ ~attempts.expires
               => \E r \in Requests : pc[r] = "midnight"
        /\ rate.count > 0 /\ ~rate.expires
               => \E r \in Requests : pc[r] = "hour"

(* The keys are well formed, and the counters among them will expire.          *)
ExpiryInv == TypeOK /\ CountersWillExpire

(* Temporary passwords mailed in one hour: the rate guard counts before it     *)
(* compares, so overlapping requests do not exceed it; only requests admitted  *)
(* in the window before may add to it.                                         *)
UnlockMailsBounded ==
    mails <= MaxRequests + Cardinality(Requests)

(* A temporary password opens no more sessions than there are requests that    *)
(* read it before the first of them marked it used.                            *)
TempUsesBounded ==
    \A t \in TempPasswords : uses[t] <= Cardinality(Requests)

(* sendEmail.json, unlockTempPassword: "This password can only be used once".  *)
TempPasswordUsedOnce ==
    \A t \in TempPasswords : uses[t] <= 1
===============================================================================
