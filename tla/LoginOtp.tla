------------------------------- MODULE LoginOtp --------------------------------
(* Login by an e-mailed code or link, for one address: what the OTP and the    *)
(* magic-link strategy send and verify, with the work they leave behind when   *)
(* they have answered.  A behaviour is about one of the two channels: they share *)
(* no key.  Links have a cooldown and no counters.                             *)
(*                                                                             *)
(* A request takes one step per Redis or MongoDB answer.  Commands issued      *)
(* together (Promise.all) travel on one connection and take effect together,   *)
(* unless the connection fails in between.                                     *)
EXTENDS OtpKeys, FiniteSets

CONSTANTS Codes,      \* what generateOtp and generateSecureToken may return
          Wrong,      \* anything else presented
          Requests,   \* slots for requests and for what they leave behind
          MaxFailed,  \* LOGIN_OTP_CONFIG.MAX_FAILED_ATTEMPTS
          MaxResend,  \* LOGIN_OTP_CONFIG.MAX_RESEND_ATTEMPTS
          MaxTries,   \* withRetry: maxAttempts
          MaxCount,   \* bound: codes requested in a window
          MaxFaults   \* bound: errors and crashes

ASSUME LimitsArePositive == {MaxFailed, MaxResend, MaxTries} \subseteq Nat \ {0}
ASSUME RequestsAreFinite == IsFiniteSet(Requests)
ASSUME OtpBoundsAreNat == {MaxCount, MaxFaults} \subseteq Nat
ASSUME NoCodeIsNone == NoCode \notin Codes \cup {Wrong} /\ Wrong \notin Codes

VARIABLES channel,   \* "otp" or "link"
          code,      \* the stored code or token
          cooldown,  \* the cooldown key exists
          failed,    \* wrong codes counted
          resend,    \* codes requested
          pc,        \* where each request waits
          held,      \* the code a request generated or was given
          tries,     \* failed tries of what a request left behind
          guesses,   \* history: wrong codes compared since `failed` vanished
          sent,      \* history: mails since the key that limits them vanished
          uses,      \* history: logins with the stored code
          faults     \* history: errors and crashes

keys == <<code, cooldown, failed, resend>>
history == <<guesses, sent, uses, faults>>
vars == <<channel, keys, pc, held, tries, history>>

Waits == {"idle",
          "find", "resend", "clear", "store", "limits", "window", "fakeLimits", "fakeWindow",
          "account", "compare", "count", "penalty", "cleanup"}

TypeOK ==
    /\ channel \in {"otp", "link"}
    /\ code \in Codes \cup {NoCode} /\ cooldown \in BOOLEAN
    /\ failed \in Counters /\ resend \in Counters
    /\ pc \in [Requests -> Waits]
    /\ held \in [Requests -> Codes \cup {Wrong, NoCode}]
    /\ tries \in [Requests -> 0..(MaxTries - 1)]
    /\ \A r \in Requests : pc[r] = "store" => held[r] \in Codes
    /\ guesses \in Nat /\ sent \in Nat /\ uses \in Nat /\ faults \in Nat

Init ==
    /\ channel \in {"otp", "link"}
    /\ code = NoCode /\ cooldown = FALSE
    /\ failed = Missing /\ resend = Missing
    /\ pc = [r \in Requests |-> "idle"]
    /\ held = [r \in Requests |-> NoCode]
    /\ tries = [r \in Requests |-> 0]
    /\ guesses = 0 /\ sent = 0 /\ uses = 0 /\ faults = 0

(* Request r waits at `to`, holding c.                                         *)
Hold(r, to, c) ==
    /\ pc' = [pc EXCEPT ![r] = to]
    /\ held' = [held EXCEPT ![r] = c]
    /\ UNCHANGED <<channel, tries>>

Go(r, to) == Hold(r, to, held[r])

(* Request r, and what it left behind, is over.                                *)
Done(r) ==
    /\ pc' = [pc EXCEPT ![r] = "idle"]
    /\ held' = [held EXCEPT ![r] = NoCode]
    /\ tries' = [tries EXCEPT ![r] = 0]
    /\ UNCHANGED channel

-------------------------------------------------------------------------------
(* sendCode and sendLink.                                                      *)

(* The cooldown guard reads the key's TTL.                                     *)
RequestCode(r) ==
    /\ pc[r] = "idle"
    /\ ~cooldown
    /\ Go(r, "find")
    /\ UNCHANGED <<keys, history>>

(* tryFind: an account that may not log in (missing, locked, not verified) is  *)
(* answered as if a code were sent.  Any answer is possible at any time.       *)
FindAccount(r) ==
    /\ pc[r] = "find"
    /\ \/ Go(r, IF channel = "otp" THEN "resend" ELSE "clear")
       \/ Go(r, "fakeLimits")
    /\ UNCHANGED <<keys, history>>

(* hasExceededResendLimit; over the limit the request is rejected.             *)
CheckResendLimit(r) ==
    /\ pc[r] = "resend"
    /\ IF LimitReached(resend, MaxResend) THEN Done(r) ELSE Go(r, "clear")
    /\ UNCHANGED <<keys, history>>

(* createAndStoreOtp, createAndStoreToken: the old code is deleted ...         *)
ClearOtp(r) ==
    /\ pc[r] = "clear"
    /\ code' = NoCode
    /\ uses' = 0
    /\ \E c \in Codes : Hold(r, "store", c)
    /\ UNCHANGED <<cooldown, failed, resend, guesses, sent, faults>>

(* ... and the new one stored.                                                 *)
StoreHashed(r) ==
    /\ pc[r] = "store"
    /\ code' = held[r]
    /\ uses' = 0
    /\ Go(r, "limits")
    /\ UNCHANGED <<cooldown, failed, resend, guesses, sent, faults>>

(* Defect: only the cooldown is set.                                           *)
SetCooldownOnly(keysSet) ==
    /\ cooldown' = (cooldown \/ "cooldown" \in keysSet)
    /\ UNCHANGED resend

(* setRateLimits, setCooldownAfterSend; `keysSet` are those that take effect.  *)
SetRateLimits(keysSet) ==
    /\ cooldown' = (cooldown \/ "cooldown" \in keysSet)
    /\ resend' = IF "resend" \in keysSet THEN Incr(resend) ELSE resend

AllLimits == IF channel = "otp" THEN {"cooldown", "resend"} ELSE {"cooldown"}

(* Defect: the expiry is set when the counter was empty after INCR.            *)
AfterEmptyIncr(r, counter, to) ==
    IF counter.count = 0 THEN Hold(r, to, NoCode) ELSE Done(r)

(* INCR's answer: the first of a window must set the counter's expiry.         *)
AfterIncr(r, counter, to) ==
    IF counter.count = 1 THEN Hold(r, to, NoCode) ELSE Done(r)

(* The mail is dispatched and the limits are set, neither awaited.             *)
MailCode(r) ==
    /\ pc[r] = "limits"
    /\ sent' = sent + 1
    /\ SetRateLimits(AllLimits)
    /\ AfterIncr(r, resend', "window")
    /\ UNCHANGED <<code, failed, guesses, uses, faults>>

(* The same limits behind the pretended success.                               *)
FakeLimits(r) ==
    /\ pc[r] = "fakeLimits"
    /\ resend.count < MaxCount
    /\ SetRateLimits(AllLimits)
    /\ AfterIncr(r, resend', "fakeWindow")
    /\ UNCHANGED <<code, failed, history>>

ExpireResend(r) ==
    /\ pc[r] \in {"window", "fakeWindow"}
    /\ resend' = Expire(resend)
    /\ Done(r)
    /\ UNCHANGED <<code, cooldown, failed, history>>

-------------------------------------------------------------------------------
(* verifyCode and verifyLink.                                                  *)

(* The lockout guard reads the counter; links have none, and are not counted.  *)
PresentCode(r, c) ==
    /\ pc[r] = "idle"
    /\ ~LimitReached(failed, MaxFailed)
    /\ Hold(r, "account", c)
    /\ UNCHANGED <<keys, history>>

(* The account guards: it must exist, be active and be verified.               *)
ReadAccount(r) ==
    /\ pc[r] = "account"
    /\ Go(r, "compare") \/ Done(r)
    /\ UNCHANGED <<keys, history>>

(* The right code logs in, and the clean-up is left behind.                    *)
CompareRight(r) ==
    /\ pc[r] = "compare"
    /\ Accepts(code, held[r])
    /\ uses' = uses + 1
    /\ Go(r, "cleanup")
    /\ UNCHANGED <<keys, guesses, sent, faults>>

CompareWrong(r) ==
    /\ pc[r] = "compare"
    /\ channel = "otp"
    /\ ~Accepts(code, held[r])
    /\ guesses' = guesses + 1
    /\ Go(r, "count")
    /\ UNCHANGED <<keys, sent, uses, faults>>

(* A wrong link is refused, and nothing is counted.                            *)
RefuseLink(r) ==
    /\ pc[r] = "compare"
    /\ channel = "link"
    /\ ~Accepts(code, held[r])
    /\ Done(r)
    /\ UNCHANGED <<keys, history>>

(* incrementFailedAttempts: INCR, and EXPIRE after the first of a window.      *)
CountFailure(r) ==
    /\ pc[r] = "count"
    /\ failed' = Incr(failed)
    /\ AfterIncr(r, failed', "penalty")
    /\ UNCHANGED <<code, cooldown, resend, history>>

ExpireFailed(r) ==
    /\ pc[r] = "penalty"
    /\ failed' = Expire(failed)
    /\ Done(r)
    /\ UNCHANGED <<code, cooldown, resend, history>>

(* The key that limits mails.                                                  *)
LimitKey == IF channel = "otp" THEN "resend" ELSE "cooldown"

(* Defect: the code itself is kept.                                            *)
CleanupKeepsCode(gone) ==
    /\ cooldown' = (cooldown /\ "cooldown" \notin gone)
    /\ failed' = IF "failed" \in gone THEN Missing ELSE failed
    /\ resend' = IF "resend" \in gone THEN Missing ELSE resend
    /\ guesses' = IF "failed" \in gone THEN 0 ELSE guesses
    /\ sent' = IF LimitKey \in gone THEN 0 ELSE sent
    /\ UNCHANGED <<code, uses>>

(* cleanupAll deletes every key; `gone` are those that take effect.            *)
CleanupAll(gone) ==
    /\ code' = IF "code" \in gone THEN NoCode ELSE code
    /\ cooldown' = (cooldown /\ "cooldown" \notin gone)
    /\ failed' = IF "failed" \in gone THEN Missing ELSE failed
    /\ resend' = IF "resend" \in gone THEN Missing ELSE resend
    /\ guesses' = IF "failed" \in gone THEN 0 ELSE guesses
    /\ sent' = IF LimitKey \in gone THEN 0 ELSE sent
    /\ uses' = IF "code" \in gone THEN 0 ELSE uses

AllKeys ==
    IF channel = "otp" THEN {"code", "cooldown", "failed", "resend"} ELSE {"code", "cooldown"}

Cleanup(r) ==
    /\ pc[r] = "cleanup"
    /\ CleanupAll(AllKeys)
    /\ Done(r)
    /\ UNCHANGED faults

-------------------------------------------------------------------------------
(* Errors, crashes and time.                                                   *)

Fault == faults < MaxFaults /\ faults' = faults + 1

(* withRetry waits and starts over, and gives up after MaxTries.               *)
TryAgain(r, from) ==
    IF tries[r] + 1 = MaxTries
    THEN Done(r)
    ELSE /\ pc' = [pc EXCEPT ![r] = from]
         /\ tries' = [tries EXCEPT ![r] = @ + 1]
         /\ UNCHANGED <<channel, held>>

CleanupFails(r) ==
    /\ pc[r] = "cleanup"
    /\ \E gone \in SUBSET AllKeys : CleanupAll(gone)
    /\ TryAgain(r, "cleanup")
    /\ Fault

FakeLimitsFail(r) ==
    /\ \/ /\ pc[r] = "fakeLimits"
          /\ resend.count < MaxCount
          /\ \E keysSet \in SUBSET AllLimits : SetRateLimits(keysSet)
       \/ /\ pc[r] = "fakeWindow"
          /\ resend' \in {resend, Expire(resend)}
          /\ UNCHANGED cooldown
    /\ TryAgain(r, "fakeLimits")
    /\ Fault
    /\ UNCHANGED <<code, failed, guesses, sent, uses>>

(* The limit of a link is set with withRetry even when the link was mailed.    *)
LinkLimitFails(r) ==
    /\ pc[r] = "limits"
    /\ channel = "link"
    /\ sent' = sent + 1
    /\ \E keysSet \in SUBSET AllLimits : SetRateLimits(keysSet)
    /\ TryAgain(r, "fakeLimits")
    /\ Fault
    /\ UNCHANGED <<code, failed, guesses, uses>>

(* An error in an awaited call ends the request where it waits.                *)
Abort(r) ==
    /\ pc[r] \in Waits \ {"idle", "limits", "window", "fakeLimits", "fakeWindow", "cleanup"}
    /\ Done(r)
    /\ Fault
    /\ UNCHANGED <<keys, guesses, sent, uses>>

(* Every request disappears: the process was killed, or it shut down because   *)
(* a rejection was not handled.                                                *)
Stop ==
    /\ pc' = [r \in Requests |-> "idle"]
    /\ held' = [r \in Requests |-> NoCode]
    /\ tries' = [r \in Requests |-> 0]
    /\ UNCHANGED channel

Crash ==
    /\ Stop
    /\ Fault
    /\ UNCHANGED <<keys, guesses, sent, uses>>

(* Nobody handles a rejection of the limits set after a code was mailed.       *)
LimitsReject(r) ==
    /\ channel = "otp"
    /\ \/ /\ pc[r] = "limits"
          /\ sent' = sent + 1
          /\ \E keysSet \in SUBSET AllLimits : SetRateLimits(keysSet)
       \/ /\ pc[r] = "window"
          /\ resend' \in {resend, Expire(resend)}
          /\ UNCHANGED <<cooldown, sent>>
    /\ Stop
    /\ Fault
    /\ UNCHANGED <<code, failed, guesses, uses>>

CodeExpires ==
    /\ code' = NoCode
    /\ uses' = 0
    /\ UNCHANGED <<channel, cooldown, failed, resend, pc, held, tries, guesses, sent, faults>>

CooldownExpires ==
    /\ cooldown
    /\ cooldown' = FALSE
    /\ sent' = IF LimitKey = "cooldown" THEN 0 ELSE sent
    /\ UNCHANGED <<channel, code, failed, resend, pc, held, tries, guesses, uses, faults>>

FailedExpires ==
    /\ failed.expires
    /\ failed' = Missing
    /\ guesses' = 0
    /\ UNCHANGED <<channel, code, cooldown, resend, pc, held, tries, sent, uses, faults>>

ResendExpires ==
    /\ resend.expires
    /\ resend' = Missing
    /\ sent' = 0
    /\ UNCHANGED <<channel, code, cooldown, failed, pc, held, tries, guesses, uses, faults>>

-------------------------------------------------------------------------------
(* The steps a request takes once it has started.                              *)
Continue(r) ==
    \/ FindAccount(r) \/ CheckResendLimit(r) \/ ClearOtp(r) \/ StoreHashed(r)
    \/ MailCode(r) \/ FakeLimits(r) \/ ExpireResend(r)
    \/ ReadAccount(r) \/ CompareRight(r) \/ CompareWrong(r) \/ RefuseLink(r)
    \/ CountFailure(r) \/ ExpireFailed(r) \/ Cleanup(r)

Next ==
    \/ \E r \in Requests :
        \/ RequestCode(r)
        \/ \E c \in Codes \cup {Wrong} : PresentCode(r, c)
        \/ Continue(r)
        \/ CleanupFails(r) \/ FakeLimitsFail(r) \/ LinkLimitFails(r)
        \/ Abort(r) \/ LimitsReject(r)
    \/ Crash
    \/ CodeExpires \/ CooldownExpires \/ FailedExpires \/ ResendExpires

Spec == Init /\ [][Next]_vars

(* Node runs a handler on whenever an answer arrives, and Redis removes a key  *)
(* whose time has come; nobody has to send a request.                          *)
FairSpec ==
    /\ Spec
    /\ \A r \in Requests : WF_vars(Continue(r))
    /\ WF_vars(FailedExpires)

-------------------------------------------------------------------------------
(* Properties.                                                                 *)

Others == Cardinality(Requests) - 1

(* A fault may lose what every request in flight was about to count.           *)
Lost == faults * Cardinality(Requests)

(* Wrong codes compared in one counting window: the guard reads the counter    *)
(* two awaits before a wrong code is counted, so requests already past the     *)
(* guard add to the limit, but there is no further way around it.              *)
GuessesBounded ==
    guesses <= MaxFailed + Others + Lost

(* Mails in one window, in the same way: the limit is read before the code is  *)
(* stored, and a link's cooldown before its token is.  Mail and limit leave in *)
(* one step, so a fault loses the count of one mail only.                      *)
MailsBounded ==
    sent <= (IF channel = "otp" THEN MaxResend ELSE 1) + Others + faults

(* A code or link that logged in is deleted behind the answer: only requests   *)
(* that overlap that clean-up, or follow one that was lost, log in with it again. *)
UsesBounded ==
    uses <= 1 + Others + Lost

(* A counter without an expiry is about to get one: as long as nothing fails   *)
(* between INCR and EXPIRE, however clean-ups and first failures interleave,   *)
(* no counter is left to count for ever.                                       *)
CountersWillExpire ==
    faults = 0 =>
        /\ failed.count > 0 /\ ~failed.expires
               => \E r \in Requests : pc[r] = "penalty"
        /\ resend.count > 0 /\ ~resend.expires
               => \E r \in Requests : pc[r] \in {"window", "fakeWindow"}

(* The keys are well formed, and the counters among them will expire.          *)
ExpiryInv == TypeOK /\ CountersWillExpire

(* A locked address is unlocked again, unless something failed.                *)
LockoutEndsWithoutFaults ==
    LimitReached(failed, MaxFailed)
        ~> (~LimitReached(failed, MaxFailed) \/ faults > 0)

(* i18n, otpLocked: "Please try again in {{minutes}} minutes".  A locked       *)
(* address is unlocked again.                                                  *)
LockoutEnds ==
    LimitReached(failed, MaxFailed) ~> ~LimitReached(failed, MaxFailed)
===============================================================================
