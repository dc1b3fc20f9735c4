--------------------------------- MODULE Signup ---------------------------------
(* Signing up with one address: a code is mailed, verified for a sign-up       *)
(* session, and the session creates the account.                               *)
(*                                                                             *)
(* A request takes one step per Redis or MongoDB answer.  Unlike at login,     *)
(* every step is awaited, so an error in any of them ends the request.         *)
EXTENDS OtpKeys, FiniteSets

CONSTANTS Codes,      \* what generateOtp may return
          Wrong,      \* any other six digits
          Requests,   \* slots for requests in flight
          MaxFailed,  \* OTP_CONFIG.MAX_FAILED_ATTEMPTS
          MaxResend,  \* OTP_CONFIG.MAX_RESEND_COUNT
          MaxFaults   \* bound: errors and crashes

ASSUME SignupLimits == {MaxFailed, MaxResend} \subseteq Nat \ {0}
ASSUME RequestsAreFinite == IsFiniteSet(Requests)
ASSUME SignupBound == MaxFaults \in Nat
ASSUME NoCodeIsNone == NoCode \notin Codes \cup {Wrong} /\ Wrong \notin Codes

VARIABLES code,      \* the stored code
          cooldown,  \* the cooldown key exists
          failed,    \* wrong codes counted
          resend,    \* codes sent again in a window
          session,   \* a session token is stored; its holder may present it
          auths,     \* auths documents created
          profiles,  \* users documents with this address
          pc,        \* where each request waits
          held,      \* the code it generated or was given
          again,     \* requests that came through resendOtp
          guesses,   \* history: wrong codes compared since `failed` vanished
          sent,      \* history: codes sent again since `resend` vanished
          mailed,    \* history: the code mailed last
          overlap,   \* history: two codes have been in the making at once
          faults     \* history: errors and crashes

keys == <<code, cooldown, failed, resend, session>>
accounts == <<auths, profiles>>
history == <<guesses, sent, mailed, overlap, faults>>
vars == <<keys, accounts, pc, held, again, history>>

SendWaits == {"limit", "free", "clear", "store", "cool", "count", "window"}
Waits == SendWaits \cup
    {"idle", "compare", "wrong", "penalty", "issue", "clean", "vacant", "create", "forget"}

TypeOK ==
    /\ code \in Codes \cup {NoCode} /\ cooldown \in BOOLEAN
    /\ failed \in Counters /\ resend \in Counters
    /\ session \in BOOLEAN
    /\ auths \in Nat /\ profiles \in Nat
    /\ pc \in [Requests -> Waits]
    /\ held \in [Requests -> Codes \cup {Wrong, NoCode}]
    /\ again \subseteq {r \in Requests : pc[r] \in SendWaits}
    /\ \A r \in Requests :
        /\ pc[r] \in {"store", "cool", "count", "window"} => held[r] \in Codes
        /\ pc[r] \in {"limit", "count", "window"} => r \in again
    /\ guesses \in Nat /\ sent \in Nat /\ faults \in Nat
    /\ mailed \in Codes \cup {NoCode} /\ overlap \in BOOLEAN

Init ==
    /\ code = NoCode /\ cooldown = FALSE /\ session = FALSE
    /\ failed = Missing /\ resend = Missing
    /\ auths = 0 /\ profiles = 0
    /\ pc = [r \in Requests |-> "idle"]
    /\ held = [r \in Requests |-> NoCode]
    /\ again = {}
    /\ guesses = 0 /\ sent = 0 /\ faults = 0
    /\ mailed = NoCode /\ overlap = FALSE

Hold(r, to, c) ==
    /\ pc' = [pc EXCEPT ![r] = to]
    /\ held' = [held EXCEPT ![r] = c]
    /\ UNCHANGED again

Go(r, to) == Hold(r, to, held[r])

Done(r) ==
    /\ pc' = [pc EXCEPT ![r] = "idle"]
    /\ held' = [held EXCEPT ![r] = NoCode]
    /\ again' = again \ {r}

-------------------------------------------------------------------------------
(* sendOtp and resendOtp.                                                      *)

Sending == {r \in Requests : pc[r] \in SendWaits}

(* The cooldown guard.  Only resendOtp goes on to ask for the resend limit.    *)
RequestCode(r, resending) ==
    /\ pc[r] = "idle"
    /\ ~cooldown
    /\ pc' = [pc EXCEPT ![r] = IF resending THEN "limit" ELSE "free"]
    /\ again' = IF resending THEN again \cup {r} ELSE again
    /\ overlap' = (overlap \/ Sending # {})
    /\ UNCHANGED <<keys, accounts, held, guesses, sent, mailed, faults>>

CheckResendLimit(r) ==
    /\ pc[r] = "limit"
    /\ IF LimitReached(resend, MaxResend) THEN Done(r) ELSE Go(r, "free")
    /\ UNCHANGED <<keys, accounts, history>>

(* The address must not have an account yet.                                   *)
EmailAvailable(r) ==
    /\ pc[r] = "free"
    /\ IF profiles > 0 THEN Done(r) ELSE Go(r, "clear")
    /\ UNCHANGED <<keys, accounts, history>>

ClearOtp(r) ==
    /\ pc[r] = "clear"
    /\ code' = NoCode
    /\ \E c \in Codes : Hold(r, "store", c)
    /\ UNCHANGED <<cooldown, failed, resend, session, accounts, history>>

(* Defect: a code is generated for the store and another one for the mail.     *)
StoreAnother(r) ==
    /\ pc[r] = "store"
    /\ code' \in Codes
    /\ Go(r, "cool")
    /\ UNCHANGED <<cooldown, failed, resend, session, accounts, history>>

StoreHashed(r) ==
    /\ pc[r] = "store"
    /\ code' = held[r]
    /\ Go(r, "cool")
    /\ UNCHANGED <<cooldown, failed, resend, session, accounts, history>>

(* The mail leaves when the limits are set.                                    *)
Mail(r) == mailed' = held[r] /\ Done(r)

(* Defect: a code sent again is mailed before it is counted.                   *)
MailBeforeCounting(r) ==
    /\ pc[r] = "cool"
    /\ cooldown' = TRUE
    /\ sent' = IF r \in again THEN sent + 1 ELSE sent
    /\ Mail(r)
    /\ UNCHANGED <<code, failed, resend, session, accounts, guesses, overlap, faults>>

(* setCooldown; a code sent again is counted before it is mailed.              *)
SetCooldown(r) ==
    /\ pc[r] = "cool"
    /\ cooldown' = TRUE
    /\ IF r \in again THEN Go(r, "count") /\ UNCHANGED mailed ELSE Mail(r)
    /\ UNCHANGED <<code, failed, resend, session, accounts, guesses, sent, overlap, faults>>

CountResend(r) ==
    /\ pc[r] = "count"
    /\ resend' = Incr(resend)
    /\ sent' = sent + 1
    /\ IF resend'.count = 1 THEN Go(r, "window") /\ UNCHANGED mailed ELSE Mail(r)
    /\ UNCHANGED <<code, cooldown, failed, session, accounts, guesses, overlap, faults>>

ExpireResend(r) ==
    /\ pc[r] = "window"
    /\ resend' = Expire(resend)
    /\ Mail(r)
    /\ UNCHANGED <<code, cooldown, failed, session, accounts, guesses, sent, overlap, faults>>

-------------------------------------------------------------------------------
(* verifyOtp.                                                                  *)

(* Defect: the lockout is not asked for.                                       *)
PresentUnchecked(r, c) ==
    /\ pc[r] = "idle"
    /\ Hold(r, "compare", c)
    /\ UNCHANGED <<keys, accounts, history>>

(* isLocked reads the counter.                                                 *)
PresentCode(r, c) ==
    /\ pc[r] = "idle"
    /\ ~LimitReached(failed, MaxFailed)
    /\ Hold(r, "compare", c)
    /\ UNCHANGED <<keys, accounts, history>>

CompareRight(r) ==
    /\ pc[r] = "compare"
    /\ Accepts(code, held[r])
    /\ Hold(r, "issue", NoCode)
    /\ UNCHANGED <<keys, accounts, history>>

CompareWrong(r) ==
    /\ pc[r] = "compare"
    /\ ~Accepts(code, held[r])
    /\ guesses' = guesses + 1
    /\ Hold(r, "wrong", NoCode)
    /\ UNCHANGED <<keys, accounts, sent, mailed, overlap, faults>>

CountFailure(r) ==
    /\ pc[r] = "wrong"
    /\ failed' = Incr(failed)
    /\ IF failed'.count = 1 THEN Go(r, "penalty") ELSE Done(r)
    /\ UNCHANGED <<code, cooldown, resend, session, accounts, history>>

ExpireFailed(r) ==
    /\ pc[r] = "penalty"
    /\ failed' = Expire(failed)
    /\ Done(r)
    /\ UNCHANGED <<code, cooldown, resend, session, accounts, history>>

(* A session replaces the one before.                                          *)
IssueSession(r) ==
    /\ pc[r] = "issue"
    /\ session' = TRUE
    /\ Go(r, "clean")
    /\ UNCHANGED <<code, cooldown, failed, resend, accounts, history>>

(* cleanupOtpData spares the resend counter; `gone` are those that take effect.*)
CleanupOtpData(gone) ==
    /\ code' = IF "code" \in gone THEN NoCode ELSE code
    /\ cooldown' = (cooldown /\ "cooldown" \notin gone)
    /\ failed' = IF "failed" \in gone THEN Missing ELSE failed
    /\ guesses' = IF "failed" \in gone THEN 0 ELSE guesses

OtpData == {"code", "cooldown", "failed"}

CleanUp(r) ==
    /\ pc[r] = "clean"
    /\ CleanupOtpData(OtpData)
    /\ Done(r)
    /\ UNCHANGED <<resend, session, accounts, sent, mailed, overlap, faults>>

-------------------------------------------------------------------------------
(* completeSignup.                                                             *)

(* The session is compared, not taken.                                         *)
PresentSession(r) ==
    /\ pc[r] = "idle"
    /\ session
    /\ Go(r, "vacant")
    /\ UNCHANGED <<keys, accounts, history>>

StillAvailable(r) ==
    /\ pc[r] = "vacant"
    /\ IF profiles > 0 THEN Done(r) ELSE Go(r, "create")
    /\ UNCHANGED <<keys, accounts, history>>

(* Defect: no unique index on the address.                                     *)
CreateAnyway(r) ==
    /\ pc[r] = "create"
    /\ auths' = auths + 1 /\ profiles' = profiles + 1
    /\ Go(r, "forget")
    /\ UNCHANGED <<keys, history>>

(* One transaction inserts both documents; the unique index on the address     *)
(* aborts it if another request came first.                                    *)
CreateUserAccount(r) ==
    /\ pc[r] = "create"
    /\ IF profiles > 0
       THEN Done(r) /\ UNCHANGED accounts
       ELSE auths' = auths + 1 /\ profiles' = profiles + 1 /\ Go(r, "forget")
    /\ UNCHANGED <<keys, history>>

Forget(r) ==
    /\ pc[r] = "forget"
    /\ CleanupOtpData(OtpData)
    /\ session' = FALSE
    /\ Done(r)
    /\ UNCHANGED <<resend, accounts, sent, mailed, overlap, faults>>

-------------------------------------------------------------------------------
(* Errors, crashes and time.                                                   *)

Fault == faults < MaxFaults /\ faults' = faults + 1

(* An error ends the request; of deletions issued together some may have taken *)
(* effect.  The account is not taken back.                                     *)
Abort(r) ==
    /\ pc[r] \notin {"idle", "clean", "forget"}
    /\ Done(r)
    /\ Fault
    /\ UNCHANGED <<keys, accounts, guesses, sent, mailed, overlap>>

CleanUpFails(r) ==
    /\ pc[r] \in {"clean", "forget"}
    /\ \E gone \in SUBSET OtpData : CleanupOtpData(gone)
    /\ \/ UNCHANGED session
       \/ pc[r] = "forget" /\ session' = FALSE
    /\ Done(r)
    /\ Fault
    /\ UNCHANGED <<resend, accounts, sent, mailed, overlap>>

Crash ==
    /\ pc' = [r \in Requests |-> "idle"]
    /\ held' = [r \in Requests |-> NoCode]
    /\ again' = {}
    /\ Fault
    /\ UNCHANGED <<keys, accounts, guesses, sent, mailed, overlap>>

CodeExpires ==
    /\ code' = NoCode
    /\ UNCHANGED <<cooldown, failed, resend, session, accounts, pc, held, again, history>>

CooldownExpires ==
    /\ cooldown' = FALSE
    /\ UNCHANGED <<code, failed, resend, session, accounts, pc, held, again, history>>

SessionExpires ==
    /\ session' = FALSE
    /\ UNCHANGED <<code, cooldown, failed, resend, accounts, pc, held, again, history>>

FailedExpires ==
    /\ failed.expires
    /\ failed' = Missing
    /\ guesses' = 0
    /\ UNCHANGED <<code, cooldown, resend, session, accounts, pc, held, again,
                   sent, mailed, overlap, faults>>

ResendExpires ==
    /\ resend.expires
    /\ resend' = Missing
    /\ sent' = 0
    /\ UNCHANGED <<code, cooldown, failed, session, accounts, pc, held, again,
                   guesses, mailed, overlap, faults>>

-------------------------------------------------------------------------------
Next ==
    \/ \E r \in Requests :
        \/ \E b \in BOOLEAN : RequestCode(r, b)
        \/ CheckResendLimit(r) \/ EmailAvailable(r)
        \/ ClearOtp(r) \/ StoreHashed(r) \/ SetCooldown(r)
        \/ CountResend(r) \/ ExpireResend(r)
        \/ \E c \in Codes \cup {Wrong} : PresentCode(r, c)
        \/ CompareRight(r) \/ CompareWrong(r) \/ CountFailure(r) \/ ExpireFailed(r)
        \/ IssueSession(r) \/ CleanUp(r)
        \/ PresentSession(r) \/ StillAvailable(r) \/ CreateUserAccount(r) \/ Forget(r)
        \/ Abort(r) \/ CleanUpFails(r)
    \/ Crash
    \/ CodeExpires \/ CooldownExpires \/ SessionExpires
    \/ FailedExpires \/ ResendExpires

Spec == Init /\ [][Next]_vars
-------------------------------------------------------------------------------
(* Properties.                                                                 *)

Others == Cardinality(Requests) - 1

(* A fault may lose what every request in flight was about to count.           *)
Lost == faults * Cardinality(Requests)

(* However many requests complete at once with one session, an address gets at *)
(* most one account, and no auths document is left without its profile.        *)
OneAccount ==
    profiles <= 1 /\ auths = profiles

(* Wrong codes compared in one counting window exceed the limit only by the    *)
(* requests past the guard and those whose count a fault lost.                 *)
GuessesBounded ==
    guesses <= MaxFailed + Others + Lost

(* A code is counted before it is mailed again, so resends exceed their limit  *)
(* by the requests past the guard and by nothing a fault could lose.           *)
ResendsBounded ==
    sent <= MaxResend + Others

(* A counter without an expiry is about to get one.                            *)
CountersWillExpire ==
    faults = 0 =>
        /\ failed.count > 0 /\ ~failed.expires
               => \E r \in Requests : pc[r] = "penalty"
        /\ resend.count > 0 /\ ~resend.expires
               => \E r \in Requests : pc[r] = "window"

(* The keys are well formed, and the counters among them will expire.          *)
ExpiryInv == TypeOK /\ CountersWillExpire

(* The code in the newest mail is the one that works, unless it has been used  *)
(* or has expired: a stored code is the one mailed last or one about to be.    *)
(* Two sends at once, and an error between storing and mailing, do break it.   *)
NewestMailWorks ==
    ~overlap /\ faults = 0 =>
        \/ code \in {NoCode, mailed}
        \/ \E r \in Sending : held[r] = code
===============================================================================
