---------------------------- MODULE ForgotPassword ----------------------------
(* A forgotten password, for one address: a code or a link is mailed, verified *)
(* and exchanged for a reset token, and the token sets a new password.  A      *)
(* behaviour is about one of the two channels: they have keys of their own and *)
(* share only the token, which requests of one channel contend for already.    *)
(*                                                                             *)
(* A request takes one step per Redis or MongoDB answer, but the look-up of    *)
(* the account is none of its own: it reads nothing that is kept here, and a   *)
(* request it rejects leaves as few traces as one never made.  Setting limits  *)
(* after a send and cleaning up after a verification are left behind, retried. *)
EXTENDS OtpKeys, FiniteSets

CONSTANTS Codes,      \* what generateOtp and generateSecureToken may return
          Wrong,      \* anything else presented
          Tokens,     \* reset tokens
          Requests,   \* slots for requests and for what they leave behind
          MaxFailed,  \* MAX_FAILED_ATTEMPTS of codes; links have no limit
          MaxResend,  \* MAX_RESEND_ATTEMPTS
          MaxTries,   \* withRetry: maxAttempts
          MaxFaults   \* bound: errors and crashes

ASSUME ResetLimits == {MaxFailed, MaxResend, MaxTries} \subseteq Nat \ {0}
ASSUME ResetBound == MaxFaults \in Nat
ASSUME RequestsAreFinite == IsFiniteSet(Requests)
ASSUME NoCodeIsNoSecret ==
    NoCode \notin Codes \cup Tokens \cup {Wrong} /\ Wrong \notin Codes

VARIABLES channel,   \* "otp" or "link"
          code,      \* the stored code or link
          cooldown,  \* the cooldown key exists
          resend,    \* sends in a window
          failed,    \* wrong codes counted
          token,     \* the stored reset token
          pc,        \* where each request waits
          held,      \* the code, link or token it carries
          tries,     \* failed tries of what it left behind
          guesses,   \* history: wrong codes compared since `failed` vanished
          sent,      \* history: mails since `resend` vanished
          uses,      \* history: passwords set with each token
          faults     \* history: errors and crashes

keys == <<code, cooldown, resend, failed, token>>
history == <<guesses, sent, uses, faults>>
vars == <<channel, keys, pc, held, tries, history>>

Waits == {"idle",
          "resend", "clear", "store", "limits", "window",
          "compare", "count", "penalty",
          "oldToken", "newToken", "cleanup",
          "update", "forget"}

TypeOK ==
    /\ channel \in {"otp", "link"}
    /\ code \in Codes \cup {NoCode} /\ cooldown \in BOOLEAN
    /\ resend \in Counters /\ failed \in Counters
    /\ token \in Tokens \cup {NoCode}
    /\ pc \in [Requests -> Waits]
    /\ held \in [Requests -> Codes \cup Tokens \cup {Wrong, NoCode}]
    /\ tries \in [Requests -> 0..(MaxTries - 1)]
    /\ guesses \in Nat /\ sent \in Nat /\ faults \in Nat
    /\ uses \in [Tokens -> Nat]

Init ==
    /\ channel \in {"otp", "link"}
    /\ code = NoCode /\ cooldown = FALSE
    /\ resend = Missing /\ failed = Missing
    /\ token = NoCode
    /\ pc = [r \in Requests |-> "idle"]
    /\ held = [r \in Requests |-> NoCode]
    /\ tries = [r \in Requests |-> 0]
    /\ guesses = 0 /\ sent = 0 /\ faults = 0
    /\ uses = [t \in Tokens |-> 0]

Hold(r, to, secret) ==
    /\ pc' = [pc EXCEPT ![r] = to]
    /\ held' = [held EXCEPT ![r] = secret]
    /\ UNCHANGED <<channel, tries>>

Go(r, to) == Hold(r, to, held[r])

(* Request r, and what it left behind, is over.                                *)
Done(r) ==
    /\ pc' = [pc EXCEPT ![r] = "idle"]
    /\ held' = [held EXCEPT ![r] = NoCode]
    /\ tries' = [tries EXCEPT ![r] = 0]
    /\ UNCHANGED channel

-------------------------------------------------------------------------------
(* sendCode and sendLink.                                                      *)

(* The cooldown guard.                                                         *)
RequestMail(r) ==
    /\ pc[r] = "idle"
    /\ ~cooldown
    /\ Go(r, "resend")
    /\ UNCHANGED <<keys, history>>

(* The resend limit guard.  A missing or locked account then gets a pretended  *)
(* success, and no limits: that request ends here.                             *)
CheckResendLimit(r) ==
    /\ pc[r] = "resend"
    /\ \/ Done(r)
       \/ ~LimitReached(resend, MaxResend) /\ Go(r, "clear")
    /\ UNCHANGED <<keys, history>>

ClearCode(r) ==
    /\ pc[r] = "clear"
    /\ code' = NoCode
    /\ \E c \in Codes : Hold(r, "store", c)
    /\ UNCHANGED <<cooldown, resend, failed, token, history>>

(* When the code is stored the mail is dispatched, and the limits left behind. *)
StoreHashed(r) ==
    /\ pc[r] = "store"
    /\ code' = held[r]
    /\ sent' = sent + 1
    /\ Hold(r, "limits", NoCode)
    /\ UNCHANGED <<cooldown, resend, failed, token, guesses, uses, faults>>

(* setRateLimits: cooldown and counter; `done` are those that take effect.     *)
SetRateLimits(done) ==
    /\ cooldown' = (cooldown \/ "cooldown" \in done)
    /\ resend' = IF "resend" \in done THEN Incr(resend) ELSE resend

Limits == {"cooldown", "resend"}

(* Defect: only the cooldown is set.                                           *)
ApplyCooldownOnly(r) ==
    /\ pc[r] = "limits"
    /\ SetRateLimits({"cooldown"})
    /\ Done(r)
    /\ UNCHANGED <<code, failed, token, history>>

ApplyLimits(r) ==
    /\ pc[r] = "limits"
    /\ SetRateLimits(Limits)
    /\ IF resend'.count = 1 THEN Go(r, "window") ELSE Done(r)
    /\ UNCHANGED <<code, failed, token, history>>

ExpireResend(r) ==
    /\ pc[r] = "window"
    /\ resend' = Expire(resend)
    /\ Done(r)
    /\ UNCHANGED <<code, cooldown, failed, token, history>>

-------------------------------------------------------------------------------
(* verifyCode and verifyLink.                                                  *)

(* Defect: the guard is put before the links.                                  *)
PresentGuardsLinks(r, secret) ==
    /\ pc[r] = "idle"
    /\ channel = "link" => ~LimitReached(failed, MaxFailed)
    /\ Hold(r, "compare", secret)
    /\ UNCHANGED <<keys, history>>

(* Only codes have a lockout guard.  The account must exist; whether it is     *)
(* locked is not asked.                                                        *)
Present(r, secret) ==
    /\ pc[r] = "idle"
    /\ channel = "otp" => ~LimitReached(failed, MaxFailed)
    /\ Hold(r, "compare", secret)
    /\ UNCHANGED <<keys, history>>

(* A right code is exchanged for a fresh reset token ...                       *)
CompareRight(r) ==
    /\ pc[r] = "compare"
    /\ Accepts(code, held[r])
    /\ \E t \in Tokens :
           /\ t # token /\ \A s \in Requests : held[s] # t
           /\ Hold(r, "oldToken", t)
           /\ uses' = [uses EXCEPT ![t] = 0]
    /\ UNCHANGED <<keys, guesses, sent, faults>>

(* ... a wrong link is rejected, and a wrong code counted as well.             *)
CompareWrong(r) ==
    /\ pc[r] = "compare"
    /\ ~Accepts(code, held[r])
    /\ IF channel = "otp"
       THEN guesses' = guesses + 1 /\ Hold(r, "count", NoCode)
       ELSE Done(r) /\ UNCHANGED guesses
    /\ UNCHANGED <<keys, sent, uses, faults>>

CountFailure(r) ==
    /\ pc[r] = "count"
    /\ failed' = Incr(failed)
    /\ IF failed'.count = 1 THEN Go(r, "penalty") ELSE Done(r)
    /\ UNCHANGED <<code, cooldown, resend, token, history>>

ExpireFailed(r) ==
    /\ pc[r] = "penalty"
    /\ failed' = Expire(failed)
    /\ Done(r)
    /\ UNCHANGED <<code, cooldown, resend, token, history>>

DropToken(r) ==
    /\ pc[r] = "oldToken"
    /\ token' = NoCode
    /\ Go(r, "newToken")
    /\ UNCHANGED <<code, cooldown, resend, failed, history>>

StoreToken(r) ==
    /\ pc[r] = "newToken"
    /\ token' = held[r]
    /\ Hold(r, "cleanup", NoCode)
    /\ UNCHANGED <<code, cooldown, resend, failed, history>>

(* cleanupAll deletes the channel's keys; `gone` are those that take effect.   *)
CleanupAll(gone) ==
    /\ code' = IF "code" \in gone THEN NoCode ELSE code
    /\ cooldown' = (cooldown /\ "cooldown" \notin gone)
    /\ resend' = IF "resend" \in gone THEN Missing ELSE resend
    /\ sent' = IF "resend" \in gone THEN 0 ELSE sent
    /\ failed' = IF "failed" \in gone THEN Missing ELSE failed
    /\ guesses' = IF "failed" \in gone THEN 0 ELSE guesses

KeysOf(ch) == {"code", "cooldown", "resend"} \cup IF ch = "otp" THEN {"failed"} ELSE {}

Cleanup(r) ==
    /\ pc[r] = "cleanup"
    /\ CleanupAll(KeysOf(channel))
    /\ Done(r)
    /\ UNCHANGED <<token, uses, faults>>

-------------------------------------------------------------------------------
(* resetPassword.                                                              *)

(* The token guard reads the token but does not take it.                       *)
PresentToken(r, t) ==
    /\ pc[r] = "idle"
    /\ Accepts(token, t)
    /\ Hold(r, "update", t)
    /\ UNCHANGED <<keys, history>>

UpdatePassword(r) ==
    /\ pc[r] = "update"
    /\ uses' = [uses EXCEPT ![held[r]] = @ + 1]
    /\ Go(r, "forget")
    /\ UNCHANGED <<keys, guesses, sent, faults>>

(* Defect: the token is left to expire.                                        *)
KeepToken(r) ==
    /\ pc[r] = "forget"
    /\ Done(r)
    /\ UNCHANGED <<keys, history>>

ClearToken(r) ==
    /\ pc[r] = "forget"
    /\ token' = NoCode
    /\ Done(r)
    /\ UNCHANGED <<code, cooldown, resend, failed, history>>

-------------------------------------------------------------------------------
(* Errors, crashes and time.                                                   *)

Fault == faults < MaxFaults /\ faults' = faults + 1

(* withRetry starts over, and gives up after MaxTries.                         *)
TryAgain(r, from) ==
    IF tries[r] + 1 = MaxTries
    THEN Done(r)
    ELSE /\ pc' = [pc EXCEPT ![r] = from]
         /\ tries' = [tries EXCEPT ![r] = @ + 1]
         /\ UNCHANGED <<channel, held>>

LimitsFail(r) ==
    /\ \/ /\ pc[r] = "limits"
          /\ \E done \in SUBSET Limits : SetRateLimits(done)
       \/ /\ pc[r] = "window"
          /\ resend' \in {resend, Expire(resend)}
          /\ UNCHANGED cooldown
    /\ TryAgain(r, "limits")
    /\ Fault
    /\ UNCHANGED <<code, failed, token, guesses, sent, uses>>

CleanupFails(r) ==
    /\ pc[r] = "cleanup"
    /\ \E gone \in SUBSET KeysOf(channel) : CleanupAll(gone)
    /\ TryAgain(r, "cleanup")
    /\ Fault
    /\ UNCHANGED <<token, uses>>

(* An error in an awaited call ends the request where it waits.                *)
Abort(r) ==
    /\ pc[r] \in Waits \ {"idle", "limits", "window", "cleanup"}
    /\ Done(r)
    /\ Fault
    /\ UNCHANGED <<keys, guesses, sent, uses>>

Crash ==
    /\ pc' = [r \in Requests |-> "idle"]
    /\ held' = [r \in Requests |-> NoCode]
    /\ tries' = [r \in Requests |-> 0]
    /\ Fault
    /\ UNCHANGED <<channel, keys, guesses, sent, uses>>

CodeExpires ==
    /\ code' = NoCode
    /\ UNCHANGED <<channel, cooldown, resend, failed, token, pc, held, tries, history>>

CooldownExpires ==
    /\ cooldown' = FALSE
    /\ UNCHANGED <<channel, code, resend, failed, token, pc, held, tries, history>>

ResendExpires ==
    /\ resend.expires
    /\ resend' = Missing
    /\ sent' = 0
    /\ UNCHANGED <<channel, code, cooldown, failed, token, pc, held, tries,
                   guesses, uses, faults>>

FailedExpires ==
    /\ failed.expires
    /\ failed' = Missing
    /\ guesses' = 0
    /\ UNCHANGED <<channel, code, cooldown, resend, token, pc, held, tries,
                   sent, uses, faults>>

TokenExpires ==
    /\ token' = NoCode
    /\ UNCHANGED <<channel, code, cooldown, resend, failed, pc, held, tries, history>>

-------------------------------------------------------------------------------
Next ==
    \/ \E r \in Requests :
        \/ RequestMail(r)
        \/ \E c \in Codes \cup {Wrong} : Present(r, c)
        \/ CheckResendLimit(r) \/ ClearCode(r) \/ StoreHashed(r)
        \/ ApplyLimits(r) \/ ExpireResend(r)
        \/ CompareRight(r) \/ CompareWrong(r)
        \/ CountFailure(r) \/ ExpireFailed(r)
        \/ DropToken(r) \/ StoreToken(r) \/ Cleanup(r)
        \/ \E t \in Tokens : PresentToken(r, t)
        \/ UpdatePassword(r) \/ ClearToken(r)
        \/ LimitsFail(r) \/ CleanupFails(r) \/ Abort(r)
    \/ Crash
    \/ CodeExpires \/ CooldownExpires \/ ResendExpires
    \/ FailedExpires \/ TokenExpires

Spec == Init /\ [][Next]_vars
-------------------------------------------------------------------------------
(* Properties.                                                                 *)

Others == Cardinality(Requests) - 1

(* A fault may lose what every request in flight was about to count.           *)
Lost == faults * Cardinality(Requests)

(* Wrong codes compared in one counting window exceed the limit only by the    *)
(* requests that had passed the guard already and those whose count a fault    *)
(* lost.                                                                       *)
GuessesBounded ==
    guesses <= MaxFailed + Others + Lost

(* Mails in one resend window, likewise: the counter is only raised by what a  *)
(* send leaves behind.                                                         *)
MailsBounded ==
    sent <= MaxResend + Others + Lost

(* A counter without an expiry is about to get one.                            *)
CountersWillExpire ==
    faults = 0 =>
        /\ failed.count > 0 /\ ~failed.expires
               => \E r \in Requests : pc[r] = "penalty"
        /\ resend.count > 0 /\ ~resend.expires
               => \E r \in Requests : pc[r] = "window"

(* The keys are well formed, and the counters among them will expire.          *)
ExpiryInv == TypeOK /\ CountersWillExpire

(* A reset token that has set a password and is still accepted is about to be  *)
(* deleted, unless something failed in between.                                *)
UsedTokenIsForgotten ==
    faults = 0 =>
        \A t \in Tokens : uses[t] > 0 /\ token = t
            => \E r \in Requests : pc[r] = "forget" /\ held[r] = t

(* Swagger, reset token: "One-time use (deleted after successful reset)".      *)
ResetTokenOnce ==
    \A t \in Tokens : uses[t] <= 1
===============================================================================
