-------------------------- MODULE ForgotPasswordProofs -------------------------
(* Proofs about the forgotten password, for any finite number of requests, any *)
(* limits and any number of faults.                                            *)
EXTENDS ForgotPassword, SlotCounts, FiniteSetTheorems, TLAPS

(* Past the lockout guard, with a code or link that is not compared yet, and   *)
(* with a wrong code that is not counted yet.                                  *)
Admitted == {"compare"}
Counting == {"count"}

(* Only wrong codes are limited: a link is 64 random bytes.                    *)
GuessInv ==
    IF channel = "otp"
    THEN CountsLater(guesses, failed.count, MaxFailed, pc, Admitted, Counting, Lost)
    ELSE guesses = 0

(* Past the guard that limits mails, and with a mail that is not counted yet.  *)
Mailing == {"clear", "store"}
Owing   == {"limits"}

MailInv ==
    CountsLater(sent, resend.count, MaxResend, pc, Mailing, Owing, Lost)

(* Verified, with a reset token that is not stored yet ...                     *)
Making == {"oldToken", "newToken"}

(* ... and past the guard that verifies a reset token.                         *)
Bearing == {"update", "forget"}

(* Whoever stores a code or a token has generated one.                         *)
HeldOK ==
    /\ \A r \in Requests : pc[r] = "store" => held[r] \in Codes
    /\ \A r \in Requests : pc[r] \in Making \cup Bearing => held[r] \in Tokens

(* A token that is still to be stored is nobody else's and has set nothing.    *)
FreshInv ==
    \A r \in Requests : pc[r] \in Making =>
        /\ held[r] # token /\ uses[held[r]] = 0
        /\ \A s \in Requests :
               s # r /\ pc[s] \in Making \cup Bearing => held[s] # held[r]

Bearers == [r \in Requests |-> <<pc[r], held[r]>>]

(* Bears t to set a password with it, or to delete it.                         *)
Updating(t)   == {<<"update", t>>}
Forgetting(t) == {<<"forget", t>>}

(* While a token is stored, what counts is how often it may still be deleted.  *)
Spent(t) == IF token = t THEN 0 ELSE uses[t]

(* Presenting a token, using and deleting it is checked first and counted      *)
(* later: its first use should have been the last.                             *)
ReuseInv ==
    \A t \in Tokens :
        CountsLater(uses[t], Spent(t), 1, Bearers, Updating(t), Forgetting(t), Lost)

LimitInv == TypeOK /\ HeldOK /\ GuessInv /\ MailInv /\ FreshInv /\ ReuseInv

(* A reset token sets no more passwords than there are slots, and as faults    *)
(* lost deletions.                                                             *)
TokenUsesBounded ==
    \A t \in Tokens : uses[t] <= Cardinality(Requests) + Lost

-------------------------------------------------------------------------------
(* Types.                                                                      *)

Secrets == Codes \cup Tokens \cup {Wrong, NoCode}

(* The part of TypeOK about requests, and the part about keys and history.     *)
SlotsOK ==
    /\ channel \in {"otp", "link"}
    /\ pc \in [Requests -> Waits]
    /\ held \in [Requests -> Secrets]
    /\ tries \in [Requests -> 0..(MaxTries - 1)]

KeysOK ==
    /\ code \in Codes \cup {NoCode} /\ cooldown \in BOOLEAN
    /\ resend \in Counters /\ failed \in Counters
    /\ token \in Tokens \cup {NoCode}
    /\ guesses \in Nat /\ sent \in Nat /\ faults \in Nat
    /\ uses \in [Tokens -> Nat]

LEMMA TypeParts ==
    /\ TypeOK <=> SlotsOK /\ KeysOK
    /\ TypeOK' <=> SlotsOK' /\ KeysOK'
BY DEF TypeOK, SlotsOK, KeysOK, Secrets

LEMMA NewCounters ==
    ASSUME KeysOK
    PROVE  /\ Missing \in Counters
           /\ Incr(failed) \in Counters /\ Expire(failed) \in Counters
           /\ Incr(resend) \in Counters /\ Expire(resend) \in Counters
BY DEF KeysOK, Counters, Missing, Incr, Expire

(* What SetRateLimits and CleanupAll leave are keys.                           *)
LEMMA KeysStayTyped ==
    ASSUME KeysOK, NEW S
    PROVE  /\ SetRateLimits(S) => cooldown' \in BOOLEAN /\ resend' \in Counters
           /\ CleanupAll(S) =>
                /\ code' \in Codes \cup {NoCode} /\ cooldown' \in BOOLEAN
                /\ failed' \in Counters /\ resend' \in Counters
                /\ guesses' \in Nat /\ sent' \in Nat
<1>1. SetRateLimits(S) \/ CleanupAll(S) => cooldown' \in BOOLEAN
    BY Zenon DEF SetRateLimits, CleanupAll
<1> QED
    BY <1>1, NewCounters DEF SetRateLimits, CleanupAll, KeysOK

(* Where requests wait, and what they hold, stays typed.                       *)
LEMMA SlotsStayTyped ==
    ASSUME SlotsOK, NEW r \in Requests
    PROVE  /\ \A to \in Waits, c \in Secrets : Hold(r, to, c) => SlotsOK'
           /\ \A to \in Waits : Go(r, to) => SlotsOK'
           /\ Done(r) => SlotsOK'
           /\ \A from \in Waits : TryAgain(r, from) => SlotsOK'
<1>1. /\ 0 \in 0..(MaxTries - 1) /\ MaxTries \in Nat \ {0}
      /\ "idle" \in Waits /\ NoCode \in Secrets
    BY ResetLimits DEF Waits, Secrets
<1>2. \A to \in Waits, c \in Secrets : Hold(r, to, c) => SlotsOK'
    BY DEF SlotsOK, Hold
<1>3. Done(r) => SlotsOK'
    BY <1>1 DEF SlotsOK, Done
<1>4. held[r] \in Secrets
    BY DEF SlotsOK
<1>5. ASSUME NEW from \in Waits, TryAgain(r, from), tries[r] + 1 # MaxTries PROVE SlotsOK'
  <2>1. tries[r] + 1 \in 0..(MaxTries - 1)
      BY <1>1, <1>5 DEF SlotsOK
  <2> QED
      BY <1>5, <2>1 DEF TryAgain, SlotsOK
<1>6. \A from \in Waits : TryAgain(r, from) => SlotsOK'
    BY <1>3, <1>5 DEF TryAgain
<1> QED
    BY <1>2, <1>3, <1>4, <1>6 DEF Go

LEMMA NextStaysTyped ==
    ASSUME TypeOK, HeldOK, [Next]_vars
    PROVE  TypeOK'
<1>0. SlotsOK /\ KeysOK
    BY TypeParts
<1> USE DEF Waits
<1>1. CASE UNCHANGED vars
    BY <1>1 DEF vars, keys, history, TypeOK
<1>2. ASSUME NEW r \in Requests, RequestMail(r) \/ CheckResendLimit(r) PROVE TypeOK'
    BY <1>0, <1>2, SlotsStayTyped, TypeParts
       DEF RequestMail, CheckResendLimit, KeysOK, keys, history
<1>3. ASSUME NEW r \in Requests, NEW c \in Codes \cup {Wrong}, Present(r, c) PROVE TypeOK'
  <2>1. c \in Secrets
      BY DEF Secrets
  <2> QED
      BY <1>0, <1>3, <2>1, SlotsStayTyped, TypeParts DEF Present, KeysOK, keys, history
<1>4. ASSUME NEW r \in Requests, ClearCode(r) PROVE TypeOK'
  <2>1. Codes \subseteq Secrets
      BY DEF Secrets
  <2> QED
      BY <1>0, <1>4, <2>1, SlotsStayTyped, TypeParts DEF ClearCode, KeysOK, history
<1>5. ASSUME NEW r \in Requests, StoreHashed(r) PROVE TypeOK'
  <2>1. NoCode \in Secrets /\ held[r] \in Codes
      BY <1>5 DEF Secrets, StoreHashed, HeldOK
  <2> QED
      BY <1>0, <1>5, <2>1, SlotsStayTyped, TypeParts DEF StoreHashed, KeysOK
<1>6. ASSUME NEW r \in Requests, ApplyLimits(r) PROVE TypeOK'
    BY <1>0, <1>6, SlotsStayTyped, KeysStayTyped, TypeParts DEF ApplyLimits, KeysOK, history
<1>7. ASSUME NEW r \in Requests, ExpireResend(r) \/ ExpireFailed(r) PROVE TypeOK'
    BY <1>0, <1>7, SlotsStayTyped, NewCounters, TypeParts
       DEF ExpireResend, ExpireFailed, KeysOK, history
<1>8. ASSUME NEW r \in Requests, CompareRight(r) PROVE TypeOK'
  <2>1. PICK t \in Tokens : Hold(r, "oldToken", t) /\ uses' = [uses EXCEPT ![t] = 0]
      BY <1>8 DEF CompareRight
  <2>2. t \in Secrets
      BY DEF Secrets
  <2> QED
      BY <1>0, <1>8, <2>1, <2>2, SlotsStayTyped, TypeParts DEF CompareRight, KeysOK, keys
<1>9. ASSUME NEW r \in Requests, CompareWrong(r) PROVE TypeOK'
  <2>1. NoCode \in Secrets
      BY DEF Secrets
  <2> QED
      BY <1>0, <1>9, <2>1, SlotsStayTyped, TypeParts DEF CompareWrong, KeysOK, keys
<1>10. ASSUME NEW r \in Requests, CountFailure(r) PROVE TypeOK'
    BY <1>0, <1>10, SlotsStayTyped, NewCounters, TypeParts DEF CountFailure, KeysOK, history
<1>11. ASSUME NEW r \in Requests, DropToken(r) \/ ClearToken(r) PROVE TypeOK'
    BY <1>0, <1>11, SlotsStayTyped, TypeParts DEF DropToken, ClearToken, KeysOK, history
<1>12. ASSUME NEW r \in Requests, StoreToken(r) PROVE TypeOK'
  <2>1. NoCode \in Secrets /\ held[r] \in Tokens
      BY <1>12 DEF Secrets, StoreToken, HeldOK, Making
  <2> QED
      BY <1>0, <1>12, <2>1, SlotsStayTyped, TypeParts DEF StoreToken, KeysOK, history
<1>13. ASSUME NEW r \in Requests, Cleanup(r) PROVE TypeOK'
    BY <1>0, <1>13, SlotsStayTyped, KeysStayTyped, TypeParts DEF Cleanup, KeysOK
<1>14. ASSUME NEW r \in Requests, NEW t \in Tokens, PresentToken(r, t) PROVE TypeOK'
  <2>1. t \in Secrets
      BY DEF Secrets
  <2> QED
      BY <1>0, <1>14, <2>1, SlotsStayTyped, TypeParts DEF PresentToken, KeysOK, keys, history
<1>15. ASSUME NEW r \in Requests, UpdatePassword(r) PROVE TypeOK'
  <2>1. uses' \in [Tokens -> Nat]
    <3>1. /\ uses \in [Tokens -> Nat]
          /\ \A t \in Tokens : uses[t] + 1 \in Nat
          /\ uses' = [uses EXCEPT ![held[r]] = uses[held[r]] + 1]
        BY <1>0, <1>15 DEF UpdatePassword, KeysOK
    <3> QED
        BY <3>1
  <2> QED
      BY <1>0, <1>15, <2>1, SlotsStayTyped, TypeParts DEF UpdatePassword, KeysOK, keys
<1>16. ASSUME NEW r \in Requests, LimitsFail(r) PROVE TypeOK'
  <2>1. cooldown' \in BOOLEAN /\ resend' \in Counters
      BY <1>0, <1>16, KeysStayTyped, NewCounters DEF LimitsFail, KeysOK
  <2> QED
      BY <1>0, <1>16, <2>1, SlotsStayTyped, TypeParts DEF LimitsFail, KeysOK, Fault
<1>17. ASSUME NEW r \in Requests, CleanupFails(r) PROVE TypeOK'
    BY <1>0, <1>17, SlotsStayTyped, KeysStayTyped, TypeParts DEF CleanupFails, KeysOK, Fault
<1>18. ASSUME NEW r \in Requests, Abort(r) PROVE TypeOK'
    BY <1>0, <1>18, SlotsStayTyped, TypeParts DEF Abort, KeysOK, keys, Fault
<1>19. CASE Crash
  <2>1. SlotsOK'
      BY <1>0, <1>19, ResetLimits DEF Crash, SlotsOK, Secrets
  <2> QED
      BY <1>0, <1>19, <2>1, TypeParts DEF Crash, KeysOK, keys, Fault
<1>20. CASE CodeExpires \/ CooldownExpires \/ ResendExpires \/ FailedExpires \/ TokenExpires
  <2>1. SlotsOK'
      BY <1>0, <1>20
         DEF CodeExpires, CooldownExpires, ResendExpires, FailedExpires, TokenExpires, SlotsOK
  <2>2. cooldown' \in BOOLEAN
      BY <1>0, <1>20, Zenon
         DEF CodeExpires, CooldownExpires, ResendExpires, FailedExpires, TokenExpires, KeysOK
  <2> QED
      BY <1>0, <1>20, <2>1, <2>2, NewCounters, TypeParts
         DEF CodeExpires, CooldownExpires, ResendExpires, FailedExpires, TokenExpires,
             KeysOK, history
<1> QED
    BY <1>1, <1>2, <1>3, <1>4, <1>5, <1>6, <1>7, <1>8, <1>9, <1>10, <1>11, <1>12, <1>13,
       <1>14, <1>15, <1>16, <1>17, <1>18, <1>19, <1>20 DEF Next

-------------------------------------------------------------------------------
(* Codes and tokens in the hands of requests.                                  *)

LEMMA HeldStays ==
    ASSUME TypeOK, HeldOK, [Next]_vars
    PROVE  HeldOK'
<1> USE DEF HeldOK, Hold, Go, Done, TryAgain, Making, Bearing
<1>0. pc \in [Requests -> Waits] /\ held \in [Requests -> Secrets]
    BY DEF TypeOK, Secrets
<1>1. CASE UNCHANGED vars
    BY <1>1 DEF vars
<1>2. ASSUME NEW r \in Requests, RequestMail(r) \/ CheckResendLimit(r) PROVE HeldOK'
    BY <1>0, <1>2 DEF RequestMail, CheckResendLimit
<1>3. ASSUME NEW r \in Requests, NEW c \in Codes \cup {Wrong}, Present(r, c) PROVE HeldOK'
    BY <1>0, <1>3 DEF Present
<1>4. ASSUME NEW r \in Requests, ClearCode(r) PROVE HeldOK'
    BY <1>0, <1>4 DEF ClearCode
<1>5. ASSUME NEW r \in Requests, StoreHashed(r) \/ ApplyLimits(r) PROVE HeldOK'
    BY <1>0, <1>5 DEF StoreHashed, ApplyLimits
<1>6. ASSUME NEW r \in Requests, ExpireResend(r) \/ ExpireFailed(r) PROVE HeldOK'
    BY <1>0, <1>6 DEF ExpireResend, ExpireFailed
<1>7. ASSUME NEW r \in Requests, CompareRight(r) PROVE HeldOK'
    BY <1>0, <1>7 DEF CompareRight
<1>8. ASSUME NEW r \in Requests, CompareWrong(r) \/ CountFailure(r) PROVE HeldOK'
    BY <1>0, <1>8 DEF CompareWrong, CountFailure
<1>9. ASSUME NEW r \in Requests, DropToken(r) \/ StoreToken(r) PROVE HeldOK'
    BY <1>0, <1>9 DEF DropToken, StoreToken
<1>10. ASSUME NEW r \in Requests, Cleanup(r) \/ ClearToken(r) PROVE HeldOK'
    BY <1>0, <1>10 DEF Cleanup, ClearToken
<1>11. ASSUME NEW r \in Requests, NEW t \in Tokens, PresentToken(r, t) PROVE HeldOK'
    BY <1>0, <1>11 DEF PresentToken
<1>12. ASSUME NEW r \in Requests, UpdatePassword(r) \/ Abort(r) PROVE HeldOK'
    BY <1>0, <1>12 DEF UpdatePassword, Abort
<1>13. ASSUME NEW r \in Requests, LimitsFail(r) \/ CleanupFails(r) PROVE HeldOK'
    BY <1>0, <1>13 DEF LimitsFail, CleanupFails
<1>14. CASE Crash
    BY <1>0, <1>14 DEF Crash
<1>15. CASE CodeExpires \/ CooldownExpires \/ ResendExpires \/ FailedExpires \/ TokenExpires
    BY <1>0, <1>15
       DEF CodeExpires, CooldownExpires, ResendExpires, FailedExpires, TokenExpires
<1> QED
  <2> HIDE DEF HeldOK, Hold, Go, Done, TryAgain
  <2> QED
      BY <1>1, <1>2, <1>3, <1>4, <1>5, <1>6, <1>7, <1>8, <1>9, <1>10, <1>11, <1>12, <1>13,
         <1>14, <1>15 DEF Next

(* A token in the making is disturbed by storing another, by using it, and by  *)
(* making the same: none of these happens.                                     *)
LEMMA FreshStays ==
    ASSUME TypeOK, HeldOK, FreshInv, [Next]_vars
    PROVE  FreshInv'
<1> DEFINE Quiet ==
      /\ uses' = uses /\ token' \in {token, NoCode}
      /\ \A q \in Requests :
            /\ pc'[q] \in Making => pc[q] \in Making
            /\ pc'[q] \in Making \cup Bearing =>
                 pc[q] \in Making \cup Bearing /\ held'[q] = held[q]
<1>0. /\ pc \in [Requests -> Waits] /\ held \in [Requests -> Secrets]
      /\ uses \in [Tokens -> Nat] /\ NoCode \notin Tokens
    BY NoCodeIsNoSecret DEF TypeOK, Secrets
<1>1. ASSUME Quiet PROVE FreshInv'
  <2> SUFFICES ASSUME NEW r \in Requests, pc'[r] \in Making
               PROVE  /\ held'[r] # token' /\ uses'[held'[r]] = 0
                      /\ \A s \in Requests : s # r /\ pc'[s] \in Making \cup Bearing
                            => held'[s] # held'[r]
      BY DEF FreshInv
  <2>1. pc[r] \in Making /\ held'[r] = held[r] /\ held[r] \in Tokens
      BY <1>1 DEF HeldOK, Making, Bearing
  <2> QED
      BY <1>0, <1>1, <2>1 DEF FreshInv
<1> USE DEF Hold, Go, Done, TryAgain, Making, Bearing
<1>2. CASE UNCHANGED vars
  <2>1. Quiet
      BY <1>2 DEF vars, keys, history
  <2> QED
      BY <1>1, <2>1
<1>3. ASSUME NEW r \in Requests, RequestMail(r) \/ CheckResendLimit(r) PROVE Quiet
    BY <1>0, <1>3 DEF RequestMail, CheckResendLimit, keys, history
<1>4. ASSUME NEW r \in Requests, NEW c \in Codes \cup {Wrong}, Present(r, c) PROVE Quiet
    BY <1>0, <1>4 DEF Present, keys, history
<1>5. ASSUME NEW r \in Requests, ClearCode(r) PROVE Quiet
    BY <1>0, <1>5 DEF ClearCode, history
<1>6. ASSUME NEW r \in Requests, StoreHashed(r) \/ ApplyLimits(r) PROVE Quiet
    BY <1>0, <1>6 DEF StoreHashed, ApplyLimits, history
<1>7. ASSUME NEW r \in Requests, ExpireResend(r) \/ ExpireFailed(r) PROVE Quiet
    BY <1>0, <1>7 DEF ExpireResend, ExpireFailed, history
<1>8. ASSUME NEW r \in Requests, CompareWrong(r) \/ CountFailure(r) PROVE Quiet
    BY <1>0, <1>8 DEF CompareWrong, CountFailure, keys, history
<1>9. ASSUME NEW r \in Requests, DropToken(r) \/ ClearToken(r) PROVE Quiet
    BY <1>0, <1>9 DEF DropToken, ClearToken, history
<1>10. ASSUME NEW r \in Requests, Cleanup(r) \/ Abort(r) PROVE Quiet
    BY <1>0, <1>10 DEF Cleanup, Abort, keys
<1>11. ASSUME NEW r \in Requests, LimitsFail(r) \/ CleanupFails(r) PROVE Quiet
    BY <1>0, <1>11 DEF LimitsFail, CleanupFails
<1>12. ASSUME Crash PROVE Quiet
    BY <1>0, <1>12 DEF Crash, keys
<1>13. ASSUME CodeExpires \/ CooldownExpires \/ ResendExpires \/ FailedExpires \/ TokenExpires
       PROVE  Quiet
    BY <1>13 DEF CodeExpires, CooldownExpires, ResendExpires, FailedExpires, TokenExpires, history
<1>14. ASSUME NEW r \in Requests, CompareRight(r) PROVE FreshInv'
  <2>1. PICK t \in Tokens :
            /\ t # token /\ \A s \in Requests : held[s] # t
            /\ Hold(r, "oldToken", t)
            /\ uses' = [uses EXCEPT ![t] = 0]
      BY <1>14 DEF CompareRight
  <2>2. token' = token
      BY <1>14 DEF CompareRight, keys
  <2> QED
      BY <1>0, <2>1, <2>2 DEF FreshInv, HeldOK
<1>15. ASSUME NEW r \in Requests, StoreToken(r) PROVE FreshInv'
    BY <1>0, <1>15 DEF StoreToken, FreshInv, HeldOK, history
<1>16. ASSUME NEW r \in Requests, NEW t \in Tokens, PresentToken(r, t) PROVE FreshInv'
    BY <1>0, <1>16 DEF PresentToken, FreshInv, HeldOK, Accepts, keys, history
<1>17. ASSUME NEW r \in Requests, UpdatePassword(r) PROVE FreshInv'
    BY <1>0, <1>17 DEF UpdatePassword, FreshInv, HeldOK, keys
<1> QED
  <2> HIDE DEF Quiet, Hold, Go, Done, TryAgain
  <2> QED
      BY <1>1, <1>2, <1>3, <1>4, <1>5, <1>6, <1>7, <1>8, <1>9, <1>10, <1>11, <1>12, <1>13,
         <1>14, <1>15, <1>16, <1>17 DEF Next

-------------------------------------------------------------------------------
(* Wrong codes, and mails.                                                     *)

LEMMA ChannelAndFaults ==
    ASSUME [Next]_vars
    PROVE  channel' = channel /\ faults' \in {faults, faults + 1}
<1> USE DEF Hold, Go, Done, TryAgain, Fault
<1>1. CASE UNCHANGED vars
    BY <1>1 DEF vars, history
<1>2. CASE Next
    BY <1>2 DEF Next, history, RequestMail, Present, CheckResendLimit, ClearCode, StoreHashed,
       ApplyLimits, ExpireResend, CompareRight, CompareWrong, CountFailure, ExpireFailed,
       DropToken, StoreToken, Cleanup, PresentToken, UpdatePassword, ClearToken, LimitsFail,
       CleanupFails, Abort, Crash, CodeExpires, CooldownExpires, ResendExpires,
       FailedExpires, TokenExpires
<1> QED
    BY <1>1, <1>2

(* The numbers in the bounds, before and after a step.                         *)
LEMMA Numbers ==
    ASSUME TypeOK, TypeOK', faults' \in {faults, faults + 1}
    PROVE  /\ pc \in [Requests -> Waits] /\ pc' \in [Requests -> Waits]
           /\ guesses \in Nat /\ guesses' \in Nat /\ sent \in Nat /\ sent' \in Nat
           /\ failed.count \in Nat /\ failed'.count \in Nat
           /\ resend.count \in Nat /\ resend'.count \in Nat
           /\ MaxFailed \in Nat \ {0} /\ MaxResend \in Nat \ {0}
           /\ Lost \in Nat /\ Lost' \in {Lost, Lost + Cardinality(Requests)}
           /\ faults' = faults => Lost' = Lost
           /\ faults' = faults + 1 => Lost' = Lost + Cardinality(Requests)
<1>1. Cardinality(Requests) \in Nat /\ faults \in Nat
    BY RequestsAreFinite, FS_CardinalityType DEF TypeOK
<1>2. /\ Lost \in Nat
      /\ faults' = faults => Lost' = Lost
      /\ faults' = faults + 1 => Lost' = Lost + Cardinality(Requests)
    BY <1>1, LossGrows DEF Lost
<1>3. /\ pc \in [Requests -> Waits] /\ pc' \in [Requests -> Waits]
      /\ guesses \in Nat /\ guesses' \in Nat /\ sent \in Nat /\ sent' \in Nat
      /\ failed \in Counters /\ failed' \in Counters
      /\ resend \in Counters /\ resend' \in Counters
    BY DEF TypeOK
<1> QED
    BY <1>2, <1>3, ResetLimits DEF Counters

(* A step that compares nothing keeps the bound when it lets nobody past the   *)
(* lockout guard and nobody leaves without counting, unless by a fault.        *)
LEMMA GuessesQuiet ==
    ASSUME TypeOK, TypeOK', GuessInv, channel' = channel, faults' \in {faults, faults + 1},
           \/ guesses' = 0
           \/ /\ guesses' = guesses /\ failed'.count >= failed.count
              /\ channel = "otp" => At(pc', Admitted) \subseteq At(pc, Admitted)
              /\ At(pc, Counting) \subseteq At(pc', Counting) \/ faults' = faults + 1
    PROVE  GuessInv'
<1>1. CASE channel = "otp"
  <2>1. CountsLater(guesses, failed.count, MaxFailed, pc, Admitted, Counting, Lost)
      BY <1>1 DEF GuessInv
  <2>2. /\ pc \in [Requests -> Waits] /\ pc' \in [Requests -> Waits]
        /\ guesses \in Nat /\ guesses' \in Nat /\ MaxFailed \in Nat \ {0}
        /\ failed.count \in Nat /\ failed'.count \in Nat
        /\ Lost \in Nat /\ Lost' \in {Lost, Lost + Cardinality(Requests)}
      BY Numbers
  <2>3. CASE guesses' = 0
    <3>1. CountsLater(0, failed'.count, MaxFailed, pc', Admitted, Counting, Lost')
      <4>1. Lost' \in Nat
          BY <2>2, RequestsAreFinite, FS_CardinalityType
      <4> QED
          BY <2>2, <4>1, RequestsAreFinite, NoneDone
    <3> QED
        BY <1>1, <2>3, <3>1 DEF GuessInv
  <2>4. ASSUME guesses' = guesses, failed'.count >= failed.count,
               At(pc', Admitted) \subseteq At(pc, Admitted),
               At(pc, Counting) \subseteq At(pc', Counting) \/ faults' = faults + 1
        PROVE  GuessInv'
    <3>1. CASE faults' = faults + 1
      <4>1. CountsLater(guesses, failed'.count, MaxFailed, pc', Admitted, Counting,
                        Lost + Cardinality(Requests))
          BY <2>1, <2>2, <2>4, RequestsAreFinite, CountsLost
      <4> QED
          BY <1>1, <2>4, <3>1, <4>1, Numbers DEF GuessInv
    <3>2. CASE faults' = faults /\ At(pc, Counting) \subseteq At(pc', Counting)
      <4>1. CountsLater(guesses, failed'.count, MaxFailed, pc', Admitted, Counting, Lost)
          BY <2>1, <2>2, <2>4, <3>2, RequestsAreFinite, NothingDone
      <4> QED
          BY <1>1, <2>4, <3>2, <4>1, Numbers DEF GuessInv
    <3> QED
        BY <2>4, <3>1, <3>2
  <2> QED
      BY <1>1, <2>3, <2>4
<1>2. CASE channel # "otp"
    BY <1>2 DEF GuessInv
<1> QED
    BY <1>1, <1>2

LEMMA GuessesKeep ==
    ASSUME TypeOK, TypeOK', GuessInv, [Next]_vars
    PROVE  GuessInv'
<1> DEFINE Quiet ==
      \/ guesses' = 0
      \/ /\ guesses' = guesses /\ failed'.count >= failed.count
         /\ channel = "otp" => At(pc', Admitted) \subseteq At(pc, Admitted)
         /\ At(pc, Counting) \subseteq At(pc', Counting) \/ faults' = faults + 1
<1>0. /\ pc \in [Requests -> Waits]
      /\ failed.count \in Nat /\ failed.count >= failed.count
      /\ Expire(failed).count = failed.count
    BY DEF TypeOK, Counters, Expire
<1>1. /\ channel' = channel /\ faults' \in {faults, faults + 1}
      /\ pc' \in [Requests -> Waits]
      /\ guesses \in Nat /\ MaxFailed \in Nat \ {0} /\ Lost \in Nat
      /\ faults' = faults => Lost' = Lost
    BY ChannelAndFaults, Numbers
<1>2. Quiet => GuessInv'
    BY <1>1, GuessesQuiet
<1> USE DEF At, Admitted, Counting, Hold, Go, Done, TryAgain
<1>3. CASE UNCHANGED vars
  <2>1. Quiet
      BY <1>0, <1>3 DEF vars, keys, history
  <2> QED
      BY <1>2, <2>1
<1>4. ASSUME NEW r \in Requests, RequestMail(r) \/ CheckResendLimit(r) PROVE Quiet
    BY <1>0, <1>4 DEF RequestMail, CheckResendLimit, keys, history
<1>5. ASSUME NEW r \in Requests, ClearCode(r) \/ StoreHashed(r) PROVE Quiet
    BY <1>0, <1>5 DEF ClearCode, StoreHashed, history
<1>6. ASSUME NEW r \in Requests, ApplyLimits(r) \/ ExpireResend(r) PROVE Quiet
    BY <1>0, <1>6 DEF ApplyLimits, ExpireResend, history
<1>7. ASSUME NEW r \in Requests, CompareRight(r) \/ ExpireFailed(r) PROVE Quiet
    BY <1>0, <1>7 DEF CompareRight, ExpireFailed, keys, history
<1>8. ASSUME NEW r \in Requests, DropToken(r) \/ StoreToken(r) PROVE Quiet
    BY <1>0, <1>8 DEF DropToken, StoreToken, history
<1>9. ASSUME NEW r \in Requests, Cleanup(r) PROVE Quiet
    BY <1>0, <1>9 DEF Cleanup, CleanupAll
<1>10. ASSUME NEW r \in Requests, NEW t \in Tokens, PresentToken(r, t) PROVE Quiet
    BY <1>0, <1>10 DEF PresentToken, keys, history
<1>11. ASSUME NEW r \in Requests, UpdatePassword(r) \/ ClearToken(r) PROVE Quiet
    BY <1>0, <1>11 DEF UpdatePassword, ClearToken, keys, history
<1>12. ASSUME NEW r \in Requests, LimitsFail(r) \/ Abort(r) PROVE Quiet
    BY <1>0, <1>12 DEF LimitsFail, Abort, Fault, keys
<1>13. ASSUME NEW r \in Requests, CleanupFails(r) PROVE Quiet
    BY <1>0, <1>13 DEF CleanupFails, CleanupAll, Fault
<1>14. ASSUME Crash PROVE Quiet
    BY <1>0, <1>14 DEF Crash, Fault, keys
<1>15. ASSUME CodeExpires \/ CooldownExpires \/ ResendExpires \/ FailedExpires \/ TokenExpires
       PROVE  Quiet
    BY <1>0, <1>15
       DEF CodeExpires, CooldownExpires, ResendExpires, FailedExpires, TokenExpires, history
<1> HIDE DEF At, Admitted, Counting, TryAgain
(* The lockout guard lets a code past below the limit only; links pass.        *)
<1>16. ASSUME NEW r \in Requests, NEW c \in Codes \cup {Wrong}, Present(r, c) PROVE GuessInv'
  <2>1. /\ pc[r] = "idle" /\ pc' = [pc EXCEPT ![r] = "compare"]
        /\ guesses' = guesses /\ failed' = failed /\ faults' = faults
      BY <1>16 DEF Present, keys, history
  <2>2. CASE channel = "otp"
    <3>1. CountsLater(guesses, failed.count, MaxFailed, pc, Admitted, Counting, Lost)
        BY <2>2 DEF GuessInv
    <3>2. failed.count < MaxFailed
        BY <1>0, <1>16, <2>2, ResetLimits DEF Present, LimitReached
    <3>3. /\ pc[r] \notin Admitted /\ pc[r] \notin Counting /\ pc'[r] \in Admitted
          /\ Admitted \cap Counting = {} /\ \A q \in Requests : q # r => pc'[q] = pc[q]
        BY <1>0, <2>1 DEF Admitted, Counting
    <3>4. CountsLater(guesses, failed.count, MaxFailed, pc', Admitted, Counting, Lost)
        BY <1>0, <1>1, <3>1, <3>2, <3>3, RequestsAreFinite, OneAdmitted
    <3> QED
        BY <1>1, <2>1, <2>2, <3>4 DEF GuessInv
  <2>3. CASE channel # "otp"
      BY <1>1, <2>1, <2>3 DEF GuessInv
  <2> QED
      BY <2>2, <2>3
<1>17. ASSUME NEW r \in Requests, CompareWrong(r) PROVE GuessInv'
  <2>1. /\ pc[r] = "compare" /\ failed' = failed /\ faults' = faults
        /\ channel = "otp" => guesses' = guesses + 1 /\ pc' = [pc EXCEPT ![r] = "count"]
        /\ channel # "otp" => guesses' = guesses
      BY <1>17 DEF CompareWrong, keys
  <2>2. CASE channel = "otp"
    <3>1. CountsLater(guesses, failed.count, MaxFailed, pc, Admitted, Counting, Lost)
        BY <2>2 DEF GuessInv
    <3>2. /\ pc[r] \in Admitted /\ pc[r] \notin Counting
          /\ pc'[r] \notin Admitted /\ pc'[r] \in Counting
          /\ \A q \in Requests : q # r => pc'[q] = pc[q]
        BY <1>0, <2>1, <2>2 DEF Admitted, Counting
    <3>3. CountsLater(guesses + 1, failed.count, MaxFailed, pc', Admitted, Counting, Lost)
        BY <1>0, <1>1, <3>1, <3>2, RequestsAreFinite, OneDone
    <3> QED
        BY <1>1, <2>1, <2>2, <3>3 DEF GuessInv
  <2>3. CASE channel # "otp"
      BY <1>1, <2>1, <2>3 DEF GuessInv
  <2> QED
      BY <2>2, <2>3
<1>18. ASSUME NEW r \in Requests, CountFailure(r) PROVE GuessInv'
  <2>1. /\ pc[r] = "count" /\ guesses' = guesses /\ faults' = faults
        /\ failed'.count = failed.count + 1
        /\ pc'[r] \in {"penalty", "idle"} /\ \A q \in Requests : q # r => pc'[q] = pc[q]
      BY <1>0, <1>18 DEF CountFailure, Incr, history
  <2>2. CASE channel = "otp"
    <3>1. CountsLater(guesses, failed.count, MaxFailed, pc, Admitted, Counting, Lost)
        BY <2>2 DEF GuessInv
    <3>2. pc[r] \in Counting /\ pc'[r] \notin Counting /\ pc'[r] \notin Admitted
        BY <2>1 DEF Admitted, Counting
    <3>3. CountsLater(guesses, failed.count + 1, MaxFailed, pc', Admitted, Counting, Lost)
        BY <1>0, <1>1, <2>1, <3>1, <3>2, RequestsAreFinite, OneCounted
    <3> QED
        BY <1>1, <2>1, <2>2, <3>3 DEF GuessInv
  <2>3. CASE channel # "otp"
      BY <1>1, <2>1, <2>3 DEF GuessInv
  <2> QED
      BY <2>2, <2>3
<1> QED
  <2> HIDE DEF Quiet, Hold, Go, Done
  <2> QED
      BY <1>2, <1>3, <1>4, <1>5, <1>6, <1>7, <1>8, <1>9, <1>10, <1>11, <1>12, <1>13,
         <1>14, <1>15, <1>16, <1>17, <1>18 DEF Next

(* A step that mails nothing keeps the bound when it lets nobody past the      *)
(* guard that limits mails and nobody leaves without counting, unless by a     *)
(* fault.                                                                      *)
LEMMA MailsQuiet ==
    ASSUME TypeOK, TypeOK', MailInv, faults' \in {faults, faults + 1},
           \/ sent' = 0
           \/ /\ sent' = sent /\ resend'.count >= resend.count
              /\ At(pc', Mailing) \subseteq At(pc, Mailing)
              /\ At(pc, Owing) \subseteq At(pc', Owing) \/ faults' = faults + 1
    PROVE  MailInv'
<1>1. CountsLater(sent, resend.count, MaxResend, pc, Mailing, Owing, Lost)
    BY DEF MailInv
<1>2. /\ pc \in [Requests -> Waits] /\ pc' \in [Requests -> Waits]
      /\ sent \in Nat /\ sent' \in Nat /\ MaxResend \in Nat \ {0}
      /\ resend.count \in Nat /\ resend'.count \in Nat
      /\ Lost \in Nat /\ Lost' \in {Lost, Lost + Cardinality(Requests)}
    BY Numbers
<1>3. CASE sent' = 0
  <2>1. CountsLater(0, resend'.count, MaxResend, pc', Mailing, Owing, Lost')
    <3>1. Lost' \in Nat
        BY <1>2, RequestsAreFinite, FS_CardinalityType
    <3> QED
        BY <1>2, <3>1, RequestsAreFinite, NoneDone
  <2> QED
      BY <1>3, <2>1 DEF MailInv
<1>4. ASSUME sent' = sent, resend'.count >= resend.count,
             At(pc', Mailing) \subseteq At(pc, Mailing),
             At(pc, Owing) \subseteq At(pc', Owing) \/ faults' = faults + 1
      PROVE  MailInv'
  <2>1. CASE faults' = faults + 1
    <3>1. CountsLater(sent, resend'.count, MaxResend, pc', Mailing, Owing,
                      Lost + Cardinality(Requests))
        BY <1>1, <1>2, <1>4, RequestsAreFinite, CountsLost
    <3> QED
        BY <1>4, <2>1, <3>1, Numbers DEF MailInv
  <2>2. CASE faults' = faults /\ At(pc, Owing) \subseteq At(pc', Owing)
    <3>1. CountsLater(sent, resend'.count, MaxResend, pc', Mailing, Owing, Lost)
        BY <1>1, <1>2, <1>4, <2>2, RequestsAreFinite, NothingDone
    <3> QED
        BY <1>4, <2>2, <3>1, Numbers DEF MailInv
  <2> QED
      BY <1>4, <2>1, <2>2
<1> QED
    BY <1>3, <1>4

LEMMA MailsKeep ==
    ASSUME TypeOK, TypeOK', MailInv, [Next]_vars
    PROVE  MailInv'
<1> DEFINE Quiet ==
      \/ sent' = 0
      \/ /\ sent' = sent /\ resend'.count >= resend.count
         /\ At(pc', Mailing) \subseteq At(pc, Mailing)
         /\ At(pc, Owing) \subseteq At(pc', Owing) \/ faults' = faults + 1
<1>0. /\ pc \in [Requests -> Waits]
      /\ resend.count \in Nat /\ resend.count >= resend.count
      /\ Expire(resend).count = resend.count
      /\ Incr(resend).count = resend.count + 1
    BY DEF TypeOK, Counters, Expire, Incr
<1>1. /\ faults' \in {faults, faults + 1}
      /\ pc' \in [Requests -> Waits]
      /\ sent \in Nat /\ MaxResend \in Nat \ {0} /\ Lost \in Nat
      /\ faults' = faults => Lost' = Lost
    BY ChannelAndFaults, Numbers
<1>2. Quiet => MailInv'
    BY <1>1, MailsQuiet
<1>3. CountsLater(sent, resend.count, MaxResend, pc, Mailing, Owing, Lost)
    BY DEF MailInv
<1> USE DEF At, Mailing, Owing, Hold, Go, Done, TryAgain
<1>4. CASE UNCHANGED vars
  <2>1. Quiet
      BY <1>0, <1>4 DEF vars, keys, history
  <2> QED
      BY <1>2, <2>1
<1>5. ASSUME NEW r \in Requests, RequestMail(r) \/ ClearCode(r) PROVE Quiet
    BY <1>0, <1>5 DEF RequestMail, ClearCode, keys, history
<1>6. ASSUME NEW r \in Requests, NEW c \in Codes \cup {Wrong}, Present(r, c) PROVE Quiet
    BY <1>0, <1>6 DEF Present, keys, history
<1>7. ASSUME NEW r \in Requests, ExpireResend(r) \/ ExpireFailed(r) PROVE Quiet
    BY <1>0, <1>7 DEF ExpireResend, ExpireFailed, history
<1>8. ASSUME NEW r \in Requests, CompareRight(r) \/ CompareWrong(r) PROVE Quiet
    BY <1>0, <1>8 DEF CompareRight, CompareWrong, keys
<1>9. ASSUME NEW r \in Requests, CountFailure(r) PROVE Quiet
    BY <1>0, <1>9 DEF CountFailure, history
<1>10. ASSUME NEW r \in Requests, DropToken(r) \/ StoreToken(r) PROVE Quiet
    BY <1>0, <1>10 DEF DropToken, StoreToken, history
<1>11. ASSUME NEW r \in Requests, Cleanup(r) PROVE Quiet
    BY <1>0, <1>11 DEF Cleanup, CleanupAll, KeysOf
<1>12. ASSUME NEW r \in Requests, NEW t \in Tokens, PresentToken(r, t) PROVE Quiet
    BY <1>0, <1>12 DEF PresentToken, keys, history
<1>13. ASSUME NEW r \in Requests, UpdatePassword(r) \/ ClearToken(r) PROVE Quiet
    BY <1>0, <1>13 DEF UpdatePassword, ClearToken, keys, history
<1>14. ASSUME NEW r \in Requests, LimitsFail(r) PROVE Quiet
    BY <1>0, <1>14 DEF LimitsFail, SetRateLimits, Fault
<1>15. ASSUME NEW r \in Requests, CleanupFails(r) \/ Abort(r) PROVE Quiet
    BY <1>0, <1>15 DEF CleanupFails, CleanupAll, Abort, Fault, keys
<1>16. ASSUME Crash PROVE Quiet
    BY <1>0, <1>16 DEF Crash, Fault, keys
<1>17. ASSUME CodeExpires \/ CooldownExpires \/ ResendExpires \/ FailedExpires \/ TokenExpires
       PROVE  Quiet
    BY <1>0, <1>17
       DEF CodeExpires, CooldownExpires, ResendExpires, FailedExpires, TokenExpires, history
<1> HIDE DEF At, Mailing, Owing, TryAgain
(* The guard lets a request past below the limit only.                         *)
<1>18. ASSUME NEW r \in Requests, CheckResendLimit(r) PROVE MailInv'
  <2>1. pc[r] = "resend" /\ sent' = sent /\ resend' = resend /\ faults' = faults
      BY <1>18 DEF CheckResendLimit, keys, history
  <2>2. CASE Done(r)
    <3>1. Quiet
        BY <1>0, <2>1, <2>2 DEF At, Mailing, Owing
    <3> QED
        BY <1>2, <3>1
  <2>3. CASE resend.count < MaxResend /\ Go(r, "clear")
    <3>1. /\ pc[r] \notin Mailing /\ pc[r] \notin Owing /\ pc'[r] \in Mailing
          /\ Mailing \cap Owing = {} /\ \A q \in Requests : q # r => pc'[q] = pc[q]
          /\ resend.count < MaxResend
        BY <1>0, <2>1, <2>3 DEF Mailing, Owing
    <3>2. CountsLater(sent, resend.count, MaxResend, pc', Mailing, Owing, Lost)
        BY <1>0, <1>1, <1>3, <3>1, RequestsAreFinite, OneAdmitted
    <3> QED
        BY <1>1, <2>1, <3>2 DEF MailInv
  <2> QED
      BY <1>0, <1>1, <1>18, <2>2, <2>3 DEF CheckResendLimit, LimitReached
<1>19. ASSUME NEW r \in Requests, StoreHashed(r) PROVE MailInv'
  <2>1. /\ sent' = sent + 1 /\ resend' = resend /\ faults' = faults
        /\ pc[r] \in Mailing /\ pc[r] \notin Owing
        /\ pc'[r] \notin Mailing /\ pc'[r] \in Owing
        /\ \A q \in Requests : q # r => pc'[q] = pc[q]
      BY <1>0, <1>19 DEF StoreHashed, Mailing, Owing
  <2>2. CountsLater(sent + 1, resend.count, MaxResend, pc', Mailing, Owing, Lost)
      BY <1>0, <1>1, <1>3, <2>1, RequestsAreFinite, OneDone
  <2> QED
      BY <1>1, <2>1, <2>2 DEF MailInv
<1>20. ASSUME NEW r \in Requests, ApplyLimits(r) PROVE MailInv'
  <2>1. /\ sent' = sent /\ faults' = faults /\ resend'.count = resend.count + 1
        /\ pc[r] \in Owing /\ pc'[r] \notin Owing /\ pc'[r] \notin Mailing
        /\ \A q \in Requests : q # r => pc'[q] = pc[q]
      BY <1>0, <1>20 DEF ApplyLimits, SetRateLimits, Limits, Mailing, Owing, history
  <2>2. CountsLater(sent, resend.count + 1, MaxResend, pc', Mailing, Owing, Lost)
      BY <1>0, <1>1, <1>3, <2>1, RequestsAreFinite, OneCounted
  <2> QED
      BY <1>1, <2>1, <2>2 DEF MailInv
<1> QED
  <2> HIDE DEF Quiet, Hold, Go, Done
  <2> QED
      BY <1>2, <1>4, <1>5, <1>6, <1>7, <1>8, <1>9, <1>10, <1>11, <1>12, <1>13, <1>14,
         <1>15, <1>16, <1>17, <1>18, <1>19, <1>20 DEF Next

-------------------------------------------------------------------------------
(* Uses of a reset token.                                                      *)

BearerStates == Waits \X Secrets

LEMMA TokenNumbers ==
    ASSUME TypeOK, TypeOK', faults' \in {faults, faults + 1}, NEW t \in Tokens
    PROVE  /\ Bearers \in [Requests -> BearerStates] /\ Bearers' \in [Requests -> BearerStates]
           /\ uses[t] \in Nat /\ uses'[t] \in Nat
           /\ Spent(t) \in Nat /\ Spent(t)' \in Nat
           /\ 1 \in Nat \ {0} /\ t # NoCode
           /\ Lost \in Nat /\ Lost' \in Nat /\ Lost' \in {Lost, Lost + Cardinality(Requests)}
           /\ faults' = faults => Lost' = Lost
           /\ faults' = faults + 1 => Lost' = Lost + Cardinality(Requests)
<1>1. /\ Bearers \in [Requests -> BearerStates] /\ Bearers' \in [Requests -> BearerStates]
    BY DEF TypeOK, Bearers, BearerStates, Secrets
<1>2. uses[t] \in Nat /\ uses'[t] \in Nat /\ t # NoCode
    BY NoCodeIsNoSecret DEF TypeOK
<1>3. Lost' \in Nat
    BY Numbers, RequestsAreFinite, FS_CardinalityType
<1> QED
    BY <1>1, <1>2, <1>3, Numbers DEF Spent

(* A step that uses no token keeps the bounds when it stores and presents none *)
(* and nobody leaves without deleting it, unless by a fault.                   *)
LEMMA ReuseQuiet ==
    ASSUME TypeOK, TypeOK', ReuseInv, faults' \in {faults, faults + 1},
           uses' = uses, token' \in {token, NoCode},
           \A q \in Requests : pc'[q] = "update" => pc[q] = "update" /\ held'[q] = held[q],
           \/ faults' = faults + 1
           \/ token' = NoCode
           \/ \A q \in Requests : pc[q] = "forget" => pc'[q] = "forget" /\ held'[q] = held[q]
    PROVE  ReuseInv'
<1> SUFFICES ASSUME NEW t \in Tokens
             PROVE  CountsLater(uses'[t], Spent(t)', 1, Bearers', Updating(t), Forgetting(t), Lost')
    BY DEF ReuseInv
<1>1. CountsLater(uses[t], Spent(t), 1, Bearers, Updating(t), Forgetting(t), Lost)
    BY DEF ReuseInv
<1>2. /\ Bearers \in [Requests -> BearerStates] /\ Bearers' \in [Requests -> BearerStates]
      /\ uses[t] \in Nat /\ Spent(t) \in Nat /\ Spent(t)' \in Nat
      /\ 1 \in Nat \ {0} /\ t # NoCode /\ Lost \in Nat /\ Lost' \in Nat
      /\ faults' = faults => Lost' = Lost
      /\ faults' = faults + 1 => Lost' = Lost + Cardinality(Requests)
    BY TokenNumbers
<1>3. At(Bearers', Updating(t)) \subseteq At(Bearers, Updating(t))
    BY DEF At, Bearers, Updating
<1>4. Spent(t)' >= Spent(t) /\ uses'[t] = uses[t] /\ (token' = NoCode => Spent(t)' >= uses[t])
    BY <1>2 DEF Spent
<1>5. CASE faults' = faults + 1
  <2>1. CountsLater(uses[t], Spent(t)', 1, Bearers', Updating(t), Forgetting(t),
                    Lost + Cardinality(Requests))
      BY <1>1, <1>2, <1>3, <1>4, RequestsAreFinite, CountsLost
  <2> QED
      BY <1>2, <1>4, <1>5, <2>1
<1>6. CASE faults' = faults /\ token' = NoCode
  <2>1. CountsLater(uses[t], Spent(t)', 1, Bearers', Updating(t), Forgetting(t), Lost)
      BY <1>1, <1>2, <1>3, <1>4, <1>6, RequestsAreFinite, AllCounted
  <2> QED
      BY <1>2, <1>4, <1>6, <2>1
<1>7. CASE /\ faults' = faults
           /\ \A q \in Requests : pc[q] = "forget" => pc'[q] = "forget" /\ held'[q] = held[q]
  <2>1. At(Bearers, Forgetting(t)) \subseteq At(Bearers', Forgetting(t))
      BY <1>7 DEF At, Bearers, Forgetting
  <2>2. CountsLater(uses[t], Spent(t)', 1, Bearers', Updating(t), Forgetting(t), Lost)
      BY <1>1, <1>2, <1>3, <1>4, <2>1, RequestsAreFinite, NothingDone
  <2> QED
      BY <1>2, <1>4, <1>7, <2>2
<1> QED
    BY <1>5, <1>6, <1>7

(* The token guard admits a request while the token is stored; if it has been  *)
(* used already, its deletion is pending or was lost.                          *)
LEMMA PresentKeepsReuse ==
    ASSUME TypeOK, TypeOK', ReuseInv, NEW r \in Requests, NEW u \in Tokens, PresentToken(r, u)
    PROVE  ReuseInv'
<1>0. /\ pc[r] = "idle" /\ token = u /\ token' = token /\ uses' = uses /\ faults' = faults
      /\ pc' = [pc EXCEPT ![r] = "update"] /\ held' = [held EXCEPT ![r] = u]
      /\ pc \in [Requests -> Waits] /\ held \in [Requests -> Secrets]
    BY DEF TypeOK, Secrets, PresentToken, Accepts, Hold, keys, history
<1> SUFFICES ASSUME NEW t \in Tokens
             PROVE  CountsLater(uses'[t], Spent(t)', 1, Bearers', Updating(t), Forgetting(t), Lost')
    BY DEF ReuseInv
<1>1. CountsLater(uses[t], Spent(t), 1, Bearers, Updating(t), Forgetting(t), Lost)
    BY DEF ReuseInv
<1>2. /\ Bearers \in [Requests -> BearerStates] /\ Bearers' \in [Requests -> BearerStates]
      /\ uses[t] \in Nat /\ Spent(t) \in Nat /\ 1 \in Nat \ {0} /\ Lost \in Nat /\ Lost' = Lost
    BY <1>0, TokenNumbers
<1>3. uses'[t] = uses[t] /\ Spent(t)' = Spent(t)
    BY <1>0 DEF Spent
<1>4. \A q \in Requests : q # r => Bearers'[q] = Bearers[q]
    BY <1>0 DEF Bearers
<1>5. CASE t = u
  <2>1. /\ Bearers[r] \notin Updating(t) /\ Bearers[r] \notin Forgetting(t)
        /\ Bearers'[r] \in Updating(t) /\ Updating(t) \cap Forgetting(t) = {}
      BY <1>0, <1>5 DEF Bearers, Updating, Forgetting
  <2>2. Spent(t) < 1
      BY <1>0, <1>5 DEF Spent
  <2>3. CountsLater(uses[t], Spent(t), 1, Bearers', Updating(t), Forgetting(t), Lost)
      BY <1>1, <1>2, <1>4, <2>1, <2>2, RequestsAreFinite, OneAdmitted
  <2> QED
      BY <1>2, <1>3, <2>3
<1>6. CASE t # u
  <2>1. /\ At(Bearers', Updating(t)) \subseteq At(Bearers, Updating(t))
        /\ At(Bearers, Forgetting(t)) \subseteq At(Bearers', Forgetting(t))
      BY <1>0, <1>6 DEF At, Bearers, Updating, Forgetting
  <2>2. Spent(t) >= Spent(t)
      BY <1>2
  <2>3. CountsLater(uses[t], Spent(t), 1, Bearers', Updating(t), Forgetting(t), Lost)
      BY <1>1, <1>2, <2>1, <2>2, RequestsAreFinite, NothingDone
  <2> QED
      BY <1>2, <1>3, <2>3
<1> QED
    BY <1>5, <1>6

(* Whoever sets a password with a token goes on to delete it.                  *)
LEMMA UpdateKeepsReuse ==
    ASSUME TypeOK, TypeOK', HeldOK, ReuseInv, NEW r \in Requests, UpdatePassword(r)
    PROVE  ReuseInv'
<1>0. /\ pc[r] = "update" /\ token' = token /\ faults' = faults
      /\ held[r] \in Tokens /\ uses \in [Tokens -> Nat]
      /\ uses' = [uses EXCEPT ![held[r]] = uses[held[r]] + 1]
      /\ pc' = [pc EXCEPT ![r] = "forget"] /\ held' = [held EXCEPT ![r] = held[r]]
      /\ pc \in [Requests -> Waits] /\ held \in [Requests -> Secrets]
    BY DEF TypeOK, Secrets, UpdatePassword, Go, Hold, keys, HeldOK, Bearing
<1> SUFFICES ASSUME NEW t \in Tokens
             PROVE  CountsLater(uses'[t], Spent(t)', 1, Bearers', Updating(t), Forgetting(t), Lost')
    BY DEF ReuseInv
<1>1. CountsLater(uses[t], Spent(t), 1, Bearers, Updating(t), Forgetting(t), Lost)
    BY DEF ReuseInv
<1>2. /\ Bearers \in [Requests -> BearerStates] /\ Bearers' \in [Requests -> BearerStates]
      /\ uses[t] \in Nat /\ uses'[t] \in Nat /\ Spent(t) \in Nat /\ Spent(t)' \in Nat
      /\ 1 \in Nat \ {0} /\ Lost \in Nat /\ Lost' = Lost
    BY <1>0, TokenNumbers
<1>3. \A q \in Requests : q # r => Bearers'[q] = Bearers[q]
    BY <1>0 DEF Bearers
<1>4. CASE t = held[r]
  <2>1. /\ Bearers[r] \in Updating(t) /\ Bearers[r] \notin Forgetting(t)
        /\ Bearers'[r] \notin Updating(t) /\ Bearers'[r] \in Forgetting(t)
      BY <1>0, <1>4 DEF Bearers, Updating, Forgetting
  <2>2. Spent(t)' >= Spent(t)
      BY <1>0, <1>2, <1>4 DEF Spent
  <2>3. CountsLater(uses[t] + 1, Spent(t)', 1, Bearers', Updating(t), Forgetting(t), Lost)
    <3> DEFINE n == uses[t]
               limit == 1
    <3>1. /\ n \in Nat /\ limit \in Nat \ {0}
          /\ CountsLater(n, Spent(t), limit, Bearers, Updating(t), Forgetting(t), Lost)
        BY <1>1, <1>2
    <3> HIDE DEF n, limit
    <3>2. CountsLater(n + 1, Spent(t)', limit, Bearers', Updating(t), Forgetting(t), Lost)
        BY <1>2, <1>3, <2>1, <2>2, <3>1, RequestsAreFinite, OneDone
    <3> QED
        BY <3>2 DEF n, limit
  <2>4. uses'[t] = uses[t] + 1
      BY <1>0, <1>4
  <2> QED
      BY <1>2, <2>3, <2>4
<1>5. CASE t # held[r]
  <2>1. /\ At(Bearers', Updating(t)) \subseteq At(Bearers, Updating(t))
        /\ At(Bearers, Forgetting(t)) \subseteq At(Bearers', Forgetting(t))
      BY <1>0, <1>5 DEF At, Bearers, Updating, Forgetting
  <2>2. uses'[t] = uses[t] /\ Spent(t)' = Spent(t) /\ Spent(t) >= Spent(t)
      BY <1>0, <1>2, <1>5 DEF Spent
  <2>3. CountsLater(uses[t], Spent(t), 1, Bearers', Updating(t), Forgetting(t), Lost)
      BY <1>1, <1>2, <2>1, <2>2, RequestsAreFinite, NothingDone
  <2> QED
      BY <1>2, <2>2, <2>3
<1> QED
    BY <1>4, <1>5

(* Storing a token replaces one that is spent by one that has set nothing.     *)
LEMMA StoreKeepsReuse ==
    ASSUME TypeOK, TypeOK', HeldOK, FreshInv, ReuseInv, NEW r \in Requests, StoreToken(r)
    PROVE  ReuseInv'
<1>0. /\ pc[r] = "newToken" /\ token' = held[r] /\ uses' = uses /\ faults' = faults
      /\ uses[held[r]] = 0
      /\ pc' = [pc EXCEPT ![r] = "cleanup"] /\ held' = [held EXCEPT ![r] = NoCode]
      /\ pc \in [Requests -> Waits] /\ held \in [Requests -> Secrets]
    BY DEF TypeOK, Secrets, StoreToken, Hold, history, FreshInv, Making
<1> SUFFICES ASSUME NEW t \in Tokens
             PROVE  CountsLater(uses'[t], Spent(t)', 1, Bearers', Updating(t), Forgetting(t), Lost')
    BY DEF ReuseInv
<1>1. CountsLater(uses[t], Spent(t), 1, Bearers, Updating(t), Forgetting(t), Lost)
    BY DEF ReuseInv
<1>2. /\ Bearers \in [Requests -> BearerStates] /\ Bearers' \in [Requests -> BearerStates]
      /\ uses[t] \in Nat /\ Spent(t) \in Nat /\ Spent(t)' \in Nat
      /\ 1 \in Nat \ {0} /\ Lost \in Nat /\ Lost' = Lost
    BY <1>0, TokenNumbers
<1>3. uses'[t] = uses[t] /\ Spent(t)' >= uses[t]
    BY <1>0, <1>2 DEF Spent
<1>4. At(Bearers', Updating(t)) \subseteq At(Bearers, Updating(t))
    BY <1>0 DEF At, Bearers, Updating
<1>5. CountsLater(uses[t], Spent(t)', 1, Bearers', Updating(t), Forgetting(t), Lost)
    BY <1>1, <1>2, <1>3, <1>4, RequestsAreFinite, AllCounted
<1> QED
    BY <1>2, <1>3, <1>5

(* A new token has set nothing.                                                *)
LEMMA CompareKeepsReuse ==
    ASSUME TypeOK, TypeOK', ReuseInv, NEW r \in Requests, CompareRight(r)
    PROVE  ReuseInv'
<1>0. PICK u \in Tokens :
          /\ u # token /\ uses' = [uses EXCEPT ![u] = 0]
          /\ pc' = [pc EXCEPT ![r] = "oldToken"] /\ held' = [held EXCEPT ![r] = u]
    BY DEF CompareRight, Hold
<1>1. /\ pc[r] = "compare" /\ token' = token /\ faults' = faults
      /\ pc \in [Requests -> Waits] /\ held \in [Requests -> Secrets]
      /\ uses \in [Tokens -> Nat]
    BY DEF TypeOK, Secrets, CompareRight, keys
<1> SUFFICES ASSUME NEW t \in Tokens
             PROVE  CountsLater(uses'[t], Spent(t)', 1, Bearers', Updating(t), Forgetting(t), Lost')
    BY DEF ReuseInv
<1>2. CountsLater(uses[t], Spent(t), 1, Bearers, Updating(t), Forgetting(t), Lost)
    BY DEF ReuseInv
<1>3. /\ Bearers \in [Requests -> BearerStates] /\ Bearers' \in [Requests -> BearerStates]
      /\ uses[t] \in Nat /\ Spent(t) \in Nat /\ Spent(t)' \in Nat
      /\ 1 \in Nat \ {0} /\ Lost \in Nat /\ Lost' = Lost
    BY <1>1, TokenNumbers
<1>4. CASE t = u
  <2>1. uses'[t] = 0
      BY <1>0, <1>1, <1>4
  <2>2. CountsLater(0, Spent(t)', 1, Bearers', Updating(t), Forgetting(t), Lost)
      BY <1>3, RequestsAreFinite, NoneDone
  <2> QED
      BY <1>3, <2>1, <2>2
<1>5. CASE t # u
  <2>1. /\ At(Bearers', Updating(t)) \subseteq At(Bearers, Updating(t))
        /\ At(Bearers, Forgetting(t)) \subseteq At(Bearers', Forgetting(t))
      BY <1>0, <1>1 DEF At, Bearers, Updating, Forgetting
  <2>2. uses'[t] = uses[t] /\ Spent(t)' = Spent(t) /\ Spent(t) >= Spent(t)
      BY <1>0, <1>1, <1>3, <1>5 DEF Spent
  <2>3. CountsLater(uses[t], Spent(t), 1, Bearers', Updating(t), Forgetting(t), Lost)
      BY <1>2, <1>3, <2>1, <2>2, RequestsAreFinite, NothingDone
  <2> QED
      BY <1>3, <2>2, <2>3
<1> QED
    BY <1>4, <1>5

LEMMA ReuseKeeps ==
    ASSUME TypeOK, TypeOK', HeldOK, FreshInv, ReuseInv, [Next]_vars
    PROVE  ReuseInv'
<1> DEFINE Quiet ==
      /\ uses' = uses /\ token' \in {token, NoCode}
      /\ \A q \in Requests : pc'[q] = "update" => pc[q] = "update" /\ held'[q] = held[q]
      /\ \/ faults' = faults + 1
         \/ token' = NoCode
         \/ \A q \in Requests : pc[q] = "forget" => pc'[q] = "forget" /\ held'[q] = held[q]
<1>0. pc \in [Requests -> Waits] /\ held \in [Requests -> Secrets]
    BY DEF TypeOK, Secrets
<1>1. Quiet => ReuseInv'
    BY ChannelAndFaults, ReuseQuiet
<1> USE DEF Hold, Go, Done, TryAgain
<1>2. CASE UNCHANGED vars
  <2>1. Quiet
      BY <1>2 DEF vars, keys, history
  <2> QED
      BY <1>1, <2>1
<1>3. ASSUME NEW r \in Requests, RequestMail(r) \/ CheckResendLimit(r) PROVE Quiet
    BY <1>0, <1>3 DEF RequestMail, CheckResendLimit, keys, history
<1>4. ASSUME NEW r \in Requests, NEW c \in Codes \cup {Wrong}, Present(r, c) PROVE Quiet
    BY <1>0, <1>4 DEF Present, keys, history
<1>5. ASSUME NEW r \in Requests, ClearCode(r) PROVE Quiet
    BY <1>0, <1>5 DEF ClearCode, history
<1>6. ASSUME NEW r \in Requests, StoreHashed(r) \/ ApplyLimits(r) PROVE Quiet
    BY <1>0, <1>6 DEF StoreHashed, ApplyLimits, history
<1>7. ASSUME NEW r \in Requests, ExpireResend(r) \/ ExpireFailed(r) PROVE Quiet
    BY <1>0, <1>7 DEF ExpireResend, ExpireFailed, history
<1>8. ASSUME NEW r \in Requests, CompareWrong(r) \/ CountFailure(r) PROVE Quiet
    BY <1>0, <1>8 DEF CompareWrong, CountFailure, keys, history
<1>9. ASSUME NEW r \in Requests, DropToken(r) \/ ClearToken(r) PROVE Quiet
    BY <1>0, <1>9 DEF DropToken, ClearToken, history
<1>10. ASSUME NEW r \in Requests, Cleanup(r) PROVE Quiet
    BY <1>0, <1>10 DEF Cleanup
<1>11. ASSUME NEW r \in Requests, LimitsFail(r) \/ CleanupFails(r) \/ Abort(r) PROVE Quiet
    BY <1>0, <1>11 DEF LimitsFail, CleanupFails, Abort, Fault, keys
<1>12. ASSUME Crash PROVE Quiet
    BY <1>0, <1>12 DEF Crash, Fault, keys
<1>13. ASSUME CodeExpires \/ CooldownExpires \/ ResendExpires \/ FailedExpires \/ TokenExpires
       PROVE  Quiet
    BY <1>13 DEF CodeExpires, CooldownExpires, ResendExpires, FailedExpires, TokenExpires, history
<1> QED
  <2> HIDE DEF Quiet, Hold, Go, Done, TryAgain
  <2> QED
      BY <1>1, <1>2, <1>3, <1>4, <1>5, <1>6, <1>7, <1>8, <1>9, <1>10, <1>11, <1>12, <1>13,
         PresentKeepsReuse, UpdateKeepsReuse, StoreKeepsReuse, CompareKeepsReuse DEF Next

-------------------------------------------------------------------------------
(* Expiry of the counters, while nothing has failed.                           *)

FailedWillExpire ==
    failed.count > 0 /\ ~failed.expires => \E r \in Requests : pc[r] = "penalty"

ResendWillExpire ==
    resend.count > 0 /\ ~resend.expires => \E r \in Requests : pc[r] = "window"

LEMMA ExpiryParts ==
    /\ CountersWillExpire <=> (faults = 0 => FailedWillExpire /\ ResendWillExpire)
    /\ CountersWillExpire' <=> (faults' = 0 => FailedWillExpire' /\ ResendWillExpire')
BY DEF CountersWillExpire, FailedWillExpire, ResendWillExpire

LEMMA FailedKeeps ==
    ASSUME TypeOK, FailedWillExpire, [Next]_vars, faults' = faults
    PROVE  FailedWillExpire'
<1> DEFINE Stay == \A s \in Requests : pc[s] = "penalty" => pc'[s] = "penalty"
           Quiet == failed' = Missing \/ (failed' = failed /\ Stay)
<1>0. /\ pc \in [Requests -> Waits] /\ faults \in Nat /\ faults' # faults + 1
      /\ failed.count \in Nat /\ failed.expires \in BOOLEAN
    BY DEF TypeOK, Counters
<1>1. Quiet => FailedWillExpire'
    BY DEF FailedWillExpire, Missing
<1> USE DEF Hold, Go, Done
<1>2. CASE UNCHANGED vars
  <2>1. Quiet
      BY <1>2 DEF vars, keys
  <2> QED
      BY <1>1, <2>1
<1>3. ASSUME NEW r \in Requests, RequestMail(r) \/ CheckResendLimit(r) PROVE Quiet
    BY <1>0, <1>3 DEF RequestMail, CheckResendLimit, keys
<1>4. ASSUME NEW r \in Requests, NEW c \in Codes \cup {Wrong}, Present(r, c) PROVE Quiet
    BY <1>0, <1>4 DEF Present, keys
<1>5. ASSUME NEW r \in Requests, ClearCode(r) \/ StoreHashed(r) PROVE Quiet
    BY <1>0, <1>5 DEF ClearCode, StoreHashed
<1>6. ASSUME NEW r \in Requests, ApplyLimits(r) \/ ExpireResend(r) PROVE Quiet
    BY <1>0, <1>6 DEF ApplyLimits, ExpireResend
<1>7. ASSUME NEW r \in Requests, CompareRight(r) \/ CompareWrong(r) PROVE Quiet
    BY <1>0, <1>7 DEF CompareRight, CompareWrong, keys
<1>8. ASSUME NEW r \in Requests, DropToken(r) \/ StoreToken(r) PROVE Quiet
    BY <1>0, <1>8 DEF DropToken, StoreToken
<1>9. ASSUME NEW r \in Requests, Cleanup(r) PROVE Quiet
    BY <1>0, <1>9 DEF Cleanup, CleanupAll
<1>10. ASSUME NEW r \in Requests, NEW t \in Tokens, PresentToken(r, t) PROVE Quiet
    BY <1>0, <1>10 DEF PresentToken, keys
<1>11. ASSUME NEW r \in Requests, UpdatePassword(r) \/ ClearToken(r) PROVE Quiet
    BY <1>0, <1>11 DEF UpdatePassword, ClearToken, keys
<1>12. ~Crash /\ \A r \in Requests : ~LimitsFail(r) /\ ~CleanupFails(r) /\ ~Abort(r)
    BY <1>0 DEF Crash, LimitsFail, CleanupFails, Abort, Fault
<1>13. ASSUME CodeExpires \/ CooldownExpires \/ ResendExpires \/ FailedExpires \/ TokenExpires
       PROVE  Quiet
    BY <1>13 DEF CodeExpires, CooldownExpires, ResendExpires, FailedExpires, TokenExpires
<1>14. ASSUME NEW r \in Requests, CountFailure(r) PROVE FailedWillExpire'
  <2>1. /\ failed'.count = failed.count + 1 /\ failed'.expires = failed.expires
        /\ pc[r] = "count"
      BY <1>14 DEF CountFailure, Incr
  <2>2. CASE failed.count = 0
    <3>1. pc'[r] = "penalty"
        BY <1>0, <1>14, <2>1, <2>2 DEF CountFailure
    <3> QED
        BY <3>1 DEF FailedWillExpire
  <2>3. CASE failed.count > 0
    <3>1. Stay
        BY <1>0, <1>14, <2>1 DEF CountFailure
    <3> QED
        BY <2>1, <2>3, <3>1 DEF FailedWillExpire
  <2> QED
      BY <1>0, <2>2, <2>3
<1>15. ASSUME NEW r \in Requests, ExpireFailed(r) PROVE FailedWillExpire'
    BY <1>0, <1>15 DEF ExpireFailed, Expire, FailedWillExpire
<1> QED
  <2> HIDE DEF Quiet, Hold, Go, Done
  <2> QED
      BY <1>1, <1>2, <1>3, <1>4, <1>5, <1>6, <1>7, <1>8, <1>9, <1>10, <1>11, <1>12, <1>13,
         <1>14, <1>15 DEF Next

LEMMA ResendKeeps ==
    ASSUME TypeOK, ResendWillExpire, [Next]_vars, faults' = faults
    PROVE  ResendWillExpire'
<1> DEFINE Stay == \A s \in Requests : pc[s] = "window" => pc'[s] = "window"
           Quiet == resend' = Missing \/ (resend' = resend /\ Stay)
<1>0. /\ pc \in [Requests -> Waits] /\ faults \in Nat /\ faults' # faults + 1
      /\ resend.count \in Nat /\ resend.expires \in BOOLEAN
    BY DEF TypeOK, Counters
<1>1. Quiet => ResendWillExpire'
    BY DEF ResendWillExpire, Missing
<1> USE DEF Hold, Go, Done
<1>2. CASE UNCHANGED vars
  <2>1. Quiet
      BY <1>2 DEF vars, keys
  <2> QED
      BY <1>1, <2>1
<1>3. ASSUME NEW r \in Requests, RequestMail(r) \/ CheckResendLimit(r) PROVE Quiet
    BY <1>0, <1>3 DEF RequestMail, CheckResendLimit, keys
<1>4. ASSUME NEW r \in Requests, NEW c \in Codes \cup {Wrong}, Present(r, c) PROVE Quiet
    BY <1>0, <1>4 DEF Present, keys
<1>5. ASSUME NEW r \in Requests, ClearCode(r) \/ StoreHashed(r) PROVE Quiet
    BY <1>0, <1>5 DEF ClearCode, StoreHashed
<1>6. ASSUME NEW r \in Requests, CountFailure(r) \/ ExpireFailed(r) PROVE Quiet
    BY <1>0, <1>6 DEF CountFailure, ExpireFailed
<1>7. ASSUME NEW r \in Requests, CompareRight(r) \/ CompareWrong(r) PROVE Quiet
    BY <1>0, <1>7 DEF CompareRight, CompareWrong, keys
<1>8. ASSUME NEW r \in Requests, DropToken(r) \/ StoreToken(r) PROVE Quiet
    BY <1>0, <1>8 DEF DropToken, StoreToken
<1>9. ASSUME NEW r \in Requests, Cleanup(r) PROVE Quiet
    BY <1>0, <1>9 DEF Cleanup, CleanupAll, KeysOf
<1>10. ASSUME NEW r \in Requests, NEW t \in Tokens, PresentToken(r, t) PROVE Quiet
    BY <1>0, <1>10 DEF PresentToken, keys
<1>11. ASSUME NEW r \in Requests, UpdatePassword(r) \/ ClearToken(r) PROVE Quiet
    BY <1>0, <1>11 DEF UpdatePassword, ClearToken, keys
<1>12. ~Crash /\ \A r \in Requests : ~LimitsFail(r) /\ ~CleanupFails(r) /\ ~Abort(r)
    BY <1>0 DEF Crash, LimitsFail, CleanupFails, Abort, Fault
<1>13. ASSUME CodeExpires \/ CooldownExpires \/ ResendExpires \/ FailedExpires \/ TokenExpires
       PROVE  Quiet
    BY <1>13 DEF CodeExpires, CooldownExpires, ResendExpires, FailedExpires, TokenExpires
<1>14. ASSUME NEW r \in Requests, ApplyLimits(r) PROVE ResendWillExpire'
  <2>1. /\ resend'.count = resend.count + 1 /\ resend'.expires = resend.expires
        /\ pc[r] = "limits"
      BY <1>14 DEF ApplyLimits, SetRateLimits, Limits, Incr
  <2>2. CASE resend.count = 0
    <3>1. pc'[r] = "window"
        BY <1>0, <1>14, <2>1, <2>2 DEF ApplyLimits
    <3> QED
        BY <3>1 DEF ResendWillExpire
  <2>3. CASE resend.count > 0
    <3>1. Stay
        BY <1>0, <1>14, <2>1 DEF ApplyLimits
    <3> QED
        BY <2>1, <2>3, <3>1 DEF ResendWillExpire
  <2> QED
      BY <1>0, <2>2, <2>3
<1>15. ASSUME NEW r \in Requests, ExpireResend(r) PROVE ResendWillExpire'
    BY <1>0, <1>15 DEF ExpireResend, Expire, ResendWillExpire
<1> QED
  <2> HIDE DEF Quiet, Hold, Go, Done
  <2> QED
      BY <1>1, <1>2, <1>3, <1>4, <1>5, <1>6, <1>7, <1>8, <1>9, <1>10, <1>11, <1>12, <1>13,
         <1>14, <1>15 DEF Next

-------------------------------------------------------------------------------
(* The results.                                                                *)

LEMMA InitLimitInv == Init => LimitInv /\ ExpiryInv
<1> SUFFICES ASSUME Init PROVE LimitInv /\ ExpiryInv
    OBVIOUS
<1>1. TypeOK /\ failed.count = 0 /\ resend.count = 0
  <2>1. 0 \in 0..(MaxTries - 1)
      BY ResetLimits
  <2> QED
      BY <2>1 DEF Init, TypeOK, Waits, Missing, Counters
<1>2. HeldOK /\ FreshInv
    BY DEF Init, HeldOK, FreshInv, Making, Bearing
<1>3. Lost \in Nat
    BY RequestsAreFinite, FS_CardinalityType, LossGrows DEF Init, Lost
<1>4. pc \in [Requests -> Waits] /\ {MaxFailed, MaxResend} \subseteq Nat \ {0} /\ 0 \in Nat
    BY <1>1, ResetLimits DEF TypeOK
<1>5. /\ CountsLater(0, 0, MaxFailed, pc, Admitted, Counting, Lost)
      /\ CountsLater(0, 0, MaxResend, pc, Mailing, Owing, Lost)
    BY <1>3, <1>4, RequestsAreFinite, NoneDone
<1>6. GuessInv /\ MailInv
    BY <1>1, <1>5 DEF Init, GuessInv, MailInv
<1>7. ReuseInv
  <2> SUFFICES ASSUME NEW t \in Tokens
               PROVE  CountsLater(uses[t], Spent(t), 1, Bearers, Updating(t), Forgetting(t), Lost)
      BY DEF ReuseInv
  <2>1. uses[t] = 0 /\ Spent(t) = 0
      BY DEF Init, Spent
  <2>2. Bearers \in [Requests -> BearerStates] /\ 1 \in Nat \ {0}
      BY <1>1 DEF TypeOK, Bearers, BearerStates, Secrets
  <2>3. CountsLater(0, 0, 1, Bearers, Updating(t), Forgetting(t), Lost)
      BY <1>3, <1>4, <2>2, RequestsAreFinite, NoneDone
  <2> QED
      BY <2>1, <2>3
<1>8. CountersWillExpire
    BY <1>1 DEF CountersWillExpire
<1> QED
    BY <1>1, <1>2, <1>6, <1>7, <1>8 DEF LimitInv, ExpiryInv

(* What every step of the flow preserves.                                      *)
THEOREM ResetInvariant == Spec => []LimitInv
<1>1. LimitInv /\ [Next]_vars => LimitInv'
    BY NextStaysTyped, HeldStays, GuessesKeep, MailsKeep, FreshStays, ReuseKeeps DEF LimitInv
<1> QED
    BY <1>1, InitLimitInv, PTL DEF Spec

(* Keys and slots stay well formed, and while nothing fails every counter has  *)
(* an expiry or a request about to set it.                                     *)
THEOREM CountersExpire == Spec => []ExpiryInv
<1> DEFINE Inv == TypeOK /\ HeldOK /\ CountersWillExpire
<1>1. Init => Inv
    BY InitLimitInv DEF LimitInv, ExpiryInv
<1>2. Inv /\ [Next]_vars => Inv'
  <2> SUFFICES ASSUME TypeOK, HeldOK, CountersWillExpire, [Next]_vars
               PROVE  TypeOK' /\ HeldOK' /\ CountersWillExpire'
      OBVIOUS
  <2>1. TypeOK' /\ HeldOK'
      BY NextStaysTyped, HeldStays
  <2>2. ASSUME faults' = 0 PROVE FailedWillExpire' /\ ResendWillExpire'
    <3>1. faults' \in {faults, faults + 1} /\ faults \in Nat
        BY ChannelAndFaults DEF TypeOK
    <3>2. faults = 0 /\ faults' = faults
        BY <2>2, <3>1
    <3> QED
        BY <3>2, ExpiryParts, FailedKeeps, ResendKeeps
  <2> QED
      BY <2>1, <2>2, ExpiryParts
<1>3. Inv => ExpiryInv
    BY DEF ExpiryInv
<1> QED
    BY <1>1, <1>2, <1>3, PTL DEF Spec

(* The limit of wrong codes is exceeded by the other slots at most, and by     *)
(* what faults lost.                                                           *)
THEOREM GuessesStayBounded == Spec => []GuessesBounded
<1>1. LimitInv => GuessesBounded
  <2> SUFFICES ASSUME LimitInv PROVE GuessesBounded
      OBVIOUS
  <2>1. /\ pc \in [Requests -> Waits] /\ guesses \in Nat /\ failed.count \in Nat
        /\ MaxFailed \in Nat /\ Cardinality(Requests) \in Nat /\ Lost \in Nat
      BY RequestsAreFinite, FS_CardinalityType, LossGrows, ResetLimits
         DEF LimitInv, TypeOK, Counters, Lost
  <2>2. CASE channel = "otp"
    <3>1. CountsLater(guesses, failed.count, MaxFailed, pc, Admitted, Counting, Lost)
        BY <2>2 DEF LimitInv, GuessInv
    <3>2. guesses <= MaxFailed + (Cardinality(Requests) - 1) + Lost
        BY <2>1, <3>1, RequestsAreFinite, LimitExceeded
    <3> QED
        BY <3>2 DEF GuessesBounded, Others
  <2>3. CASE channel # "otp"
    <3>1. guesses = 0 /\ MaxFailed > 0
        BY <2>3, ResetLimits DEF LimitInv, GuessInv
    <3> QED
        BY <2>1, <3>1 DEF GuessesBounded, Others
  <2> QED
      BY <2>2, <2>3
<1> QED
    BY <1>1, ResetInvariant, PTL

(* So is the limit of mails.                                                   *)
THEOREM MailsStayBounded == Spec => []MailsBounded
<1>1. LimitInv => MailsBounded
  <2> SUFFICES ASSUME LimitInv PROVE MailsBounded
      OBVIOUS
  <2>1. /\ pc \in [Requests -> Waits] /\ sent \in Nat /\ resend.count \in Nat
        /\ MaxResend \in Nat /\ Lost \in Nat
      BY RequestsAreFinite, FS_CardinalityType, LossGrows, ResetLimits
         DEF LimitInv, TypeOK, Counters, Lost
  <2>2. CountsLater(sent, resend.count, MaxResend, pc, Mailing, Owing, Lost)
      BY DEF LimitInv, MailInv
  <2>3. sent <= MaxResend + (Cardinality(Requests) - 1) + Lost
      BY <2>1, <2>2, RequestsAreFinite, LimitExceeded
  <2> QED
      BY <2>3 DEF MailsBounded, Others
<1> QED
    BY <1>1, ResetInvariant, PTL

(* While nothing fails, a reset token that has set a password is about to be   *)
(* deleted as long as it is accepted.                                          *)
THEOREM UsedTokensAreForgotten == Spec => []UsedTokenIsForgotten
<1>1. LimitInv => UsedTokenIsForgotten
  <2> SUFFICES ASSUME LimitInv, faults = 0, NEW t \in Tokens, uses[t] > 0, token = t
               PROVE  \E r \in Requests : pc[r] = "forget" /\ held[r] = t
      BY DEF UsedTokenIsForgotten
  <2>1. CountsLater(uses[t], 0, 1, Bearers, Updating(t), Forgetting(t), Lost)
      BY DEF LimitInv, ReuseInv, Spent
  <2>2. Lost = 0
      BY RequestsAreFinite, FS_CardinalityType DEF Lost
  <2>3. Number(Bearers, Forgetting(t)) \in Nat
    <3>1. Bearers \in [Requests -> BearerStates]
        BY DEF LimitInv, TypeOK, Bearers, BearerStates, Secrets
    <3> QED
        BY <3>1, RequestsAreFinite, Sized
  <2>4. Number(Bearers, Forgetting(t)) # 0
      BY <2>1, <2>2, <2>3 DEF CountsLater, LimitInv, TypeOK
  <2> SUFFICES ASSUME \A r \in Requests : ~(pc[r] = "forget" /\ held[r] = t) PROVE FALSE
      OBVIOUS
  <2>5. \A r \in DOMAIN Bearers : Bearers[r] \notin Forgetting(t)
      BY DEF Bearers, Forgetting
  <2> QED
      BY <2>4, <2>5, NobodyAt
<1> QED
    BY <1>1, ResetInvariant, PTL

(* A reset token is used once by each slot that presented it before its first  *)
(* use was over, and more often only after deletions that faults lost.         *)
THEOREM TokenUsesStayBounded == Spec => []TokenUsesBounded
<1>1. LimitInv => TokenUsesBounded
  <2> SUFFICES ASSUME LimitInv, NEW t \in Tokens
               PROVE  uses[t] <= Cardinality(Requests) + Lost
      BY DEF TokenUsesBounded
  <2>1. /\ Bearers \in [Requests -> BearerStates]
        /\ uses[t] \in Nat /\ Spent(t) \in Nat /\ 1 \in Nat /\ Lost \in Nat
        /\ Cardinality(Requests) \in Nat
      BY RequestsAreFinite, FS_CardinalityType, LossGrows
         DEF LimitInv, TypeOK, Lost, Spent, Bearers, BearerStates, Secrets
  <2>2. CountsLater(uses[t], Spent(t), 1, Bearers, Updating(t), Forgetting(t), Lost)
      BY DEF LimitInv, ReuseInv
  <2>3. uses[t] <= 1 + (Cardinality(Requests) - 1) + Lost
      BY <2>1, <2>2, RequestsAreFinite, LimitExceeded
  <2> QED
      BY <2>1, <2>3
<1> QED
    BY <1>1, ResetInvariant, PTL
===============================================================================
