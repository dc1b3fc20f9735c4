---------------------------- MODULE LoginOtpProofs -----------------------------
(* Proofs about the login by code and by link, for any finite number of        *)
(* requests, any limits and any number of faults.  The bounds follow from      *)
(* counting the requests that are past a guard and have not counted yet.       *)
EXTENDS LoginOtp, SlotCounts, FiniteSetTheorems, TLAPS

(* Past the lockout guard, with a code that is not compared yet.               *)
Admitted == {"account", "compare"}

(* Compared a wrong one, and has not counted it.                               *)
Counting == {"count"}

(* A wrong code is counted, or about to be, or a fault lost it; and nobody is  *)
(* admitted once the count has reached the limit.                              *)
GuessInv ==
    /\ guesses <= failed.count + Number(pc, Counting) + Lost
    /\ guesses + Number(pc, Admitted) <= MaxFailed + Others + Lost

(* Past the guard that limits mails.                                           *)
Mailing ==
    {"clear", "store", "limits"} \cup IF channel = "otp" THEN {} ELSE {"find", "resend"}

MaxMails == IF channel = "otp" THEN MaxResend ELSE 1

(* A mail is counted, or a fault lost its count.                               *)
MailInv ==
    /\ channel = "otp" => sent <= resend.count + faults
    /\ channel = "link" /\ ~cooldown => sent <= faults
    /\ sent + Number(pc, Mailing) <= MaxMails + Others + faults

(* Logged in, and has not deleted the code.                                    *)
CleaningUp == {"cleanup"}

(* Whoever logged in with the stored code is about to delete it, or a fault    *)
(* kept it from that.                                                          *)
UseInv == uses <= Number(pc, CleaningUp) + Lost

(* The part of TypeOK about requests.                                          *)
SlotsOK ==
    /\ channel \in {"otp", "link"}
    /\ pc \in [Requests -> Waits]
    /\ held \in [Requests -> Codes \cup {Wrong, NoCode}]
    /\ tries \in [Requests -> 0..(MaxTries - 1)]
    /\ \A r \in Requests : pc[r] = "store" => held[r] \in Codes

LimitInv == TypeOK /\ GuessInv /\ MailInv /\ UseInv

-------------------------------------------------------------------------------
(* Numbers of requests.                                                        *)

LEMMA Size == Cardinality(Requests) \in Nat
BY RequestsAreFinite, FS_CardinalityType

LEMMA CountType ==
    ASSUME pc \in [Requests -> Waits], NEW S
    PROVE  /\ IsFiniteSet(At(pc, S)) /\ Number(pc, S) \in Nat
           /\ Number(pc, S) <= Cardinality(Requests)
BY RequestsAreFinite, Sized

(* The same after a step.                                                      *)
LEMMA NextCountType ==
    ASSUME pc' \in [Requests -> Waits], NEW S
    PROVE  /\ IsFiniteSet(At(pc', S)) /\ Number(pc', S) \in Nat
           /\ Number(pc', S) <= Cardinality(Requests)
BY RequestsAreFinite, Sized

(* The step of one request moves it in or out.                                 *)
LEMMA Moves ==
    ASSUME pc \in [Requests -> Waits], pc' \in [Requests -> Waits],
           NEW r \in Requests, \A q \in Requests : q # r => pc'[q] = pc[q], NEW S
    PROVE  /\ pc[r] \notin S /\ pc'[r] \in S => Number(pc', S) = Number(pc, S) + 1
           /\ pc[r] \in S /\ pc'[r] \notin S => Number(pc', S) = Number(pc, S) - 1
<1>1. pc[r] \notin S /\ pc'[r] \in S => Number(pc', S) = Number(pc, S) + 1
    BY RequestsAreFinite, Enters
<1>2. pc[r] \in S /\ pc'[r] \notin S => Number(pc', S) = Number(pc, S) - 1
    BY RequestsAreFinite, Leaves
<1> QED
    BY <1>1, <1>2

LEMMA LostType ==
    ASSUME faults \in Nat
    PROVE  /\ Lost \in Nat
           /\ faults' = faults + 1 => Lost' = Lost + Cardinality(Requests)
           /\ faults' = faults => Lost' = Lost
BY LossGrows, Size DEF Lost

-------------------------------------------------------------------------------
(* Types.                                                                      *)

(* What SetRateLimits and CleanupAll leave are keys.                           *)
LEMMA KeysStayTyped ==
    ASSUME TypeOK, NEW S
    PROVE  /\ SetRateLimits(S) => cooldown' \in BOOLEAN /\ resend' \in Counters
           /\ CleanupAll(S) =>
                /\ code' \in Codes \cup {NoCode} /\ cooldown' \in BOOLEAN
                /\ failed' \in Counters /\ resend' \in Counters
                /\ guesses' \in Nat /\ sent' \in Nat /\ uses' \in Nat
<1>1. cooldown \in BOOLEAN /\ failed \in Counters /\ resend \in Counters
    BY DEF TypeOK
<1>2. Missing \in Counters /\ Incr(resend) \in Counters
    BY <1>1 DEF Missing, Incr, Counters
<1>3. ASSUME SetRateLimits(S) PROVE cooldown' \in BOOLEAN /\ resend' \in Counters
  <2>1. cooldown' \in BOOLEAN
      BY <1>3, Zenon DEF SetRateLimits
  <2> QED
      BY <1>1, <1>2, <1>3, <2>1 DEF SetRateLimits
<1>4. ASSUME CleanupAll(S)
      PROVE  /\ code' \in Codes \cup {NoCode} /\ cooldown' \in BOOLEAN
             /\ failed' \in Counters /\ resend' \in Counters
             /\ guesses' \in Nat /\ sent' \in Nat /\ uses' \in Nat
  <2>1. cooldown' \in BOOLEAN
      BY <1>4, Zenon DEF CleanupAll
  <2> QED
      BY <1>1, <1>2, <1>4, <2>1 DEF CleanupAll, TypeOK
<1> QED
    BY <1>3, <1>4

(* Where requests wait stays typed.                                            *)
LEMMA SlotsStayTyped ==
    ASSUME TypeOK, NEW r \in Requests
    PROVE  /\ \A to \in Waits, c \in Codes \cup {Wrong, NoCode} :
                Hold(r, to, c) /\ (to = "store" => c \in Codes) => SlotsOK'
           /\ Done(r) => SlotsOK'
           /\ \A from \in Waits \ {"store"} : TryAgain(r, from) => SlotsOK'
<1>1. /\ channel \in {"otp", "link"} /\ pc \in [Requests -> Waits]
      /\ held \in [Requests -> Codes \cup {Wrong, NoCode}]
      /\ tries \in [Requests -> 0..(MaxTries - 1)]
      /\ \A s \in Requests : pc[s] = "store" => held[s] \in Codes
      /\ MaxTries \in Nat \ {0} /\ "idle" \in Waits
    BY LimitsArePositive DEF TypeOK, Waits
<1>2. 0 \in 0..(MaxTries - 1)
    BY <1>1
<1>3. \A from \in Waits \ {"store"} : TryAgain(r, from) => SlotsOK'
  <2> SUFFICES ASSUME NEW from \in Waits \ {"store"}, TryAgain(r, from), tries[r] + 1 # MaxTries
               PROVE  SlotsOK'
      BY <1>1, <1>2 DEF TryAgain, Done, SlotsOK
  <2>1. tries[r] + 1 \in 0..(MaxTries - 1)
      BY <1>1
  <2> QED
      BY <1>1, <2>1 DEF TryAgain, SlotsOK
<1> QED
    BY <1>1, <1>2, <1>3 DEF Hold, Done, SlotsOK

LEMMA StopStaysTyped ==
    ASSUME TypeOK, Stop
    PROVE  SlotsOK'
<1>1. 0 \in 0..(MaxTries - 1) /\ "idle" \in Waits
    BY LimitsArePositive DEF Waits
<1> QED
    BY <1>1 DEF TypeOK, SlotsOK, Stop

(* The part of TypeOK about keys and history.                                  *)
KeysOK ==
    /\ code \in Codes \cup {NoCode} /\ cooldown \in BOOLEAN
    /\ failed \in Counters /\ resend \in Counters
    /\ guesses \in Nat /\ sent \in Nat /\ uses \in Nat /\ faults \in Nat

LEMMA TypeParts ==
    /\ TypeOK <=> SlotsOK /\ KeysOK
    /\ TypeOK' <=> SlotsOK' /\ KeysOK'
BY DEF TypeOK, SlotsOK, KeysOK

(* Steps of a request in which nothing fails.                                  *)
LEMMA ContinueStaysTyped ==
    ASSUME TypeOK, NEW r \in Requests, Continue(r)
    PROVE  TypeOK'
<1>0. /\ SlotsOK /\ KeysOK
      /\ held[r] \in Codes \cup {Wrong, NoCode}
      /\ Missing \in Counters /\ Incr(resend) \in Counters /\ Incr(failed) \in Counters
      /\ Expire(resend) \in Counters /\ Expire(failed) \in Counters
    BY TypeParts DEF SlotsOK, KeysOK, Missing, Incr, Expire, Counters
<1> USE DEF Waits, Go
<1>1. CASE FindAccount(r)
    BY <1>0, <1>1, SlotsStayTyped, TypeParts DEF FindAccount, KeysOK, keys, history
<1>2. CASE CheckResendLimit(r)
    BY <1>0, <1>2, SlotsStayTyped, TypeParts DEF CheckResendLimit, KeysOK, keys, history
<1>3. CASE ClearOtp(r)
    BY <1>0, <1>3, SlotsStayTyped, TypeParts DEF ClearOtp, KeysOK
<1>4. CASE StoreHashed(r)
  <2>1. held[r] \in Codes
      BY <1>0, <1>4 DEF StoreHashed, SlotsOK
  <2> QED
      BY <2>1, <1>0, <1>4, SlotsStayTyped, TypeParts DEF StoreHashed, KeysOK
<1>5. CASE MailCode(r)
    BY <1>0, <1>5, SlotsStayTyped, KeysStayTyped, TypeParts DEF MailCode, AfterIncr, KeysOK
<1>6. CASE FakeLimits(r)
    BY <1>0, <1>6, SlotsStayTyped, KeysStayTyped, TypeParts
       DEF FakeLimits, AfterIncr, KeysOK, history
<1>7. CASE ExpireResend(r)
    BY <1>0, <1>7, SlotsStayTyped, TypeParts DEF ExpireResend, KeysOK, history
<1>8. CASE ReadAccount(r)
    BY <1>0, <1>8, SlotsStayTyped, TypeParts DEF ReadAccount, KeysOK, keys, history
<1>9. CASE CompareRight(r)
    BY <1>0, <1>9, SlotsStayTyped, TypeParts DEF CompareRight, KeysOK, keys
<1>10. CASE CompareWrong(r)
    BY <1>0, <1>10, SlotsStayTyped, TypeParts DEF CompareWrong, KeysOK, keys
<1>11. CASE RefuseLink(r)
    BY <1>0, <1>11, SlotsStayTyped, TypeParts DEF RefuseLink, KeysOK, keys, history
<1>12. CASE CountFailure(r)
    BY <1>0, <1>12, SlotsStayTyped, TypeParts DEF CountFailure, AfterIncr, KeysOK, history
<1>13. CASE ExpireFailed(r)
    BY <1>0, <1>13, SlotsStayTyped, TypeParts DEF ExpireFailed, KeysOK, history
<1>14. CASE Cleanup(r)
    BY <1>0, <1>14, SlotsStayTyped, KeysStayTyped, TypeParts DEF Cleanup, KeysOK
<1> QED
    BY <1>1, <1>2, <1>3, <1>4, <1>5, <1>6, <1>7, <1>8, <1>9, <1>10, <1>11, <1>12,
       <1>13, <1>14 DEF Continue

LEMMA NextStaysTyped ==
    ASSUME TypeOK, [Next]_vars
    PROVE  TypeOK'
<1>0. /\ SlotsOK /\ KeysOK
      /\ Missing \in Counters /\ Expire(resend) \in Counters
    BY TypeParts DEF KeysOK, Missing, Expire, Counters
<1>1. CASE UNCHANGED vars
    BY <1>1 DEF vars, keys, history, TypeOK
<1>2. ASSUME NEW r \in Requests, RequestCode(r) PROVE TypeOK'
  <2>1. held[r] \in Codes \cup {Wrong, NoCode}
      BY <1>0 DEF SlotsOK
  <2> QED
      BY <1>0, <1>2, <2>1, SlotsStayTyped, TypeParts
         DEF RequestCode, Go, Waits, KeysOK, keys, history
<1>3. ASSUME NEW r \in Requests, NEW c \in Codes \cup {Wrong}, PresentCode(r, c)
      PROVE  TypeOK'
    BY <1>0, <1>3, SlotsStayTyped, TypeParts DEF PresentCode, Waits, KeysOK, keys, history
<1>4. ASSUME NEW r \in Requests, CleanupFails(r) PROVE TypeOK'
    BY <1>0, <1>4, SlotsStayTyped, KeysStayTyped, TypeParts
       DEF CleanupFails, Fault, Waits, KeysOK
<1>5. ASSUME NEW r \in Requests, FakeLimitsFail(r) PROVE TypeOK'
  <2>1. cooldown' \in BOOLEAN /\ resend' \in Counters
      BY <1>0, <1>5, KeysStayTyped DEF FakeLimitsFail, KeysOK
  <2> QED
      BY <1>0, <1>5, <2>1, SlotsStayTyped, TypeParts DEF FakeLimitsFail, Fault, Waits, KeysOK
<1>6. ASSUME NEW r \in Requests, LinkLimitFails(r) PROVE TypeOK'
    BY <1>0, <1>6, SlotsStayTyped, KeysStayTyped, TypeParts
       DEF LinkLimitFails, Fault, Waits, KeysOK
<1>7. ASSUME NEW r \in Requests, Abort(r) PROVE TypeOK'
    BY <1>0, <1>7, SlotsStayTyped, TypeParts DEF Abort, Fault, KeysOK, keys
<1>8. ASSUME NEW r \in Requests, LimitsReject(r) PROVE TypeOK'
  <2>1. cooldown' \in BOOLEAN /\ resend' \in Counters /\ sent' \in Nat
      BY <1>0, <1>8, KeysStayTyped DEF LimitsReject, KeysOK
  <2> QED
      BY <1>0, <1>8, <2>1, StopStaysTyped, TypeParts DEF LimitsReject, Fault, KeysOK
<1>9. CASE Crash
    BY <1>0, <1>9, StopStaysTyped, TypeParts DEF Crash, Fault, KeysOK, keys
<1>10. CASE CodeExpires \/ CooldownExpires \/ FailedExpires \/ ResendExpires
  <2>1. UNCHANGED <<channel, pc, held, tries>>
      BY <1>10 DEF CodeExpires, CooldownExpires, FailedExpires, ResendExpires
  <2>2. SlotsOK'
      BY <1>0, <2>1 DEF SlotsOK
  <2>3. KeysOK'
    <3>1. cooldown' \in BOOLEAN
        BY <1>0, <1>10, Zenon
           DEF CodeExpires, CooldownExpires, FailedExpires, ResendExpires, KeysOK
    <3> QED
        BY <1>0, <1>10, <3>1
           DEF CodeExpires, CooldownExpires, FailedExpires, ResendExpires, KeysOK
  <2> QED
      BY <2>2, <2>3, TypeParts
<1> QED
    BY <1>1, <1>2, <1>3, <1>4, <1>5, <1>6, <1>7, <1>8, <1>9, <1>10, ContinueStaysTyped DEF Next

-------------------------------------------------------------------------------
(* Wrong codes.                                                                *)

(* A step that compares and counts nothing keeps the bounds when nobody is     *)
(* admitted and nobody leaves without counting, unless by a fault.             *)
LEMMA GuessesQuiet ==
    ASSUME TypeOK, TypeOK', GuessInv,
           \/ guesses' = 0
           \/ /\ guesses' = guesses
              /\ failed'.count >= failed.count
              /\ At(pc', Admitted) \subseteq At(pc, Admitted)
              /\ At(pc, Counting) \subseteq At(pc', Counting) \/ faults' = faults + 1,
           faults' \in {faults, faults + 1}
    PROVE  GuessInv'
<1>0. /\ guesses \in Nat /\ faults \in Nat /\ faults' \in Nat
      /\ failed.count \in Nat /\ failed'.count \in Nat
      /\ MaxFailed \in Nat \ {0} /\ Cardinality(Requests) \in Nat
      /\ pc \in [Requests -> Waits] /\ pc' \in [Requests -> Waits]
    BY LimitsArePositive, Size DEF TypeOK, Counters
<1>1. /\ Number(pc, Counting) \in Nat /\ Number(pc, Counting) <= Cardinality(Requests)
      /\ Number(pc', Counting) \in Nat
      /\ Number(pc, Admitted) \in Nat /\ Number(pc', Admitted) \in Nat
      /\ Number(pc', Admitted) <= Cardinality(Requests)
    BY <1>0, CountType, NextCountType
<1>2. /\ Lost \in Nat /\ Lost' \in Nat
      /\ faults' = faults + 1 => Lost' = Lost + Cardinality(Requests)
      /\ faults' = faults => Lost' = Lost
    BY <1>0, LostType, Size
<1>3. At(pc', Admitted) \subseteq At(pc, Admitted) => Number(pc', Admitted) <= Number(pc, Admitted)
    BY <1>0, RequestsAreFinite, Fewer
<1>4. At(pc, Counting) \subseteq At(pc', Counting) => Number(pc, Counting) <= Number(pc', Counting)
    BY <1>0, RequestsAreFinite, Fewer
<1> QED
    BY <1>0, <1>1, <1>2, <1>3, <1>4 DEF GuessInv, Others, Counting

(* The lockout guard admits a request only below the limit: the codes compared *)
(* since, those that will be, and the new one stay within the slots.           *)
LEMMA PresentKeepsGuesses ==
    ASSUME TypeOK, TypeOK', GuessInv, NEW r \in Requests,
           NEW c \in Codes \cup {Wrong}, PresentCode(r, c)
    PROVE  GuessInv'
<1> DEFINE both == Admitted \cup Counting
<1>1. /\ pc \in [Requests -> Waits] /\ pc[r] = "idle"
      /\ pc' = [pc EXCEPT ![r] = "account"]
      /\ failed.count < MaxFailed /\ MaxFailed \in Nat
      /\ UNCHANGED <<failed, guesses, faults>>
      /\ guesses \in Nat /\ faults \in Nat /\ failed.count \in Nat
      /\ pc' \in [Requests -> Waits]
    BY LimitsArePositive
       DEF TypeOK, PresentCode, Hold, LimitReached, keys, history, Counters
<1>2. Number(pc', Admitted) = Number(pc, Admitted) + 1
  <2>1. "account" \in Admitted /\ "idle" \notin Admitted
      BY DEF Admitted
  <2> QED
      BY <1>1, <2>1, Moves
<1>3. At(pc, Counting) \subseteq At(pc', Counting)
    BY <1>1 DEF At, Counting
<1>4. Number(pc, Counting) <= Number(pc', Counting)
    BY <1>1, <1>3, RequestsAreFinite, Fewer
<1>5. Number(pc, both) = Number(pc, Admitted) + Number(pc, Counting)
  <2>1. Admitted \cap Counting = {}
      BY DEF Admitted, Counting
  <2> QED
      BY <1>1, <2>1, RequestsAreFinite, Apart
<1>6. Number(pc, both) + 1 <= Cardinality(Requests)
  <2>1. "idle" \notin both
      BY DEF Admitted, Counting
  <2> QED
      BY <1>1, <2>1, RequestsAreFinite, Room
<1>7. Lost' = Lost /\ Lost \in Nat
    BY <1>1, LostType
<1>8. /\ Number(pc, Admitted) \in Nat /\ Number(pc, Counting) \in Nat
      /\ Number(pc', Counting) \in Nat
    BY <1>1, CountType, NextCountType
<1> QED
    BY <1>1, <1>2, <1>4, <1>5, <1>6, <1>7, <1>8, Size DEF GuessInv, Others

(* A wrong code moves from those admitted to those compared.                   *)
LEMMA CompareKeepsGuesses ==
    ASSUME TypeOK, TypeOK', GuessInv, NEW r \in Requests, CompareWrong(r)
    PROVE  GuessInv'
<1>1. /\ pc \in [Requests -> Waits] /\ pc[r] = "compare"
      /\ pc' = [pc EXCEPT ![r] = "count"]
      /\ guesses' = guesses + 1 /\ UNCHANGED <<failed, faults>>
      /\ guesses \in Nat /\ faults \in Nat /\ failed.count \in Nat
      /\ pc' \in [Requests -> Waits]
    BY DEF TypeOK, CompareWrong, Go, Hold, keys, Counters
<1>2. Number(pc', Counting) = Number(pc, Counting) + 1
  <2>1. "count" \in Counting /\ "compare" \notin Counting
      BY DEF Counting
  <2> QED
      BY <1>1, <2>1, Moves
<1>3. "compare" \in Admitted /\ "count" \notin Admitted
    BY DEF Admitted
<1>4. Number(pc', Admitted) = Number(pc, Admitted) - 1
    BY <1>1, <1>3, Moves
<1>5. Lost' = Lost /\ Lost \in Nat
    BY <1>1, LostType
<1> QED
    BY <1>1, <1>2, <1>4, <1>5, Size, LimitsArePositive, CountType DEF GuessInv, Others

(* INCR takes over what the request was about to count.                        *)
LEMMA CountKeepsGuesses ==
    ASSUME TypeOK, TypeOK', GuessInv, NEW r \in Requests, CountFailure(r)
    PROVE  GuessInv'
<1>1. /\ pc \in [Requests -> Waits] /\ pc[r] = "count"
      /\ pc' = [pc EXCEPT ![r] = "penalty"] \/ pc' = [pc EXCEPT ![r] = "idle"]
      /\ failed'.count = failed.count + 1 /\ UNCHANGED <<guesses, faults>>
      /\ pc' \in [Requests -> Waits]
      /\ guesses \in Nat /\ faults \in Nat /\ failed.count \in Nat
    BY DEF TypeOK, CountFailure, AfterIncr, Hold, Done, Incr, history, Counters
<1>2. Number(pc', Counting) = Number(pc, Counting) - 1
  <2>1. "count" \in Counting /\ "penalty" \notin Counting /\ "idle" \notin Counting
      BY DEF Counting
  <2> QED
      BY <1>1, <2>1, Moves
<1>3. At(pc', Admitted) \subseteq At(pc, Admitted)
    BY <1>1 DEF At, Admitted
<1>4. Number(pc', Admitted) <= Number(pc, Admitted)
    BY <1>1, <1>3, RequestsAreFinite, Fewer
<1>5. Lost' = Lost /\ Lost \in Nat
    BY <1>1, LostType
<1> QED
    BY <1>1, <1>2, <1>4, <1>5, Size, LimitsArePositive, CountType, NextCountType
       DEF GuessInv, Others

(* Every other step is quiet.                                                  *)
LEMMA GuessesKeep ==
    ASSUME TypeOK, TypeOK', GuessInv, [Next]_vars
    PROVE  GuessInv'
<1> DEFINE Quiet ==
      /\ \/ guesses' = 0
         \/ /\ guesses' = guesses
            /\ failed'.count >= failed.count
            /\ At(pc', Admitted) \subseteq At(pc, Admitted)
            /\ At(pc, Counting) \subseteq At(pc', Counting) \/ faults' = faults + 1
      /\ faults' \in {faults, faults + 1}
<1>0. /\ failed.count \in Nat /\ failed.count >= failed.count
      /\ pc \in [Requests -> Waits]
      /\ Expire(failed).count = failed.count
    BY DEF TypeOK, Counters, Expire
<1>1. Quiet => GuessInv'
    BY GuessesQuiet
<1> USE DEF At, Admitted, Counting, Hold, Go, Done
<1>2. CASE UNCHANGED vars
  <2>1. Quiet
      BY <1>0, <1>2 DEF vars, keys, history
  <2> QED
      BY <1>1, <2>1
<1>3. ASSUME NEW r \in Requests, RequestCode(r) \/ FindAccount(r) \/ CheckResendLimit(r)
      PROVE  Quiet
    BY <1>0, <1>3 DEF RequestCode, FindAccount, CheckResendLimit, keys, history
<1>4. ASSUME NEW r \in Requests, ClearOtp(r) \/ StoreHashed(r) \/ MailCode(r) \/ FakeLimits(r)
      PROVE  Quiet
    BY <1>0, <1>4 DEF ClearOtp, StoreHashed, MailCode, FakeLimits, AfterIncr, history
<1>5. ASSUME NEW r \in Requests, ExpireResend(r) \/ ReadAccount(r) \/ CompareRight(r)
      PROVE  Quiet
    BY <1>0, <1>5 DEF ExpireResend, ReadAccount, CompareRight, keys, history
<1>6. ASSUME NEW r \in Requests, RefuseLink(r) \/ ExpireFailed(r) PROVE Quiet
    BY <1>0, <1>6 DEF RefuseLink, ExpireFailed, keys, history
<1>7. ASSUME NEW r \in Requests, Cleanup(r) PROVE Quiet
    BY <1>0, <1>7 DEF Cleanup, CleanupAll
<1>8. ASSUME NEW r \in Requests, CleanupFails(r) PROVE Quiet
    BY <1>0, <1>8 DEF CleanupFails, CleanupAll, TryAgain, Fault
<1>9. ASSUME NEW r \in Requests, FakeLimitsFail(r) \/ LinkLimitFails(r) PROVE Quiet
    BY <1>0, <1>9 DEF FakeLimitsFail, LinkLimitFails, TryAgain, Fault
<1>10. ASSUME NEW r \in Requests, Abort(r) PROVE Quiet
    BY <1>0, <1>10 DEF Abort, Fault, keys
<1>11. ASSUME Crash \/ \E r \in Requests : LimitsReject(r) PROVE Quiet
    BY <1>0, <1>11 DEF Crash, LimitsReject, Stop, Fault, keys
<1>12. ASSUME CodeExpires \/ CooldownExpires \/ FailedExpires \/ ResendExpires PROVE Quiet
    BY <1>0, <1>12 DEF CodeExpires, CooldownExpires, FailedExpires, ResendExpires
<1> QED
  <2> HIDE DEF Quiet, At, Admitted, Counting, Hold, Go, Done
  <2> QED
      BY <1>1, <1>2, <1>3, <1>4, <1>5, <1>6, <1>7, <1>8, <1>9, <1>10, <1>11, <1>12,
         PresentKeepsGuesses, CompareKeepsGuesses, CountKeepsGuesses DEF Next, Continue

-------------------------------------------------------------------------------
(* Mails.                                                                      *)

(* A step that sends nothing, or loses the count of what it sends by a fault,  *)
(* keeps the bounds when it takes nothing from the key that limits mails and   *)
(* lets nobody past the guard.                                                 *)
LEMMA MailsQuiet ==
    ASSUME TypeOK, TypeOK', MailInv, channel' = channel,
           \/ sent' = 0
           \/ /\ sent' = sent \/ (sent' = sent + 1 /\ faults' = faults + 1)
              /\ channel = "otp" => resend'.count >= resend.count
              /\ channel = "link" /\ cooldown => cooldown'
              /\ At(pc', Mailing) \subseteq At(pc, Mailing),
           faults' \in {faults, faults + 1}
    PROVE  MailInv'
<1>0. /\ sent \in Nat /\ faults \in Nat /\ faults' \in Nat
      /\ resend.count \in Nat /\ resend'.count \in Nat
      /\ MaxMails \in Nat \ {0} /\ MaxMails' = MaxMails /\ Cardinality(Requests) \in Nat
      /\ pc \in [Requests -> Waits] /\ pc' \in [Requests -> Waits]
    BY LimitsArePositive, Size DEF TypeOK, Counters, MaxMails
<1>1. /\ Number(pc, Mailing) \in Nat /\ Number(pc', Mailing) \in Nat
      /\ Number(pc', Mailing) <= Cardinality(Requests)
    BY <1>0, CountType, NextCountType
<1>2. At(pc', Mailing) \subseteq At(pc, Mailing) => Number(pc', Mailing) <= Number(pc, Mailing)
    BY <1>0, RequestsAreFinite, Fewer
<1>3. sent' + Number(pc', Mailing) <= MaxMails + Others + faults'
    BY <1>0, <1>1, <1>2 DEF MailInv, Others
<1>4. channel' = "otp" => sent' <= resend'.count + faults'
    BY <1>0 DEF MailInv
<1>5. channel' = "link" /\ ~cooldown' => sent' <= faults'
    BY <1>0 DEF MailInv
<1>6. Mailing' = Mailing
    BY DEF Mailing
<1> QED
    BY <1>0, <1>3, <1>4, <1>5, <1>6 DEF MailInv, Others

(* The guard lets a request past: there is room for it among the slots.        *)
LEMMA PastGuardKeepsMails ==
    ASSUME TypeOK, TypeOK', MailInv, NEW r \in Requests,
           \/ channel = "link" /\ RequestCode(r)
           \/ channel = "otp" /\ CheckResendLimit(r) /\ ~LimitReached(resend, MaxResend)
    PROVE  MailInv'
<1>0. /\ sent \in Nat /\ faults \in Nat /\ resend.count \in Nat
      /\ MaxResend \in Nat \ {0} /\ Cardinality(Requests) \in Nat
      /\ pc \in [Requests -> Waits] /\ pc' \in [Requests -> Waits]
    BY LimitsArePositive, Size DEF TypeOK, Counters
<1>1. /\ UNCHANGED <<channel, sent, faults, resend, cooldown>>
      /\ pc[r] \notin Mailing /\ \E to \in Mailing : pc' = [pc EXCEPT ![r] = to]
      /\ sent < MaxMails + faults
  <2>1. CASE channel = "link" /\ RequestCode(r)
      BY <1>0, <2>1 DEF RequestCode, Go, Hold, Mailing, MaxMails, MailInv, keys, history
  <2>2. CASE channel = "otp" /\ CheckResendLimit(r) /\ ~LimitReached(resend, MaxResend)
    <3>1. resend.count < MaxResend
        BY <1>0, <2>2 DEF LimitReached
    <3> QED
        BY <1>0, <2>2, <3>1
           DEF CheckResendLimit, Go, Hold, Mailing, MaxMails, MailInv, keys, history
  <2> QED
      BY <2>1, <2>2
<1>2. Mailing' = Mailing /\ MaxMails' = MaxMails /\ MaxMails \in Nat
    BY <1>0, <1>1 DEF Mailing, MaxMails
<1>3. Number(pc', Mailing) = Number(pc, Mailing) + 1
    BY <1>0, <1>1, Moves
<1>4. Number(pc, Mailing) + 1 <= Cardinality(Requests) /\ Number(pc, Mailing) \in Nat
    BY <1>0, <1>1, RequestsAreFinite, Room, CountType
<1>5. sent' + Number(pc', Mailing) <= MaxMails + Others + faults'
    BY <1>0, <1>1, <1>2, <1>3, <1>4 DEF Others
<1> QED
    BY <1>0, <1>1, <1>2, <1>5 DEF MailInv, Others

(* The mail leaves with the command that counts it.                            *)
LEMMA MailKeepsMails ==
    ASSUME TypeOK, TypeOK', MailInv, NEW r \in Requests, MailCode(r)
    PROVE  MailInv'
<1>0. /\ sent \in Nat /\ faults \in Nat /\ resend.count \in Nat
      /\ Cardinality(Requests) \in Nat
      /\ pc \in [Requests -> Waits] /\ pc' \in [Requests -> Waits]
      /\ channel \in {"otp", "link"}
    BY Size DEF TypeOK, Counters
<1>1. /\ channel' = channel /\ faults' = faults /\ sent' = sent + 1
      /\ pc[r] = "limits"
      /\ \E to \in {"idle", "window"} : pc' = [pc EXCEPT ![r] = to]
    BY DEF MailCode, AfterIncr, Hold, Done
<1>2. /\ channel = "otp" => resend'.count = resend.count + 1
      /\ channel = "link" => cooldown'
    BY DEF MailCode, SetRateLimits, AllLimits, Incr
<1>3. Mailing' = Mailing /\ MaxMails' = MaxMails
    BY <1>1 DEF Mailing, MaxMails
<1>4. Number(pc', Mailing) = Number(pc, Mailing) - 1
  <2>1. "limits" \in Mailing /\ "idle" \notin Mailing /\ "window" \notin Mailing
      BY DEF Mailing
  <2> QED
      BY <1>0, <1>1, <2>1, Moves
<1>5. MaxMails \in Nat /\ Number(pc, Mailing) \in Nat
    BY <1>0, LimitsArePositive, CountType DEF MaxMails
<1>6. sent' + Number(pc', Mailing) <= MaxMails + Others + faults'
    BY <1>0, <1>1, <1>4, <1>5 DEF MailInv, Others
<1> QED
    BY <1>0, <1>1, <1>2, <1>3, <1>6 DEF MailInv, Others

LEMMA MailsKeep ==
    ASSUME TypeOK, TypeOK', MailInv, [Next]_vars
    PROVE  MailInv'
<1> DEFINE Quiet ==
      /\ channel' = channel
      /\ \/ sent' = 0
         \/ /\ sent' = sent \/ (sent' = sent + 1 /\ faults' = faults + 1)
            /\ channel = "otp" => resend'.count >= resend.count
            /\ channel = "link" /\ cooldown => cooldown'
            /\ At(pc', Mailing) \subseteq At(pc, Mailing)
      /\ faults' \in {faults, faults + 1}
<1>0. /\ resend.count \in Nat /\ resend.count >= resend.count
      /\ pc \in [Requests -> Waits]
      /\ Expire(resend).count = resend.count
      /\ Incr(resend).count >= resend.count
    BY DEF TypeOK, Counters, Expire, Incr
<1>1. Quiet => MailInv'
    BY MailsQuiet
<1>2. channel \in {"otp", "link"}
    BY DEF TypeOK
<1> USE DEF At, Mailing, Hold, Go, Done
<1>3. CASE UNCHANGED vars
  <2>1. Quiet
      BY <1>0, <1>3 DEF vars, keys, history
  <2> QED
      BY <1>1, <2>1
<1>4. ASSUME NEW r \in Requests, channel = "otp", RequestCode(r) PROVE Quiet
    BY <1>0, <1>4 DEF RequestCode, keys, history
<1>5. ASSUME NEW r \in Requests, CheckResendLimit(r),
             channel = "link" \/ LimitReached(resend, MaxResend)
      PROVE  Quiet
    BY <1>0, <1>5 DEF CheckResendLimit, keys, history
<1>6. ASSUME NEW r \in Requests, FindAccount(r) PROVE Quiet
    BY <1>0, <1>2, <1>6 DEF FindAccount, keys, history
<1>7. ASSUME NEW r \in Requests, ClearOtp(r) \/ StoreHashed(r) PROVE Quiet
    BY <1>0, <1>7 DEF ClearOtp, StoreHashed
<1>8. ASSUME NEW r \in Requests, FakeLimits(r) PROVE Quiet
    BY <1>0, <1>8 DEF FakeLimits, SetRateLimits, AfterIncr, history
<1>9. ASSUME NEW r \in Requests, ExpireResend(r) PROVE Quiet
    BY <1>0, <1>9 DEF ExpireResend, history
<1>10. ASSUME NEW r \in Requests, NEW c \in Codes \cup {Wrong}, PresentCode(r, c) PROVE Quiet
    BY <1>0, <1>10 DEF PresentCode, keys, history
<1>11. ASSUME NEW r \in Requests, ReadAccount(r) \/ CompareRight(r) \/ CompareWrong(r) \/ RefuseLink(r)
       PROVE  Quiet
    BY <1>0, <1>11 DEF ReadAccount, CompareRight, CompareWrong, RefuseLink, keys, history
<1>12. ASSUME NEW r \in Requests, CountFailure(r) \/ ExpireFailed(r) PROVE Quiet
    BY <1>0, <1>12 DEF CountFailure, AfterIncr, ExpireFailed, history
<1>13. ASSUME NEW r \in Requests, Cleanup(r) PROVE Quiet
    BY <1>0, <1>2, <1>13 DEF Cleanup, CleanupAll, LimitKey, AllKeys
<1>14. ASSUME NEW r \in Requests, CleanupFails(r) PROVE Quiet
  <2>1. \/ sent' = 0
        \/ /\ sent' = sent
           /\ channel = "otp" => resend' = resend
           /\ channel = "link" /\ cooldown => cooldown'
      BY <1>2, <1>14 DEF CleanupFails, CleanupAll, LimitKey
  <2>2. channel' = channel /\ faults' = faults + 1
      BY <1>14 DEF CleanupFails, TryAgain, Fault
  <2>3. At(pc', Mailing) \subseteq At(pc, Mailing)
      BY <1>0, <1>14, <2>2 DEF CleanupFails, TryAgain
  <2> QED
      BY <1>0, <2>1, <2>2, <2>3
<1>15. ASSUME NEW r \in Requests, FakeLimitsFail(r) PROVE Quiet
  <2>1. resend' \in {resend, Incr(resend), Expire(resend)} /\ (cooldown => cooldown')
    <3>1. CASE \E S \in SUBSET AllLimits : SetRateLimits(S)
        BY <3>1 DEF SetRateLimits
    <3>2. CASE resend' \in {resend, Expire(resend)} /\ UNCHANGED cooldown
        BY <3>2
    <3> QED
        BY <1>15, <3>1, <3>2 DEF FakeLimitsFail
  <2>2. channel' = channel /\ sent' = sent /\ faults' = faults + 1
      BY <1>15 DEF FakeLimitsFail, TryAgain, Fault
  <2>3. At(pc', Mailing) \subseteq At(pc, Mailing)
    <3>1. /\ pc[r] \in {"fakeLimits", "fakeWindow"}
          /\ \E to \in {"idle", "fakeLimits"} : pc' = [pc EXCEPT ![r] = to]
        BY <1>15 DEF FakeLimitsFail, TryAgain
    <3> QED
        BY <1>0, <2>2, <3>1
  <2> QED
      BY <1>0, <2>1, <2>2, <2>3
<1>16. ASSUME NEW r \in Requests, LinkLimitFails(r) PROVE Quiet
    BY <1>0, <1>16 DEF LinkLimitFails, SetRateLimits, TryAgain, Fault
<1>17. ASSUME NEW r \in Requests, Abort(r) PROVE Quiet
    BY <1>0, <1>17 DEF Abort, Fault, keys
<1>18. ASSUME Crash \/ \E r \in Requests : LimitsReject(r) PROVE Quiet
    BY <1>0, <1>18 DEF Crash, LimitsReject, SetRateLimits, Stop, Fault, keys
<1>19. ASSUME CodeExpires \/ CooldownExpires \/ FailedExpires \/ ResendExpires PROVE Quiet
    BY <1>0, <1>2, <1>19 DEF CodeExpires, CooldownExpires, FailedExpires, ResendExpires, LimitKey
<1> QED
  <2> HIDE DEF Quiet, At, Mailing, Hold, Go, Done
  <2> QED
      BY <1>1, <1>2, <1>3, <1>4, <1>5, <1>6, <1>7, <1>8, <1>9, <1>10, <1>11, <1>12,
         <1>13, <1>14, <1>15, <1>16, <1>17, <1>18, <1>19,
         PastGuardKeepsMails, MailKeepsMails DEF Next, Continue

-------------------------------------------------------------------------------
(* Logins with one code.                                                       *)

(* A step that uses no code keeps the bound when nobody leaves without         *)
(* cleaning up, unless by a fault.                                             *)
LEMMA UsesQuiet ==
    ASSUME TypeOK, TypeOK', UseInv,
           \/ uses' = 0
           \/ /\ uses' = uses
              /\ At(pc, CleaningUp) \subseteq At(pc', CleaningUp) \/ faults' = faults + 1,
           faults' \in {faults, faults + 1}
    PROVE  UseInv'
<1>1. /\ uses \in Nat /\ faults \in Nat /\ faults' \in Nat
      /\ Cardinality(Requests) \in Nat
      /\ Number(pc, CleaningUp) \in Nat /\ Number(pc, CleaningUp) <= Cardinality(Requests)
      /\ Number(pc', CleaningUp) \in Nat
    BY Size, CountType, NextCountType DEF TypeOK
<1>2. At(pc, CleaningUp) \subseteq At(pc', CleaningUp) =>
          Number(pc, CleaningUp) <= Number(pc', CleaningUp)
    BY RequestsAreFinite, Fewer DEF TypeOK
<1>3. /\ Lost \in Nat /\ Lost' \in Nat
      /\ faults' = faults + 1 => Lost' = Lost + Cardinality(Requests)
      /\ faults' = faults => Lost' = Lost
    BY <1>1, LostType
<1> QED
    BY <1>1, <1>2, <1>3 DEF UseInv

(* Whoever logs in has the clean-up in front of it.                            *)
LEMMA CompareKeepsUses ==
    ASSUME TypeOK, TypeOK', UseInv, NEW r \in Requests, CompareRight(r)
    PROVE  UseInv'
<1>1. /\ pc \in [Requests -> Waits] /\ pc' \in [Requests -> Waits] /\ pc[r] = "compare"
      /\ pc' = [pc EXCEPT ![r] = "cleanup"]
      /\ uses' = uses + 1 /\ faults' = faults
      /\ uses \in Nat /\ faults \in Nat
    BY DEF TypeOK, CompareRight, Go, Hold
<1>2. Number(pc', CleaningUp) = Number(pc, CleaningUp) + 1
  <2>1. "cleanup" \in CleaningUp /\ "compare" \notin CleaningUp
      BY DEF CleaningUp
  <2> QED
      BY <1>1, <2>1, Moves
<1>3. Lost' = Lost /\ Lost \in Nat
    BY <1>1, LostType
<1> QED
    BY <1>1, <1>2, <1>3, CountType DEF UseInv

LEMMA UsesKeep ==
    ASSUME TypeOK, TypeOK', UseInv, [Next]_vars
    PROVE  UseInv'
<1> DEFINE Quiet ==
      /\ \/ uses' = 0
         \/ /\ uses' = uses
            /\ At(pc, CleaningUp) \subseteq At(pc', CleaningUp) \/ faults' = faults + 1
      /\ faults' \in {faults, faults + 1}
<1>0. pc \in [Requests -> Waits]
    BY DEF TypeOK
<1>1. Quiet => UseInv'
    BY UsesQuiet
<1> USE DEF At, CleaningUp, Hold, Go, Done
<1>2. CASE UNCHANGED vars
  <2>1. Quiet
      BY <1>0, <1>2 DEF vars, keys, history
  <2> QED
      BY <1>1, <2>1
<1>3. ASSUME NEW r \in Requests, RequestCode(r) \/ FindAccount(r) \/ CheckResendLimit(r)
      PROVE  Quiet
    BY <1>0, <1>3 DEF RequestCode, FindAccount, CheckResendLimit, keys, history
<1>4. ASSUME NEW r \in Requests, ClearOtp(r) \/ StoreHashed(r) \/ MailCode(r) \/ FakeLimits(r)
      PROVE  Quiet
    BY <1>0, <1>4 DEF ClearOtp, StoreHashed, MailCode, FakeLimits, AfterIncr, history
<1>5. ASSUME NEW r \in Requests, ExpireResend(r) \/ ReadAccount(r) \/ RefuseLink(r)
      PROVE  Quiet
    BY <1>0, <1>5 DEF ExpireResend, ReadAccount, RefuseLink, keys, history
<1>6. ASSUME NEW r \in Requests, NEW c \in Codes \cup {Wrong}, PresentCode(r, c) PROVE Quiet
    BY <1>0, <1>6 DEF PresentCode, keys, history
<1>7. ASSUME NEW r \in Requests, CompareWrong(r) \/ CountFailure(r) \/ ExpireFailed(r)
      PROVE  Quiet
    BY <1>0, <1>7 DEF CompareWrong, CountFailure, ExpireFailed, AfterIncr, keys, history
<1>8. ASSUME NEW r \in Requests, Cleanup(r) PROVE Quiet
    BY <1>0, <1>8 DEF Cleanup, CleanupAll, AllKeys
<1>9. ASSUME NEW r \in Requests, CleanupFails(r) PROVE Quiet
    BY <1>0, <1>9 DEF CleanupFails, CleanupAll, Fault
<1>10. ASSUME NEW r \in Requests, FakeLimitsFail(r) \/ LinkLimitFails(r) PROVE Quiet
    BY <1>0, <1>10 DEF FakeLimitsFail, LinkLimitFails, Fault
<1>11. ASSUME NEW r \in Requests, Abort(r) PROVE Quiet
    BY <1>0, <1>11 DEF Abort, Fault
<1>12. ASSUME Crash \/ \E r \in Requests : LimitsReject(r) PROVE Quiet
    BY <1>0, <1>12 DEF Crash, LimitsReject, Fault
<1>13. ASSUME CodeExpires \/ CooldownExpires \/ FailedExpires \/ ResendExpires PROVE Quiet
    BY <1>0, <1>13 DEF CodeExpires, CooldownExpires, FailedExpires, ResendExpires
<1> QED
  <2> HIDE DEF Quiet, At, CleaningUp, Hold, Go, Done
  <2> QED
      BY <1>1, <1>2, <1>3, <1>4, <1>5, <1>6, <1>7, <1>8, <1>9, <1>10, <1>11, <1>12, <1>13,
         CompareKeepsUses DEF Next, Continue

-------------------------------------------------------------------------------
(* Counters and their expiry.                                                  *)

(* Defined so that it can be carried through a step: somebody will expire it.  *)
SomeoneAt(S) == \E r \in Requests : pc[r] \in S

FailedWillExpire ==
    failed.count > 0 /\ ~failed.expires => SomeoneAt({"penalty"})

ResendWillExpire ==
    resend.count > 0 /\ ~resend.expires => SomeoneAt({"window", "fakeWindow"})

LEMMA ExpiryParts ==
    /\ CountersWillExpire <=> (faults = 0 => FailedWillExpire /\ ResendWillExpire)
    /\ CountersWillExpire' <=> (faults' = 0 => FailedWillExpire' /\ ResendWillExpire')
BY DEF CountersWillExpire, FailedWillExpire, ResendWillExpire, SomeoneAt

LEMMA FaultsGrow ==
    ASSUME [Next]_vars
    PROVE  faults' \in {faults, faults + 1}
BY DEF Next, vars, keys, history, Continue, RequestCode, PresentCode, FindAccount,
       CheckResendLimit, ClearOtp, StoreHashed, MailCode, FakeLimits, ExpireResend,
       ReadAccount, CompareRight, CompareWrong, RefuseLink, CountFailure, ExpireFailed,
       Cleanup, CleanupFails, FakeLimitsFail, LinkLimitFails, Abort, LimitsReject, Crash,
       CodeExpires, CooldownExpires, FailedExpires, ResendExpires, Fault

LEMMA FailedKeeps ==
    ASSUME TypeOK, FailedWillExpire, [Next]_vars, faults' = faults
    PROVE  FailedWillExpire'
<1> DEFINE Quiet ==
      \/ failed' = Missing
      \/ failed' = failed /\ \A s \in Requests : pc[s] = "penalty" => pc'[s] = "penalty"
<1>0. /\ pc \in [Requests -> Waits] /\ faults \in Nat /\ faults' # faults + 1
      /\ failed.count \in Nat /\ failed.expires \in BOOLEAN
    BY DEF TypeOK, Counters
<1>1. Quiet => FailedWillExpire'
    BY DEF FailedWillExpire, SomeoneAt, Missing
<1> USE DEF Hold, Go, Done
<1>2. CASE UNCHANGED vars
  <2>1. Quiet
      BY <1>2 DEF vars, keys, history
  <2> QED
      BY <1>1, <2>1
<1>3. ASSUME NEW r \in Requests, RequestCode(r) \/ FindAccount(r) \/ CheckResendLimit(r)
      PROVE  Quiet
    BY <1>0, <1>3 DEF RequestCode, FindAccount, CheckResendLimit, keys, history
<1>4. ASSUME NEW r \in Requests, ClearOtp(r) \/ StoreHashed(r) \/ MailCode(r) \/ FakeLimits(r)
      PROVE  Quiet
    BY <1>0, <1>4 DEF ClearOtp, StoreHashed, MailCode, FakeLimits, AfterIncr, history
<1>5. ASSUME NEW r \in Requests, ExpireResend(r) \/ ReadAccount(r) \/ RefuseLink(r)
      PROVE  Quiet
    BY <1>0, <1>5 DEF ExpireResend, ReadAccount, RefuseLink, keys, history
<1>6. ASSUME NEW r \in Requests, NEW c \in Codes \cup {Wrong}, PresentCode(r, c) PROVE Quiet
    BY <1>0, <1>6 DEF PresentCode, keys, history
<1>7. ASSUME NEW r \in Requests, CompareRight(r) \/ CompareWrong(r) PROVE Quiet
    BY <1>0, <1>7 DEF CompareRight, CompareWrong, keys
<1>8. ASSUME NEW r \in Requests, Cleanup(r) PROVE Quiet
    BY <1>0, <1>8 DEF Cleanup, CleanupAll
<1>9. ASSUME NEW r \in Requests, CountFailure(r) PROVE FailedWillExpire'
  <2>1. failed'.count = failed.count + 1 /\ failed'.expires = failed.expires /\ pc[r] = "count"
      BY <1>9 DEF CountFailure, Incr
  <2>2. CASE failed.count = 0
    <3>1. pc'[r] = "penalty"
        BY <1>0, <1>9, <2>1, <2>2 DEF CountFailure, AfterIncr
    <3> QED
        BY <3>1 DEF FailedWillExpire, SomeoneAt
  <2>3. CASE failed.count > 0
    <3>1. \A s \in Requests : pc[s] = "penalty" => pc'[s] = "penalty"
        BY <1>0, <1>9, <2>1 DEF CountFailure, AfterIncr
    <3> QED
        BY <2>1, <2>3, <3>1 DEF FailedWillExpire, SomeoneAt
  <2> QED
      BY <1>0, <2>2, <2>3
<1>10. ASSUME NEW r \in Requests, ExpireFailed(r) PROVE FailedWillExpire'
    BY <1>0, <1>10 DEF ExpireFailed, Expire, FailedWillExpire
<1>11. ~Crash /\ \A r \in Requests : /\ ~CleanupFails(r) /\ ~FakeLimitsFail(r)
                                     /\ ~LinkLimitFails(r) /\ ~Abort(r) /\ ~LimitsReject(r)
    BY <1>0 DEF Crash, CleanupFails, FakeLimitsFail, LinkLimitFails, Abort, LimitsReject, Fault
<1>12. ASSUME CodeExpires \/ CooldownExpires \/ FailedExpires \/ ResendExpires PROVE Quiet
    BY <1>12 DEF CodeExpires, CooldownExpires, FailedExpires, ResendExpires
<1> QED
  <2> HIDE DEF Quiet, Hold, Go, Done
  <2> QED
      BY <1>1, <1>2, <1>3, <1>4, <1>5, <1>6, <1>7, <1>8, <1>9, <1>10, <1>11, <1>12
         DEF Next, Continue

LEMMA ResendKeeps ==
    ASSUME TypeOK, ResendWillExpire, [Next]_vars, faults' = faults
    PROVE  ResendWillExpire'
<1> DEFINE Stay ==
      \A s \in Requests : pc[s] \in {"window", "fakeWindow"} => pc'[s] = pc[s]
           Quiet == resend' = Missing \/ (resend' = resend /\ Stay)
<1>0. /\ pc \in [Requests -> Waits] /\ faults \in Nat /\ faults' # faults + 1
      /\ resend.count \in Nat /\ resend.expires \in BOOLEAN
    BY DEF TypeOK, Counters
<1>1. Quiet => ResendWillExpire'
    BY DEF ResendWillExpire, SomeoneAt, Missing
<1> USE DEF Hold, Go, Done
<1>2. CASE UNCHANGED vars
  <2>1. Quiet
      BY <1>2 DEF vars, keys, history
  <2> QED
      BY <1>1, <2>1
<1>3. ASSUME NEW r \in Requests, RequestCode(r) \/ FindAccount(r) \/ CheckResendLimit(r)
      PROVE  Quiet
    BY <1>0, <1>3 DEF RequestCode, FindAccount, CheckResendLimit, keys, history
<1>4. ASSUME NEW r \in Requests, ClearOtp(r) \/ StoreHashed(r) PROVE Quiet
    BY <1>0, <1>4 DEF ClearOtp, StoreHashed
<1>5. ASSUME NEW r \in Requests, ReadAccount(r) \/ RefuseLink(r) \/ CompareRight(r) \/ CompareWrong(r)
      PROVE  Quiet
    BY <1>0, <1>5 DEF ReadAccount, RefuseLink, CompareRight, CompareWrong, keys, history
<1>6. ASSUME NEW r \in Requests, NEW c \in Codes \cup {Wrong}, PresentCode(r, c) PROVE Quiet
    BY <1>0, <1>6 DEF PresentCode, keys, history
<1>7. ASSUME NEW r \in Requests, CountFailure(r) \/ ExpireFailed(r) PROVE Quiet
    BY <1>0, <1>7 DEF CountFailure, AfterIncr, ExpireFailed, history
<1>8. ASSUME NEW r \in Requests, Cleanup(r) PROVE Quiet
    BY <1>0, <1>8 DEF Cleanup, CleanupAll
<1>9. ASSUME NEW r \in Requests, NEW to \in {"window", "fakeWindow"},
             NEW S, SetRateLimits(S), AfterIncr(r, resend', to), pc[r] \in {"limits", "fakeLimits"}
      PROVE  ResendWillExpire'
  <2>1. \/ resend' = resend
        \/ resend'.count = resend.count + 1 /\ resend'.expires = resend.expires
      BY <1>9 DEF SetRateLimits, Incr
  <2>2. CASE resend'.count = 1
    <3>1. pc'[r] = to
        BY <1>0, <1>9, <2>2 DEF AfterIncr
    <3> QED
        BY <3>1 DEF ResendWillExpire, SomeoneAt
  <2>3. CASE resend'.count # 1
    <3>1. Stay
        BY <1>0, <1>9 DEF AfterIncr
    <3>2. resend'.count > 0 => resend.count > 0
        BY <1>0, <2>1, <2>3
    <3> QED
        BY <2>1, <3>1, <3>2 DEF ResendWillExpire, SomeoneAt
  <2> QED
      BY <2>2, <2>3
<1>10. ASSUME NEW r \in Requests, MailCode(r) \/ FakeLimits(r) PROVE ResendWillExpire'
    BY <1>9, <1>10 DEF MailCode, FakeLimits
<1>11. ASSUME NEW r \in Requests, ExpireResend(r) PROVE ResendWillExpire'
    BY <1>0, <1>11 DEF ExpireResend, Expire, ResendWillExpire
<1>12. ~Crash /\ \A r \in Requests : /\ ~CleanupFails(r) /\ ~FakeLimitsFail(r)
                                     /\ ~LinkLimitFails(r) /\ ~Abort(r) /\ ~LimitsReject(r)
    BY <1>0 DEF Crash, CleanupFails, FakeLimitsFail, LinkLimitFails, Abort, LimitsReject, Fault
<1>13. ASSUME CodeExpires \/ CooldownExpires \/ FailedExpires \/ ResendExpires PROVE Quiet
    BY <1>13 DEF CodeExpires, CooldownExpires, FailedExpires, ResendExpires
<1> QED
  <2> HIDE DEF Quiet, Hold, Go, Done
  <2> QED
      BY <1>1, <1>2, <1>3, <1>4, <1>5, <1>6, <1>7, <1>8, <1>10, <1>11, <1>12, <1>13
         DEF Next, Continue

-------------------------------------------------------------------------------
(* The theorems.                                                               *)

LEMMA InitLimitInv == Init => LimitInv /\ ExpiryInv
<1> SUFFICES ASSUME Init PROVE LimitInv /\ ExpiryInv
    OBVIOUS
<1>1. TypeOK
  <2>1. 0 \in 0..(MaxTries - 1) /\ "idle" \in Waits
      BY LimitsArePositive DEF Waits
  <2> QED
      BY <2>1 DEF Init, TypeOK, Counters, Missing
<1>2. At(pc, Admitted) = {} /\ At(pc, Mailing) = {}
    BY DEF Init, At, Admitted, Mailing
<1>3. Number(pc, Admitted) = 0 /\ Number(pc, Mailing) = 0
    BY <1>2, FS_EmptySet DEF Number
<1>4. /\ Lost \in Nat /\ Cardinality(Requests) \in Nat
      /\ Number(pc, Counting) \in Nat /\ Number(pc, CleaningUp) \in Nat
    BY <1>1, LostType, Size, CountType DEF TypeOK
<1>5. GuessInv /\ UseInv
    BY <1>3, <1>4, LimitsArePositive DEF Init, GuessInv, UseInv, Others, Missing
<1>6. MailInv
    BY <1>3, <1>4, LimitsArePositive DEF Init, MailInv, MaxMails, Others, Missing
<1>7. CountersWillExpire
    BY DEF Init, CountersWillExpire, Missing
<1> QED
    BY <1>1, <1>5, <1>6, <1>7 DEF LimitInv, ExpiryInv

(* However requests, retries, faults and crashes interleave, what was guessed, *)
(* mailed and used is counted, about to be counted, or lost by a fault.        *)
THEOREM LimitInvariant == Spec => []LimitInv
<1>1. LimitInv /\ [Next]_vars => LimitInv'
    BY NextStaysTyped, GuessesKeep, MailsKeep, UsesKeep DEF LimitInv
<1> QED
    BY <1>1, InitLimitInv, PTL DEF Spec

(* Without faults no counter is left without an expiry.                        *)
THEOREM CountersExpire == Spec => []ExpiryInv
<1>1. ExpiryInv /\ [Next]_vars => ExpiryInv'
  <2> SUFFICES ASSUME TypeOK, CountersWillExpire, [Next]_vars
               PROVE  TypeOK' /\ CountersWillExpire'
      BY DEF ExpiryInv
  <2>1. TypeOK'
      BY NextStaysTyped
  <2>2. ASSUME faults' = 0 PROVE FailedWillExpire' /\ ResendWillExpire'
    <3>1. faults' \in {faults, faults + 1} /\ faults \in Nat
        BY FaultsGrow DEF TypeOK
    <3>2. faults = 0 /\ faults' = faults
        BY <2>2, <3>1
    <3> QED
        BY <3>2, ExpiryParts, FailedKeeps, ResendKeeps
  <2> QED
      BY <2>1, <2>2, ExpiryParts
<1> QED
    BY <1>1, InitLimitInv, PTL DEF Spec

(* The limit of wrong codes is exceeded by the other slots at most, and by     *)
(* what faults lost.                                                           *)
THEOREM GuessesStayBounded == Spec => []GuessesBounded
<1>1. LimitInv => GuessesBounded
  <2> SUFFICES ASSUME LimitInv PROVE GuessesBounded
      OBVIOUS
  <2>1. /\ Number(pc, Admitted) \in Nat /\ Lost \in Nat /\ guesses \in Nat
        /\ MaxFailed \in Nat /\ Cardinality(Requests) \in Nat
      BY CountType, LostType, Size, LimitsArePositive DEF LimitInv, TypeOK
  <2> QED
      BY <2>1 DEF LimitInv, GuessInv, GuessesBounded, Others
<1> QED
    BY <1>1, LimitInvariant, PTL

(* So is the limit of mails.                                                   *)
THEOREM MailsStayBounded == Spec => []MailsBounded
<1>1. LimitInv => MailsBounded
  <2> SUFFICES ASSUME LimitInv PROVE MailsBounded
      OBVIOUS
  <2>1. /\ Number(pc, Mailing) \in Nat /\ faults \in Nat /\ sent \in Nat
        /\ MaxResend \in Nat /\ Cardinality(Requests) \in Nat
      BY CountType, Size, LimitsArePositive DEF LimitInv, TypeOK
  <2> QED
      BY <2>1 DEF LimitInv, MailInv, MaxMails, MailsBounded, Others
<1> QED
    BY <1>1, LimitInvariant, PTL

(* One code or link logs in as often as there are slots, and as faults lost    *)
(* clean-ups.                                                                  *)
THEOREM UsesStayBounded == Spec => []UsesBounded
<1>1. LimitInv => UsesBounded
  <2> SUFFICES ASSUME LimitInv PROVE UsesBounded
      OBVIOUS
  <2>1. /\ Number(pc, CleaningUp) \in Nat /\ Number(pc, CleaningUp) <= Cardinality(Requests)
        /\ Lost \in Nat /\ uses \in Nat /\ Cardinality(Requests) \in Nat
      BY CountType, LostType, Size DEF LimitInv, TypeOK
  <2> QED
      BY <2>1 DEF LimitInv, UseInv, UsesBounded, Others
<1> QED
    BY <1>1, LimitInvariant, PTL
===============================================================================
