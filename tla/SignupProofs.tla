------------------------------ MODULE SignupProofs ------------------------------
(* Proofs about signing up, for any finite number of requests, any limits and  *)
(* any number of faults.                                                       *)
EXTENDS Signup, SlotCounts, FiniteSetTheorems, TLAPS

(* Past the lockout guard, with a code that is not compared yet; and compared  *)
(* a wrong one, which is not counted yet.                                      *)
Admitted == {"compare"}
Counting == {"wrong"}

(* A wrong code is counted, or about to be, or a fault lost it; and nobody is  *)
(* admitted once the count has reached the limit.                              *)
GuessInv ==
    /\ guesses <= failed.count + Number(pc, Counting) + Lost
    /\ guesses + Number(pc, Admitted) <= MaxFailed + Others + Lost

(* Where the requests that send a code again are; a first send is nowhere.     *)
place == [r \in Requests |-> IF r \in again THEN pc[r] ELSE "first"]

(* Past the guard that limits resends, and not counted yet.                    *)
Resending == {"free", "clear", "store", "cool", "count"}

ResendInv ==
    /\ sent <= resend.count
    /\ sent + Number(place, Resending) <= MaxResend + Others

(* Stored a code, and has not mailed it.                                       *)
Stored == {"cool", "count", "window"}

(* Without overlapping sends one request at a time makes a code, and what it   *)
(* stored is what it will mail.                                                *)
MailInv ==
    ~overlap /\ faults = 0 =>
        /\ \A r, q \in Sending : r = q
        /\ \A r \in Requests : pc[r] \in Stored => code \in {NoCode, held[r]}
        /\ \/ code \in {NoCode, mailed}
           \/ \E r \in Requests : pc[r] \in Stored /\ held[r] = code

(* The parts of TypeOK about requests, and about keys and history.             *)
SlotsOK ==
    /\ pc \in [Requests -> Waits]
    /\ held \in [Requests -> Codes \cup {Wrong, NoCode}]
    /\ again \subseteq {r \in Requests : pc[r] \in SendWaits}
    /\ \A r \in Requests :
        /\ pc[r] \in {"store", "cool", "count", "window"} => held[r] \in Codes
        /\ pc[r] \in {"limit", "count", "window"} => r \in again

KeysOK ==
    /\ code \in Codes \cup {NoCode} /\ cooldown \in BOOLEAN
    /\ failed \in Counters /\ resend \in Counters /\ session \in BOOLEAN
    /\ auths \in Nat /\ profiles \in Nat
    /\ guesses \in Nat /\ sent \in Nat /\ faults \in Nat
    /\ mailed \in Codes \cup {NoCode} /\ overlap \in BOOLEAN

SignupInv == TypeOK /\ OneAccount /\ GuessInv /\ ResendInv /\ MailInv

-------------------------------------------------------------------------------
(* Types.                                                                      *)

LEMMA TypeParts ==
    /\ TypeOK <=> SlotsOK /\ KeysOK
    /\ TypeOK' <=> SlotsOK' /\ KeysOK'
BY DEF TypeOK, SlotsOK, KeysOK

(* What CleanupOtpData leaves are keys.                                        *)
LEMMA CleanupStaysTyped ==
    ASSUME TypeOK, NEW gone, CleanupOtpData(gone)
    PROVE  /\ code' \in Codes \cup {NoCode} /\ cooldown' \in BOOLEAN
           /\ failed' \in Counters /\ guesses' \in Nat
<1>1. cooldown' \in BOOLEAN
    BY Zenon DEF CleanupOtpData
<1>2. Missing \in Counters
    BY DEF Missing, Counters
<1> QED
    BY <1>1, <1>2 DEF CleanupOtpData, TypeOK

(* Where requests wait stays typed.                                            *)
LEMMA SlotsStayTyped ==
    ASSUME SlotsOK, NEW r \in Requests
    PROVE  /\ \A to \in Waits, c \in Codes \cup {Wrong, NoCode} :
                /\ Hold(r, to, c)
                /\ pc[r] \in SendWaits => to \in SendWaits
                /\ to \in {"store", "cool", "count", "window"} => c \in Codes
                /\ to \in {"limit", "count", "window"} => r \in again
                => SlotsOK'
           /\ Done(r) => SlotsOK'
<1>1. "idle" \in Waits
    BY DEF Waits
<1> QED
    BY <1>1 DEF SlotsOK, Hold, Done

(* The steps of sending.                                                       *)
LEMMA SendingStaysTyped ==
    ASSUME TypeOK, NEW r \in Requests,
           \/ \E b \in BOOLEAN : RequestCode(r, b)
           \/ CheckResendLimit(r) \/ EmailAvailable(r) \/ ClearOtp(r) \/ StoreHashed(r)
           \/ SetCooldown(r) \/ CountResend(r) \/ ExpireResend(r)
    PROVE  TypeOK'
<1>0. /\ SlotsOK /\ KeysOK
      /\ held[r] \in Codes \cup {Wrong, NoCode}
      /\ Missing \in Counters /\ Incr(resend) \in Counters /\ Expire(resend) \in Counters
    BY TypeParts DEF SlotsOK, KeysOK, Missing, Incr, Expire, Counters
<1>1. /\ pc[r] \in {"store", "cool", "count", "window"} => held[r] \in Codes
      /\ pc[r] \in {"limit", "count", "window"} => r \in again
    BY <1>0 DEF SlotsOK
<1> USE DEF Waits, SendWaits, Go
<1>2. ASSUME NEW b \in BOOLEAN, RequestCode(r, b) PROVE TypeOK'
  <2>1. overlap' \in BOOLEAN
      BY <1>2, Zenon DEF RequestCode
  <2>2. SlotsOK'
      BY <1>0, <1>2 DEF RequestCode, SlotsOK
  <2> QED
      BY <1>0, <1>2, <2>1, <2>2, TypeParts DEF RequestCode, KeysOK, keys, accounts
<1>3. CASE CheckResendLimit(r)
    BY <1>0, <1>1, <1>3, SlotsStayTyped, TypeParts
       DEF CheckResendLimit, KeysOK, keys, accounts, history
<1>4. CASE EmailAvailable(r)
    BY <1>0, <1>1, <1>4, SlotsStayTyped, TypeParts
       DEF EmailAvailable, KeysOK, keys, accounts, history
<1>5. CASE ClearOtp(r)
    BY <1>0, <1>1, <1>5, SlotsStayTyped, TypeParts DEF ClearOtp, KeysOK, accounts, history
<1>6. CASE StoreHashed(r)
    BY <1>0, <1>1, <1>6, SlotsStayTyped, TypeParts DEF StoreHashed, KeysOK, accounts, history
<1>7. CASE SetCooldown(r)
    BY <1>0, <1>1, <1>7, SlotsStayTyped, TypeParts DEF SetCooldown, Mail, KeysOK, accounts
<1>8. CASE CountResend(r)
    BY <1>0, <1>1, <1>8, SlotsStayTyped, TypeParts DEF CountResend, Mail, KeysOK, accounts
<1>9. CASE ExpireResend(r)
    BY <1>0, <1>1, <1>9, SlotsStayTyped, TypeParts DEF ExpireResend, Mail, KeysOK, accounts
<1> QED
    BY <1>2, <1>3, <1>4, <1>5, <1>6, <1>7, <1>8, <1>9

(* The steps of verifying and completing.                                      *)
LEMMA VerifyingStaysTyped ==
    ASSUME TypeOK, NEW r \in Requests,
           \/ \E c \in Codes \cup {Wrong} : PresentCode(r, c)
           \/ CompareRight(r) \/ CompareWrong(r) \/ CountFailure(r) \/ ExpireFailed(r)
           \/ IssueSession(r) \/ CleanUp(r)
           \/ PresentSession(r) \/ StillAvailable(r) \/ CreateUserAccount(r) \/ Forget(r)
    PROVE  TypeOK'
<1>0. /\ SlotsOK /\ KeysOK
      /\ held[r] \in Codes \cup {Wrong, NoCode}
      /\ Missing \in Counters /\ Incr(failed) \in Counters /\ Expire(failed) \in Counters
    BY TypeParts DEF SlotsOK, KeysOK, Missing, Incr, Expire, Counters
<1> USE DEF Waits, SendWaits, Go
<1>1. ASSUME NEW c \in Codes \cup {Wrong}, PresentCode(r, c) PROVE TypeOK'
    BY <1>0, <1>1, SlotsStayTyped, TypeParts DEF PresentCode, KeysOK, keys, accounts, history
<1>2. CASE CompareRight(r)
    BY <1>0, <1>2, SlotsStayTyped, TypeParts DEF CompareRight, KeysOK, keys, accounts, history
<1>3. CASE CompareWrong(r)
    BY <1>0, <1>3, SlotsStayTyped, TypeParts DEF CompareWrong, KeysOK, keys, accounts
<1>4. CASE CountFailure(r)
    BY <1>0, <1>4, SlotsStayTyped, TypeParts DEF CountFailure, KeysOK, accounts, history
<1>5. CASE ExpireFailed(r)
    BY <1>0, <1>5, SlotsStayTyped, TypeParts DEF ExpireFailed, KeysOK, accounts, history
<1>6. CASE IssueSession(r)
    BY <1>0, <1>6, SlotsStayTyped, TypeParts DEF IssueSession, KeysOK, accounts, history
<1>7. CASE CleanUp(r)
    BY <1>0, <1>7, CleanupStaysTyped, SlotsStayTyped, TypeParts DEF CleanUp, KeysOK, accounts
<1>8. CASE PresentSession(r)
    BY <1>0, <1>8, SlotsStayTyped, TypeParts DEF PresentSession, KeysOK, keys, accounts, history
<1>9. CASE StillAvailable(r)
    BY <1>0, <1>9, SlotsStayTyped, TypeParts DEF StillAvailable, KeysOK, keys, accounts, history
<1>10. CASE CreateUserAccount(r)
    BY <1>0, <1>10, SlotsStayTyped, TypeParts
       DEF CreateUserAccount, KeysOK, keys, accounts, history
<1>11. CASE Forget(r)
    BY <1>0, <1>11, CleanupStaysTyped, SlotsStayTyped, TypeParts DEF Forget, KeysOK, accounts
<1> QED
    BY <1>1, <1>2, <1>3, <1>4, <1>5, <1>6, <1>7, <1>8, <1>9, <1>10, <1>11

LEMMA NextStaysTyped ==
    ASSUME TypeOK, [Next]_vars
    PROVE  TypeOK'
<1>0. /\ SlotsOK /\ KeysOK
      /\ Missing \in Counters
    BY TypeParts DEF Missing, Counters
<1>1. CASE UNCHANGED vars
    BY <1>1 DEF vars, keys, accounts, history, TypeOK
<1>2. ASSUME NEW r \in Requests, Abort(r) PROVE TypeOK'
    BY <1>0, <1>2, SlotsStayTyped, TypeParts DEF Abort, Fault, KeysOK, keys, accounts
<1>3. ASSUME NEW r \in Requests, CleanUpFails(r) PROVE TypeOK'
  <2>1. PICK gone \in SUBSET OtpData : CleanupOtpData(gone)
      BY <1>3 DEF CleanUpFails
  <2>2. session' \in BOOLEAN
      BY <1>0, <1>3, Zenon DEF CleanUpFails, KeysOK
  <2> QED
      BY <1>0, <1>3, <2>1, <2>2, CleanupStaysTyped, SlotsStayTyped, TypeParts
         DEF CleanUpFails, Fault, KeysOK, accounts
<1>4. CASE Crash
  <2>1. SlotsOK'
      BY <1>4 DEF Crash, SlotsOK, Waits
  <2> QED
      BY <1>0, <1>4, <2>1, TypeParts DEF Crash, Fault, KeysOK, keys, accounts
<1>5. CASE CodeExpires \/ CooldownExpires \/ SessionExpires \/ FailedExpires \/ ResendExpires
  <2>1. UNCHANGED <<pc, held, again>>
      BY <1>5 DEF CodeExpires, CooldownExpires, SessionExpires, FailedExpires, ResendExpires
  <2>2. SlotsOK'
      BY <1>0, <2>1 DEF SlotsOK
  <2>3. CASE CodeExpires \/ CooldownExpires \/ SessionExpires
      BY <1>0, <2>2, <2>3, TypeParts
         DEF CodeExpires, CooldownExpires, SessionExpires, KeysOK, accounts, history
  <2>4. CASE FailedExpires \/ ResendExpires
      BY <1>0, <2>2, <2>4, TypeParts DEF FailedExpires, ResendExpires, KeysOK, accounts
  <2> QED
      BY <1>5, <2>3, <2>4
<1> QED
    BY <1>1, <1>2, <1>3, <1>4, <1>5, SendingStaysTyped, VerifyingStaysTyped DEF Next

-------------------------------------------------------------------------------
(* Numbers of requests.                                                        *)

Places == Waits \cup {"first"}

LEMMA Size == Cardinality(Requests) \in Nat
BY RequestsAreFinite, FS_CardinalityType

LEMMA Numbers ==
    ASSUME NEW at \in [Requests -> Places], NEW S
    PROVE  Number(at, S) \in Nat /\ Number(at, S) <= Cardinality(Requests)
BY RequestsAreFinite, Sized

LEMMA NobodyNew ==
    ASSUME NEW at \in [Requests -> Places], NEW next \in [Requests -> Places],
           NEW S, At(next, S) \subseteq At(at, S)
    PROVE  Number(next, S) <= Number(at, S)
BY RequestsAreFinite, Fewer

(* The step of one request moves it in or out.                                 *)
LEMMA Moves ==
    ASSUME NEW at \in [Requests -> Places], NEW next \in [Requests -> Places],
           NEW r \in Requests, \A q \in Requests : q # r => next[q] = at[q], NEW S
    PROVE  /\ at[r] \notin S /\ next[r] \in S => Number(next, S) = Number(at, S) + 1
           /\ at[r] \in S /\ next[r] \notin S => Number(next, S) = Number(at, S) - 1
<1>1. at[r] \notin S /\ next[r] \in S => Number(next, S) = Number(at, S) + 1
    BY RequestsAreFinite, Enters
<1>2. at[r] \in S /\ next[r] \notin S => Number(next, S) = Number(at, S) - 1
    BY RequestsAreFinite, Leaves
<1> QED
    BY <1>1, <1>2

LEMMA PlacesHold ==
    /\ TypeOK => pc \in [Requests -> Places] /\ place \in [Requests -> Places]
    /\ TypeOK' => pc' \in [Requests -> Places] /\ place' \in [Requests -> Places]
BY DEF TypeOK, Places, place

LEMMA LostType ==
    ASSUME faults \in Nat
    PROVE  /\ Lost \in Nat
           /\ faults' = faults + 1 => Lost' = Lost + Cardinality(Requests)
           /\ faults' = faults => Lost' = Lost
BY LossGrows, Size DEF Lost

-------------------------------------------------------------------------------
(* Wrong codes.                                                                *)

(* A step that compares and counts nothing keeps the bounds when nobody is     *)
(* admitted and nobody leaves without counting, unless by a fault.             *)
LEMMA GuessesQuiet ==
    ASSUME TypeOK, TypeOK', GuessInv,
           \/ guesses' = 0
           \/ /\ guesses' = guesses
              /\ failed'.count >= failed.count
              /\ At(pc', Admitted) \subseteq At(pc, Admitted)
              /\ At(pc, Counting) \subseteq At(pc', Counting) \/ faults' = faults + 1,
           faults' \in {faults, faults + 1}
    PROVE  GuessInv'
<1>0. /\ guesses \in Nat /\ faults \in Nat /\ faults' \in Nat
      /\ failed.count \in Nat /\ failed'.count \in Nat
      /\ MaxFailed \in Nat \ {0} /\ Cardinality(Requests) \in Nat
      /\ pc \in [Requests -> Places] /\ pc' \in [Requests -> Places]
    BY SignupLimits, Size, PlacesHold DEF TypeOK, Counters
<1>1. /\ Number(pc, Counting) \in Nat /\ Number(pc, Counting) <= Cardinality(Requests)
      /\ Number(pc', Counting) \in Nat
      /\ Number(pc, Admitted) \in Nat /\ Number(pc', Admitted) \in Nat
      /\ Number(pc', Admitted) <= Cardinality(Requests)
    BY <1>0, Numbers
<1>2. /\ Lost \in Nat /\ Lost' \in Nat
      /\ faults' = faults + 1 => Lost' = Lost + Cardinality(Requests)
      /\ faults' = faults => Lost' = Lost
    BY <1>0, LostType
<1>3. At(pc', Admitted) \subseteq At(pc, Admitted) => Number(pc', Admitted) <= Number(pc, Admitted)
    BY <1>0, NobodyNew
<1>4. At(pc, Counting) \subseteq At(pc', Counting) => Number(pc, Counting) <= Number(pc', Counting)
    BY <1>0, NobodyNew
<1> QED
    BY <1>0, <1>1, <1>2, <1>3, <1>4 DEF GuessInv, Others

(* isLocked admits a request only below the limit: the codes compared since,   *)
(* those that will be, and the new one stay within the slots.                  *)
LEMMA PresentKeepsGuesses ==
    ASSUME TypeOK, TypeOK', GuessInv, NEW r \in Requests,
           NEW c \in Codes \cup {Wrong}, PresentCode(r, c)
    PROVE  GuessInv'
<1>1. /\ pc \in [Requests -> Places] /\ pc' \in [Requests -> Places]
      /\ pc[r] = "idle" /\ pc'[r] = "compare"
      /\ \A q \in Requests : q # r => pc'[q] = pc[q]
      /\ failed.count < MaxFailed /\ MaxFailed \in Nat
      /\ UNCHANGED <<failed, guesses, faults>>
      /\ guesses \in Nat /\ faults \in Nat /\ failed.count \in Nat
    BY SignupLimits, PlacesHold
       DEF TypeOK, PresentCode, Hold, LimitReached, keys, history, Counters
<1>2. Number(pc', Admitted) = Number(pc, Admitted) + 1
    BY <1>1, Moves DEF Admitted
<1>3. At(pc, Counting) \subseteq At(pc', Counting)
    BY <1>1 DEF At, Counting
<1>4. Number(pc, Counting) <= Number(pc', Counting)
    BY <1>1, <1>3, NobodyNew
<1>5. Number(pc, Admitted \cup Counting) = Number(pc, Admitted) + Number(pc, Counting)
  <2>1. Admitted \cap Counting = {}
      BY DEF Admitted, Counting
  <2> QED
      BY <1>1, <2>1, RequestsAreFinite, Apart
<1>6. Number(pc, Admitted \cup Counting) + 1 <= Cardinality(Requests)
  <2>1. "idle" \notin Admitted \cup Counting
      BY DEF Admitted, Counting
  <2> QED
      BY <1>1, <2>1, RequestsAreFinite, Room
<1>7. Lost' = Lost /\ Lost \in Nat
    BY <1>1, LostType
<1>8. /\ Number(pc, Admitted) \in Nat /\ Number(pc, Counting) \in Nat
      /\ Number(pc', Counting) \in Nat
    BY <1>1, Numbers
<1> QED
    BY <1>1, <1>2, <1>4, <1>5, <1>6, <1>7, <1>8, Size DEF GuessInv, Others

(* A wrong code moves from those admitted to those compared.                   *)
LEMMA CompareKeepsGuesses ==
    ASSUME TypeOK, TypeOK', GuessInv, NEW r \in Requests, CompareWrong(r)
    PROVE  GuessInv'
<1>1. /\ pc \in [Requests -> Places] /\ pc' \in [Requests -> Places]
      /\ pc[r] = "compare" /\ pc'[r] = "wrong"
      /\ \A q \in Requests : q # r => pc'[q] = pc[q]
      /\ guesses' = guesses + 1 /\ UNCHANGED <<failed, faults>>
      /\ guesses \in Nat /\ faults \in Nat /\ failed.count \in Nat
    BY PlacesHold DEF TypeOK, CompareWrong, Hold, keys, Counters
<1>2. Number(pc', Counting) = Number(pc, Counting) + 1
    BY <1>1, Moves DEF Counting
<1>3. Number(pc', Admitted) = Number(pc, Admitted) - 1
    BY <1>1, Moves DEF Admitted
<1>4. Lost' = Lost /\ Lost \in Nat
    BY <1>1, LostType
<1>5. /\ Number(pc, Admitted) \in Nat /\ Number(pc, Counting) \in Nat /\ MaxFailed \in Nat
    BY <1>1, Numbers, SignupLimits
<1> QED
    BY <1>1, <1>2, <1>3, <1>4, <1>5, Size DEF GuessInv, Others

(* INCR takes over what the request was about to count.                        *)
LEMMA CountKeepsGuesses ==
    ASSUME TypeOK, TypeOK', GuessInv, NEW r \in Requests, CountFailure(r)
    PROVE  GuessInv'
<1>1. /\ pc \in [Requests -> Places] /\ pc' \in [Requests -> Places]
      /\ pc[r] = "wrong" /\ pc'[r] \in {"penalty", "idle"}
      /\ \A q \in Requests : q # r => pc'[q] = pc[q]
      /\ failed'.count = failed.count + 1 /\ UNCHANGED <<guesses, faults>>
      /\ guesses \in Nat /\ faults \in Nat /\ failed.count \in Nat
    BY PlacesHold DEF TypeOK, CountFailure, Go, Hold, Done, Incr, history, Counters
<1>2. Number(pc', Counting) = Number(pc, Counting) - 1
    BY <1>1, Moves DEF Counting
<1>3. At(pc', Admitted) \subseteq At(pc, Admitted)
    BY <1>1 DEF At, Admitted
<1>4. Number(pc', Admitted) <= Number(pc, Admitted)
    BY <1>1, <1>3, NobodyNew
<1>5. Lost' = Lost /\ Lost \in Nat
    BY <1>1, LostType
<1>6. /\ Number(pc, Admitted) \in Nat /\ Number(pc', Admitted) \in Nat
      /\ Number(pc, Counting) \in Nat /\ MaxFailed \in Nat
    BY <1>1, Numbers, SignupLimits
<1> QED
    BY <1>1, <1>2, <1>4, <1>5, <1>6, Size DEF GuessInv, Others

(* Every other step is quiet.                                                  *)
LEMMA GuessesKeep ==
    ASSUME TypeOK, TypeOK', GuessInv, [Next]_vars
    PROVE  GuessInv'
<1> DEFINE Quiet ==
      /\ \/ guesses' = 0
         \/ /\ guesses' = guesses
            /\ failed'.count >= failed.count
            /\ At(pc', Admitted) \subseteq At(pc, Admitted)
            /\ At(pc, Counting) \subseteq At(pc', Counting) \/ faults' = faults + 1
      /\ faults' \in {faults, faults + 1}
<1>0. /\ failed.count \in Nat /\ failed.count >= failed.count
      /\ pc \in [Requests -> Waits]
      /\ Expire(failed).count = failed.count
    BY DEF TypeOK, Counters, Expire
<1>1. Quiet => GuessInv'
    BY GuessesQuiet
<1> USE DEF At, Admitted, Counting, Hold, Go, Done
<1>2. CASE UNCHANGED vars
  <2>1. Quiet
      BY <1>0, <1>2 DEF vars, keys, history
  <2> QED
      BY <1>1, <2>1
<1>3. ASSUME NEW r \in Requests, (\E b \in BOOLEAN : RequestCode(r, b)) \/ CheckResendLimit(r)
      PROVE  Quiet
    BY <1>0, <1>3 DEF RequestCode, CheckResendLimit, keys, history
<1>4. ASSUME NEW r \in Requests, EmailAvailable(r) \/ ClearOtp(r) \/ StoreHashed(r) PROVE Quiet
    BY <1>0, <1>4 DEF EmailAvailable, ClearOtp, StoreHashed, keys, history
<1>5. ASSUME NEW r \in Requests, SetCooldown(r) \/ CountResend(r) \/ ExpireResend(r) PROVE Quiet
    BY <1>0, <1>5 DEF SetCooldown, CountResend, ExpireResend, Mail
<1>6. ASSUME NEW r \in Requests, CompareRight(r) \/ ExpireFailed(r) \/ IssueSession(r) PROVE Quiet
    BY <1>0, <1>6 DEF CompareRight, ExpireFailed, IssueSession, keys, history
<1>7. ASSUME NEW r \in Requests, CleanUp(r) \/ Forget(r) PROVE Quiet
    BY <1>0, <1>7 DEF CleanUp, Forget, CleanupOtpData
<1>8. ASSUME NEW r \in Requests, PresentSession(r) \/ StillAvailable(r) \/ CreateUserAccount(r)
      PROVE  Quiet
    BY <1>0, <1>8 DEF PresentSession, StillAvailable, CreateUserAccount, keys, history
<1>9. ASSUME NEW r \in Requests, Abort(r) PROVE Quiet
    BY <1>0, <1>9 DEF Abort, Fault, keys
<1>10. ASSUME NEW r \in Requests, CleanUpFails(r) PROVE Quiet
    BY <1>0, <1>10 DEF CleanUpFails, CleanupOtpData, Fault
<1>11. CASE Crash
  <2>1. Quiet
      BY <1>0, <1>11 DEF Crash, Fault, keys
  <2> QED
      BY <1>1, <2>1
<1>12. ASSUME CodeExpires \/ CooldownExpires \/ SessionExpires \/ FailedExpires \/ ResendExpires
       PROVE  Quiet
    BY <1>0, <1>12
       DEF CodeExpires, CooldownExpires, SessionExpires, FailedExpires, ResendExpires, history
<1> QED
  <2> HIDE DEF Quiet, At, Admitted, Counting, Hold, Go, Done
  <2> QED
      BY <1>1, <1>2, <1>3, <1>4, <1>5, <1>6, <1>7, <1>8, <1>9, <1>10, <1>11, <1>12,
         PresentKeepsGuesses, CompareKeepsGuesses, CountKeepsGuesses DEF Next

-------------------------------------------------------------------------------
(* Codes sent again.                                                           *)

(* Only a resend asks for the limit, counts and waits for the window.          *)
LEMMA ResendsQuiet ==
    ASSUME TypeOK, TypeOK', ResendInv,
           \/ sent' = 0
           \/ /\ sent' = sent
              /\ resend'.count >= resend.count
              /\ At(place', Resending) \subseteq At(place, Resending)
    PROVE  ResendInv'
<1>0. /\ sent \in Nat /\ resend.count \in Nat /\ resend'.count \in Nat
      /\ MaxResend \in Nat \ {0} /\ Cardinality(Requests) \in Nat
      /\ place \in [Requests -> Places] /\ place' \in [Requests -> Places]
    BY SignupLimits, Size, PlacesHold DEF TypeOK, Counters
<1>1. /\ Number(place, Resending) \in Nat /\ Number(place', Resending) \in Nat
      /\ Number(place', Resending) <= Cardinality(Requests)
    BY <1>0, Numbers
<1>2. At(place', Resending) \subseteq At(place, Resending) =>
          Number(place', Resending) <= Number(place, Resending)
    BY <1>0, NobodyNew
<1> QED
    BY <1>0, <1>1, <1>2 DEF ResendInv, Others

(* The guard lets a resend past: there is room for it among the slots.         *)
LEMMA PastGuardKeepsResends ==
    ASSUME TypeOK, TypeOK', ResendInv, NEW r \in Requests,
           CheckResendLimit(r), ~LimitReached(resend, MaxResend)
    PROVE  ResendInv'
<1>1. /\ place \in [Requests -> Places] /\ place' \in [Requests -> Places]
      /\ sent \in Nat /\ resend.count \in Nat /\ MaxResend \in Nat
      /\ UNCHANGED <<sent, resend>> /\ resend.count < MaxResend
    BY SignupLimits, PlacesHold
       DEF TypeOK, Counters, CheckResendLimit, LimitReached, keys, history
<1>2. /\ place[r] = "limit" /\ place'[r] = "free"
      /\ \A q \in Requests : q # r => place'[q] = place[q]
    BY DEF place, TypeOK, CheckResendLimit, Go, Hold
<1>3. Number(place', Resending) = Number(place, Resending) + 1
    BY <1>1, <1>2, Moves DEF Resending
<1>4. Number(place, Resending) + 1 <= Cardinality(Requests) /\ Number(place, Resending) \in Nat
  <2>1. "limit" \notin Resending
      BY DEF Resending
  <2> QED
      BY <1>1, <1>2, <2>1, RequestsAreFinite, Room, Numbers
<1> QED
    BY <1>1, <1>3, <1>4, Size DEF ResendInv, Others

(* A resend is counted by the one that moves on to mail it.                    *)
LEMMA CountKeepsResends ==
    ASSUME TypeOK, TypeOK', ResendInv, NEW r \in Requests, CountResend(r)
    PROVE  ResendInv'
<1>1. /\ place \in [Requests -> Places] /\ place' \in [Requests -> Places]
      /\ sent \in Nat /\ resend.count \in Nat /\ MaxResend \in Nat
      /\ sent' = sent + 1 /\ resend'.count = resend.count + 1
    BY SignupLimits, PlacesHold DEF TypeOK, Counters, CountResend, Incr
<1>2. /\ place[r] = "count" /\ place'[r] \in {"window", "first"}
      /\ \A q \in Requests : q # r => place'[q] = place[q]
    BY DEF place, TypeOK, CountResend, Mail, Go, Hold, Done
<1>3. Number(place', Resending) = Number(place, Resending) - 1
    BY <1>1, <1>2, Moves DEF Resending
<1>4. Number(place, Resending) \in Nat
    BY <1>1, Numbers
<1> QED
    BY <1>1, <1>3, <1>4, Size DEF ResendInv, Others

LEMMA ResendsKeep ==
    ASSUME TypeOK, TypeOK', ResendInv, [Next]_vars
    PROVE  ResendInv'
<1> DEFINE Quiet ==
      \/ sent' = 0
      \/ /\ sent' = sent
         /\ resend'.count >= resend.count
         /\ At(place', Resending) \subseteq At(place, Resending)
<1>0. /\ resend.count \in Nat /\ resend.count >= resend.count
      /\ pc \in [Requests -> Waits]
      /\ again \subseteq {r \in Requests : pc[r] \in SendWaits}
      /\ Expire(resend).count = resend.count
    BY DEF TypeOK, Counters, Expire
<1>1. Quiet => ResendInv'
    BY ResendsQuiet
<1> USE DEF At, place, Resending, Hold, Go, Done
<1>2. CASE UNCHANGED vars
  <2>1. Quiet
      BY <1>0, <1>2 DEF vars, keys, history
  <2> QED
      BY <1>1, <2>1
<1>3. ASSUME NEW r \in Requests, NEW b \in BOOLEAN, RequestCode(r, b) PROVE Quiet
    BY <1>0, <1>3 DEF RequestCode, SendWaits, keys
<1>4. ASSUME NEW r \in Requests, CheckResendLimit(r), LimitReached(resend, MaxResend)
      PROVE  Quiet
    BY <1>0, <1>4 DEF CheckResendLimit, keys, history
<1>5. ASSUME NEW r \in Requests, EmailAvailable(r) \/ ClearOtp(r) \/ StoreHashed(r) PROVE Quiet
    BY <1>0, <1>5 DEF EmailAvailable, ClearOtp, StoreHashed, keys, history
<1>6. ASSUME NEW r \in Requests, SetCooldown(r) \/ ExpireResend(r) PROVE Quiet
    BY <1>0, <1>6 DEF SetCooldown, ExpireResend, Mail
<1>7. ASSUME NEW r \in Requests, NEW c \in Codes \cup {Wrong}, PresentCode(r, c) PROVE Quiet
    BY <1>0, <1>7 DEF PresentCode, SendWaits, keys, history
<1>8. ASSUME NEW r \in Requests, CompareRight(r) \/ CompareWrong(r) PROVE Quiet
    BY <1>0, <1>8 DEF CompareRight, CompareWrong, SendWaits, keys, history
<1>9. ASSUME NEW r \in Requests, CountFailure(r) \/ ExpireFailed(r) \/ IssueSession(r) PROVE Quiet
    BY <1>0, <1>9 DEF CountFailure, ExpireFailed, IssueSession, SendWaits, history
<1>10. ASSUME NEW r \in Requests, CleanUp(r) \/ Forget(r) PROVE Quiet
    BY <1>0, <1>10 DEF CleanUp, Forget, SendWaits
<1>11. ASSUME NEW r \in Requests, PresentSession(r) \/ StillAvailable(r) \/ CreateUserAccount(r)
       PROVE  Quiet
    BY <1>0, <1>11 DEF PresentSession, StillAvailable, CreateUserAccount, SendWaits, keys, history
<1>12. ASSUME NEW r \in Requests, Abort(r) \/ CleanUpFails(r) PROVE Quiet
    BY <1>0, <1>12 DEF Abort, CleanUpFails, keys
<1>13. CASE Crash
  <2>1. Quiet
      BY <1>0, <1>13 DEF Crash, keys
  <2> QED
      BY <1>1, <2>1
<1>14. ASSUME CodeExpires \/ CooldownExpires \/ SessionExpires \/ FailedExpires \/ ResendExpires
       PROVE  Quiet
    BY <1>0, <1>14
       DEF CodeExpires, CooldownExpires, SessionExpires, FailedExpires, ResendExpires, history
<1> QED
  <2> HIDE DEF Quiet, At, place, Resending, Hold, Go, Done
  <2> QED
      BY <1>1, <1>2, <1>3, <1>4, <1>5, <1>6, <1>7, <1>8, <1>9, <1>10, <1>11, <1>12, <1>13,
         <1>14, PastGuardKeepsResends, CountKeepsResends DEF Next

-------------------------------------------------------------------------------
(* The newest mail.                                                            *)

LEMMA FaultsGrow ==
    ASSUME [Next]_vars
    PROVE  faults' \in {faults, faults + 1}
BY DEF Next, vars, keys, history, RequestCode, CheckResendLimit, EmailAvailable, ClearOtp,
       StoreHashed, SetCooldown, CountResend, ExpireResend, Mail, PresentCode, CompareRight,
       CompareWrong, CountFailure, ExpireFailed, IssueSession, CleanUp, PresentSession,
       StillAvailable, CreateUserAccount, Forget, Abort, CleanUpFails, Crash, CodeExpires,
       CooldownExpires, SessionExpires, FailedExpires, ResendExpires, Fault

(* What MailInv says while no sends overlap and nothing fails.                 *)
MailOK ==
    /\ \A r, q \in Sending : r = q
    /\ \A r \in Requests : pc[r] \in Stored => code \in {NoCode, held[r]}
    /\ \/ code \in {NoCode, mailed}
       \/ \E r \in Requests : pc[r] \in Stored /\ held[r] = code

LEMMA MailParts ==
    /\ MailInv <=> (~overlap /\ faults = 0 => MailOK)
    /\ MailInv' <=> (~overlap' /\ faults' = 0 => MailOK')
BY DEF MailInv, MailOK, Sending

(* Nobody starts to send, and the stored code and whoever will mail it stay,   *)
(* or the code is deleted.                                                     *)
LEMMA MailsQuiet ==
    ASSUME MailOK, Sending' \subseteq Sending, mailed' = mailed,
           \A r \in Requests : pc'[r] \in Stored => pc[r] \in Stored /\ held'[r] = held[r],
           \/ code' = NoCode
           \/ /\ code' = code
              /\ \A r \in Requests : pc[r] \in Stored => pc'[r] \in Stored /\ held'[r] = held[r]
    PROVE  MailOK'
BY DEF MailOK

(* The only request that sends mails what it stored.                           *)
LEMMA MailKeepsMails ==
    ASSUME TypeOK, MailOK, NEW r \in Requests, pc[r] \in Stored, Mail(r), code' = code
    PROVE  MailOK'
<1>1. pc \in [Requests -> Waits] /\ mailed' = held[r]
    BY DEF TypeOK, Mail
<1>2. \A q \in Requests : pc'[q] \notin SendWaits
    BY <1>1 DEF MailOK, Mail, Done, Sending, Stored, SendWaits
<1>3. code' \in {NoCode, mailed'}
    BY <1>1 DEF MailOK
<1> QED
    BY <1>2, <1>3 DEF MailOK, Sending, Stored, SendWaits

(* So does the step that stores it.                                            *)
LEMMA StoreKeepsMails ==
    ASSUME TypeOK, MailOK, NEW r \in Requests, StoreHashed(r)
    PROVE  MailOK'
<1>1. /\ pc \in [Requests -> Waits] /\ held \in [Requests -> Codes \cup {Wrong, NoCode}]
      /\ pc[r] = "store" /\ pc' = [pc EXCEPT ![r] = "cool"]
      /\ held'[r] = held[r] /\ code' = held[r]
    BY DEF TypeOK, StoreHashed, Go, Hold
<1>2. \A q \in Requests : q # r => pc[q] \notin SendWaits /\ pc'[q] = pc[q]
    BY <1>1 DEF MailOK, Sending, SendWaits
<1> QED
    BY <1>1, <1>2 DEF MailOK, Sending, SendWaits, Stored

LEMMA MailsKeep ==
    ASSUME TypeOK, MailInv, [Next]_vars
    PROVE  MailInv'
<1> SUFFICES ASSUME ~overlap', faults' = 0 PROVE MailOK'
    BY MailParts
<1> DEFINE Quiet ==
      /\ Sending' \subseteq Sending /\ mailed' = mailed
      /\ \A r \in Requests : pc'[r] \in Stored => pc[r] \in Stored /\ held'[r] = held[r]
      /\ \/ code' = NoCode
         \/ /\ code' = code
            /\ \A r \in Requests : pc[r] \in Stored => pc'[r] \in Stored /\ held'[r] = held[r]
<1>0. /\ pc \in [Requests -> Waits] /\ held \in [Requests -> Codes \cup {Wrong, NoCode}]
      /\ faults \in Nat /\ faults' # faults + 1
  <2>1. faults \in Nat
      BY DEF TypeOK
  <2> QED
      BY <2>1 DEF TypeOK
<1>1. ~overlap => MailOK
  <2>1. faults = 0
      BY <1>0, FaultsGrow
  <2> QED
      BY <2>1, MailParts
<1>2. ~overlap /\ Quiet => MailOK'
    BY <1>1, MailsQuiet
<1> USE DEF Sending, Stored, SendWaits, Hold, Go, Done
<1>3. ASSUME UNCHANGED vars PROVE ~overlap /\ Quiet
    BY <1>3 DEF vars, keys, history
<1>4. ASSUME NEW r \in Requests, NEW b \in BOOLEAN, RequestCode(r, b) PROVE MailOK'
  <2>1. ~overlap /\ Sending = {} /\ UNCHANGED <<code, held, mailed>>
      BY <1>4 DEF RequestCode, keys
  <2>2. \A q \in Requests : pc'[q] \in SendWaits => q = r
      BY <1>0, <1>4, <2>1 DEF RequestCode
  <2>3. pc'[r] \in {"limit", "free"}
      BY <1>0, <1>4 DEF RequestCode
  <2>4. code \in {NoCode, mailed}
      BY <1>1, <2>1 DEF MailOK
  <2> QED
      BY <2>1, <2>2, <2>3, <2>4 DEF MailOK
<1>5. ASSUME NEW r \in Requests, CheckResendLimit(r) \/ EmailAvailable(r) PROVE ~overlap /\ Quiet
    BY <1>0, <1>5 DEF CheckResendLimit, EmailAvailable, keys, history
<1>6. ASSUME NEW r \in Requests, ClearOtp(r) PROVE ~overlap /\ Quiet
    BY <1>0, <1>6 DEF ClearOtp, history
<1>7. ASSUME NEW r \in Requests, StoreHashed(r) PROVE MailOK'
  <2>1. ~overlap
      BY <1>7 DEF StoreHashed, history
  <2> QED
      BY <1>1, <1>7, <2>1, StoreKeepsMails
<1>8. ASSUME NEW r \in Requests, SetCooldown(r) \/ CountResend(r) \/ ExpireResend(r)
      PROVE  MailOK'
  <2>1. ~overlap /\ pc[r] \in Stored /\ code' = code
      BY <1>8 DEF SetCooldown, CountResend, ExpireResend
  <2>2. CASE Mail(r)
      BY <1>1, <2>1, <2>2, MailKeepsMails
  <2>3. CASE ~Mail(r)
    <3>1. Quiet
        BY <1>0, <1>8, <2>1, <2>3 DEF SetCooldown, CountResend, ExpireResend
    <3> QED
        BY <1>2, <2>1, <3>1
  <2> QED
      BY <2>2, <2>3
<1>9. ASSUME NEW r \in Requests, NEW c \in Codes \cup {Wrong}, PresentCode(r, c)
      PROVE  ~overlap /\ Quiet
    BY <1>0, <1>9 DEF PresentCode, keys, history
<1>10. ASSUME NEW r \in Requests, CompareRight(r) \/ CompareWrong(r) PROVE ~overlap /\ Quiet
    BY <1>0, <1>10 DEF CompareRight, CompareWrong, keys, history
<1>11. ASSUME NEW r \in Requests, CountFailure(r) \/ ExpireFailed(r) \/ IssueSession(r)
       PROVE  ~overlap /\ Quiet
    BY <1>0, <1>11 DEF CountFailure, ExpireFailed, IssueSession, history
<1>12. ASSUME NEW r \in Requests, CleanUp(r) \/ Forget(r) PROVE ~overlap /\ Quiet
    BY <1>0, <1>12 DEF CleanUp, Forget, CleanupOtpData
<1>13. ASSUME NEW r \in Requests, PresentSession(r) \/ StillAvailable(r) \/ CreateUserAccount(r)
       PROVE  ~overlap /\ Quiet
    BY <1>0, <1>13 DEF PresentSession, StillAvailable, CreateUserAccount, keys, history
<1>14. ~Crash /\ \A r \in Requests : ~Abort(r) /\ ~CleanUpFails(r)
    BY <1>0 DEF Crash, Abort, CleanUpFails, Fault
<1>15. ASSUME CodeExpires \/ CooldownExpires \/ SessionExpires \/ FailedExpires \/ ResendExpires
       PROVE  ~overlap /\ Quiet
    BY <1>0, <1>15
       DEF CodeExpires, CooldownExpires, SessionExpires, FailedExpires, ResendExpires, history
<1> QED
  <2> HIDE DEF Quiet, Sending, Stored, SendWaits, Hold, Go, Done
  <2> QED
      BY <1>2, <1>3, <1>4, <1>5, <1>6, <1>7, <1>8, <1>9, <1>10, <1>11, <1>12, <1>13, <1>14,
         <1>15 DEF Next

-------------------------------------------------------------------------------
(* Counters and their expiry.                                                  *)

FailedWillExpire ==
    failed.count > 0 /\ ~failed.expires => \E r \in Requests : pc[r] = "penalty"

ResendWillExpire ==
    resend.count > 0 /\ ~resend.expires => \E r \in Requests : pc[r] = "window"

LEMMA ExpiryParts ==
    /\ CountersWillExpire <=> (faults = 0 => FailedWillExpire /\ ResendWillExpire)
    /\ CountersWillExpire' <=> (faults' = 0 => FailedWillExpire' /\ ResendWillExpire')
BY DEF CountersWillExpire, FailedWillExpire, ResendWillExpire

LEMMA FailedKeeps ==
    ASSUME TypeOK, FailedWillExpire, [Next]_vars, faults' = faults
    PROVE  FailedWillExpire'
<1> DEFINE Quiet ==
      \/ failed' = Missing
      \/ failed' = failed /\ \A s \in Requests : pc[s] = "penalty" => pc'[s] = "penalty"
<1>0. /\ pc \in [Requests -> Waits] /\ faults \in Nat /\ faults' # faults + 1
      /\ failed.count \in Nat /\ failed.expires \in BOOLEAN
    BY DEF TypeOK, Counters
<1>1. Quiet => FailedWillExpire'
    BY DEF FailedWillExpire, Missing
<1> USE DEF Hold, Go, Done
<1>2. ASSUME UNCHANGED vars PROVE Quiet
    BY <1>2 DEF vars, keys
<1>3. ASSUME NEW r \in Requests, (\E b \in BOOLEAN : RequestCode(r, b)) \/ CheckResendLimit(r)
      PROVE  Quiet
    BY <1>0, <1>3 DEF RequestCode, CheckResendLimit, keys
<1>4. ASSUME NEW r \in Requests, EmailAvailable(r) \/ ClearOtp(r) \/ StoreHashed(r) PROVE Quiet
    BY <1>0, <1>4 DEF EmailAvailable, ClearOtp, StoreHashed, keys
<1>5. ASSUME NEW r \in Requests, SetCooldown(r) \/ CountResend(r) \/ ExpireResend(r) PROVE Quiet
    BY <1>0, <1>5 DEF SetCooldown, CountResend, ExpireResend, Mail
<1>6. ASSUME NEW r \in Requests, NEW c \in Codes \cup {Wrong}, PresentCode(r, c) PROVE Quiet
    BY <1>0, <1>6 DEF PresentCode, keys
<1>7. ASSUME NEW r \in Requests, CompareRight(r) \/ CompareWrong(r) \/ IssueSession(r)
      PROVE  Quiet
    BY <1>0, <1>7 DEF CompareRight, CompareWrong, IssueSession, keys
<1>8. ASSUME NEW r \in Requests, CleanUp(r) \/ Forget(r) PROVE Quiet
    BY <1>0, <1>8 DEF CleanUp, Forget, CleanupOtpData, OtpData
<1>9. ASSUME NEW r \in Requests, PresentSession(r) \/ StillAvailable(r) \/ CreateUserAccount(r)
      PROVE  Quiet
    BY <1>0, <1>9 DEF PresentSession, StillAvailable, CreateUserAccount, keys
<1>10. ASSUME NEW r \in Requests, CountFailure(r) PROVE FailedWillExpire'
  <2>1. failed'.count = failed.count + 1 /\ failed'.expires = failed.expires /\ pc[r] = "wrong"
      BY <1>10 DEF CountFailure, Incr
  <2>2. CASE failed.count = 0
    <3>1. pc'[r] = "penalty"
        BY <1>0, <1>10, <2>1, <2>2 DEF CountFailure
    <3> QED
        BY <3>1 DEF FailedWillExpire
  <2>3. CASE failed.count > 0
    <3>1. \A s \in Requests : pc[s] = "penalty" => pc'[s] = "penalty"
        BY <1>0, <1>10, <2>1 DEF CountFailure
    <3> QED
        BY <2>1, <2>3, <3>1 DEF FailedWillExpire
  <2> QED
      BY <1>0, <2>2, <2>3
<1>11. ASSUME NEW r \in Requests, ExpireFailed(r) PROVE FailedWillExpire'
    BY <1>0, <1>11 DEF ExpireFailed, Expire, FailedWillExpire
<1>12. ~Crash /\ \A r \in Requests : ~Abort(r) /\ ~CleanUpFails(r)
    BY <1>0 DEF Crash, Abort, CleanUpFails, Fault
<1>13. ASSUME CodeExpires \/ CooldownExpires \/ SessionExpires \/ FailedExpires \/ ResendExpires
       PROVE  Quiet
    BY <1>13 DEF CodeExpires, CooldownExpires, SessionExpires, FailedExpires, ResendExpires
<1> QED
  <2> HIDE DEF Quiet, Hold, Go, Done
  <2> QED
      BY <1>1, <1>2, <1>3, <1>4, <1>5, <1>6, <1>7, <1>8, <1>9, <1>10, <1>11, <1>12, <1>13
         DEF Next

LEMMA ResendKeeps ==
    ASSUME TypeOK, ResendWillExpire, [Next]_vars, faults' = faults
    PROVE  ResendWillExpire'
<1> DEFINE Quiet ==
      \/ resend' = Missing
      \/ resend' = resend /\ \A s \in Requests : pc[s] = "window" => pc'[s] = "window"
<1>0. /\ pc \in [Requests -> Waits] /\ faults \in Nat /\ faults' # faults + 1
      /\ resend.count \in Nat /\ resend.expires \in BOOLEAN
    BY DEF TypeOK, Counters
<1>1. Quiet => ResendWillExpire'
    BY DEF ResendWillExpire, Missing
<1> USE DEF Hold, Go, Done
<1>2. ASSUME UNCHANGED vars PROVE Quiet
    BY <1>2 DEF vars, keys
<1>3. ASSUME NEW r \in Requests, (\E b \in BOOLEAN : RequestCode(r, b)) \/ CheckResendLimit(r)
      PROVE  Quiet
    BY <1>0, <1>3 DEF RequestCode, CheckResendLimit, keys
<1>4. ASSUME NEW r \in Requests, EmailAvailable(r) \/ ClearOtp(r) \/ StoreHashed(r) PROVE Quiet
    BY <1>0, <1>4 DEF EmailAvailable, ClearOtp, StoreHashed, keys
<1>5. ASSUME NEW r \in Requests, SetCooldown(r) PROVE Quiet
    BY <1>0, <1>5 DEF SetCooldown, Mail
<1>6. ASSUME NEW r \in Requests, NEW c \in Codes \cup {Wrong}, PresentCode(r, c) PROVE Quiet
    BY <1>0, <1>6 DEF PresentCode, keys
<1>7. ASSUME NEW r \in Requests, CompareRight(r) \/ CompareWrong(r) \/ IssueSession(r)
      PROVE  Quiet
    BY <1>0, <1>7 DEF CompareRight, CompareWrong, IssueSession, keys
<1>8. ASSUME NEW r \in Requests, CountFailure(r) \/ ExpireFailed(r) \/ CleanUp(r) \/ Forget(r)
      PROVE  Quiet
    BY <1>0, <1>8 DEF CountFailure, ExpireFailed, CleanUp, Forget
<1>9. ASSUME NEW r \in Requests, PresentSession(r) \/ StillAvailable(r) \/ CreateUserAccount(r)
      PROVE  Quiet
    BY <1>0, <1>9 DEF PresentSession, StillAvailable, CreateUserAccount, keys
<1>10. ASSUME NEW r \in Requests, CountResend(r) PROVE ResendWillExpire'
  <2>1. resend'.count = resend.count + 1 /\ resend'.expires = resend.expires /\ pc[r] = "count"
      BY <1>10 DEF CountResend, Incr
  <2>2. CASE resend.count = 0
    <3>1. pc'[r] = "window"
        BY <1>0, <1>10, <2>1, <2>2 DEF CountResend
    <3> QED
        BY <3>1 DEF ResendWillExpire
  <2>3. CASE resend.count > 0
    <3>1. \A s \in Requests : pc[s] = "window" => pc'[s] = "window"
        BY <1>0, <1>10, <2>1 DEF CountResend, Mail
    <3> QED
        BY <2>1, <2>3, <3>1 DEF ResendWillExpire
  <2> QED
      BY <1>0, <2>2, <2>3
<1>11. ASSUME NEW r \in Requests, ExpireResend(r) PROVE ResendWillExpire'
    BY <1>0, <1>11 DEF ExpireResend, Expire, ResendWillExpire
<1>12. ~Crash /\ \A r \in Requests : ~Abort(r) /\ ~CleanUpFails(r)
    BY <1>0 DEF Crash, Abort, CleanUpFails, Fault
<1>13. ASSUME CodeExpires \/ CooldownExpires \/ SessionExpires \/ FailedExpires \/ ResendExpires
       PROVE  Quiet
    BY <1>13 DEF CodeExpires, CooldownExpires, SessionExpires, FailedExpires, ResendExpires
<1> QED
  <2> HIDE DEF Quiet, Hold, Go, Done
  <2> QED
      BY <1>1, <1>2, <1>3, <1>4, <1>5, <1>6, <1>7, <1>8, <1>9, <1>10, <1>11, <1>12, <1>13
         DEF Next

-------------------------------------------------------------------------------
(* The theorems.                                                               *)

LEMMA InitSignupInv == Init => SignupInv /\ ExpiryInv
<1> SUFFICES ASSUME Init PROVE SignupInv /\ ExpiryInv
    OBVIOUS
<1>1. TypeOK
    BY DEF Init, TypeOK, Counters, Missing, Waits
<1>2. Number(pc, Admitted) = 0 /\ Number(place, Resending) = 0
  <2>1. \A r \in Requests : pc[r] \notin Admitted /\ place[r] \notin Resending
      BY DEF Init, Admitted, Resending, place
  <2>2. DOMAIN pc = Requests /\ DOMAIN place = Requests
      BY DEF Init, place
  <2> QED
      BY <2>1, <2>2, NobodyAt
<1>3. /\ Lost \in Nat /\ Cardinality(Requests) \in Nat /\ Number(pc, Counting) \in Nat
  <2>1. pc \in [Requests -> Places]
      BY <1>1, PlacesHold
  <2> QED
      BY <1>1, <2>1, LostType, Size, Numbers DEF TypeOK
<1>4. GuessInv
    BY <1>2, <1>3, SignupLimits DEF Init, GuessInv, Others, Missing
<1>5. ResendInv
    BY <1>2, <1>3, SignupLimits DEF Init, ResendInv, Others, Missing
<1>6. MailInv
    BY DEF Init, MailInv, Sending, SendWaits, Stored
<1>7. OneAccount /\ CountersWillExpire
    BY DEF Init, OneAccount, CountersWillExpire, Missing
<1> QED
    BY <1>1, <1>4, <1>5, <1>6, <1>7 DEF SignupInv, ExpiryInv

(* Only the transaction creates documents, and only for an unused address.     *)
LEMMA AccountsKeep ==
    ASSUME TypeOK, OneAccount, [Next]_vars
    PROVE  OneAccount'
<1>1. auths \in Nat /\ profiles \in Nat
    BY DEF TypeOK
<1>2. ASSUME NEW r \in Requests, CreateUserAccount(r) PROVE OneAccount'
    BY <1>1, <1>2 DEF CreateUserAccount, OneAccount, accounts
<1>3. ASSUME UNCHANGED accounts PROVE OneAccount'
    BY <1>3 DEF OneAccount, accounts
<1>4. UNCHANGED accounts \/ \E r \in Requests : CreateUserAccount(r)
    BY DEF Next, vars, accounts, RequestCode, CheckResendLimit, EmailAvailable, ClearOtp,
           StoreHashed, SetCooldown, CountResend, ExpireResend, PresentCode, CompareRight,
           CompareWrong, CountFailure, ExpireFailed, IssueSession, CleanUp, PresentSession,
           StillAvailable, Forget, Abort, CleanUpFails, Crash, CodeExpires,
           CooldownExpires, SessionExpires, FailedExpires, ResendExpires
<1> QED
    BY <1>2, <1>3, <1>4

(* However requests, faults and crashes interleave: one account, and what was  *)
(* guessed and sent again is counted, about to be, or lost by a fault.         *)
THEOREM SignupInvariant == Spec => []SignupInv
<1>1. SignupInv /\ [Next]_vars => SignupInv'
    BY NextStaysTyped, AccountsKeep, GuessesKeep, ResendsKeep, MailsKeep DEF SignupInv
<1> QED
    BY <1>1, InitSignupInv, PTL DEF Spec

(* An address gets at most one account, and the account has its profile.       *)
THEOREM AddressHasOneAccount == Spec => []OneAccount
<1>1. SignupInv => OneAccount
    BY DEF SignupInv
<1> QED
    BY <1>1, SignupInvariant, PTL

(* The limit of wrong codes is exceeded by the other slots at most, and by     *)
(* what faults lost.                                                           *)
THEOREM GuessesStayBounded == Spec => []GuessesBounded
<1>1. SignupInv => GuessesBounded
  <2> SUFFICES ASSUME SignupInv PROVE GuessesBounded
      OBVIOUS
  <2>1. pc \in [Requests -> Places] /\ guesses \in Nat /\ faults \in Nat
      BY PlacesHold DEF SignupInv, TypeOK
  <2>2. /\ Number(pc, Admitted) \in Nat /\ Lost \in Nat
        /\ MaxFailed \in Nat /\ Cardinality(Requests) \in Nat
      BY <2>1, Numbers, LostType, Size, SignupLimits
  <2> QED
      BY <2>1, <2>2 DEF SignupInv, GuessInv, GuessesBounded, Others
<1> QED
    BY <1>1, SignupInvariant, PTL

(* The limit of codes sent again is exceeded by the other slots at most, and   *)
(* no fault adds to it.                                                        *)
THEOREM ResendsStayBounded == Spec => []ResendsBounded
<1>1. SignupInv => ResendsBounded
  <2> SUFFICES ASSUME SignupInv PROVE ResendsBounded
      OBVIOUS
  <2>1. place \in [Requests -> Places] /\ sent \in Nat
      BY PlacesHold DEF SignupInv, TypeOK
  <2>2. /\ Number(place, Resending) \in Nat
        /\ MaxResend \in Nat /\ Cardinality(Requests) \in Nat
      BY <2>1, Numbers, Size, SignupLimits
  <2> QED
      BY <2>1, <2>2 DEF SignupInv, ResendInv, ResendsBounded, Others
<1> QED
    BY <1>1, SignupInvariant, PTL

(* Without overlapping sends and faults the code in the newest mail is the one *)
(* stored, unless it was used, has expired or is about to be replaced.         *)
THEOREM NewestMailHasTheCode == Spec => []NewestMailWorks
<1>1. SignupInv => NewestMailWorks
    BY DEF SignupInv, MailInv, NewestMailWorks, Sending, Stored, SendWaits
<1> QED
    BY <1>1, SignupInvariant, PTL

(* Without faults no counter is left without an expiry.                        *)
THEOREM CountersExpire == Spec => []ExpiryInv
<1>1. ExpiryInv /\ [Next]_vars => ExpiryInv'
  <2> SUFFICES ASSUME TypeOK, CountersWillExpire, [Next]_vars
               PROVE  TypeOK' /\ CountersWillExpire'
      BY DEF ExpiryInv
  <2>1. TypeOK'
      BY NextStaysTyped
  <2>2. ASSUME faults' = 0 PROVE FailedWillExpire' /\ ResendWillExpire'
    <3>1. faults' \in {faults, faults + 1} /\ faults \in Nat
        BY FaultsGrow DEF TypeOK
    <3>2. faults = 0 /\ faults' = faults
        BY <2>2, <3>1
    <3> QED
        BY <3>2, ExpiryParts, FailedKeeps, ResendKeeps
  <2> QED
      BY <2>1, <2>2, ExpiryParts
<1> QED
    BY <1>1, InitSignupInv, PTL DEF Spec
===============================================================================
