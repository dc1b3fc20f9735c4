-------------------------- MODULE PasswordLockoutProofs -------------------------
(* Proofs about the lockout of password logins and the unlocking by a          *)
(* temporary password, for any finite number of requests, any limits and any   *)
(* number of faults.                                                           *)
EXTENDS PasswordLockout, SlotCounts, FiniteSetTheorems, TLAPS

(* Past the guard that reads the lock, with a password not compared yet.       *)
Admitted == {"account"}

(* Compared a wrong one; it is not counted yet, or its lock is not set.        *)
Failing == {"track", "lock"}

(* Before a lock, a failure is counted, about to be counted, or lost by a      *)
(* fault, and those that reach the limit go on to set the lock.  While it      *)
(* lasts, only requests admitted before may still fail.                        *)
GuessInv ==
    /\ ~lock =>
        /\ guesses <= attempts.count + Number(pc, Failing) + Lost
        /\ guesses <= MaxAttempts - 1 + Number(pc, Failing) + Lost
    /\ lock =>
        guesses + Number(pc, Admitted) <= MaxAttempts + Others + Lost

(* Past the guard that limits unlock requests.                                 *)
Mailing == {"hour", "find", "locked", "store", "cooldown"}

(* A request is counted before it is let past; those let past in one window    *)
(* may mail in the next.                                                       *)
MailInv ==
    /\ mails + Number(pc, Mailing) <= rate.count + Cardinality(Requests)
    /\ mails + Number(pc, Mailing) <= MaxRequests + Cardinality(Requests)

(* The temporary password each request has been let in with.                   *)
Using == [r \in Requests |-> IF pc[r] = "use" THEN held[r] ELSE NoTemp]

(* Nobody is let in by a temporary password once it has been used.             *)
UseInv ==
    \A t \in TempPasswords :
        /\ uses[t] + Number(Using, {t}) <= Cardinality(Requests)
        /\ doc.tempPassword = t /\ ~doc.tempUsed => uses[t] = 0

LimitInv == TypeOK /\ GuessInv /\ MailInv /\ UseInv

-------------------------------------------------------------------------------
(* Numbers of requests.                                                        *)

LEMMA Size == Cardinality(Requests) \in Nat
BY RequestsAreFinite, FS_CardinalityType

LEMMA LostType ==
    ASSUME faults \in Nat
    PROVE  /\ Lost \in Nat
           /\ faults' = faults + 1 => Lost' = Lost + Cardinality(Requests)
           /\ faults' = faults => Lost' = Lost
BY LossGrows, Size DEF Lost

(* How many wait somewhere, before and after a step.                           *)
LEMMA CountType ==
    ASSUME pc \in [Requests -> Waits], pc' \in [Requests -> Waits], NEW S
    PROVE  /\ Number(pc, S) \in Nat /\ Number(pc, S) <= Cardinality(Requests)
           /\ Number(pc', S) \in Nat /\ Number(pc', S) <= Cardinality(Requests)
           /\ At(pc', S) \subseteq At(pc, S) => Number(pc', S) <= Number(pc, S)
           /\ At(pc, S) \subseteq At(pc', S) => Number(pc, S) <= Number(pc', S)
BY RequestsAreFinite, Sized, Fewer

(* The step of one request moves it in or out.                                 *)
LEMMA Moves ==
    ASSUME pc \in [Requests -> Waits], pc' \in [Requests -> Waits],
           NEW r \in Requests, \A q \in Requests : q # r => pc'[q] = pc[q], NEW S
    PROVE  /\ pc[r] \notin S /\ pc'[r] \in S => Number(pc', S) = Number(pc, S) + 1
           /\ pc[r] \in S /\ pc'[r] \notin S => Number(pc', S) = Number(pc, S) - 1
<1>1. pc[r] \notin S /\ pc'[r] \in S => Number(pc', S) = Number(pc, S) + 1
    BY RequestsAreFinite, Enters
<1>2. pc[r] \in S /\ pc'[r] \notin S => Number(pc', S) = Number(pc, S) - 1
    BY RequestsAreFinite, Leaves
<1> QED
    BY <1>1, <1>2

-------------------------------------------------------------------------------
(* Types.                                                                      *)

(* The part of TypeOK about requests, and the part about keys and history.     *)
SlotsOK ==
    /\ pc \in [Requests -> Waits]
    /\ held \in [Requests -> TempPasswords \cup {NoTemp}]
    /\ reset \in [Requests -> 0..MaxTries]

KeysOK ==
    /\ attempts \in Counters /\ rate \in Counters
    /\ lock \in BOOLEAN /\ cooldown \in BOOLEAN
    /\ guesses \in Nat /\ mails \in Nat /\ faults \in Nat
    /\ uses \in [TempPasswords -> Nat]

LEMMA TypeParts ==
    /\ TypeOK <=> doc \in AuthDocs /\ SlotsOK /\ KeysOK
    /\ TypeOK' <=> doc' \in AuthDocs /\ SlotsOK' /\ KeysOK'
BY DEF TypeOK, SlotsOK, KeysOK

(* Updates of a document give documents.                                       *)
LEMMA DocUpdates ==
    ASSUME NEW d \in AuthDocs
    PROVE  /\ \A t \in TempPasswords : StoreTempPassword(d, t) \in AuthDocs
           /\ MarkTempPasswordUsed(d) \in AuthDocs
           /\ SetActive(d, ~d.isActive) \in AuthDocs
           /\ [d EXCEPT !.tempExpired = TRUE] \in AuthDocs
<1>1. (~d.isActive) \in BOOLEAN
    BY DEF AuthDocs
<1> QED
    BY <1>1 DEF AuthDocs, StoreTempPassword, MarkTempPasswordUsed, SetActive

(* Where requests wait, and what they leave behind, stays typed.               *)
LEMMA SlotsStayTyped ==
    ASSUME SlotsOK, NEW r \in Requests
    PROVE  \A to \in Waits, t \in TempPasswords \cup {NoTemp} :
               Hold(r, to, t) /\ (UNCHANGED reset \/ LeaveReset(r)) => SlotsOK'
BY LockoutLimits DEF SlotsOK, Hold, LeaveReset

LEMMA NewCounters ==
    ASSUME KeysOK
    PROVE  /\ Missing \in Counters
           /\ Incr(attempts) \in Counters /\ Expire(attempts) \in Counters
           /\ Incr(rate) \in Counters /\ Expire(rate) \in Counters
BY DEF KeysOK, Counters, Missing, Incr, Expire

LEMMA DeleteStaysTyped ==
    ASSUME KeysOK, NEW gone, Delete(gone)
    PROVE  attempts' \in Counters /\ lock' \in BOOLEAN /\ guesses' \in Nat
<1>1. lock' \in BOOLEAN
    BY Zenon DEF Delete
<1> QED
    BY <1>1, NewCounters DEF Delete, KeysOK

(* Steps of a request in which nothing fails.                                  *)
LEMMA ContinueStaysTyped ==
    ASSUME TypeOK, NEW r \in Requests, Continue(r)
    PROVE  TypeOK'
<1>0. doc \in AuthDocs /\ SlotsOK /\ KeysOK
    BY TypeParts
<1> USE DEF Waits, Go, Done
<1>1. CASE Reject(r) \/ RightPassword(r) \/ FindAccount(r) \/ CheckLocked(r)
    BY <1>0, <1>1, SlotsStayTyped, TypeParts
       DEF Reject, RightPassword, FindAccount, CheckLocked, KeysOK, limits, history
<1>2. CASE WrongPassword(r)
    BY <1>0, <1>2, SlotsStayTyped, TypeParts DEF WrongPassword, KeysOK, limits
<1>3. CASE Track(r)
    BY <1>0, <1>3, SlotsStayTyped, NewCounters, TypeParts DEF Track, KeysOK, history
<1>4. CASE ExpireAtMidnight(r)
    BY <1>0, <1>4, SlotsStayTyped, NewCounters, TypeParts DEF ExpireAtMidnight, KeysOK, history
<1>5. CASE SetLock(r)
    BY <1>0, <1>5, SlotsStayTyped, TypeParts DEF SetLock, KeysOK, history
<1>6. CASE ResetAll(r)
  <2>1. SlotsOK'
      BY <1>0, <1>6, LockoutLimits DEF ResetAll, SlotsOK
  <2> QED
      BY <1>0, <1>6, <2>1, DeleteStaysTyped, TypeParts DEF ResetAll, KeysOK
<1>7. CASE CountRequest(r)
    BY <1>0, <1>7, SlotsStayTyped, NewCounters, TypeParts DEF CountRequest, KeysOK, history
<1>8. CASE ExpireRate(r)
    BY <1>0, <1>8, SlotsStayTyped, NewCounters, TypeParts DEF ExpireRate, KeysOK, history
<1>9. ASSUME NEW t \in TempPasswords, StoreTemp(r, t) PROVE TypeOK'
    BY <1>0, <1>9, SlotsStayTyped, DocUpdates, TypeParts DEF StoreTemp, KeysOK, limits
<1>10. CASE MailTemp(r)
    BY <1>0, <1>10, SlotsStayTyped, TypeParts DEF MailTemp, KeysOK
<1>11. CASE UseTemp(r)
  <2>1. uses' \in [TempPasswords -> Nat]
    <3>1. /\ uses \in [TempPasswords -> Nat]
          /\ \A t \in TempPasswords : uses[t] + 1 \in Nat
          /\ uses' = [uses EXCEPT ![held[r]] = uses[held[r]] + 1]
        BY <1>0, <1>11 DEF UseTemp, KeysOK
    <3> QED
        BY <3>1
  <2>2. SlotsOK'
      BY <1>0, <1>11, SlotsStayTyped DEF UseTemp
  <2> QED
      BY <1>0, <1>11, <2>1, <2>2, DocUpdates, TypeParts DEF UseTemp, KeysOK, limits
<1> QED
    BY <1>1, <1>2, <1>3, <1>4, <1>5, <1>6, <1>7, <1>8, <1>9, <1>10, <1>11 DEF Continue

LEMMA NextStaysTyped ==
    ASSUME TypeOK, [Next]_vars
    PROVE  TypeOK'
<1>0. doc \in AuthDocs /\ SlotsOK /\ KeysOK
    BY TypeParts
<1>1. CASE UNCHANGED vars
    BY <1>1 DEF vars, limits, history, TypeOK
<1>2. ASSUME NEW r \in Requests, Attempt(r) \/ RequestUnlock(r) PROVE TypeOK'
    BY <1>0, <1>2, SlotsStayTyped, TypeParts
       DEF Attempt, RequestUnlock, Go, Waits, KeysOK, limits, history
<1>3. ASSUME NEW r \in Requests, NEW t \in TempPasswords, PresentTemp(r, t) PROVE TypeOK'
    BY <1>0, <1>3, SlotsStayTyped, TypeParts
       DEF PresentTemp, Waits, KeysOK, limits, history
<1>4. ASSUME NEW r \in Requests, ResetFails(r) PROVE TypeOK'
  <2>1. reset[r] \in 0..MaxTries /\ reset[r] > 0 /\ MaxTries \in Nat
      BY <1>0, <1>4, LockoutLimits DEF ResetFails, SlotsOK
  <2>2. reset[r] - 1 \in 0..MaxTries
      BY <2>1
  <2>3. SlotsOK'
      BY <1>0, <1>4, <2>2 DEF ResetFails, SlotsOK
  <2> QED
      BY <1>0, <1>4, <2>3, DeleteStaysTyped, TypeParts DEF ResetFails, Fault, KeysOK
<1>5. ASSUME NEW r \in Requests, Abort(r) PROVE TypeOK'
    BY <1>0, <1>5, SlotsStayTyped, TypeParts DEF Abort, Done, Fault, Waits, KeysOK, limits
<1>6. CASE Crash
  <2>1. SlotsOK'
      BY <1>6, LockoutLimits DEF Crash, SlotsOK, Waits
  <2> QED
      BY <1>0, <1>6, <2>1, TypeParts DEF Crash, Fault, KeysOK, limits
<1>7. CASE LockExpires \/ Midnight \/ HourPasses \/ CooldownExpires
  <2>1. SlotsOK' /\ doc' = doc
      BY <1>0, <1>7 DEF LockExpires, Midnight, HourPasses, CooldownExpires, SlotsOK
  <2>2. lock' \in BOOLEAN /\ cooldown' \in BOOLEAN
      BY <1>0, <1>7, Zenon
         DEF LockExpires, Midnight, HourPasses, CooldownExpires, KeysOK
  <2> QED
      BY <1>0, <1>7, <2>1, <2>2, NewCounters, TypeParts
         DEF LockExpires, Midnight, HourPasses, CooldownExpires, KeysOK, history
<1>8. CASE TempExpires \/ SetUserActive
    BY <1>0, <1>8, DocUpdates, TypeParts
       DEF TempExpires, SetUserActive, SlotsOK, KeysOK, limits, history
<1> QED
    BY <1>1, <1>2, <1>3, <1>4, <1>5, <1>6, <1>7, <1>8, ContinueStaysTyped DEF Next

-------------------------------------------------------------------------------
(* Wrong passwords.                                                            *)

(* The numbers in GuessInv, before and after a step.                           *)
LEMMA GuessNumbers ==
    ASSUME TypeOK, TypeOK'
    PROVE  /\ pc \in [Requests -> Waits] /\ pc' \in [Requests -> Waits]
           /\ guesses \in Nat /\ faults \in Nat /\ guesses' \in Nat
           /\ attempts.count \in Nat /\ attempts'.count \in Nat
           /\ lock \in BOOLEAN /\ lock' \in BOOLEAN
           /\ MaxAttempts \in Nat /\ MaxAttempts > 1
           /\ Cardinality(Requests) \in Nat
           /\ Lost \in Nat
           /\ faults' = faults => Lost' = Lost
           /\ faults' = faults + 1 => Lost' = Lost + Cardinality(Requests)
<1>1. /\ pc \in [Requests -> Waits] /\ pc' \in [Requests -> Waits]
      /\ guesses \in Nat /\ faults \in Nat /\ guesses' \in Nat
      /\ lock \in BOOLEAN /\ lock' \in BOOLEAN
      /\ attempts \in Counters /\ attempts' \in Counters
    BY DEF TypeOK
<1> QED
    BY <1>1, Size, LostType, LockoutLimits DEF Counters

(* A step that compares and counts nothing, and changes the lock only together *)
(* with the history, keeps the bounds when nobody stops counting, unless by a  *)
(* fault, and nobody is admitted while the lock lasts.                         *)
LEMMA GuessesQuiet ==
    ASSUME TypeOK, TypeOK', GuessInv, faults' \in {faults, faults + 1},
           \/ guesses' = 0
           \/ /\ guesses' = guesses /\ lock' = lock
              /\ attempts'.count >= attempts.count
              /\ lock => At(pc', Admitted) \subseteq At(pc, Admitted)
              /\ At(pc, Failing) \subseteq At(pc', Failing) \/ faults' = faults + 1
    PROVE  GuessInv'
<1>0. /\ pc \in [Requests -> Waits] /\ pc' \in [Requests -> Waits]
      /\ guesses \in Nat /\ guesses' \in Nat
      /\ attempts.count \in Nat /\ attempts'.count \in Nat
      /\ MaxAttempts \in Nat /\ MaxAttempts > 1
      /\ Cardinality(Requests) \in Nat
      /\ Lost \in Nat /\ Lost' \in Nat /\ Lost' >= Lost
      /\ faults' = faults + 1 => Lost' = Lost + Cardinality(Requests)
    BY GuessNumbers
<1>1. /\ Number(pc, Failing) \in Nat /\ Number(pc, Failing) <= Cardinality(Requests)
      /\ Number(pc', Failing) \in Nat
      /\ At(pc, Failing) \subseteq At(pc', Failing) => Number(pc, Failing) <= Number(pc', Failing)
    BY <1>0, CountType
<1>2. /\ Number(pc, Admitted) \in Nat
      /\ Number(pc', Admitted) \in Nat /\ Number(pc', Admitted) <= Cardinality(Requests)
      /\ At(pc', Admitted) \subseteq At(pc, Admitted) => Number(pc', Admitted) <= Number(pc, Admitted)
    BY <1>0, CountType
<1>3. CASE guesses' = 0
    BY <1>0, <1>1, <1>2, <1>3 DEF GuessInv, Others, Failing, Admitted
<1>4. CASE /\ guesses' = guesses /\ lock' = lock
           /\ attempts'.count >= attempts.count
           /\ lock => At(pc', Admitted) \subseteq At(pc, Admitted)
           /\ At(pc, Failing) \subseteq At(pc', Failing) \/ faults' = faults + 1
    BY <1>0, <1>1, <1>2, <1>4 DEF GuessInv, Others, Failing, Admitted
<1> QED
    BY <1>3, <1>4

(* A wrong password moves from those admitted to those failing.                *)
LEMMA WrongKeepsGuesses ==
    ASSUME TypeOK, TypeOK', GuessInv, NEW r \in Requests, WrongPassword(r)
    PROVE  GuessInv'
<1>1. /\ pc \in [Requests -> Waits] /\ pc[r] = "account"
      /\ pc' = [pc EXCEPT ![r] = "track"] /\ pc' \in [Requests -> Waits]
      /\ guesses' = guesses + 1 /\ UNCHANGED <<attempts, lock, faults>>
    BY DEF TypeOK, WrongPassword, Go, Hold, limits
<1>2. /\ Number(pc', Failing) = Number(pc, Failing) + 1
      /\ Number(pc', Admitted) = Number(pc, Admitted) - 1
  <2>1. "track" \in Failing /\ "account" \notin Failing
      BY DEF Failing
  <2>2. "track" \notin Admitted /\ "account" \in Admitted
      BY DEF Admitted
  <2> QED
      BY <1>1, <2>1, <2>2, Moves
<1>3. /\ Number(pc, Failing) \in Nat /\ Number(pc, Admitted) \in Nat
      /\ guesses \in Nat /\ Lost' = Lost /\ Lost \in Nat /\ attempts.count \in Nat
      /\ MaxAttempts \in Nat /\ Cardinality(Requests) \in Nat
    BY <1>1, CountType, GuessNumbers
<1> QED
    BY <1>1, <1>2, <1>3 DEF GuessInv, Others

(* INCR takes over what the request was about to count; at the limit it goes   *)
(* on to set the lock.                                                         *)
LEMMA TrackKeepsGuesses ==
    ASSUME TypeOK, TypeOK', GuessInv, NEW r \in Requests, Track(r)
    PROVE  GuessInv'
<1>1. /\ pc \in [Requests -> Waits] /\ pc[r] = "track" /\ pc' \in [Requests -> Waits]
      /\ attempts'.count = attempts.count + 1 /\ UNCHANGED <<lock, guesses, faults>>
      /\ attempts.count \in Nat /\ guesses \in Nat /\ MaxAttempts \in Nat /\ MaxAttempts > 1
      /\ Lost' = Lost /\ Lost \in Nat
    BY GuessNumbers DEF Track, Incr, history
<1>2. /\ \A q \in Requests : q # r => pc'[q] = pc[q]
      /\ pc'[r] \in {"midnight", "lock", "idle"}
      /\ pc'[r] # "lock" => attempts'.count < MaxAttempts
    BY <1>1 DEF Track, Go, Hold, LimitReached
<1>3. /\ Number(pc, Failing) \in Nat
      /\ pc'[r] = "lock" => Number(pc', Failing) = Number(pc, Failing)
      /\ pc'[r] # "lock" => Number(pc', Failing) = Number(pc, Failing) - 1
  <2>1. CASE pc'[r] = "lock"
    <3>1. At(pc', Failing) = At(pc, Failing)
        BY <1>1, <1>2, <2>1 DEF At, Failing
    <3> QED
        BY <1>1, <2>1, <3>1, CountType DEF Number
  <2>2. CASE pc'[r] # "lock"
    <3>1. pc[r] \in Failing /\ pc'[r] \notin Failing
        BY <1>1, <1>2, <2>2 DEF Failing
    <3> QED
        BY <1>1, <1>2, <2>2, <3>1, Moves, CountType
  <2> QED
      BY <2>1, <2>2
<1>4. At(pc', Admitted) \subseteq At(pc, Admitted)
    BY <1>1, <1>2 DEF At, Admitted
<1>5. /\ Number(pc', Admitted) <= Number(pc, Admitted)
      /\ Number(pc', Admitted) \in Nat /\ Number(pc, Admitted) \in Nat
      /\ Cardinality(Requests) \in Nat
    BY <1>1, <1>4, CountType, Size
<1> QED
    BY <1>1, <1>2, <1>3, <1>5 DEF GuessInv, Others, Failing, Admitted

(* Once the lock is set, what has failed and those still admitted share the    *)
(* slots.                                                                      *)
LEMMA LockKeepsGuesses ==
    ASSUME TypeOK, TypeOK', GuessInv, NEW r \in Requests, SetLock(r)
    PROVE  GuessInv'
<1>1. /\ pc \in [Requests -> Waits] /\ pc[r] = "lock" /\ pc' \in [Requests -> Waits]
      /\ pc' = [pc EXCEPT ![r] = "idle"]
      /\ lock' = TRUE /\ UNCHANGED <<attempts, guesses, faults>>
      /\ guesses \in Nat /\ MaxAttempts \in Nat /\ lock \in BOOLEAN
      /\ Lost' = Lost /\ Lost \in Nat /\ Cardinality(Requests) \in Nat
    BY GuessNumbers DEF SetLock, Done, Hold, history
<1>2. At(pc', Admitted) \subseteq At(pc, Admitted)
    BY <1>1 DEF At, Admitted
<1>3. /\ Number(pc', Admitted) <= Number(pc, Admitted)
      /\ Number(pc', Admitted) \in Nat /\ Number(pc, Admitted) \in Nat
      /\ Number(pc, Failing) \in Nat
    BY <1>1, <1>2, CountType
<1>4. Number(pc, Admitted) + Number(pc, Failing) <= Cardinality(Requests)
  <2>1. Admitted \cap Failing = {}
      BY DEF Admitted, Failing
  <2>2. Number(pc, Admitted \cup Failing) = Number(pc, Admitted) + Number(pc, Failing)
      BY <1>1, <2>1, RequestsAreFinite, Apart
  <2> QED
      BY <1>1, <2>2, CountType
<1>5. CASE lock
    BY <1>1, <1>3, <1>5 DEF GuessInv, Others
<1>6. CASE ~lock
    BY <1>1, <1>3, <1>4, <1>6 DEF GuessInv, Others
<1> QED
    BY <1>5, <1>6

(* Deleting the counter, or a lock that is set, begins a new history.          *)
LEMMA DeleteIsQuiet ==
    ASSUME TypeOK, NEW gone, Delete(gone)
    PROVE  guesses' = 0 \/ (guesses' = guesses /\ lock' = lock /\ attempts' = attempts)
<1>1. lock \in BOOLEAN
    BY DEF TypeOK
<1>2. CASE "attempts" \in gone \/ (lock /\ "lock" \in gone)
    BY <1>2 DEF Delete
<1>3. CASE ~("attempts" \in gone \/ (lock /\ "lock" \in gone))
  <2>1. lock' = lock
      BY <1>1, <1>3, Zenon DEF Delete
  <2> QED
      BY <1>3, <2>1 DEF Delete
<1> QED
    BY <1>2, <1>3

(* Every other step is quiet.                                                  *)
LEMMA GuessesKeep ==
    ASSUME TypeOK, TypeOK', GuessInv, [Next]_vars
    PROVE  GuessInv'
<1> DEFINE Quiet ==
      /\ faults' \in {faults, faults + 1}
      /\ \/ guesses' = 0
         \/ /\ guesses' = guesses /\ lock' = lock
            /\ attempts'.count >= attempts.count
            /\ lock => At(pc', Admitted) \subseteq At(pc, Admitted)
            /\ At(pc, Failing) \subseteq At(pc', Failing) \/ faults' = faults + 1
<1>0. /\ attempts.count \in Nat /\ attempts.count >= attempts.count
      /\ pc \in [Requests -> Waits]
      /\ Expire(attempts).count = attempts.count
    BY DEF TypeOK, Counters, Expire
<1>1. Quiet => GuessInv'
    BY GuessesQuiet
<1> USE DEF At, Admitted, Failing, Hold, Go, Done
<1>2. CASE UNCHANGED vars
  <2>1. Quiet
      BY <1>0, <1>2 DEF vars, limits, history
  <2> QED
      BY <1>1, <2>1
<1>3. ASSUME NEW r \in Requests, Attempt(r) PROVE Quiet
    BY <1>0, <1>3 DEF Attempt, Free, limits, history
<1>4. ASSUME NEW r \in Requests, Reject(r) \/ RightPassword(r) PROVE Quiet
    BY <1>0, <1>4 DEF Reject, RightPassword, limits, history
<1>5. ASSUME NEW r \in Requests, ExpireAtMidnight(r) PROVE Quiet
    BY <1>0, <1>5 DEF ExpireAtMidnight, history
<1>6. ASSUME NEW r \in Requests, ResetAll(r) PROVE Quiet
    BY <1>0, <1>6, DeleteIsQuiet DEF ResetAll
<1>7. ASSUME NEW r \in Requests, RequestUnlock(r) \/ FindAccount(r) \/ CheckLocked(r)
      PROVE  Quiet
    BY <1>0, <1>7 DEF RequestUnlock, Free, FindAccount, CheckLocked, limits, history
<1>8. ASSUME NEW r \in Requests, CountRequest(r) PROVE Quiet
    BY <1>0, <1>8 DEF CountRequest, limits, history
<1>9. ASSUME NEW r \in Requests, ExpireRate(r) \/ MailTemp(r) PROVE Quiet
    BY <1>0, <1>9 DEF ExpireRate, MailTemp, limits, history
<1>10. ASSUME NEW r \in Requests, NEW t \in TempPasswords, StoreTemp(r, t) \/ PresentTemp(r, t)
       PROVE  Quiet
    BY <1>0, <1>10 DEF StoreTemp, PresentTemp, Free, limits, history
<1>11. ASSUME NEW r \in Requests, UseTemp(r) PROVE Quiet
    BY <1>0, <1>11 DEF UseTemp, limits, history
<1>12. ASSUME NEW r \in Requests, ResetFails(r) PROVE Quiet
  <2>1. guesses' = 0 \/ (guesses' = guesses /\ lock' = lock /\ attempts' = attempts)
      BY <1>12, DeleteIsQuiet DEF ResetFails
  <2> QED
      BY <1>0, <1>12, <2>1 DEF ResetFails, Fault
<1>13. ASSUME NEW r \in Requests, Abort(r) PROVE Quiet
    BY <1>0, <1>13 DEF Abort, Fault, limits
<1>14. ASSUME Crash PROVE Quiet
    BY <1>0, <1>14 DEF Crash, Fault, limits
<1>15. ASSUME LockExpires \/ Midnight \/ HourPasses \/ CooldownExpires PROVE Quiet
    BY <1>0, <1>15 DEF LockExpires, Midnight, HourPasses, CooldownExpires, history
<1>16. ASSUME TempExpires \/ SetUserActive PROVE Quiet
    BY <1>0, <1>16 DEF TempExpires, SetUserActive, limits, history
<1> QED
  <2> HIDE DEF Quiet, At, Admitted, Failing, Hold, Go, Done
  <2> QED
      BY <1>1, <1>2, <1>3, <1>4, <1>5, <1>6, <1>7, <1>8, <1>9, <1>10, <1>11, <1>12,
         <1>13, <1>14, <1>15, <1>16, WrongKeepsGuesses, TrackKeepsGuesses, LockKeepsGuesses
         DEF Next, Continue

-------------------------------------------------------------------------------
(* Mails of temporary passwords.                                               *)

(* The numbers in MailInv, before and after a step.                            *)
LEMMA MailNumbers ==
    ASSUME TypeOK, TypeOK'
    PROVE  /\ pc \in [Requests -> Waits] /\ pc' \in [Requests -> Waits]
           /\ mails \in Nat /\ mails' \in Nat
           /\ rate.count \in Nat /\ rate'.count \in Nat
           /\ MaxRequests \in Nat \ {0} /\ Cardinality(Requests) \in Nat
           /\ Number(pc, Mailing) \in Nat /\ Number(pc', Mailing) \in Nat
           /\ Number(pc', Mailing) <= Cardinality(Requests)
<1>1. /\ pc \in [Requests -> Waits] /\ pc' \in [Requests -> Waits]
      /\ mails \in Nat /\ mails' \in Nat
      /\ rate \in Counters /\ rate' \in Counters
    BY DEF TypeOK
<1> QED
    BY <1>1, Size, CountType, LockoutLimits DEF Counters

(* A step that mails nothing and lets nobody past the guard.                   *)
LEMMA MailsQuiet ==
    ASSUME TypeOK, TypeOK', MailInv,
           \/ mails' = 0
           \/ /\ mails' = mails /\ rate'.count >= rate.count
              /\ At(pc', Mailing) \subseteq At(pc, Mailing)
    PROVE  MailInv'
<1>1. At(pc', Mailing) \subseteq At(pc, Mailing) => Number(pc', Mailing) <= Number(pc, Mailing)
    BY MailNumbers, CountType
<1> QED
    BY <1>1, MailNumbers DEF MailInv, Mailing

(* The guard lets past whom it has counted within the limit.                   *)
LEMMA CountKeepsMails ==
    ASSUME TypeOK, TypeOK', MailInv, NEW r \in Requests, CountRequest(r)
    PROVE  MailInv'
<1>0. /\ pc \in [Requests -> Waits] /\ pc[r] = "rate" /\ pc' \in [Requests -> Waits]
      /\ \A q \in Requests : q # r => pc'[q] = pc[q]
      /\ mails' = mails
    BY MailNumbers DEF CountRequest, Go, Hold, history
<1>1. CASE pc'[r] = "idle"
  <2>1. At(pc', Mailing) \subseteq At(pc, Mailing)
      BY <1>0, <1>1 DEF At, Mailing
  <2>2. rate'.count >= rate.count
      BY MailNumbers DEF CountRequest, Incr
  <2> QED
      BY <1>0, <2>1, <2>2, MailsQuiet
<1>2. CASE pc'[r] # "idle"
  <2>1. /\ rate'.count = rate.count + 1 /\ rate'.count <= MaxRequests
        /\ pc'[r] \in {"hour", "find"}
      BY <1>0, <1>2, MailNumbers DEF CountRequest, Incr, Go, Hold
  <2>2. pc[r] \notin Mailing /\ pc'[r] \in Mailing
      BY <1>0, <2>1 DEF Mailing
  <2>3. Number(pc', Mailing) = Number(pc, Mailing) + 1
      BY <1>0, <2>2, Moves
  <2> QED
      BY <1>0, <2>1, <2>3, MailNumbers DEF MailInv, Mailing
<1> QED
    BY <1>1, <1>2

(* Whoever mails leaves.                                                       *)
LEMMA MailKeepsMails ==
    ASSUME TypeOK, TypeOK', MailInv, NEW r \in Requests, MailTemp(r)
    PROVE  MailInv'
<1>1. /\ pc \in [Requests -> Waits] /\ pc[r] = "cooldown" /\ pc' \in [Requests -> Waits]
      /\ pc' = [pc EXCEPT ![r] = "idle"]
      /\ mails' = mails + 1 /\ rate' = rate
    BY MailNumbers DEF MailTemp, Done, Hold
<1>2. "cooldown" \in Mailing /\ "idle" \notin Mailing
    BY DEF Mailing
<1>3. Number(pc', Mailing) = Number(pc, Mailing) - 1
    BY <1>1, <1>2, Moves
<1> QED
    BY <1>1, <1>3, MailNumbers DEF MailInv, Mailing

LEMMA MailsKeep ==
    ASSUME TypeOK, TypeOK', MailInv, [Next]_vars
    PROVE  MailInv'
<1> DEFINE Quiet ==
      \/ mails' = 0
      \/ /\ mails' = mails /\ rate'.count >= rate.count
         /\ At(pc', Mailing) \subseteq At(pc, Mailing)
<1>0. /\ rate.count \in Nat /\ rate.count >= rate.count
      /\ pc \in [Requests -> Waits]
      /\ Expire(rate).count = rate.count
    BY DEF TypeOK, Counters, Expire
<1>1. Quiet => MailInv'
    BY MailsQuiet
<1> USE DEF At, Mailing, Hold, Go, Done
<1>2. CASE UNCHANGED vars
  <2>1. Quiet
      BY <1>0, <1>2 DEF vars, limits, history
  <2> QED
      BY <1>1, <2>1
<1>3. ASSUME NEW r \in Requests, Attempt(r) \/ RequestUnlock(r) PROVE Quiet
    BY <1>0, <1>3 DEF Attempt, RequestUnlock, limits, history
<1>4. ASSUME NEW r \in Requests, Reject(r) \/ RightPassword(r) \/ WrongPassword(r)
      PROVE  Quiet
    BY <1>0, <1>4 DEF Reject, RightPassword, WrongPassword, limits, history
<1>5. ASSUME NEW r \in Requests, Track(r) PROVE Quiet
    BY <1>0, <1>5 DEF Track, history
<1>6. ASSUME NEW r \in Requests, ExpireAtMidnight(r) \/ SetLock(r) PROVE Quiet
    BY <1>0, <1>6 DEF ExpireAtMidnight, SetLock, history
<1>7. ASSUME NEW r \in Requests, ResetAll(r) \/ ResetFails(r) PROVE Quiet
    BY <1>0, <1>7 DEF ResetAll, ResetFails
<1>8. ASSUME NEW r \in Requests, ExpireRate(r) PROVE Quiet
    BY <1>0, <1>8 DEF ExpireRate, history
<1>9. ASSUME NEW r \in Requests, FindAccount(r) \/ CheckLocked(r) PROVE Quiet
    BY <1>0, <1>9 DEF FindAccount, CheckLocked, limits, history
<1>10. ASSUME NEW r \in Requests, NEW t \in TempPasswords, StoreTemp(r, t) \/ PresentTemp(r, t)
       PROVE  Quiet
    BY <1>0, <1>10 DEF StoreTemp, PresentTemp, limits, history
<1>11. ASSUME NEW r \in Requests, UseTemp(r) \/ Abort(r) PROVE Quiet
    BY <1>0, <1>11 DEF UseTemp, Abort, limits
<1>12. ASSUME Crash PROVE Quiet
    BY <1>0, <1>12 DEF Crash, limits
<1>13. ASSUME LockExpires \/ Midnight \/ HourPasses \/ CooldownExpires PROVE Quiet
    BY <1>0, <1>13 DEF LockExpires, Midnight, HourPasses, CooldownExpires, history
<1>14. ASSUME TempExpires \/ SetUserActive PROVE Quiet
    BY <1>0, <1>14 DEF TempExpires, SetUserActive, limits, history
<1> QED
  <2> HIDE DEF Quiet, At, Mailing, Hold, Go, Done
  <2> QED
      BY <1>1, <1>2, <1>3, <1>4, <1>5, <1>6, <1>7, <1>8, <1>9, <1>10, <1>11, <1>12,
         <1>13, <1>14, CountKeepsMails, MailKeepsMails DEF Next, Continue

-------------------------------------------------------------------------------
(* Uses of one temporary password.                                             *)

(* The numbers in UseInv, before and after a step.                             *)
LEMMA UseNumbers ==
    ASSUME TypeOK, TypeOK', NEW t \in TempPasswords
    PROVE  /\ Using \in [Requests -> TempPasswords \cup {NoTemp}]
           /\ Using' \in [Requests -> TempPasswords \cup {NoTemp}]
           /\ uses[t] \in Nat /\ uses'[t] \in Nat /\ Cardinality(Requests) \in Nat
           /\ Number(Using, {t}) \in Nat /\ Number(Using', {t}) \in Nat
           /\ Number(Using', {t}) <= Cardinality(Requests)
           /\ At(Using', {t}) \subseteq At(Using, {t}) =>
                Number(Using', {t}) <= Number(Using, {t})
<1>1. /\ Using \in [Requests -> TempPasswords \cup {NoTemp}]
      /\ Using' \in [Requests -> TempPasswords \cup {NoTemp}]
    BY DEF TypeOK, Using
<1>2. uses[t] \in Nat /\ uses'[t] \in Nat
    BY DEF TypeOK
<1> QED
    BY <1>1, <1>2, Size, RequestsAreFinite, Sized, Fewer

(* A step that lets nobody in and neither renews nor uses a password.          *)
LEMMA UsesQuiet ==
    ASSUME TypeOK, TypeOK', UseInv, uses' = uses,
           doc'.tempPassword = doc.tempPassword, doc'.tempUsed = doc.tempUsed,
           \A q \in Requests : pc'[q] = "use" => pc[q] = "use" /\ held'[q] = held[q]
    PROVE  UseInv'
<1> SUFFICES ASSUME NEW t \in TempPasswords
             PROVE  /\ uses'[t] + Number(Using', {t}) <= Cardinality(Requests)
                    /\ doc'.tempPassword = t /\ ~doc'.tempUsed => uses'[t] = 0
    BY DEF UseInv
<1>0. /\ uses[t] \in Nat /\ uses'[t] \in Nat /\ Cardinality(Requests) \in Nat
      /\ Number(Using, {t}) \in Nat /\ Number(Using', {t}) \in Nat
      /\ Number(Using', {t}) <= Cardinality(Requests)
      /\ At(Using', {t}) \subseteq At(Using, {t}) => Number(Using', {t}) <= Number(Using, {t})
    BY UseNumbers
<1>1. At(Using', {t}) \subseteq At(Using, {t})
    BY TempIsNotPassword DEF At, Using
<1>2. Number(Using', {t}) <= Number(Using, {t})
    BY <1>0, <1>1
<1>3. /\ uses[t] + Number(Using, {t}) <= Cardinality(Requests)
      /\ doc.tempPassword = t /\ ~doc.tempUsed => uses[t] = 0
    BY DEF UseInv
<1> QED
    BY <1>0, <1>2, <1>3

(* A password that is still valid has not been used: all slots may yet use it. *)
LEMMA PresentKeepsUses ==
    ASSUME TypeOK, TypeOK', UseInv, NEW r \in Requests, NEW temp \in TempPasswords,
           PresentTemp(r, temp)
    PROVE  UseInv'
<1> SUFFICES ASSUME NEW t \in TempPasswords
             PROVE  /\ uses'[t] + Number(Using', {t}) <= Cardinality(Requests)
                    /\ doc'.tempPassword = t /\ ~doc'.tempUsed => uses'[t] = 0
    BY DEF UseInv
<1>0. /\ uses[t] \in Nat /\ uses'[t] \in Nat /\ Cardinality(Requests) \in Nat
      /\ Number(Using, {t}) \in Nat /\ Number(Using', {t}) \in Nat
      /\ Number(Using', {t}) <= Cardinality(Requests)
      /\ At(Using', {t}) \subseteq At(Using, {t}) => Number(Using', {t}) <= Number(Using, {t})
    BY UseNumbers
<1>1. uses' = uses /\ doc' = doc
    BY DEF PresentTemp, history
<1>2. CASE t = temp
  <2>1. uses[t] = 0
      BY <1>2 DEF PresentTemp, TempPasswordValid, UseInv
  <2> QED
      BY <1>1, <2>1, <1>0 DEF UseInv
<1>3. CASE t # temp
  <2>1. /\ pc \in [Requests -> Waits] /\ held \in [Requests -> TempPasswords \cup {NoTemp}]
        /\ pc' = [pc EXCEPT ![r] = "use"] /\ held' = [held EXCEPT ![r] = temp]
      BY DEF TypeOK, PresentTemp, Hold
  <2>2. At(Using', {t}) \subseteq At(Using, {t})
      BY <1>3, <2>1 DEF At, Using
  <2>3. Number(Using', {t}) <= Number(Using, {t})
      BY <1>0, <2>2
  <2>4. /\ uses[t] + Number(Using, {t}) <= Cardinality(Requests)
        /\ doc.tempPassword = t /\ ~doc.tempUsed => uses[t] = 0
      BY DEF UseInv
  <2> QED
      BY <1>0, <1>1, <2>3, <2>4
<1> QED
    BY <1>2, <1>3

(* A new password starts unused, and nobody holds it.                          *)
LEMMA StoreKeepsUses ==
    ASSUME TypeOK, TypeOK', UseInv, NEW r \in Requests, NEW temp \in TempPasswords,
           StoreTemp(r, temp)
    PROVE  UseInv'
<1> SUFFICES ASSUME NEW t \in TempPasswords
             PROVE  /\ uses'[t] + Number(Using', {t}) <= Cardinality(Requests)
                    /\ doc'.tempPassword = t /\ ~doc'.tempUsed => uses'[t] = 0
    BY DEF UseInv
<1>0. /\ uses[t] \in Nat /\ uses'[t] \in Nat /\ Cardinality(Requests) \in Nat
      /\ Number(Using, {t}) \in Nat /\ Number(Using', {t}) \in Nat
      /\ Number(Using', {t}) <= Cardinality(Requests)
      /\ At(Using', {t}) \subseteq At(Using, {t}) => Number(Using', {t}) <= Number(Using, {t})
    BY UseNumbers
<1>1. /\ uses' = [uses EXCEPT ![temp] = 0] /\ uses \in [TempPasswords -> Nat]
      /\ doc'.tempPassword = temp
      /\ pc \in [Requests -> Waits] /\ held \in [Requests -> TempPasswords \cup {NoTemp}]
      /\ pc' = [pc EXCEPT ![r] = "cooldown"] /\ held' = [held EXCEPT ![r] = temp]
    BY DEF TypeOK, StoreTemp, StoreTempPassword, AuthDocs, Hold
<1>2. At(Using', {t}) \subseteq At(Using, {t})
    BY <1>1, TempIsNotPassword DEF At, Using
<1>3. Number(Using', {t}) <= Number(Using, {t})
    BY <1>0, <1>2
<1>4. uses[t] + Number(Using, {t}) <= Cardinality(Requests)
    BY DEF UseInv
<1>5. uses'[t] <= uses[t] /\ (t = temp => uses'[t] = 0)
    BY <1>0, <1>1
<1> QED
    BY <1>0, <1>1, <1>3, <1>4, <1>5

(* Whoever uses a password leaves, and nobody is let in with any afterwards.   *)
LEMMA UseKeepsUses ==
    ASSUME TypeOK, TypeOK', UseInv, NEW r \in Requests, UseTemp(r)
    PROVE  UseInv'
<1> SUFFICES ASSUME NEW t \in TempPasswords
             PROVE  /\ uses'[t] + Number(Using', {t}) <= Cardinality(Requests)
                    /\ doc'.tempPassword = t /\ ~doc'.tempUsed => uses'[t] = 0
    BY DEF UseInv
<1>0. /\ uses[t] \in Nat /\ uses'[t] \in Nat /\ Cardinality(Requests) \in Nat
      /\ Number(Using, {t}) \in Nat /\ Number(Using', {t}) \in Nat
      /\ Number(Using', {t}) <= Cardinality(Requests)
      /\ At(Using', {t}) \subseteq At(Using, {t}) => Number(Using', {t}) <= Number(Using, {t})
    BY UseNumbers
<1>1. /\ uses' = [uses EXCEPT ![held[r]] = uses[held[r]] + 1]
      /\ uses \in [TempPasswords -> Nat]
      /\ doc'.tempUsed
      /\ pc \in [Requests -> Waits] /\ held \in [Requests -> TempPasswords \cup {NoTemp}]
      /\ pc[r] = "use"
      /\ pc' = [pc EXCEPT ![r] = "idle"] /\ held' = [held EXCEPT ![r] = NoTemp]
    BY DEF TypeOK, UseTemp, MarkTempPasswordUsed, AuthDocs, Done, Hold
<1>2. \A q \in Requests : q # r => Using'[q] = Using[q]
    BY <1>1 DEF Using
<1>3. Using[r] = held[r] /\ Using'[r] = NoTemp
    BY <1>1 DEF Using
<1>4. uses[t] + Number(Using, {t}) <= Cardinality(Requests)
    BY DEF UseInv
<1>5. CASE held[r] = t
  <2>1. Number(Using', {t}) = Number(Using, {t}) - 1
    <3>1. At(Using', {t}) = At(Using, {t}) \ {r} /\ r \in At(Using, {t})
        BY <1>2, <1>3, <1>5, TempIsNotPassword DEF At, Using
    <3>2. IsFiniteSet(At(Using, {t}))
        BY RequestsAreFinite, FS_Subset DEF At, Using
    <3> QED
        BY <3>1, <3>2, FS_RemoveElement DEF Number
  <2>2. uses'[t] = uses[t] + 1
      BY <1>1, <1>5
  <2> QED
      BY <1>0, <1>1, <1>4, <2>1, <2>2
<1>6. CASE held[r] # t
  <2>1. At(Using', {t}) \subseteq At(Using, {t})
      BY <1>2, <1>3, TempIsNotPassword DEF At, Using
  <2>2. uses'[t] = uses[t]
      BY <1>1, <1>6
  <2>3. Number(Using', {t}) <= Number(Using, {t})
      BY <1>0, <2>1
  <2> QED
      BY <1>0, <1>1, <1>4, <2>2, <2>3
<1> QED
    BY <1>5, <1>6

LEMMA UsesKeep ==
    ASSUME TypeOK, TypeOK', UseInv, [Next]_vars
    PROVE  UseInv'
<1> DEFINE Quiet ==
      /\ uses' = uses
      /\ doc'.tempPassword = doc.tempPassword /\ doc'.tempUsed = doc.tempUsed
      /\ \A q \in Requests : pc'[q] = "use" => pc[q] = "use" /\ held'[q] = held[q]
<1>0. pc \in [Requests -> Waits] /\ held \in [Requests -> TempPasswords \cup {NoTemp}]
    BY DEF TypeOK
<1>1. Quiet => UseInv'
    BY UsesQuiet
<1> USE DEF Hold, Go, Done
<1>2. CASE UNCHANGED vars
  <2>1. Quiet
      BY <1>0, <1>2 DEF vars, limits, history
  <2> QED
      BY <1>1, <2>1
<1>3. ASSUME NEW r \in Requests, Attempt(r) \/ RequestUnlock(r) PROVE Quiet
    BY <1>0, <1>3 DEF Attempt, RequestUnlock, history
<1>4. ASSUME NEW r \in Requests, Reject(r) \/ RightPassword(r) \/ WrongPassword(r)
      PROVE  Quiet
    BY <1>0, <1>4 DEF Reject, RightPassword, WrongPassword, history
<1>5. ASSUME NEW r \in Requests, Track(r) \/ ExpireAtMidnight(r) \/ SetLock(r) PROVE Quiet
    BY <1>0, <1>5 DEF Track, ExpireAtMidnight, SetLock, history
<1>6. ASSUME NEW r \in Requests, ResetAll(r) \/ ResetFails(r) PROVE Quiet
    BY <1>0, <1>6 DEF ResetAll, ResetFails
<1>7. ASSUME NEW r \in Requests, CountRequest(r) \/ ExpireRate(r) PROVE Quiet
    BY <1>0, <1>7 DEF CountRequest, ExpireRate, history
<1>8. ASSUME NEW r \in Requests, FindAccount(r) \/ CheckLocked(r) \/ MailTemp(r)
      PROVE  Quiet
    BY <1>0, <1>8 DEF FindAccount, CheckLocked, MailTemp, history
<1>9. ASSUME NEW r \in Requests, Abort(r) PROVE Quiet
    BY <1>0, <1>9 DEF Abort
<1>10. ASSUME Crash PROVE Quiet
    BY <1>0, <1>10 DEF Crash
<1>11. ASSUME LockExpires \/ Midnight \/ HourPasses \/ CooldownExpires PROVE Quiet
    BY <1>0, <1>11 DEF LockExpires, Midnight, HourPasses, CooldownExpires, history
<1>12. ASSUME TempExpires \/ SetUserActive PROVE Quiet
  <2>1. doc \in AuthDocs /\ UNCHANGED <<pc, held, uses>>
      BY <1>12 DEF TypeOK, TempExpires, SetUserActive, history
  <2> QED
      BY <1>12, <2>1 DEF TempExpires, SetUserActive, SetActive, AuthDocs
<1> QED
  <2> HIDE DEF Quiet, Hold, Go, Done
  <2> QED
      BY <1>1, <1>2, <1>3, <1>4, <1>5, <1>6, <1>7, <1>8, <1>9, <1>10, <1>11, <1>12,
         PresentKeepsUses, StoreKeepsUses, UseKeepsUses DEF Next, Continue

-------------------------------------------------------------------------------
(* Expiry of the counters, while nothing has failed.                           *)

AttemptsWillExpire ==
    attempts.count > 0 /\ ~attempts.expires => \E r \in Requests : pc[r] = "midnight"

RateWillExpire ==
    rate.count > 0 /\ ~rate.expires => \E r \in Requests : pc[r] = "hour"

LEMMA ExpiryParts ==
    /\ CountersWillExpire <=> (faults = 0 => AttemptsWillExpire /\ RateWillExpire)
    /\ CountersWillExpire' <=> (faults' = 0 => AttemptsWillExpire' /\ RateWillExpire')
BY DEF CountersWillExpire, AttemptsWillExpire, RateWillExpire

LEMMA FaultsGrow ==
    ASSUME [Next]_vars
    PROVE  faults' \in {faults, faults + 1}
BY DEF Next, vars, limits, history, Continue, Attempt, RequestUnlock, PresentTemp,
       Reject, RightPassword, WrongPassword, Track, ExpireAtMidnight, SetLock, ResetAll,
       CountRequest, ExpireRate, FindAccount, CheckLocked, StoreTemp, MailTemp, UseTemp,
       ResetFails, Abort, Crash, LockExpires, Midnight, HourPasses, CooldownExpires,
       TempExpires, SetUserActive, Fault

(* Until the failure that made the counter has set the expiry, it is there.    *)
LEMMA AttemptsKeep ==
    ASSUME TypeOK, AttemptsWillExpire, [Next]_vars, faults' = faults
    PROVE  AttemptsWillExpire'
<1> DEFINE Stay == \A s \in Requests : pc[s] = "midnight" => pc'[s] = "midnight"
           Quiet == attempts' = Missing \/ (attempts' = attempts /\ Stay)
<1>0. /\ pc \in [Requests -> Waits] /\ faults \in Nat /\ faults' # faults + 1
      /\ attempts.count \in Nat /\ attempts.expires \in BOOLEAN
    BY DEF TypeOK, Counters
<1>1. Quiet => AttemptsWillExpire'
    BY DEF AttemptsWillExpire, Missing
<1> USE DEF Hold, Go, Done
<1>2. CASE UNCHANGED vars
  <2>1. Quiet
      BY <1>2 DEF vars, limits
  <2> QED
      BY <1>1, <2>1
<1>3. ASSUME NEW r \in Requests, Attempt(r) \/ RequestUnlock(r) PROVE Quiet
    BY <1>0, <1>3 DEF Attempt, RequestUnlock, Free, limits
<1>4. ASSUME NEW r \in Requests, Reject(r) \/ RightPassword(r) \/ WrongPassword(r)
      PROVE  Quiet
    BY <1>0, <1>4 DEF Reject, RightPassword, WrongPassword, limits
<1>5. ASSUME NEW r \in Requests, SetLock(r) \/ CountRequest(r) \/ ExpireRate(r) PROVE Quiet
    BY <1>0, <1>5 DEF SetLock, CountRequest, ExpireRate
<1>6. ASSUME NEW r \in Requests, ResetAll(r) PROVE Quiet
    BY <1>6 DEF ResetAll, Delete, BothKeys
<1>7. ASSUME NEW r \in Requests, FindAccount(r) \/ CheckLocked(r) \/ MailTemp(r) \/ UseTemp(r)
      PROVE  Quiet
    BY <1>0, <1>7 DEF FindAccount, CheckLocked, MailTemp, UseTemp, limits
<1>8. ASSUME NEW r \in Requests, NEW t \in TempPasswords, StoreTemp(r, t) \/ PresentTemp(r, t)
      PROVE  Quiet
    BY <1>0, <1>8 DEF StoreTemp, PresentTemp, Free, limits
<1>9. ASSUME NEW r \in Requests, Track(r) PROVE AttemptsWillExpire'
  <2>1. /\ attempts'.count = attempts.count + 1 /\ attempts'.expires = attempts.expires
        /\ pc[r] = "track"
      BY <1>9 DEF Track, Incr
  <2>2. CASE attempts.count = 0
    <3>1. pc'[r] = "midnight"
        BY <1>0, <1>9, <2>1, <2>2 DEF Track
    <3> QED
        BY <3>1 DEF AttemptsWillExpire
  <2>3. CASE attempts.count > 0
    <3>1. Stay
        BY <1>0, <1>9, <2>1 DEF Track
    <3> QED
        BY <2>1, <2>3, <3>1 DEF AttemptsWillExpire
  <2> QED
      BY <1>0, <2>2, <2>3
<1>10. ASSUME NEW r \in Requests, ExpireAtMidnight(r) PROVE AttemptsWillExpire'
    BY <1>0, <1>10 DEF ExpireAtMidnight, Expire, AttemptsWillExpire
<1>11. ~Crash /\ \A r \in Requests : ~ResetFails(r) /\ ~Abort(r)
    BY <1>0 DEF Crash, ResetFails, Abort, Fault
<1>12. ASSUME LockExpires \/ Midnight \/ HourPasses \/ CooldownExpires PROVE Quiet
    BY <1>12 DEF LockExpires, Midnight, HourPasses, CooldownExpires
<1>13. ASSUME TempExpires \/ SetUserActive PROVE Quiet
    BY <1>13 DEF TempExpires, SetUserActive, limits
<1> QED
  <2> HIDE DEF Quiet, Hold, Go, Done
  <2> QED
      BY <1>1, <1>2, <1>3, <1>4, <1>5, <1>6, <1>7, <1>8, <1>9, <1>10, <1>11, <1>12, <1>13
         DEF Next, Continue

(* So is the request that made the counter of unlock requests.                 *)
LEMMA RateKeeps ==
    ASSUME TypeOK, RateWillExpire, [Next]_vars, faults' = faults
    PROVE  RateWillExpire'
<1> DEFINE Stay == \A s \in Requests : pc[s] = "hour" => pc'[s] = "hour"
           Quiet == rate' = Missing \/ (rate' = rate /\ Stay)
<1>0. /\ pc \in [Requests -> Waits] /\ faults \in Nat /\ faults' # faults + 1
      /\ rate.count \in Nat /\ rate.expires \in BOOLEAN
    BY DEF TypeOK, Counters
<1>1. Quiet => RateWillExpire'
    BY DEF RateWillExpire, Missing
<1> USE DEF Hold, Go, Done
<1>2. CASE UNCHANGED vars
  <2>1. Quiet
      BY <1>2 DEF vars, limits
  <2> QED
      BY <1>1, <2>1
<1>3. ASSUME NEW r \in Requests, Attempt(r) \/ RequestUnlock(r) PROVE Quiet
    BY <1>0, <1>3 DEF Attempt, RequestUnlock, Free, limits
<1>4. ASSUME NEW r \in Requests, Reject(r) \/ RightPassword(r) \/ WrongPassword(r)
      PROVE  Quiet
    BY <1>0, <1>4 DEF Reject, RightPassword, WrongPassword, limits
<1>5. ASSUME NEW r \in Requests, Track(r) \/ ExpireAtMidnight(r) \/ SetLock(r) PROVE Quiet
    BY <1>0, <1>5 DEF Track, ExpireAtMidnight, SetLock
<1>6. ASSUME NEW r \in Requests, ResetAll(r) PROVE Quiet
    BY <1>6 DEF ResetAll
<1>7. ASSUME NEW r \in Requests, FindAccount(r) \/ CheckLocked(r) \/ MailTemp(r) \/ UseTemp(r)
      PROVE  Quiet
    BY <1>0, <1>7 DEF FindAccount, CheckLocked, MailTemp, UseTemp, limits
<1>8. ASSUME NEW r \in Requests, NEW t \in TempPasswords, StoreTemp(r, t) \/ PresentTemp(r, t)
      PROVE  Quiet
    BY <1>0, <1>8 DEF StoreTemp, PresentTemp, Free, limits
<1>9. ASSUME NEW r \in Requests, CountRequest(r) PROVE RateWillExpire'
  <2>1. pc[r] = "rate" /\ rate' \in {rate, Incr(rate)} /\ MaxRequests \in Nat \ {0}
      BY <1>9, LockoutLimits DEF CountRequest
  <2>2. Incr(rate).count = rate.count + 1 /\ Incr(rate).expires = rate.expires
      BY DEF Incr
  <2>3. CASE rate.count = 0
    <3>1. pc'[r] = "hour"
        BY <1>0, <1>9, <2>1, <2>2, <2>3 DEF CountRequest
    <3> QED
        BY <3>1 DEF RateWillExpire
  <2>4. CASE rate.count > 0
    <3>1. Stay
        BY <1>0, <1>9, <2>1 DEF CountRequest
    <3> QED
        BY <2>1, <2>2, <2>4, <3>1 DEF RateWillExpire
  <2> QED
      BY <1>0, <2>3, <2>4
<1>10. ASSUME NEW r \in Requests, ExpireRate(r) PROVE RateWillExpire'
    BY <1>0, <1>10 DEF ExpireRate, Expire, RateWillExpire
<1>11. ~Crash /\ \A r \in Requests : ~ResetFails(r) /\ ~Abort(r)
    BY <1>0 DEF Crash, ResetFails, Abort, Fault
<1>12. ASSUME LockExpires \/ Midnight \/ HourPasses \/ CooldownExpires PROVE Quiet
    BY <1>12 DEF LockExpires, Midnight, HourPasses, CooldownExpires
<1>13. ASSUME TempExpires \/ SetUserActive PROVE Quiet
    BY <1>13 DEF TempExpires, SetUserActive, limits
<1> QED
  <2> HIDE DEF Quiet, Hold, Go, Done
  <2> QED
      BY <1>1, <1>2, <1>3, <1>4, <1>5, <1>6, <1>7, <1>8, <1>9, <1>10, <1>11, <1>12, <1>13
         DEF Next, Continue

-------------------------------------------------------------------------------
(* The results.                                                                *)

LEMMA InitLimitInv == Init => LimitInv /\ ExpiryInv
<1> SUFFICES ASSUME Init PROVE LimitInv /\ ExpiryInv
    OBVIOUS
<1>1. /\ TypeOK
      /\ attempts.count = 0 /\ rate.count = 0
  <2>1. doc \in AuthDocs
      BY TempIsNotPassword DEF Init, NewAuth, AuthDocs
  <2>2. 0 \in 0..MaxTries
      BY LockoutLimits
  <2> QED
      BY <2>1, <2>2 DEF Init, TypeOK, Waits, Missing, Counters
<1>2. \A S : "idle" \notin S => Number(pc, S) = 0
    BY NobodyAt DEF Init
<1>3. Number(pc, Failing) = 0 /\ Number(pc, Admitted) = 0 /\ Number(pc, Mailing) = 0
    BY <1>2 DEF Failing, Admitted, Mailing
<1>4. GuessInv
    BY <1>1, <1>3, Size, LostType, LockoutLimits DEF Init, GuessInv, TypeOK
<1>5. MailInv
    BY <1>1, <1>3, Size, LockoutLimits DEF Init, MailInv
<1>6. UseInv
  <2> SUFFICES ASSUME NEW t \in TempPasswords
               PROVE  /\ uses[t] + Number(Using, {t}) <= Cardinality(Requests)
                      /\ doc.tempPassword = t /\ ~doc.tempUsed => uses[t] = 0
      BY DEF UseInv
  <2>1. Number(Using, {t}) = 0
      BY TempIsNotPassword, NobodyAt DEF Init, Using
  <2> QED
      BY <2>1, Size DEF Init
<1>7. CountersWillExpire
    BY <1>1 DEF CountersWillExpire
<1> QED
    BY <1>1, <1>4, <1>5, <1>6, <1>7 DEF LimitInv, ExpiryInv

(* What every step of the lockout and of the unlocking preserves.              *)
THEOREM LockoutInvariant == Spec => []LimitInv
<1>1. LimitInv /\ [Next]_vars => LimitInv'
    BY NextStaysTyped, GuessesKeep, MailsKeep, UsesKeep DEF LimitInv
<1> QED
    BY <1>1, InitLimitInv, PTL DEF Spec

(* Keys, documents and slots stay well formed, and while nothing fails every   *)
(* counter has an expiry or a request about to set it.                         *)
THEOREM CountersExpire == Spec => []ExpiryInv
<1>1. ExpiryInv /\ [Next]_vars => ExpiryInv'
  <2> SUFFICES ASSUME TypeOK, CountersWillExpire, [Next]_vars
               PROVE  TypeOK' /\ CountersWillExpire'
      BY DEF ExpiryInv
  <2>1. TypeOK'
      BY NextStaysTyped
  <2>2. ASSUME faults' = 0 PROVE AttemptsWillExpire' /\ RateWillExpire'
    <3>1. faults' \in {faults, faults + 1} /\ faults \in Nat
        BY FaultsGrow DEF TypeOK
    <3>2. faults = 0 /\ faults' = faults
        BY <2>2, <3>1
    <3> QED
        BY <3>2, ExpiryParts, AttemptsKeep, RateKeeps
  <2> QED
      BY <2>1, <2>2, ExpiryParts
<1> QED
    BY <1>1, InitLimitInv, PTL DEF Spec

(* The limit of wrong passwords is exceeded by the requests already past the   *)
(* guard at most, and by what faults lost.                                     *)
THEOREM GuessesStayBounded == Spec => []GuessesBounded
<1>1. LimitInv => GuessesBounded
  <2> SUFFICES ASSUME LimitInv PROVE GuessesBounded
      OBVIOUS
  <2>1. /\ Number(pc, Admitted) \in Nat
        /\ Number(pc, Failing) \in Nat /\ Number(pc, Failing) <= Cardinality(Requests)
        /\ Lost \in Nat /\ guesses \in Nat /\ lock \in BOOLEAN
        /\ MaxAttempts \in Nat /\ Cardinality(Requests) \in Nat
      BY RequestsAreFinite, Sized, LostType, LockoutLimits DEF LimitInv, TypeOK
  <2> QED
      BY <2>1 DEF LimitInv, GuessInv, GuessesBounded, Others
<1> QED
    BY <1>1, LockoutInvariant, PTL

(* The limit of unlock mails in an hour is exceeded by the requests admitted   *)
(* in the hour before at most.                                                 *)
THEOREM UnlockMailsStayBounded == Spec => []UnlockMailsBounded
<1>1. LimitInv => UnlockMailsBounded
  <2> SUFFICES ASSUME LimitInv PROVE UnlockMailsBounded
      OBVIOUS
  <2>1. /\ Number(pc, Mailing) \in Nat /\ mails \in Nat
        /\ MaxRequests \in Nat /\ Cardinality(Requests) \in Nat
      BY RequestsAreFinite, Sized, LockoutLimits DEF LimitInv, TypeOK
  <2> QED
      BY <2>1 DEF LimitInv, MailInv, UnlockMailsBounded
<1> QED
    BY <1>1, LockoutInvariant, PTL

(* Only requests that overlap use one temporary password more than once.       *)
THEOREM TempUsesStayBounded == Spec => []TempUsesBounded
<1>1. LimitInv => TempUsesBounded
  <2> SUFFICES ASSUME LimitInv, NEW t \in TempPasswords
               PROVE  uses[t] <= Cardinality(Requests)
      BY DEF TempUsesBounded
  <2>1. Number(Using, {t}) \in Nat
    <3>1. Using \in [Requests -> TempPasswords \cup {NoTemp}]
        BY DEF LimitInv, TypeOK, Using
    <3> QED
        BY <3>1, RequestsAreFinite, Sized
  <2>2. uses[t] \in Nat /\ Cardinality(Requests) \in Nat
      BY Size DEF LimitInv, TypeOK
  <2>3. uses[t] + Number(Using, {t}) <= Cardinality(Requests)
      BY DEF LimitInv, UseInv
  <2> QED
      BY <2>1, <2>2, <2>3
<1> QED
    BY <1>1, LockoutInvariant, PTL
===============================================================================
