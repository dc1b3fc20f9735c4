---------------------------- MODULE SessionsProofs ----------------------------
(* Proofs about Sessions, for any number of requests in flight, any sets of    *)
(* passwords and any bounds.                                                   *)
EXTENDS Sessions, TLAPS

(* What the document's updates do to the fields the invariant speaks of.       *)
LEMMA PasswordUpdates ==
    ASSUME NEW d \in AuthDocs, NEW p \in Passwords
    PROVE  /\ UpdatePassword(d, p) \in AuthDocs
           /\ UpdatePassword(d, p).tokenVersion = d.tokenVersion + 1
           /\ UpdatePassword(d, p).password = p
           /\ AdminResetPassword(d, p) \in AuthDocs
           /\ AdminResetPassword(d, p).tokenVersion = d.tokenVersion + 1
           /\ AdminResetPassword(d, p).password = p
<1>1. \A m \in BOOLEAN, n \in Nat :
        [d EXCEPT !.password = p, !.mustChangePassword = m, !.tokenVersion = n]
            \in AuthDocs
  BY DEF AuthDocs
<1> DEFINE next == d.tokenVersion + 1
<1>0. next \in Nat
  BY DEF AuthDocs
<1> HIDE DEF next
<1>2. UpdatePassword(d, p) \in AuthDocs
  <2>1. UpdatePassword(d, p) =
          [d EXCEPT !.password = p, !.mustChangePassword = FALSE,
                    !.tokenVersion = next]
    BY DEF UpdatePassword, next
  <2> QED
    BY <1>0, <1>1, <2>1
<1>3. AdminResetPassword(d, p) \in AuthDocs
  <2>1. AdminResetPassword(d, p) =
          [d EXCEPT !.password = p, !.mustChangePassword = TRUE,
                    !.tokenVersion = next]
    BY DEF AdminResetPassword, next
  <2> QED
    BY <1>0, <1>1, <2>1
<1>4. /\ UpdatePassword(d, p).tokenVersion = d.tokenVersion + 1
      /\ UpdatePassword(d, p).password = p
  BY DEF AuthDocs, UpdatePassword
<1>5. /\ AdminResetPassword(d, p).tokenVersion = d.tokenVersion + 1
      /\ AdminResetPassword(d, p).password = p
  BY DEF AuthDocs, AdminResetPassword
<1> QED
  BY <1>2, <1>3, <1>4, <1>5

LEMMA SetActiveUpdate ==
    ASSUME NEW d \in AuthDocs, NEW b \in BOOLEAN
    PROVE  /\ SetActive(d, b) \in AuthDocs
           /\ SetActive(d, b).tokenVersion = d.tokenVersion
           /\ SetActive(d, b).password = d.password
           /\ SetActive(d, b).mustChangePassword = d.mustChangePassword
BY DEF AuthDocs, SetActive

LEMMA StoreTempUpdate ==
    ASSUME NEW d \in AuthDocs, NEW t \in TempPasswords
    PROVE  /\ StoreTempPassword(d, t) \in AuthDocs
           /\ StoreTempPassword(d, t).tokenVersion = d.tokenVersion
           /\ StoreTempPassword(d, t).password = d.password
           /\ StoreTempPassword(d, t).mustChangePassword
BY DEF AuthDocs, StoreTempPassword

LEMMA MarkTempUpdate ==
    ASSUME NEW d \in AuthDocs
    PROVE  /\ MarkTempPasswordUsed(d) \in AuthDocs
           /\ MarkTempPasswordUsed(d).tokenVersion = d.tokenVersion
           /\ MarkTempPasswordUsed(d).password = d.password
           /\ MarkTempPasswordUsed(d).mustChangePassword
BY DEF AuthDocs, MarkTempPasswordUsed

(* A response the server may build is of the right type.                       *)
LEMMA GrantType ==
    ASSUME NEW v \in Nat, NEW m \in BOOLEAN, NEW o \in Nat, NEW p \in Proofs
    PROVE  /\ Grant(v, m, o, p) \in Grants
           /\ Grant(v, m, o, p).tokenVersion = v
           /\ Grant(v, m, o, p).mustChangePassword = m
           /\ Grant(v, m, o, p).origin = o
           /\ Grant(v, m, o, p).proof = p
BY DEF Grant, Grants

(* The account starts with the session sign-up opened.                         *)
LEMMA InitSessionInv == Init => SessionInv
<1> SUFFICES ASSUME NEW p \in Passwords,
                    doc = NewAuth(p),
                    pc = [r \in Requests |-> "idle"],
                    pending = [r \in Requests |-> NoGrant],
                    grants = {Grant(0, FALSE, 0, p)},
                    loggedOut = {}
             PROVE  SessionInv
  BY DEF Init
<1>1. /\ doc \in AuthDocs
      /\ doc.tokenVersion = 0 /\ doc.password = p
  BY DEF NewAuth, AuthDocs
<1>2. p \in Proofs
  BY DEF Proofs
<1>3. PICK first : first = Grant(0, FALSE, 0, p)
  OBVIOUS
<1>4. first \in Grants /\ Revocable(first) /\ Forced(first)
  <2>1. \A m \in BOOLEAN : LET g == Grant(0, m, 0, p) IN
          /\ g \in Grants /\ g.tokenVersion = 0 /\ g.origin = 0
          /\ g.mustChangePassword = m /\ g.proof = p
    BY <1>2, GrantType
  <2>2. /\ first \in Grants
        /\ first.tokenVersion = 0 /\ first.origin = 0
        /\ first.mustChangePassword = FALSE /\ first.proof = p
    BY <1>3, <2>1
  <2>3. first.tokenVersion <= doc.tokenVersion
    BY <1>1, <2>2
  <2>4. Revocable(first)
    BY <1>1, <2>2, <2>3, Zenon DEF Revocable
  <2>5. Forced(first)
    BY <2>2, TempIsNotPassword DEF Forced
  <2> QED
    BY <2>2, <2>4, <2>5
<1>5. TypeOK
  BY <1>1, <1>3, <1>4 DEF TypeOK, Waits
<1>6. \A r \in Requests : MayHold(pc[r], pending[r])
  BY DEF MayHold
<1> QED
  BY <1>3, <1>4, <1>5, <1>6 DEF SessionInv

-------------------------------------------------------------------------------
(* What a step must do to the document for grants to stay as revocable as they *)
(* were.                                                                       *)
Carries ==
    /\ doc' \in AuthDocs
    /\ doc.tokenVersion <= doc'.tokenVersion
    /\ \A g \in Grants : Revocable(g) => Revocable(g)'
    /\ \A g \in Grants : Revocable(g) /\ Forced(g) => Forced(g)'

(* A step that sets the password moves the document to a version that no grant *)
(* carries, whatever the new password.                                         *)
LEMMA BumpCarries ==
    ASSUME doc \in AuthDocs, doc' \in AuthDocs,
           doc'.tokenVersion = doc.tokenVersion + 1
    PROVE  Carries
<1>1. doc.tokenVersion \in Nat /\ doc.tokenVersion <= doc'.tokenVersion
  BY DEF AuthDocs
<1>2. ASSUME NEW g \in Grants, Revocable(g)
      PROVE  Revocable(g)' /\ Forced(g)'
  <2>1. g.tokenVersion \in Nat /\ g.tokenVersion <= doc.tokenVersion
    BY <1>2 DEF Grants, Revocable
  <2>2. /\ g.tokenVersion <= doc'.tokenVersion
        /\ g.tokenVersion # doc'.tokenVersion
    BY <1>1, <2>1
  <2> QED
    BY <2>2 DEF Revocable, Forced
<1> QED
  BY <1>1, <1>2 DEF Carries

(* So does a step that keeps password and version and does not clear the flag. *)
LEMMA SameGenerationCarries ==
    ASSUME doc \in AuthDocs, doc' \in AuthDocs,
           doc'.tokenVersion = doc.tokenVersion, doc'.password = doc.password,
           doc.mustChangePassword => doc'.mustChangePassword
    PROVE  Carries
<1>1. doc.tokenVersion \in Nat
  BY DEF AuthDocs
<1> QED
  BY <1>1 DEF Carries, Revocable, Forced

(* What a request holds when it does not move stays allowed.                   *)
LEMMA HeldCarries ==
    ASSUME TypeOK, Carries, NEW w \in Waits, NEW g \in Grants \cup {NoGrant},
           MayHold(w, g)
    PROVE  MayHold(w, g)'
<1>1. /\ w \in {"issue", "refresh", "temp"} => g \in Grants /\ Revocable(g)'
      /\ w \in {"issue", "refresh"} => Forced(g)'
  BY DEF MayHold, Carries
<1>2. w = "change" => g \in Grants /\ g.proof \in Passwords
                      /\ g.tokenVersion <= doc'.tokenVersion
  BY DEF MayHold, Carries, TypeOK, AuthDocs, Grants
<1>3. w \in {"idle", "unlock"} => g = NoGrant
  BY DEF MayHold
<1> QED
  BY <1>1, <1>2, <1>3 DEF MayHold

(* The invariant survives a step that moves no request.                        *)
LEMMA DocumentStep ==
    ASSUME SessionInv, Carries, UNCHANGED <<pc, pending>>,
           grants' = grants, loggedOut' \subseteq grants
    PROVE  SessionInv'
<1>1. TypeOK'
  BY DEF SessionInv, TypeOK, Carries
<1>2. \A g \in grants' : Revocable(g)' /\ Forced(g)'
  BY DEF SessionInv, TypeOK, Carries
<1>3. ASSUME NEW r \in Requests
      PROVE  MayHold(pc[r], pending[r])'
  <2>1. /\ pc[r] \in Waits /\ pending[r] \in Grants \cup {NoGrant}
        /\ MayHold(pc[r], pending[r])
    BY DEF SessionInv, TypeOK
  <2>2. \A w \in Waits, g \in Grants \cup {NoGrant} :
          MayHold(w, g) => MayHold(w, g)'
    BY HeldCarries DEF SessionInv
  <2> QED
    BY <2>1, <2>2
<1> QED
  BY <1>1, <1>2, <1>3 DEF SessionInv

(* And one in which request r moves on, when r may hold what it holds there.   *)
LEMMA RequestStep ==
    ASSUME SessionInv, Carries, NEW r \in Requests, NEW to \in Waits,
           NEW g \in Grants \cup {NoGrant}, WaitAt(r, to, g), MayHold(to, g)',
           loggedOut' = loggedOut, grants \subseteq grants',
           \A h \in grants' :
               h \in grants \/ (h \in Grants /\ Revocable(h) /\ Forced(h))
    PROVE  SessionInv'
<1>1. /\ pc' = [pc EXCEPT ![r] = to] /\ pc \in [Requests -> Waits]
      /\ pending' = [pending EXCEPT ![r] = g]
      /\ pending \in [Requests -> Grants \cup {NoGrant}]
  BY DEF WaitAt, SessionInv, TypeOK
<1>2. TypeOK'
  BY <1>1 DEF SessionInv, TypeOK, Carries
<1>3. \A h \in grants' : Revocable(h)' /\ Forced(h)'
  BY DEF SessionInv, TypeOK, Carries
<1>4. ASSUME NEW s \in Requests
      PROVE  MayHold(pc[s], pending[s])'
  <2>1. CASE s = r
    <3>1. pc'[s] = to /\ pending'[s] = g
      BY <1>1, <2>1
    <3> QED
      BY <3>1
  <2>2. CASE s # r
    <3>1. /\ pc'[s] = pc[s] /\ pending'[s] = pending[s]
          /\ pc[s] \in Waits /\ pending[s] \in Grants \cup {NoGrant}
          /\ MayHold(pc[s], pending[s])
      BY <1>1, <2>2 DEF SessionInv
    <3>2. \A w \in Waits, h \in Grants \cup {NoGrant} :
            MayHold(w, h) => MayHold(w, h)'
      BY HeldCarries DEF SessionInv
    <3> QED
      BY <3>1, <3>2
  <2> QED
    BY <2>1, <2>2
<1> QED
  BY <1>2, <1>3, <1>4 DEF SessionInv

(* A step that leaves the document alone carries every grant.                  *)
LEMMA StillCarries ==
    ASSUME TypeOK, UNCHANGED doc
    PROVE  Carries
BY DEF Carries, TypeOK, AuthDocs, Revocable, Forced

-------------------------------------------------------------------------------
(* One lemma per kind of step.                                                 *)

(* Reading the document: the request that read it holds what it read.          *)
LEMMA ReadStep ==
    ASSUME SessionInv, NEW r \in Requests, NEW to \in Waits,
           NEW g \in Grants \cup {NoGrant}, WaitAt(r, to, g), MayHold(to, g),
           UNCHANGED doc, Settled
    PROVE  SessionInv'
<1>1. Carries
  BY StillCarries DEF SessionInv
<1>2. MayHold(to, g)'
  BY <1>1, HeldCarries DEF SessionInv
<1> QED
  BY <1>1, <1>2, RequestStep DEF Settled

(* The version, flag and password a handler copies from the document.          *)
LEMMA DocFields ==
    ASSUME TypeOK
    PROVE  /\ doc \in AuthDocs
           /\ doc.tokenVersion \in Nat
           /\ doc.password \in Passwords
           /\ doc.mustChangePassword \in BOOLEAN
BY DEF TypeOK, AuthDocs

(* A login answers with a revocable grant when its proof is not another        *)
(* password than the account's.                                                *)
LEMMA LoginGrantRevocable ==
    ASSUME TypeOK, NEW p \in Proofs, p \in Passwords => p = doc.password
    PROVE  LoginGrant(doc, p) \in Grants /\ Revocable(LoginGrant(doc, p))
<1> DEFINE g == LoginGrant(doc, p)
<1>1. /\ g \in Grants
      /\ g.tokenVersion = doc.tokenVersion /\ g.origin = doc.tokenVersion
      /\ g.mustChangePassword = doc.mustChangePassword /\ g.proof = p
  BY DocFields, GrantType DEF LoginGrant
<1> QED
  BY <1>1, DocFields DEF Revocable

(* The sessions logins, refreshes and temporary passwords are about to open.   *)
LEMMA OpeningSteps ==
    ASSUME SessionInv, NEW r \in Requests
    PROVE  /\ \A p \in Passwords : PasswordLogin(r, p) => SessionInv'
           /\ CodeLogin(r) => SessionInv'
           /\ \A t \in TempPasswords : ReadForTempLogin(r, t) => SessionInv'
           /\ \A g \in grants : Refresh(r, g) => SessionInv'
<1>1. TypeOK
  BY DEF SessionInv
<1>2. ASSUME NEW p \in Proofs, p \in Passwords => p = doc.password,
             NEW to \in {"issue", "temp"}, to = "issue" => p \notin TempPasswords,
             WaitAt(r, to, LoginGrant(doc, p)), UNCHANGED doc, Settled
      PROVE  SessionInv'
  <2>1. LoginGrant(doc, p) \in Grants /\ Revocable(LoginGrant(doc, p))
    BY <1>1, <1>2, LoginGrantRevocable
  <2>2. to = "issue" => Forced(LoginGrant(doc, p))
    BY <1>2 DEF Forced, LoginGrant, Grant
  <2>3. MayHold(to, LoginGrant(doc, p)) /\ to \in Waits
    BY <2>1, <2>2 DEF MayHold, Waits
  <2> QED
    BY <1>2, <2>1, <2>3, ReadStep
<1>3. ASSUME NEW p \in Passwords, PasswordLogin(r, p)
      PROVE  SessionInv'
  BY <1>2, <1>3, TempIsNotPassword DEF PasswordLogin, Proofs
<1>4. ASSUME CodeLogin(r)
      PROVE  SessionInv'
  BY <1>2, <1>4, CodeIsNotSecret DEF CodeLogin, Proofs
<1>5. ASSUME NEW t \in TempPasswords, ReadForTempLogin(r, t)
      PROVE  SessionInv'
  BY <1>2, <1>5, TempIsNotPassword DEF ReadForTempLogin, Proofs
<1>6. ASSUME NEW g \in grants, Refresh(r, g)
      PROVE  SessionInv'
  <2> DEFINE h == Grant(doc.tokenVersion, doc.mustChangePassword, g.origin, g.proof)
  <2>1. g \in Grants /\ Revocable(g) /\ Forced(g)
    BY DEF SessionInv, TypeOK
  <2>2. /\ h \in Grants
        /\ h.tokenVersion = doc.tokenVersion /\ h.origin = g.origin
        /\ h.mustChangePassword = doc.mustChangePassword /\ h.proof = g.proof
    BY <1>1, <2>1, DocFields, GrantType DEF Grants
  <2>3. g.tokenVersion = doc.tokenVersion
    BY <1>1, <1>6, <2>1, DocFields DEF Refresh, PasswordNotChanged, Revocable, Grants
  <2> HIDE DEF h
  <2>4. Revocable(h)
    BY <1>1, <2>1, <2>2, <2>3, DocFields DEF Revocable
  <2>5. Forced(h)
    BY <2>1, <2>2, <2>3 DEF Forced
  <2>6. MayHold("refresh", h) /\ "refresh" \in Waits
    BY <2>2, <2>4, <2>5 DEF MayHold, Waits
  <2>7. WaitAt(r, "refresh", h) /\ UNCHANGED doc /\ Settled
    BY <1>6 DEF Refresh, h
  <2> QED
    BY <2>2, <2>6, <2>7, ReadStep
<1> QED
  BY <1>3, <1>4, <1>5, <1>6

(* Requests that read without opening a session, and those that end.           *)
LEMMA OtherWaits ==
    ASSUME SessionInv, NEW r \in Requests
    PROVE  /\ \A p, new \in Passwords : ReadForChange(r, p, new) => SessionInv'
           /\ ReadForUnlock(r) => SessionInv'
           /\ Issue(r) => SessionInv'
           /\ Fail(r) => SessionInv'
<1>2. ASSUME NEW p \in Passwords, NEW new \in Passwords, ReadForChange(r, p, new)
      PROVE  SessionInv'
  <2> DEFINE h == Grant(doc.tokenVersion, FALSE, doc.tokenVersion, new)
  <2>1. \A m \in BOOLEAN : LET g == Grant(doc.tokenVersion, m, doc.tokenVersion, new)
          IN g \in Grants /\ g.proof = new /\ g.tokenVersion = doc.tokenVersion
    BY DocFields, GrantType DEF SessionInv, Proofs
  <2>2. h \in Grants /\ h.proof = new /\ h.tokenVersion = doc.tokenVersion
    BY <2>1
  <2> HIDE DEF h
  <2>3. MayHold("change", h) /\ "change" \in Waits
    BY <2>2, DocFields DEF MayHold, Waits, SessionInv
  <2>4. WaitAt(r, "change", h) /\ UNCHANGED doc /\ Settled
    BY <1>2 DEF ReadForChange, h
  <2> QED
    BY <2>2, <2>3, <2>4, ReadStep
<1>3. /\ "idle" \in Waits /\ MayHold("idle", NoGrant)
      /\ "unlock" \in Waits /\ MayHold("unlock", NoGrant)
  BY DEF Waits, MayHold
<1>4. ASSUME ReadForUnlock(r)
      PROVE  SessionInv'
  BY <1>3, <1>4, ReadStep DEF ReadForUnlock
<1>5. ASSUME Fail(r)
      PROVE  SessionInv'
  BY <1>3, <1>5, ReadStep DEF Fail, Done
<1>6. ASSUME Issue(r)
      PROVE  SessionInv'
  <2>1. pending[r] \in Grants /\ Revocable(pending[r]) /\ Forced(pending[r])
    BY <1>6 DEF Issue, SessionInv, MayHold
  <2>2. Carries
    BY <1>6, StillCarries DEF Issue, SessionInv
  <2>3. MayHold("idle", NoGrant)'
    BY DEF MayHold
  <2>4. /\ WaitAt(r, "idle", NoGrant) /\ loggedOut' = loggedOut
        /\ grants' = grants \cup {pending[r]}
    BY <1>6 DEF Issue, Done
  <2> QED
    BY <1>3, <2>1, <2>2, <2>3, <2>4, RequestStep
<1> QED
  BY <1>2, <1>4, <1>5, <1>6

(* Setting the password: whatever was in flight, nothing of an older version   *)
(* is accepted afterwards.                                                     *)
LEMMA PasswordSteps ==
    ASSUME SessionInv
    PROVE  /\ \A r \in Requests : ApplyChange(r) => SessionInv'
           /\ \A new \in Passwords : ResetPassword(new) => SessionInv'
           /\ \A new \in Passwords : AdminReset(new) => SessionInv'
<1>1. TypeOK /\ doc \in AuthDocs
  BY DEF SessionInv, TypeOK
<1>2. ASSUME NEW new \in Passwords, ResetPassword(new)
      PROVE  SessionInv'
  <2>1. Carries
    BY <1>1, <1>2, PasswordUpdates, BumpCarries DEF ResetPassword
  <2> QED
    BY <1>1, <1>2, <2>1, DocumentStep DEF ResetPassword, Settled, TypeOK
<1>3. ASSUME NEW new \in Passwords, AdminReset(new)
      PROVE  SessionInv'
  <2>1. Carries
    BY <1>1, <1>3, PasswordUpdates, BumpCarries DEF AdminReset
  <2> QED
    BY <1>1, <1>3, <2>1, DocumentStep DEF AdminReset, Settled, TypeOK
<1>4. ASSUME NEW r \in Requests, ApplyChange(r)
      PROVE  SessionInv'
  <2> DEFINE new == pending[r].proof
  <2>1. pending[r] \in Grants /\ new \in Passwords
    BY <1>4 DEF ApplyChange, SessionInv, MayHold
  <2> HIDE DEF new
  <2>2. doc' = UpdatePassword(doc, new) /\ Settled
    BY <1>4 DEF ApplyChange, new
  <2>3. Carries /\ doc' \in AuthDocs /\ doc'.password = new
    BY <1>1, <2>1, <2>2, PasswordUpdates, BumpCarries
  <2>4. PICK h : h = Grant(doc'.tokenVersion, FALSE, doc'.tokenVersion, new)
    OBVIOUS
  <2>5. WaitAt(r, "issue", h)
    BY <1>4, <2>4 DEF ApplyChange, new
  <2>6. doc'.tokenVersion \in Nat /\ new \in Proofs
    BY <2>1, <2>3 DEF AuthDocs, Proofs
  <2>7. \A m \in BOOLEAN : LET g == Grant(doc'.tokenVersion, m, doc'.tokenVersion, new)
          IN /\ g \in Grants /\ g.tokenVersion = doc'.tokenVersion
             /\ g.origin = doc'.tokenVersion /\ g.mustChangePassword = m
             /\ g.proof = new
    BY <2>6, GrantType
  <2>8. /\ h \in Grants /\ h.tokenVersion = doc'.tokenVersion
        /\ h.origin = doc'.tokenVersion /\ h.mustChangePassword = FALSE
        /\ h.proof = new
    BY <2>4, <2>7
  <2>9. h.tokenVersion <= doc'.tokenVersion
    BY <2>6, <2>8
  <2>10. Revocable(h)'
    BY <2>3, <2>8, <2>9, Zenon DEF Revocable
  <2>11. Forced(h)'
    BY <2>1, <2>8, TempIsNotPassword DEF Forced
  <2>12. MayHold("issue", h)' /\ "issue" \in Waits
    BY <2>8, <2>10, <2>11 DEF MayHold, Waits
  <2> QED
    BY <2>2, <2>3, <2>5, <2>8, <2>12, RequestStep DEF Settled
<1> QED
  BY <1>2, <1>3, <1>4

(* Updates that stay within the generation: they never clear the flag.         *)
LEMMA SameGenerationSteps ==
    ASSUME SessionInv
    PROVE  /\ \A b \in BOOLEAN : SetUserActive(b) => SessionInv'
           /\ TempExpires => SessionInv'
           /\ \A r \in Requests, t \in TempPasswords : StoreTemp(r, t) => SessionInv'
           /\ \A r \in Requests : UseTemp(r) => SessionInv'
<1>1. TypeOK /\ doc \in AuthDocs /\ loggedOut \subseteq grants
  BY DEF SessionInv, TypeOK
<1>2. ASSUME NEW b \in BOOLEAN, SetUserActive(b)
      PROVE  SessionInv'
  <2>1. Carries
    BY <1>1, <1>2, SetActiveUpdate, SameGenerationCarries DEF SetUserActive
  <2> QED
    BY <1>1, <1>2, <2>1, DocumentStep DEF SetUserActive, Settled
<1>3. ASSUME TempExpires
      PROVE  SessionInv'
  <2>1. /\ doc' \in AuthDocs /\ doc'.tokenVersion = doc.tokenVersion
        /\ doc'.password = doc.password
        /\ doc'.mustChangePassword = doc.mustChangePassword
    BY <1>1, <1>3 DEF TempExpires, AuthDocs
  <2>2. Carries
    BY <1>1, <2>1, SameGenerationCarries
  <2> QED
    BY <1>1, <1>3, <2>2, DocumentStep DEF TempExpires, Settled
<1>4. ASSUME NEW r \in Requests, NEW t \in TempPasswords, StoreTemp(r, t)
      PROVE  SessionInv'
  <2>1. Carries
    BY <1>1, <1>4, StoreTempUpdate, SameGenerationCarries DEF StoreTemp
  <2>2. MayHold("idle", NoGrant)' /\ "idle" \in Waits
    BY DEF MayHold, Waits
  <2> QED
    BY <1>4, <2>1, <2>2, RequestStep DEF StoreTemp, Done, Settled
<1>5. ASSUME NEW r \in Requests, UseTemp(r)
      PROVE  SessionInv'
  <2>1. Carries
    BY <1>1, <1>5, MarkTempUpdate, SameGenerationCarries DEF UseTemp
  <2>2. pending[r] \in Grants /\ Revocable(pending[r])
    BY <1>5 DEF UseTemp, SessionInv, MayHold
  <2>3. "issue" \in Waits
    BY DEF Waits
  <2>4. PICK h \in Grants : h = pending[r]
    BY <2>2
  <2>5. Forced(h)'
    BY <1>1, <1>5, MarkTempUpdate DEF UseTemp, Forced
  <2>6. MayHold("issue", h)'
    BY <2>1, <2>2, <2>4, <2>5 DEF Carries, MayHold
  <2>7. WaitAt(r, "issue", h) /\ Settled
    BY <1>5, <2>4 DEF UseTemp
  <2> QED
    BY <2>1, <2>3, <2>6, <2>7, RequestStep DEF Settled
<1> QED
  BY <1>2, <1>3, <1>4, <1>5

(* Every step of every flow preserves the invariant.                           *)
LEMMA StepPreserves == SessionInv /\ [Next]_vars => SessionInv'
<1> SUFFICES ASSUME SessionInv, [Next]_vars
             PROVE  SessionInv'
  OBVIOUS
<1>1. ASSUME NEW r \in Requests,
             \/ \E p \in Passwords : PasswordLogin(r, p)
             \/ CodeLogin(r)
             \/ \E g \in grants : Refresh(r, g)
             \/ \E t \in TempPasswords : ReadForTempLogin(r, t)
      PROVE  SessionInv'
  BY <1>1, OpeningSteps
<1>2. ASSUME NEW r \in Requests,
             \/ \E p, new \in Passwords : ReadForChange(r, p, new)
             \/ ReadForUnlock(r)
             \/ Issue(r)
             \/ Fail(r)
      PROVE  SessionInv'
  BY <1>2, OtherWaits
<1>3. ASSUME \/ \E r \in Requests : ApplyChange(r)
             \/ \E p \in Passwords : ResetPassword(p)
             \/ \E p \in Passwords : AdminReset(p)
      PROVE  SessionInv'
  BY <1>3, PasswordSteps
<1>4. ASSUME \/ \E r \in Requests : \E t \in TempPasswords : StoreTemp(r, t)
             \/ \E r \in Requests : UseTemp(r)
             \/ \E b \in BOOLEAN : SetUserActive(b)
             \/ TempExpires
      PROVE  SessionInv'
  BY <1>4, SameGenerationSteps
<1>5. ASSUME NEW g \in grants, Logout(g)
      PROVE  SessionInv'
  <2>1. Carries
    BY <1>5, StillCarries DEF Logout, SessionInv
  <2>2. loggedOut' \subseteq grants
    BY <1>5 DEF Logout, SessionInv, TypeOK
  <2> QED
    BY <1>5, <2>1, <2>2, DocumentStep DEF Logout
<1>6. CASE UNCHANGED vars
  <2>1. Carries
    BY <1>6, StillCarries DEF vars, SessionInv
  <2>2. loggedOut' \subseteq grants
    BY <1>6 DEF vars, SessionInv, TypeOK
  <2> QED
    BY <1>6, <2>1, <2>2, DocumentStep DEF vars
<1> QED
  BY <1>1, <1>2, <1>3, <1>4, <1>5, <1>6 DEF Next

-------------------------------------------------------------------------------
(* SessionInv holds in every reachable state.                                  *)
THEOREM SessionInvariant == Spec => []SessionInv
BY InitSessionInv, StepPreserves, PTL DEF Spec

(* Documents, requests and tokens keep their types through every interleaving. *)
THEOREM TypesHold == Spec => []TypeOK
<1>1. SessionInv => TypeOK
  BY DEF SessionInv
<1> QED
  BY <1>1, SessionInvariant, PTL

(* A refresh token that is accepted was opened with the current password, or   *)
(* with no password: changing or resetting it ends every session opened by     *)
(* whoever knew an earlier one, for any number of concurrent requests.         *)
THEOREM OnlyCurrentPassword == Spec => []LiveGrantsProvePassword
<1>1. SessionInv => LiveGrantsProvePassword
  BY DEF SessionInv, Revocable, LiveGrantsProvePassword
<1> QED
  BY <1>1, SessionInvariant, PTL

(* Refreshing does not outlive the generation the session was opened in.       *)
THEOREM RefreshKeepsGeneration == Spec => []SessionsDieWithPassword
<1>1. SessionInv => SessionsDieWithPassword
  BY DEF SessionInv, Revocable, SessionsDieWithPassword
<1> QED
  BY <1>1, SessionInvariant, PTL

(* No delivered token and no answer on its way is stamped ahead of the account.*)
THEOREM NoFutureToken == Spec => []NoTokenFromTheFuture
<1>1. SessionInv => NoTokenFromTheFuture
  <2> SUFFICES ASSUME SessionInv, NEW g \in grants \cup {pending[r] : r \in Requests},
                      g # NoGrant
               PROVE  g.tokenVersion <= doc.tokenVersion
    BY DEF NoTokenFromTheFuture
  <2>1. CASE g \in grants
    BY <2>1 DEF SessionInv, Revocable
  <2>2. CASE g \notin grants
    <3>1. PICK r \in Requests : g = pending[r]
      BY <2>2
    <3>2. pc[r] \in Waits /\ MayHold(pc[r], g)
      BY <3>1 DEF SessionInv, TypeOK
    <3> QED
      BY <3>2 DEF MayHold, Revocable, Waits
  <2> QED
    BY <2>1, <2>2
<1> QED
  BY <1>1, SessionInvariant, PTL

(* Whoever is told to change the password, or came in with a temporary one,    *)
(* holds a session that is accepted only while the account must be changed.    *)
THEOREM ForcedChange == Spec => []ForcedChangeEndsWithRevocation
<1>1. SessionInv => ForcedChangeEndsWithRevocation
  BY DEF SessionInv, Revocable, Forced, ForcedChangeEndsWithRevocation
<1> QED
  BY <1>1, SessionInvariant, PTL
-------------------------------------------------------------------------------
(* The handlers of Sessions implement the atomic sessions of RevocableSessions: *)
(* every step opens, renews or loses a session, sets the password, or changes  *)
(* nothing the abstract specification sees.                                    *)

Answering == {"issue", "refresh", "temp"}

(* How AllSessions follows the one request that moves.                         *)
LEMMA SessionsMove ==
    ASSUME SessionInv, NEW r \in Requests, NEW to \in Waits,
           NEW g \in Grants \cup {NoGrant}, WaitAt(r, to, g)
    PROVE  /\ \A s \in Requests \ {r} :
                 /\ s \in Accepted' <=> s \in Accepted
                 /\ pending'[s] = pending[s]
           /\ r \in Accepted' <=> to \in Answering
           /\ pending'[r] = g
<1>1. /\ pc' = [pc EXCEPT ![r] = to] /\ pc \in [Requests -> Waits]
      /\ pending' = [pending EXCEPT ![r] = g]
      /\ pending \in [Requests -> Grants \cup {NoGrant}]
  BY DEF WaitAt, SessionInv, TypeOK
<1> QED
  BY <1>1 DEF Accepted, Answering

(* Nothing is seen of a request that neither was nor becomes answerable.       *)
LEMMA SilentMove ==
    ASSUME SessionInv, NEW r \in Requests, NEW to \in Waits \ Answering,
           NEW g \in Grants \cup {NoGrant}, WaitAt(r, to, g), grants' = grants,
           r \notin Accepted
    PROVE  AllSessions' = AllSessions
<1>1. \A s \in Requests : s \in Accepted' <=> s \in Accepted
  BY SessionsMove
<1>2. \A s \in Accepted : s \in Requests /\ s # r
  BY DEF Accepted
<1>3. \A s \in Accepted' : s \in Requests
  BY DEF Accepted
<1>4. Accepted' = Accepted
  BY <1>1, <1>2, <1>3
<1>5. \A s \in Accepted : SessionOf(pending[s])' = SessionOf(pending[s])
  BY <1>2, SessionsMove DEF SessionOf
<1>6. \A h \in grants : SessionOf(h)' = SessionOf(h)
  BY DEF SessionOf
<1>7. {SessionOf(pending[s]) : s \in Accepted}' = {SessionOf(pending[s]) : s \in Accepted}
  BY <1>4, <1>5
<1> QED
  BY <1>7 DEF AllSessions, SessionOf

(* A request whose credential has been accepted adds its session.              *)
LEMMA OpeningMove ==
    ASSUME SessionInv, NEW r \in Requests, NEW to \in Answering,
           NEW g \in Grants \cup {NoGrant}, WaitAt(r, to, g), grants' = grants,
           r \notin Accepted
    PROVE  AllSessions' = AllSessions \cup {SessionOf(g)}
<1>0. to \in Waits
  BY DEF Answering, Waits
<1>1. \A s \in Accepted : s \in Requests \ {r}
  BY DEF Accepted
<1>2. \A s \in Accepted' : s \in Requests
  BY DEF Accepted
<1>3. Accepted' = Accepted \cup {r}
  BY <1>0, <1>1, <1>2, SessionsMove
<1>4. pending'[r] = g /\ \A s \in Accepted : pending'[s] = pending[s]
  BY <1>0, <1>1, SessionsMove
<1>5. {SessionOf(pending'[s]) : s \in Accepted'} =
        {SessionOf(pending[s]) : s \in Accepted} \cup {SessionOf(g)}
  BY <1>3, <1>4
<1> QED
  BY <1>5 DEF AllSessions, SessionOf

(* A failed request can only take its own session away; an answer that is      *)
(* delivered leaves it where it was.                                           *)
LEMMA ClosingMove ==
    ASSUME SessionInv, NEW r \in Requests, Done(r)
    PROVE  /\ grants' = grants => AllSessions' \subseteq AllSessions
           /\ grants' = grants \cup {pending[r]} /\ r \in Accepted
                => AllSessions' = AllSessions
<1>0. "idle" \in Waits /\ "idle" \notin Answering /\ WaitAt(r, "idle", NoGrant)
  BY DEF Answering, Waits, Done
<1>1. \A s \in Accepted' : s \in Requests
  BY DEF Accepted
<1>2. Accepted' = Accepted \ {r}
  <2>1. \A s \in Accepted : s \in Requests
    BY DEF Accepted
  <2> QED
    BY <1>0, <1>1, <2>1, SessionsMove
<1>3. \A s \in Accepted' : pending'[s] = pending[s]
  BY <1>0, <1>1, <1>2, SessionsMove
<1>4. {SessionOf(pending'[s]) : s \in Accepted'} =
        {SessionOf(pending[s]) : s \in Accepted \ {r}}
  BY <1>2, <1>3
<1> QED
  BY <1>4 DEF AllSessions, SessionOf

-------------------------------------------------------------------------------
(* Sign-up opens the first session.                                            *)
LEMMA InitImplements == Init => Promise!Init
<1> SUFFICES ASSUME NEW p \in Passwords,
                    doc = NewAuth(p),
                    pc = [r \in Requests |-> "idle"],
                    grants = {Grant(0, FALSE, 0, p)}
             PROVE  Promise!Init
  BY DEF Init
<1>1. doc.tokenVersion = 0 /\ doc.password = p
  BY DEF NewAuth
<1>2. Accepted = {}
  BY DEF Accepted
<1>3. SessionOf(Grant(0, FALSE, 0, p)) = Promise!Opened(0, p)
  BY DEF SessionOf, Grant, Promise!Opened
<1>4. AllSessions = {Promise!Opened(0, p)}
  BY <1>2, <1>3 DEF AllSessions
<1> QED
  BY <1>1, <1>4 DEF Promise!Init

(* Credential checks open a session of the current generation.                 *)
LEMMA LoginsOpen ==
    ASSUME SessionInv, NEW r \in Requests
    PROVE  /\ \A p \in Passwords : PasswordLogin(r, p) => Promise!Open
           /\ CodeLogin(r) => Promise!Open
           /\ \A t \in TempPasswords : ReadForTempLogin(r, t) => Promise!Open
<1>1. ASSUME NEW proof \in {doc.password} \cup (TempPasswords \cup {Code}),
             NEW to \in Answering, pc[r] = "idle",
             WaitAt(r, to, LoginGrant(doc, proof)), UNCHANGED doc, Settled
      PROVE  Promise!Open
  <2>1. TypeOK /\ proof \in Proofs /\ (proof \in Passwords => proof = doc.password)
    BY CodeIsNotSecret, TempIsNotPassword, DocFields DEF SessionInv, Proofs
  <2>2. LoginGrant(doc, proof) \in Grants
    BY <2>1, LoginGrantRevocable
  <2>3. r \notin Accepted /\ grants' = grants
    BY <1>1 DEF Accepted, Settled
  <2>4. AllSessions' = AllSessions \cup {SessionOf(LoginGrant(doc, proof))}
    BY <1>1, <2>2, <2>3, OpeningMove
  <2>5. SessionOf(LoginGrant(doc, proof)) = Promise!Opened(doc.tokenVersion, proof)
    BY DEF SessionOf, LoginGrant, Grant, Promise!Opened
  <2> QED
    BY <1>1, <2>4, <2>5 DEF Promise!Open
<1>2. ASSUME NEW p \in Passwords, PasswordLogin(r, p)
      PROVE  Promise!Open
  BY <1>1, <1>2 DEF PasswordLogin, Answering
<1>3. ASSUME CodeLogin(r)
      PROVE  Promise!Open
  BY <1>1, <1>3 DEF CodeLogin, Answering
<1>4. ASSUME NEW t \in TempPasswords, ReadForTempLogin(r, t)
      PROVE  Promise!Open
  BY <1>1, <1>4 DEF ReadForTempLogin, Answering
<1> QED
  BY <1>2, <1>3, <1>4

(* A refresh renews the session it presents and makes it no younger.           *)
LEMMA RefreshRenews ==
    ASSUME SessionInv, NEW r \in Requests, NEW g \in grants, Refresh(r, g)
    PROVE  Promise!Renew
<1> DEFINE h == Grant(doc.tokenVersion, doc.mustChangePassword, g.origin, g.proof)
<1>1. TypeOK /\ g \in Grants /\ Revocable(g)
  BY DEF SessionInv, TypeOK
<1>2. g.tokenVersion = doc.tokenVersion
  BY <1>1, DocFields DEF Refresh, PasswordNotChanged, Revocable, Grants
<1>3. h \in Grants
  BY <1>1, DocFields, GrantType DEF Grants
<1>4. SessionOf(h) = SessionOf(g)
  BY <1>2 DEF SessionOf, Grant
<1>5. WaitAt(r, "refresh", h) /\ pc[r] = "idle" /\ UNCHANGED doc /\ grants' = grants
  BY DEF Refresh, Settled
<1> HIDE DEF h
<1>6. r \notin Accepted /\ "refresh" \in Answering
  BY <1>5 DEF Accepted, Answering
<1>7. AllSessions' = AllSessions \cup {SessionOf(g)}
  BY <1>3, <1>4, <1>5, <1>6, OpeningMove
<1>8. SessionOf(g) \in AllSessions /\ SessionOf(g).generation = doc.tokenVersion
  BY <1>2 DEF AllSessions, SessionOf
<1> QED
  BY <1>5, <1>7, <1>8 DEF Promise!Renew

(* Updates of the password start a generation; the device that changed it      *)
(* keeps a session opened with the password it set.                            *)
LEMMA PasswordsSet ==
    ASSUME SessionInv
    PROVE  /\ \A r \in Requests : ApplyChange(r) => Promise!SetPassword
           /\ \A p \in Passwords : ResetPassword(p) => Promise!SetPassword
           /\ \A p \in Passwords : AdminReset(p) => Promise!SetPassword
<1>1. doc \in AuthDocs
  BY DEF SessionInv, TypeOK
<1>2. ASSUME UNCHANGED <<pc, pending, grants>>
      PROVE  AllSessions' = AllSessions
  BY <1>2 DEF AllSessions, SessionOf, Accepted
<1>3. ASSUME NEW p \in Passwords, ResetPassword(p)
      PROVE  Promise!SetPassword
  <2>1. AllSessions' = AllSessions
    BY <1>2, <1>3 DEF ResetPassword, Settled
  <2> QED
    BY <1>1, <1>3, <2>1, PasswordUpdates DEF ResetPassword, Promise!SetPassword
<1>4. ASSUME NEW p \in Passwords, AdminReset(p)
      PROVE  Promise!SetPassword
  <2>1. AllSessions' = AllSessions
    BY <1>2, <1>4 DEF AdminReset, Settled
  <2> QED
    BY <1>1, <1>4, <2>1, PasswordUpdates DEF AdminReset, Promise!SetPassword
<1>5. ASSUME NEW r \in Requests, ApplyChange(r)
      PROVE  Promise!SetPassword
  <2>1. PICK new \in Passwords : new = pending[r].proof
    BY <1>5 DEF ApplyChange, SessionInv, MayHold
  <2>2. doc' = UpdatePassword(doc, new) /\ grants' = grants
    BY <1>5, <2>1 DEF ApplyChange, Settled
  <2>3. /\ doc' \in AuthDocs /\ doc'.tokenVersion = doc.tokenVersion + 1
        /\ doc'.password = new
    BY <1>1, <2>2, PasswordUpdates
  <2>4. PICK h : h = Grant(doc'.tokenVersion, FALSE, doc'.tokenVersion, new)
    OBVIOUS
  <2>5. WaitAt(r, "issue", h)
    BY <1>5, <2>1, <2>4 DEF ApplyChange
  <2>6. h \in Grants
    <3>1. doc'.tokenVersion \in Nat /\ new \in Proofs
      BY <2>3 DEF AuthDocs, Proofs
    <3>2. \A m \in BOOLEAN : Grant(doc'.tokenVersion, m, doc'.tokenVersion, new) \in Grants
      BY <3>1, GrantType
    <3> QED
      BY <2>4, <3>2
  <2>7. SessionOf(h) = Promise!Opened(doc'.tokenVersion, new)
    BY <2>4 DEF SessionOf, Grant, Promise!Opened
  <2>8. r \notin Accepted /\ "issue" \in Answering
    BY <1>5 DEF ApplyChange, Accepted, Answering
  <2>9. AllSessions' = AllSessions \cup {Promise!Opened(doc.tokenVersion + 1, new)}
    BY <2>2, <2>3, <2>5, <2>6, <2>7, <2>8, OpeningMove
  <2> QED
    BY <2>1, <2>3, <2>9 DEF Promise!SetPassword
<1> QED
  BY <1>3, <1>4, <1>5

(* What no device can see: steps that change no generation, password, session. *)
LEMMA SilentSteps ==
    ASSUME SessionInv, NEW r \in Requests,
           \/ \E p, new \in Passwords : ReadForChange(r, p, new)
           \/ ReadForUnlock(r)
           \/ \E t \in TempPasswords : StoreTemp(r, t)
           \/ UseTemp(r)
           \/ Issue(r)
    PROVE  UNCHANGED Promise!vars
<1>1. TypeOK /\ doc \in AuthDocs
  BY DEF SessionInv, TypeOK
<1>2. {"change", "unlock", "idle"} \subseteq Waits \ Answering
  BY DEF Waits, Answering
<1>3. ASSUME NEW p \in Passwords, NEW new \in Passwords, ReadForChange(r, p, new)
      PROVE  UNCHANGED Promise!vars
  <2>1. PICK h : h = Grant(doc.tokenVersion, FALSE, doc.tokenVersion, new)
    OBVIOUS
  <2>2. h \in Grants
    <3>1. \A m \in BOOLEAN : Grant(doc.tokenVersion, m, doc.tokenVersion, new) \in Grants
      BY <1>1, DocFields, GrantType DEF Proofs
    <3> QED
      BY <2>1, <3>1
  <2>3. WaitAt(r, "change", h) /\ r \notin Accepted /\ UNCHANGED doc /\ grants' = grants
    BY <1>3, <2>1 DEF ReadForChange, Accepted, Settled
  <2>4. AllSessions' = AllSessions
    BY <1>2, <2>2, <2>3, SilentMove
  <2> QED
    BY <2>3, <2>4 DEF Promise!vars
<1>4. ASSUME ReadForUnlock(r)
      PROVE  UNCHANGED Promise!vars
  <2>1. r \notin Accepted /\ grants' = grants
    BY <1>4 DEF ReadForUnlock, Accepted, Settled
  <2>2. AllSessions' = AllSessions
    BY <1>2, <1>4, <2>1, SilentMove DEF ReadForUnlock
  <2> QED
    BY <1>4, <2>2 DEF Promise!vars, ReadForUnlock
<1>5. ASSUME NEW t \in TempPasswords, StoreTemp(r, t)
      PROVE  UNCHANGED Promise!vars
  <2>1. r \notin Accepted /\ grants' = grants
    BY <1>5 DEF StoreTemp, Accepted, Settled
  <2>2. AllSessions' = AllSessions
    BY <1>2, <1>5, <2>1, SilentMove DEF StoreTemp, Done
  <2> QED
    BY <1>1, <1>5, <2>2, StoreTempUpdate DEF Promise!vars, StoreTemp
<1>6. ASSUME UseTemp(r)
      PROVE  UNCHANGED Promise!vars
  <2>1. /\ WaitAt(r, "issue", pending[r]) /\ r \in Accepted /\ grants' = grants
        /\ pending[r] \in Grants \cup {NoGrant}
    BY <1>1, <1>6 DEF UseTemp, Accepted, Settled, TypeOK
  <2>2. "issue" \in Waits /\ "issue" \in Answering
    BY DEF Waits, Answering
  <2>3. \A s \in Requests : /\ s \in Accepted' <=> s \in Accepted
                            /\ pending'[s] = pending[s]
    BY <2>1, <2>2, SessionsMove
  <2>4. Accepted' = Accepted
    <3>1. \A s \in Accepted' : s \in Requests
      BY DEF Accepted
    <3>2. \A s \in Accepted : s \in Requests
      BY DEF Accepted
    <3> QED
      BY <2>3, <3>1, <3>2
  <2>5. {SessionOf(pending'[s]) : s \in Accepted'} = {SessionOf(pending[s]) : s \in Accepted}
    BY <2>3, <2>4 DEF Accepted
  <2>6. AllSessions' = AllSessions
    BY <2>1, <2>5 DEF AllSessions, SessionOf
  <2> QED
    BY <1>1, <1>6, <2>6, MarkTempUpdate DEF Promise!vars, UseTemp
<1>7. ASSUME Issue(r)
      PROVE  UNCHANGED Promise!vars
  <2>1. r \in Accepted
    BY <1>7 DEF Issue, Accepted
  <2>2. AllSessions' = AllSessions
    BY <1>7, <2>1, ClosingMove DEF Issue
  <2> QED
    BY <1>7, <2>2 DEF Promise!vars, Issue
<1> QED
  BY <1>3, <1>4, <1>5, <1>6, <1>7

(* Every step of the handlers is a step of the abstract sessions, or none.     *)
LEMMA StepImplements ==
    SessionInv /\ [Next]_vars => [Promise!Next]_(Promise!vars)
<1> SUFFICES ASSUME SessionInv, [Next]_vars
             PROVE  Promise!Next \/ UNCHANGED Promise!vars
  OBVIOUS
<1>1. doc \in AuthDocs
  BY DEF SessionInv, TypeOK
<1>2. ASSUME UNCHANGED <<pc, pending, grants>>
      PROVE  AllSessions' = AllSessions
  BY <1>2 DEF AllSessions, SessionOf, Accepted
<1>3. ASSUME NEW r \in Requests,
             \/ \E p \in Passwords : PasswordLogin(r, p)
             \/ CodeLogin(r)
             \/ \E g \in grants : Refresh(r, g)
             \/ \E t \in TempPasswords : ReadForTempLogin(r, t)
             \/ ApplyChange(r)
      PROVE  Promise!Next
  BY <1>3, LoginsOpen, RefreshRenews, PasswordsSet DEF Promise!Next
<1>4. ASSUME \/ \E p \in Passwords : ResetPassword(p)
             \/ \E p \in Passwords : AdminReset(p)
      PROVE  Promise!Next
  BY <1>4, PasswordsSet DEF Promise!Next
<1>5. ASSUME NEW r \in Requests,
             \/ \E p, new \in Passwords : ReadForChange(r, p, new)
             \/ ReadForUnlock(r)
             \/ \E t \in TempPasswords : StoreTemp(r, t)
             \/ UseTemp(r)
             \/ Issue(r)
      PROVE  UNCHANGED Promise!vars
  BY <1>5, SilentSteps
<1>6. ASSUME NEW r \in Requests, Fail(r)
      PROVE  Promise!Next
  <2>1. AllSessions' \subseteq AllSessions
    BY <1>6, ClosingMove DEF Fail, Settled
  <2> QED
    BY <1>6, <2>1 DEF Fail, Promise!Next, Promise!Lose
<1>7. ASSUME NEW b \in BOOLEAN, SetUserActive(b)
      PROVE  UNCHANGED Promise!vars
  <2>1. AllSessions' = AllSessions
    BY <1>2, <1>7 DEF SetUserActive, Settled
  <2> QED
    BY <1>1, <1>7, <2>1, SetActiveUpdate DEF SetUserActive, Promise!vars
<1>8. ASSUME TempExpires
      PROVE  UNCHANGED Promise!vars
  <2>1. AllSessions' = AllSessions
    BY <1>2, <1>8 DEF TempExpires, Settled
  <2>2. doc'.tokenVersion = doc.tokenVersion /\ doc'.password = doc.password
    BY <1>1, <1>8 DEF TempExpires, AuthDocs
  <2> QED
    BY <2>1, <2>2 DEF Promise!vars
<1>9. ASSUME (\E g \in grants : Logout(g)) \/ UNCHANGED vars
      PROVE  UNCHANGED Promise!vars
  <2>1. UNCHANGED <<doc, pc, pending, grants>>
    BY <1>9 DEF Logout, vars
  <2> QED
    BY <1>2, <2>1 DEF Promise!vars
<1> QED
  BY <1>3, <1>4, <1>5, <1>6, <1>7, <1>8, <1>9 DEF Next

(* The handlers, interleaved in any way, implement sessions that open, renew   *)
(* and end atomically.                                                         *)
THEOREM SessionsImplement == Spec => ImplementsRevocableSessions
BY InitImplements, SessionInvariant, StepImplements, PTL
   DEF Spec, ImplementsRevocableSessions, Promise!Spec
===============================================================================
