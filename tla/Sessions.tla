------------------------------- MODULE Sessions --------------------------------
(* Every flow that opens, renews or revokes a session of one account: password *)
(* and code logins, token refresh, change and reset of the password, the       *)
(* administrator's reset and lock, unlock by temporary password, and logout.   *)
(*                                                                             *)
(* The server is one Node process: a handler runs alone between two awaits,    *)
(* and any other handler may run while it waits.  A request therefore takes    *)
(* one step per database answer.  Its first step is the one in which MongoDB   *)
(* serves its read; the guards that follow look only at the document read, so  *)
(* they are decided there, and a request they reject leaves no trace.          *)
EXTENDS AuthRecord, FiniteSets

CONSTANTS Requests,    \* slots for requests in flight
          Code,        \* proof of identity by e-mailed code or link
          NoGrant,     \* no response is being built
          MaxVersion,  \* bound: password settings
          MaxGrants,   \* bound: token responses kept
          MaxLogouts   \* bound: logouts remembered

VARIABLES doc,        \* the auths document
          pc,         \* where each request waits
          pending,    \* the token response each request is building
          grants,     \* token responses delivered
          loggedOut   \* those whose device has logged out

vars == <<doc, pc, pending, grants, loggedOut>>

Proofs == Passwords \cup TempPasswords \cup {Code}

(* A token response: the refresh token's tokenVersion claim and the ID token's *)
(* mustChangePassword claim.  `origin` and `proof` are history: the            *)
(* generation in which the credential behind the session was checked, and that *)
(* credential.                                                                 *)
Grants ==
    [tokenVersion : Nat, mustChangePassword : BOOLEAN,
     origin : Nat, proof : Proofs]

ASSUME CodeIsNotSecret == Code \notin Passwords \cup TempPasswords \cup {NoTemp}
ASSUME NoGrantIsNone == NoGrant \notin Grants
ASSUME BoundsAreNat == {MaxVersion, MaxGrants, MaxLogouts} \subseteq Nat

Waits == {"idle", "issue", "refresh", "change", "temp", "unlock"}

Grant(version, mustChange, origin, proof) ==
    [tokenVersion |-> version, mustChangePassword |-> mustChange,
     origin |-> origin, proof |-> proof]

TypeOK ==
    /\ doc \in AuthDocs
    /\ pc \in [Requests -> Waits]
    /\ pending \in [Requests -> Grants \cup {NoGrant}]
    /\ grants \subseteq Grants
    /\ loggedOut \subseteq grants

(* Sign-up created the account and answered with its first tokens.             *)
Init ==
    \E p \in Passwords :
        /\ doc = NewAuth(p)
        /\ pc = [r \in Requests |-> "idle"]
        /\ pending = [r \in Requests |-> NoGrant]
        /\ grants = {Grant(0, FALSE, 0, p)}
        /\ loggedOut = {}

(* Request r waits at `to`, and will answer with `grant`.                      *)
WaitAt(r, to, grant) ==
    /\ pc' = [pc EXCEPT ![r] = to]
    /\ pending' = [pending EXCEPT ![r] = grant]

(* Request r is over.                                                          *)
Done(r) == WaitAt(r, "idle", NoGrant)

Settled == UNCHANGED <<grants, loggedOut>>

CanSetPassword == doc.tokenVersion < MaxVersion

-------------------------------------------------------------------------------
(* Logins and refresh: one read, then the answer built from it.                *)

(* The tokens carry what the document read at login says.                      *)
LoginGrant(d, proof) ==
    Grant(d.tokenVersion, d.mustChangePassword, d.tokenVersion, proof)

PasswordLogin(r, password) ==
    /\ pc[r] = "idle"
    /\ AuthActive(doc)
    /\ password = doc.password
    /\ WaitAt(r, "issue", LoginGrant(doc, password))
    /\ UNCHANGED doc /\ Settled

(* OTP and magic-link logins; the code itself is checked in Redis.             *)
CodeLogin(r) ==
    /\ pc[r] = "idle"
    /\ AuthActive(doc)
    /\ WaitAt(r, "issue", LoginGrant(doc, Code))
    /\ UNCHANGED doc /\ Settled

(* refreshAccessToken: the new tokens carry the document's version.            *)
Refresh(r, g) ==
    /\ pc[r] = "idle"
    /\ AuthActive(doc)
    /\ PasswordNotChanged(g.tokenVersion, doc)
    /\ WaitAt(r, "refresh",
              Grant(doc.tokenVersion, doc.mustChangePassword, g.origin, g.proof))
    /\ UNCHANGED doc /\ Settled

(* Defect: the tokens are stamped with the version current when they are sent. *)
IssueCurrentVersion(r) ==
    /\ pc[r] \in {"issue", "refresh"}
    /\ grants' = grants \cup
           {[pending[r] EXCEPT !.tokenVersion = doc.tokenVersion]}
    /\ Done(r)
    /\ UNCHANGED <<doc, loggedOut>>

(* The token response leaves the server.                                       *)
Issue(r) ==
    /\ pc[r] \in {"issue", "refresh"}
    /\ grants' = grants \cup {pending[r]}
    /\ Cardinality(grants') <= MaxGrants
    /\ Done(r)
    /\ UNCHANGED <<doc, loggedOut>>

-------------------------------------------------------------------------------
(* Setting the password.                                                       *)

(* changePassword reads the document and compares; there is no isActive check. *)
ReadForChange(r, current, new) ==
    /\ pc[r] = "idle"
    /\ current = doc.password
    /\ current # new
    /\ WaitAt(r, "change", Grant(doc.tokenVersion, FALSE, doc.tokenVersion, new))
    /\ UNCHANGED doc /\ Settled

(* updatePassword is applied whatever happened since the read, and returns the *)
(* version it produced; the user's profile is then read and tokens are built.  *)
ApplyChange(r) ==
    /\ pc[r] = "change"
    /\ CanSetPassword
    /\ doc' = UpdatePassword(doc, pending[r].proof)
    /\ WaitAt(r, "issue", Grant(doc'.tokenVersion, FALSE, doc'.tokenVersion,
                                pending[r].proof))
    /\ Settled

(* resetPassword with a valid reset token: only its update touches the account.*)
ResetPassword(new) ==
    /\ CanSetPassword
    /\ doc' = UpdatePassword(doc, new)
    /\ UNCHANGED <<pc, pending>> /\ Settled

AdminReset(new) ==
    /\ CanSetPassword
    /\ doc' = AdminResetPassword(doc, new)
    /\ UNCHANGED <<pc, pending>> /\ Settled

-------------------------------------------------------------------------------
(* Lock by an administrator, unlock by temporary password, logout.             *)

SetUserActive(isActive) ==
    /\ doc' = SetActive(doc, isActive)
    /\ UNCHANGED <<pc, pending>> /\ Settled

(* unlockRequest checks isActive on the document it read ...                   *)
ReadForUnlock(r) ==
    /\ pc[r] = "idle"
    /\ AuthActive(doc)
    /\ WaitAt(r, "unlock", NoGrant)
    /\ UNCHANGED doc /\ Settled

(* ... and stores the temporary password after further awaits.                 *)
StoreTemp(r, temp) ==
    /\ pc[r] = "unlock"
    /\ doc' = StoreTempPassword(doc, temp)
    /\ Done(r)
    /\ Settled

(* unlockVerify decides on the document it read; there is no isActive check.   *)
ReadForTempLogin(r, temp) ==
    /\ pc[r] = "idle"
    /\ TempPasswordValid(doc, temp)
    /\ WaitAt(r, "temp", LoginGrant(doc, temp))
    /\ UNCHANGED doc /\ Settled

(* It marks the password used and answers from the document read before.       *)
UseTemp(r) ==
    /\ pc[r] = "temp"
    /\ doc' = MarkTempPasswordUsed(doc)
    /\ WaitAt(r, "issue", pending[r])
    /\ Settled

TempExpires ==
    /\ doc.tempPassword # NoTemp
    /\ doc' = [doc EXCEPT !.tempExpired = TRUE]
    /\ UNCHANGED <<pc, pending>> /\ Settled

(* logout writes a log line and clears the cookie of the device that asked.    *)
Logout(g) ==
    /\ loggedOut' = loggedOut \cup {g}
    /\ Cardinality(loggedOut') <= MaxLogouts
    /\ UNCHANGED <<doc, pc, pending, grants>>

(* A database error, a missing profile or a server crash ends a request where  *)
(* it waits; what it has written stays.                                        *)
Fail(r) ==
    /\ pc[r] # "idle"
    /\ Done(r)
    /\ UNCHANGED doc /\ Settled

-------------------------------------------------------------------------------
Next ==
    \/ \E r \in Requests :
        \/ \E p \in Passwords : PasswordLogin(r, p)
        \/ CodeLogin(r)
        \/ \E g \in grants : Refresh(r, g)
        \/ Issue(r)
        \/ \E p, new \in Passwords : ReadForChange(r, p, new)
        \/ ApplyChange(r)
        \/ ReadForUnlock(r)
        \/ \E t \in TempPasswords : StoreTemp(r, t)
        \/ \E t \in TempPasswords : ReadForTempLogin(r, t)
        \/ UseTemp(r)
        \/ Fail(r)
    \/ \E p \in Passwords : ResetPassword(p)
    \/ \E p \in Passwords : AdminReset(p)
    \/ \E b \in BOOLEAN : SetUserActive(b)
    \/ TempExpires
    \/ \E g \in grants : Logout(g)

Spec == Init /\ [][Next]_vars
-------------------------------------------------------------------------------
(* Properties.                                                                 *)

(* A refresh token that is still accepted, opened with a password, was opened  *)
(* with the password the account has now: however long the refresh chain, and  *)
(* however the chain's requests interleave with changes, resets and the        *)
(* administrator's reset, whoever only knows an earlier password holds nothing *)
(* that refreshes (authentication.repository.ts, "every prior refresh token is *)
(* revoked").                                                                  *)
LiveGrantsProvePassword ==
    \A g \in grants :
        g.tokenVersion = doc.tokenVersion /\ g.proof \in Passwords
            => g.proof = doc.password

(* A refresh token that is still accepted descends, through any number of      *)
(* refreshes, from a credential check made since the password was last set:    *)
(* code logins and temporary passwords in flight over a reset are revoked too. *)
SessionsDieWithPassword ==
    \A g \in grants :
        g.tokenVersion = doc.tokenVersion => g.origin = doc.tokenVersion

(* No response, delivered or being built, is stamped with a version the        *)
(* account has not reached: such a token would survive the next revocation.    *)
NoTokenFromTheFuture ==
    \A g \in grants \cup {pending[r] : r \in Requests} :
        g # NoGrant => g.tokenVersion <= doc.tokenVersion

(* A refresh token that is still accepted and was opened with a temporary      *)
(* password, or was issued with the order to change the password, belongs to   *)
(* an account that must change it: whatever changes and resets run between a   *)
(* verification's read, its mark and its answer, the flag is only lifted       *)
(* together with a revocation of everything it was forced upon.  The converse  *)
(* does not hold: a mark that arrives after a change raises the flag again.    *)
ForcedChangeEndsWithRevocation ==
    \A g \in grants :
        g.tokenVersion = doc.tokenVersion /\ ~doc.mustChangePassword
            => ~g.mustChangePassword /\ g.proof \notin TempPasswords

(* What makes these inductive: it holds of the answers in flight as well.  A   *)
(* change that waits for its update holds only the password it will store.     *)
Revocable(g) ==
    /\ g.tokenVersion <= doc.tokenVersion
    /\ g.tokenVersion = doc.tokenVersion =>
           /\ g.origin = doc.tokenVersion
           /\ g.proof \in Passwords => g.proof = doc.password
           /\ g.mustChangePassword => doc.mustChangePassword

(* Nor does a session opened with a temporary password outlive the flag: this  *)
(* is not yet so of a verification that has not marked it.                     *)
Forced(g) ==
    g.tokenVersion = doc.tokenVersion /\ g.proof \in TempPasswords
        => doc.mustChangePassword

(* What a request that waits at w may hold.                                    *)
MayHold(w, g) ==
    /\ w \in {"issue", "refresh", "temp"} => g \in Grants /\ Revocable(g)
    /\ w \in {"issue", "refresh"} => Forced(g)
    /\ w = "change" =>
           g \in Grants /\ g.proof \in Passwords /\ g.tokenVersion <= doc.tokenVersion
    /\ w \in {"idle", "unlock"} => g = NoGrant

SessionInv ==
    /\ TypeOK
    /\ \A g \in grants : Revocable(g) /\ Forced(g)
    /\ \A r \in Requests : MayHold(pc[r], pending[r])

Accepted == {r \in Requests : pc[r] \in {"issue", "refresh", "temp"}}

(* The sessions the server answers for: those delivered, and those whose       *)
(* credential has been accepted and whose answer is on its way.                *)
SessionOf(g) ==
    [generation |-> g.tokenVersion, origin |-> g.origin, proof |-> g.proof]

AllSessions ==
    {SessionOf(g) : g \in grants} \cup {SessionOf(pending[r]) : r \in Accepted}

(* The handlers, with all their awaits, implement atomic opening, renewing and *)
(* revoking: each takes effect at the one database operation that decides it.  *)
Promise == INSTANCE RevocableSessions WITH
    OtherProofs <- TempPasswords \cup {Code},
    generation  <- doc.tokenVersion,
    password    <- doc.password,
    sessions    <- AllSessions

ImplementsRevocableSessions == Promise!Spec

(* README: "Log out (invalidate session)".  A refresh token whose device has   *)
(* logged out is not accepted again.                                           *)
LogoutEndsSession ==
    [][\A r \in Requests :
           (\E g \in loggedOut : Refresh(r, g))
               => \E h \in grants \ loggedOut : Refresh(r, h)]_vars

(* Swagger, lock a user: "Blocks future login attempts".  A request whose      *)
(* credential check reads a locked account opens no session.                   *)
LockBlocksLogin ==
    [][~doc.isActive =>
           \A r \in Requests :
               /\ \A t \in TempPasswords : ~ReadForTempLogin(r, t)
               /\ \A p \in Passwords : ~PasswordLogin(r, p)
               /\ ~CodeLogin(r)]_vars
===============================================================================
