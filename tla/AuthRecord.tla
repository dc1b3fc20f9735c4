------------------------------ MODULE AuthRecord ------------------------------
(* The `auths` document of one account, as the authentication repository       *)
(* reads and writes it.  Every update is one findByIdAndUpdate, which MongoDB  *)
(* applies atomically, so each is an operator from the document to its next    *)
(* value.  A hash is represented by the secret it accepts.  `verifiedEmail` is *)
(* left out: sign-up creates the document with it set and nothing clears it.   *)
EXTENDS Naturals

CONSTANTS Passwords,      \* ordinary passwords
          TempPasswords,  \* passwords generated by the unlock-account flow
          NoTemp          \* tempPasswordHash is null

ASSUME TempIsNotPassword ==
    /\ Passwords \cap TempPasswords = {}
    /\ NoTemp \notin Passwords \cup TempPasswords

AuthDocs ==
    [password           : Passwords,
     tokenVersion       : Nat,
     isActive           : BOOLEAN,
     mustChangePassword : BOOLEAN,
     tempPassword       : TempPasswords \cup {NoTemp},
     tempExpired        : BOOLEAN,
     tempUsed           : BOOLEAN]

(* create: what sign-up inserts, with the schema's defaults.                   *)
NewAuth(password) ==
    [password           |-> password,
     tokenVersion       |-> 0,
     isActive           |-> TRUE,
     mustChangePassword |-> FALSE,
     tempPassword       |-> NoTemp,
     tempExpired        |-> FALSE,
     tempUsed           |-> FALSE]

-------------------------------------------------------------------------------
(* Updates.                                                                    *)

(* Defect: the new password is stored and no refresh token is revoked.         *)
UpdatePasswordWithoutBump(doc, password) ==
    [doc EXCEPT !.password = password, !.mustChangePassword = FALSE]

UpdatePassword(doc, password) ==
    [doc EXCEPT !.password = password,
                !.mustChangePassword = FALSE,
                !.tokenVersion = @ + 1]

(* Defect: an administrator's reset revokes nothing.                           *)
AdminResetWithoutBump(doc, password) ==
    [doc EXCEPT !.password = password, !.mustChangePassword = TRUE]

AdminResetPassword(doc, password) ==
    [doc EXCEPT !.password = password,
                !.mustChangePassword = TRUE,
                !.tokenVersion = @ + 1]

SetActive(doc, isActive) == [doc EXCEPT !.isActive = isActive]

(* tempPasswordExpAt is 15 minutes ahead, hence not expired.                   *)
StoreTempPassword(doc, temp) ==
    [doc EXCEPT !.tempPassword = temp,
                !.tempExpired = FALSE,
                !.tempUsed = FALSE,
                !.mustChangePassword = TRUE]

(* Defect: it relies on the flag that the unlock request has set.              *)
MarkUsedOnly(doc) ==
    [doc EXCEPT !.tempUsed = TRUE]

(* Defect: it can be used again.                                               *)
MarkForcesChangeOnly(doc) ==
    [doc EXCEPT !.mustChangePassword = TRUE]

MarkTempPasswordUsed(doc) ==
    [doc EXCEPT !.tempUsed = TRUE, !.mustChangePassword = TRUE]

-------------------------------------------------------------------------------
(* Guards evaluated on a document that was read earlier.                       *)

AuthActive(doc) == doc.isActive

(* Defect: any signed refresh token is accepted.                               *)
AnyTokenAccepted(version, doc) == version \in Nat

PasswordNotChanged(version, doc) == ~(version < doc.tokenVersion)

TempPasswordValid(doc, temp) ==
    /\ doc.tempPassword # NoTemp
    /\ ~doc.tempExpired
    /\ ~doc.tempUsed
    /\ temp = doc.tempPassword
===============================================================================
