------------------------------- MODULE AdminLock -------------------------------
(* Administrators locking and unlocking each other: setUserActive of the user  *)
(* service, one step per database answer.  Whoever holds an unexpired access   *)
(* token with the ADMIN role may ask; the guards read the token, not the       *)
(* account.  Roles never change, and locking an ordinary user touches nothing  *)
(* that is kept here.                                                          *)
EXTENDS Naturals, FiniteSets

CONSTANTS Admins,    \* accounts with the ADMIN role
          Requests,  \* slots for lock requests in flight
          None       \* no target

ASSUME AdminsAreFinite == IsFiniteSet(Admins)
ASSUME NoneIsNoAdmin == None \notin Admins

VARIABLES active,     \* administrators that are not locked
          tokens,     \* administrators with an unexpired access token
          pc,         \* where each lock request waits
          target,     \* whom it locks
          overlapped  \* history: two lock requests have been in flight at once

vars == <<active, tokens, pc, target, overlapped>>

TypeOK ==
    /\ active \subseteq Admins
    /\ tokens \subseteq Admins
    /\ pc \in [Requests -> {"idle", "count", "set"}]
    /\ target \in [Requests -> Admins \cup {None}]
    /\ overlapped \in BOOLEAN

Init ==
    /\ active \in (SUBSET Admins) \ {{}}
    /\ tokens = {}
    /\ pc = [r \in Requests |-> "idle"]
    /\ target = [r \in Requests |-> None]
    /\ overlapped = FALSE

Go(r, to, admin) ==
    /\ pc' = [pc EXCEPT ![r] = to]
    /\ target' = [target EXCEPT ![r] = admin]

Done(r) == Go(r, "idle", None)

Busy == {r \in Requests : pc[r] # "idle"}

(* A login or a refresh of an active account, or an unlock by temporary        *)
(* password, which does not ask whether the account is locked.                 *)
LogIn(a) ==
    /\ tokens' = tokens \cup {a}
    /\ UNCHANGED <<active, pc, target, overlapped>>

TokenExpires(a) ==
    /\ tokens' = tokens \ {a}
    /\ UNCHANGED <<active, pc, target, overlapped>>

(* The target is read.  Nobody locks itself; only a target that is an active   *)
(* administrator leads to the question whether it is the last one.             *)
ReadTarget(r, actor, admin) ==
    /\ pc[r] = "idle"
    /\ actor \in tokens
    /\ admin # actor
    /\ Go(r, IF admin \in active THEN "count" ELSE "set", admin)
    /\ overlapped' = (overlapped \/ Busy # {})
    /\ UNCHANGED <<active, tokens>>

(* Defect: the count is compared with 0.                                       *)
CountActiveAdminsAgainstZero(r) ==
    /\ pc[r] = "count"
    /\ IF Cardinality(active) <= 0 THEN Done(r) ELSE Go(r, "set", target[r])
    /\ UNCHANGED <<active, tokens, overlapped>>

(* countActiveAdmins; the last one is not locked.                              *)
CountActiveAdmins(r) ==
    /\ pc[r] = "count"
    /\ IF Cardinality(active) <= 1 THEN Done(r) ELSE Go(r, "set", target[r])
    /\ UNCHANGED <<active, tokens, overlapped>>

Lock(r) ==
    /\ pc[r] = "set"
    /\ active' = active \ {target[r]}
    /\ Done(r)
    /\ UNCHANGED <<tokens, overlapped>>

(* Unlocking asks nothing: a locked administrator whose access token has not   *)
(* expired may unlock itself.                                                  *)
Unlock(actor, admin) ==
    /\ actor \in tokens
    /\ active' = active \cup {admin}
    /\ UNCHANGED <<tokens, pc, target, overlapped>>

(* A database error or a crash ends a request where it waits.                  *)
Fail(r) ==
    /\ pc[r] # "idle"
    /\ Done(r)
    /\ UNCHANGED <<active, tokens, overlapped>>

Next ==
    \/ \E a \in Admins : LogIn(a) \/ TokenExpires(a)
    \/ \E r \in Requests :
        \/ \E a, b \in Admins : ReadTarget(r, a, b)
        \/ CountActiveAdmins(r) \/ Lock(r) \/ Fail(r)
    \/ \E a, b \in Admins : Unlock(a, b)

Spec == Init /\ [][Next]_vars

-------------------------------------------------------------------------------
(* Properties.                                                                 *)

(* As long as no two lock requests are in flight at once, some administrator   *)
(* stays active, although the count, the read of the target and the write are  *)
(* separate operations and unlocks run between them.                           *)
LastAdminStaysAlone ==
    overlapped \/ active # {}

(* Inductive: a request that waits to write has made sure of another active    *)
(* administrator, and while it is alone none of them is locked.                *)
LockInv ==
    /\ TypeOK
    /\ ~overlapped =>
        /\ active # {}
        /\ \A r, s \in Busy : r = s
        /\ \A r \in Requests : pc[r] = "set" => active \ {target[r]} # {}

(* Swagger, lock a user: the check for the last remaining active admin         *)
(* "prevents total admin lockout".  Some administrator is active.              *)
LastAdminStays == active # {}
===============================================================================
