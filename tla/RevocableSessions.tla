-------------------------- MODULE RevocableSessions ---------------------------
(* What session handling promises, with no request in sight: a session belongs *)
(* to one generation of the account's password, it is opened in one atomic     *)
(* step that checks a credential of the current generation, it is renewed only *)
(* while its generation is current, and setting a password starts a new        *)
(* generation.                                                                 *)
EXTENDS Naturals

CONSTANTS Passwords,    \* secrets that die with the password they are
          OtherProofs   \* proofs of identity that are not the password

VARIABLES generation,   \* number of times the password was set
          password,     \* the current password
          sessions      \* every session opened so far

vars == <<generation, password, sessions>>

(* generation: the password generation that honours the session; origin: the   *)
(* generation in which the credential behind it was checked; proof: that       *)
(* credential.                                                                 *)
Session == [generation : Nat, origin : Nat, proof : Passwords \cup OtherProofs]

Opened(gen, proof) == [generation |-> gen, origin |-> gen, proof |-> proof]

TypeOK ==
    /\ generation \in Nat
    /\ password \in Passwords
    /\ sessions \in SUBSET Session

Init ==
    /\ generation = 0
    /\ password \in Passwords
    /\ sessions = {Opened(0, password)}

Open ==
    /\ \E proof \in {password} \cup OtherProofs :
           sessions' = sessions \cup {Opened(generation, proof)}
    /\ UNCHANGED <<generation, password>>

(* The session renewed is of the current generation and stays what it is.      *)
Renew ==
    /\ \E s \in sessions :
           /\ s.generation = generation
           /\ sessions' = sessions \cup {s}
    /\ UNCHANGED <<generation, password>>

(* A new password; the device that set it may keep a session.                  *)
SetPassword ==
    \E new \in Passwords :
        /\ password' = new
        /\ generation' = generation + 1
        /\ \/ sessions' = sessions
           \/ sessions' = sessions \cup {Opened(generation + 1, new)}

(* A session never delivered to its device disappears.                         *)
Lose ==
    /\ sessions' \subseteq sessions
    /\ UNCHANGED <<generation, password>>

Next == Open \/ Renew \/ SetPassword \/ Lose

Spec == Init /\ [][Next]_vars
===============================================================================
