-------------------------- MODULE MCPasswordLockout ---------------------------
(* A small instance of PasswordLockout: two requests, two temporary passwords, *)
(* so that one may overtake the other.  Slots are interchangeable and so are   *)
(* temporary passwords, and nothing checked is a liveness property.            *)
EXTENDS PasswordLockout, TLC

Interchangeable == Permutations(Requests) \cup Permutations(TempPasswords)
===============================================================================
