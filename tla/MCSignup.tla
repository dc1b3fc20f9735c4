------------------------------- MODULE MCSignup -------------------------------
(* A small instance of Signup.  Slots and codes are interchangeable: nothing   *)
(* tells them apart, and only safety is checked.                               *)
EXTENDS Signup, TLC

Interchangeable == Permutations(Requests) \cup Permutations(Codes)
===============================================================================
