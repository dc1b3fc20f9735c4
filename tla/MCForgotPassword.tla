--------------------------- MODULE MCForgotPassword ---------------------------
(* A small instance of ForgotPassword.  Slots, codes and tokens are            *)
(* interchangeable: nothing tells them apart, and only safety is checked.      *)
EXTENDS ForgotPassword, TLC

Interchangeable ==
    Permutations(Requests) \cup Permutations(Codes) \cup Permutations(Tokens)
===============================================================================
