------------------------------ MODULE MCSessions ------------------------------
(* A small instance of Sessions: two requests in flight, two passwords, one    *)
(* temporary password.  Slots are interchangeable and so are passwords: the    *)
(* initial states, the steps and every property checked, the refinement        *)
(* included, treat all of them alike, and nothing checked is a liveness        *)
(* property.                                                                   *)
EXTENDS Sessions, TLC

Interchangeable == Permutations(Requests) \cup Permutations(Passwords)
===============================================================================
