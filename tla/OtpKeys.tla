-------------------------------- MODULE OtpKeys --------------------------------
(* One-time codes and tokens as the repositories keep them: at most one per    *)
(* address and purpose, hashed, with an expiry.                                *)
EXTENDS RedisCounters

CONSTANT NoCode  \* no code is stored, generated or presented

(* verify: a stored code is accepted if it is the one presented.               *)
Accepts(code, presented) == code # NoCode /\ presented = code
===============================================================================
