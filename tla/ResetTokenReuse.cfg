SPECIFICATION Spec
CONSTANTS
    Codes = {c1, c2}
    Wrong = Wrong
    NoCode = NoCode
    Tokens = {t1, t2}
    Requests = {r1, r2}
    MaxFailed = 1
    MaxResend = 1
    MaxTries = 2
    MaxFaults = 0
INVARIANT ResetTokenOnce
CHECK_DEADLOCK FALSE
