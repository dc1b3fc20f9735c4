SPECIFICATION Spec
CONSTANTS
    Codes = {c1, c2}
    Wrong = Wrong
    NoCode = NoCode
    Requests = {r1, r2}
    MaxFailed = 2
    MaxResend = 1
    MaxFaults = 1
SYMMETRY Interchangeable
INVARIANTS
    ExpiryInv
    OneAccount
    GuessesBounded
    ResendsBounded
    NewestMailWorks
CHECK_DEADLOCK FALSE
