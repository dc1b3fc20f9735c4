SPECIFICATION Spec
CONSTANTS
    Requests = {r1, r2}
    Passwords = {p1}
    TempPasswords = {t1, t2}
    NoTemp = NoTemp
    MaxAttempts = 2
    MaxRequests = 1
    MaxTries = 2
    MaxCount = 3
    MaxFaults = 1
INVARIANTS
    ExpiryInv
    GuessesBounded
    UnlockMailsBounded
    TempUsesBounded
SYMMETRY Interchangeable
CHECK_DEADLOCK FALSE
