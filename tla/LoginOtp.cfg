SPECIFICATION FairSpec
CONSTANTS
    Requests = {r1, r2}
    MaxFailed = 2
    MaxResend = 1
    MaxTries = 2
    MaxCount = 2
    Codes = {c1, c2}
    Wrong = Wrong
    NoCode = NoCode
    MaxFaults = 1
INVARIANTS
    ExpiryInv
    GuessesBounded
    MailsBounded
    UsesBounded
PROPERTY LockoutEndsWithoutFaults
CHECK_DEADLOCK FALSE
