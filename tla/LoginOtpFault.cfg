SPECIFICATION FairSpec
CONSTANTS
    Requests = {r1, r2}
    MaxFailed = 2
    MaxResend = 1
    MaxTries = 2
    MaxCount = 2
    Codes = {c1, c2}
    Wrong = Wrong
    NoCode = NoCode
    MaxFaults = 1
PROPERTY LockoutEnds
CHECK_DEADLOCK FALSE
