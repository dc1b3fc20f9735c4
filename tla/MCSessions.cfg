SPECIFICATION Spec
CONSTANTS
    Requests = {r1, r2}
    Passwords = {p1, p2}
    TempPasswords = {t1}
    NoTemp = NoTemp
    Code = Code
    NoGrant = NoGrant
    MaxVersion = 2
    MaxGrants = 2
    MaxLogouts = 1
SYMMETRY Interchangeable
INVARIANTS
    LiveGrantsProvePassword
    SessionsDieWithPassword
    ForcedChangeEndsWithRevocation
    SessionInv
PROPERTY ImplementsRevocableSessions
CHECK_DEADLOCK FALSE
