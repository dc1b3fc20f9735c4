SPECIFICATION FairBoundedSpec
CONSTANTS
    MaxRequests = 2
    Strays <- MCStrays
    Scale = 30
    MaxRetries = 0
    MaxOutages = 1
    Shutdowns = {s1, s2}
INVARIANTS
    TypeOK
    GuardsHold
    OwnHandlerAnswers
    AttemptsBounded
    HealthFollowsDriver
PROPERTIES
    EveryRequestAnswered
    ShutdownEnds
CHECK_DEADLOCK FALSE
