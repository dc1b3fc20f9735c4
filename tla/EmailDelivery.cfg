SPECIFICATION FairDeliverySpec
CONSTANTS
    Calls = {m1, m2, m3}
    Threshold = 2
    MaxProbes = 1
    MaxAttempts = 3
    Concurrency = 2
    MaxCrashes = 1
INVARIANTS
    OpensOnThreshold
    ProbesAreInFlight
PROPERTIES
    MailsSettle
    HalfOpenEnds
