SPECIFICATION BoundedSpec
CONSTANTS
    MaxRequests = 1
    Strays <- MCStrays
    Scale = 30
    MaxRetries = 0
    MaxOutages = 0
    Shutdowns = {s1}
INVARIANT RequestsSurviveShutdown
CHECK_DEADLOCK FALSE
