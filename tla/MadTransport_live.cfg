SPECIFICATION FairSpec
CONSTANTS
    TidMod = 5
    FirstTid = 4
    Retries = 1
    Timeouts = {1}
    U32 = 5
    OverflowChecks = TRUE
    Capacity = 2
    Prompt = TRUE
    MaxStreak = 3
    MaxRequests = 4
    MaxErrors = 1
INVARIANTS
    NoCircularWait
PROPERTIES
    KeepsPromiseLive
CHECK_DEADLOCK FALSE
