SPECIFICATION Spec
CONSTANTS
    TidMod = 4
    FirstTid = 3
    Retries = 1
    Timeouts = {1, 2}
    U32 = 8
    OverflowChecks = TRUE
    Capacity = 6
    Prompt = FALSE
    MaxStreak = 2
    MaxRequests = 4
    MaxErrors = 1
INVARIANTS
    TypeOK
    AcceptedReplyIsOwn
    DrainedOnSuccess
    RetryBudget
    CountersAddUp
    PanicIsLate
PROPERTIES
    KeepsPromise
CHECK_DEADLOCK FALSE
