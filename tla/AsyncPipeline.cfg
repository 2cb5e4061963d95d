SPECIFICATION FairSpec
CONSTANTS
    TxCap = 1
    RecvCap = 1
    ResCap = 1
    Fanout = 6
    MaxRequests = 7
    MaxTroubled = 4
    MaxLost = 1
    MaxLate = 1
    MaxFaults = 1
INVARIANTS
    TypeOK
    EverySendPolled
    GridlockTakesAll
    TroubleForCause
PROPERTIES
    KeepsTrack
    Ends
CHECK_DEADLOCK FALSE
