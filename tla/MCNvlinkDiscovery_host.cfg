SPECIFICATION Spec
CONSTANTS
    h1 = h1
    h2 = h2
    s1 = s1
    s2 = s2
    s3 = s3
    Node <- MCNode
    Switches <- MCSwitches
    NPorts <- MCNPorts
    RingPorts <- MCRingPorts
    PortLid <- MCPortLid
    UpState = "Active"
    RootPorts <- EitherPort
    PathLen = 6
    Cablings <- AllFabrics
    FaultKinds = {"TimedOut", "InvalidInput", "Other"}
    MaxFaults = 1
    MaxCuts = 0
    MaxRuns = 1
INVARIANTS
    RingComplete
    RingSurvivesOneLoss
    GivenUpForCause
CHECK_DEADLOCK FALSE
