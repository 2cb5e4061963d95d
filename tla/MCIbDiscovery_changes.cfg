SPECIFICATION FairSpec
CONSTANTS
    h1 = h1
    h2 = h2
    s1 = s1
    s2 = s2
    s3 = s3
    Node <- MCNode
    Switches <- MCSwitches
    NPorts <- MCNPorts
    PortLid <- MCPortLid
    UpState = "Init"
    RootPorts <- EitherPort
    PathLen = 3
    Cablings <- SomeFabrics
    FaultKinds = {"TimedOut", "InvalidInput", "Other"}
    MaxFaults = 1
    MaxCuts = 1
    MaxRuns = 2
INVARIANTS
    Complete
    LinksTrue
PROPERTIES
    Terminates
CHECK_DEADLOCK FALSE
