SPECIFICATION FairSpec
CONSTANTS
    h1 = h1
    h2 = h2
    s1 = s1
    s2 = s2
    s3 = s3
    Node <- MCNode
    Switches <- MCSwitches
    NPorts <- MCNPorts
    RingPorts <- MCRingPorts
    PortLid <- MCPortLid
    UpState = "Active"
    RootPorts <- EitherPort
    PathLen = 5
    Cablings <- SomeFabrics
    FaultKinds = {"TimedOut", "InvalidInput", "Other"}
    MaxFaults = 1
    MaxCuts = 1
    MaxRuns = 1
INVARIANTS
    LinksTrue
PROPERTIES
    Terminates
CHECK_DEADLOCK FALSE
