SPECIFICATION Spec
CONSTANTS
    h1 = h1
    h2 = h2
    s1 = s1
    s2 = s2
    Node <- MCNode
    Switches <- MCSwitches
    NPorts <- MCNPorts
    RootPorts <- MCRootPorts
    PathLen = 6
    Cablings <- MCCablings
    Overtake = 2
    MaxExpiries = 1
INVARIANTS
    LinksTrueOrOwn
    CrawlComplete
    RequestBudget
PROPERTIES
    KeepsTrack
CHECK_DEADLOCK FALSE
