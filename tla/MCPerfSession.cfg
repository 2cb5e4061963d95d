SPECIFICATION SessionSpec
CONSTANTS
    Lids = {10}
    PortNumber = {1, 2}
    Answers <- MCAnswers
    TimeoutMs = {30, 120}
    RetryCounts = {1, 255}
    U32 = 256
    PollMax = 127
    Capacity = 1
    MaxQueries = 4
    Directories <- MCDirectories
INVARIANTS
    LagIsBounded
    EmbraceTakesErrors
    ChoiceIsLeast
    SeparatePorts
PROPERTIES
    QueryReturns
CHECK_DEADLOCK FALSE
