SPECIFICATION Spec
CONSTANTS
    Lids = {10, 20}
    PortNumber = {1, 2}
    Answers <- MCAnswers
    TimeoutMs = {30}
    RetryCounts = {1}
    U32 = 256
    PollMax = 127
    Capacity = 2
    MaxQueries = 2
INVARIANTS
    AnswersTheQuestion
CHECK_DEADLOCK FALSE
