CONSTANTS
    p1 = p1
    p2 = p2
    N = 2
    Points = {p1, p2}
    SatPoints = {}
    MaxNodes = 4
    Failing = {0, 2}
    PromptReplies = TRUE
    WithTimeout = TRUE
SPECIFICATION FairSpec
PROPERTIES
    AllTerminateOrWait
    LeaderEnds
CHECK_DEADLOCK FALSE
