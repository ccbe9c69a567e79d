CONSTANTS
    p1 = p1
    p2 = p2
    N = 3
    Points = {p1}
    SatPoints = {p1}
    MaxNodes = 5
    Failing = {}
    PromptReplies = FALSE
    WithTimeout = FALSE
SPECIFICATION Spec
INVARIANTS
    LeaderNeverFails
CHECK_DEADLOCK FALSE
