CONSTANTS
    p1 = p1
    p2 = p2
    N = 3
    Points = {p1}
    SatPoints = {p1}
    MaxNodes = 5
    Failing = {}
    PromptReplies = TRUE
    WithTimeout = TRUE
SPECIFICATION Spec
INVARIANTS
    AnswerSound
    SolutionHeld
    TransferMatches
    IdleQueueSound
    AssignedOpen
    LeaderNeverFails
    AssignFindsIdle
    ReceiverServed
CHECK_DEADLOCK FALSE
