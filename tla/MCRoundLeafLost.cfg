CONSTANTS
    Nodes <- MC5
    Root = 1
    Up <- MC5Up
    Kids <- MC5Kids
    LeftKids <- MC5Left
    Sat <- MC5Sat
    Refutable <- MC5Refutable
    GivenUp <- MC5
    MaxRunning = 1
    NoTask = NoTask
    Cores = 1
    MaxSplits = 0
SPECIFICATION Spec
INVARIANT ResultSound
CHECK_DEADLOCK FALSE
