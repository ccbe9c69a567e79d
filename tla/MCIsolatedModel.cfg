CONSTANTS
    Nodes <- MC3
    Root = 1
    Up <- MC3Up
    Kids <- MC3Kids
    LeftKids <- MC3Left
    Sat <- MC3Sat
    Refutable = {}
    GivenUp = {}
    MaxRunning = 2
    NoTask = NoTask
    Cores = 1
    MaxSplits = 0
    DistCoords = 2
    OriginalGivenUp = FALSE
SPECIFICATION IsoSpec
INVARIANT ModelComplete
CHECK_DEADLOCK FALSE
