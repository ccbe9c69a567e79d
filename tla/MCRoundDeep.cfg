CONSTANTS
    Nodes <- MCDeep
    Root = 1
    Up <- MCDeepUp
    Kids <- MCDeepKids
    LeftKids <- MCDeepLeft
    Sat <- MCDeepSat
    Refutable <- MCDeepRefutable
    GivenUp <- MCDeepGivenUp
    MaxRunning = 2
    NoTask = NoTask
    Cores = 2
    MaxSplits = 1
SPECIFICATION FairSpec
INVARIANTS
    ProcessesAccounted
    UnsatClimbs
    UnsatSinks
    TreeMarksCovered
    PartitionerMarksCovered
    ResultSoundUnlessLeafLost
PROPERTIES
    EndedStaysEnded
    CoordinatorIsGeneral
    RoundEndsUnlessStuck
CHECK_DEADLOCK FALSE
