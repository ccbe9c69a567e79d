CONSTANTS
    Null = Null
    MaxDenominator = 3
    AdjustDenominator = 2
    Epsilon <- MCEpsilon
    MaxBound <- MCMaxBound
    Problems <- MCFineProblems
    MaxNodes <- MCMaxNodes
    SplitDelta = 2
    RootPrec = 4
SPECIFICATION Spec
INVARIANT TaskHasOnlyModels
CHECK_DEADLOCK FALSE
