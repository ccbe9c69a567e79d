CONSTANTS
    Null = Null
    MaxDenominator = 3
    AdjustDenominator = 2
    Epsilon <- MCEpsilon
    MaxBound <- MCMaxBound
    Problems <- MCProblems
    MaxNodes <- MCMaxNodes
    SplitDelta = 2
    RootPrec = 4
SPECIFICATION Spec
INVARIANTS
    NoModelLost
    TaskKeepsModels
    TaskHasOnlyModelsUnlessRelaxed
    SplitNarrows
    PropagationComplete
CHECK_DEADLOCK FALSE
