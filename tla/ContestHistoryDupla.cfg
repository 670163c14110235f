CONSTANTS
    LastContest = 4
    DualDraws = TRUE
    Testers = {1}
    MaxAmends = 0
    MaxResults = 0
    PricedFrom = 2
    RandomRuns = 2
    QualityCap = 2
    MaxRounds = 2
    MaxWork = 100
    RunAsks = {}
SPECIFICATION HistorySpec
INVARIANT WindowKeepsEveryDraw
CHECK_DEADLOCK FALSE
