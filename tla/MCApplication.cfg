SPECIFICATION ApplicationSpec
CONSTANTS
    Lotteries = {"mega-sena", "lotofacil", "dia-de-sorte", "quina", "lotomania",
                 "mais-milionaria", "timemania", "super-sete"}
    Values = {7}
    MaxMissing = 2
    MonthIsLate = FALSE
    Callers = {c1, c2}
    Seeds = {s1}
    Selections = {sel}
    Latest = Latest
    Targets = {Latest, 3}
    MaxContest = 2
    MaxCalls = 2
    MinHistory = 2
    MaxPlans = 1
    PlanCacheLimit = 1
    Editors = {1, 2}
    Methods = {"a", "b"}
    Games = {"mega-sena", "quina"}
    MaxSaves = 4
    Researchers = {1, 2}
    Hypotheses = {"h"}
    Runs = {1, 2}
    RunLottery <- MCRunLottery
    Scopes = {"quina", "mega-sena"}
    AnyLottery = AnyLottery
    MaxRequests = 4
    Readers = {1, 2}
    Configured = "luna"
    Named = {"luna", "luna-2026"}
    MaxEvidence = 2
    MaxAsked = 3
    Bootstraps = {1, 2}
    MaxPublished = 3
    Concurrency = 2
    FetchRetries = 1
    MaxBreaks = 2
    Deploys = {"d1", "d2"}
    NumFiles = 2
    MaxDeployFaults = 1
    TopNumber = 6
    DrawSize = 3
    TicketPrice = 2
    PoolTarget = 3
    PlanAsks <- MCPlanAsks
    LastContest = 4
    DualDraws = FALSE
    Testers = {1}
    MaxAmends = 1
    MaxResults = 2
    PricedFrom = 2
    RandomRuns = 2
    QualityCap = 2
    MaxRounds = 2
    MaxWork = 100
    RunAsks <- MCRunAsks
    Kinds = {"mega-sena", "dia-de-sorte", "loteca"}
    MaxDraw = 2
    Corrections = 1
    CompareLimit = 2
    MaxPayloads = 2
    Commands = {1, 2}
    FileLotteries = {"mega-sena", "quina"}
    LastInFile = 2
    Versions = {1, 2}
    MaxDownloads = 3
    BallTop = 7
    BallsDrawn = 4
    GridWidth = 5
    PreferredBalls = {2, 4, 5, 7}
    CoreSizes = {0, 1, 2, 3}
    StratumLimit = 5
    RulesPoolSize = 5
    ColumnLimit = 4
    UsualRepeats = {2, 3}
    UsualOdds = {2, 3}
    RepeatTargets <- MCRepeatTargets
    OddTargets <- MCOddTargets
    SumTarget = 16
    PickWindow = 2
    ShortlistLimit = 3
    ExplorationLimit = 6
    RankBeam = 3
    WindowFactor = 1
    LowCap = 1
    MidCap = 2
    HighCap = 3
    PayoutPool = 4
    RankAsks <- MCRankAsks
INVARIANTS
    ApplicationTypeOK
    SettlesWhatIsOwed
    GenerationSafe
    CatalogueAgrees
    InsightsFitEvidence
    HolesAreReported
    AppliedOnce
    PlanningSafe
    HistorySafe
    ReportedIsStored
    RankingSafe
PROPERTIES
    NeverDowngraded
    DecisionsAreFinal
    DataSafe
CHECK_DEADLOCK FALSE
