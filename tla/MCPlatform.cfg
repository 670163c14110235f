SPECIFICATION PlatformSpec
CONSTANTS
    Visitors = {1, 2}
    NumBets = 1
    Recent = 1
    MaxNoteFaults = 1
    Fetchers = {1, 2}
    Budget = 3
    MaxTries = 2
    BaseDelay = 1
    MaxDelay = 2
    MaxLate = 1
    MaxGets = 2
    Slots = {1, 2}
    Peers = {"p"}
    Asks <- MCAsks
    Quota = 1
    Window = 1
    PruneAt = 2
    MaxTick = 1
    MaxServed = 3
    WebLotteries = {"mega-sena", "quina"}
    Offered = {"mega-sena"}
    FormTargets = {0, 3}
    MaxLatest = 2
    MaxEdits = 1
    MaxMounts = 1
    MaxSyncs = 1
    MaxWebFaults = 1
    Options = {"mega-sena", "quina"}
    MaxLoads = 2
    MaxPicks = 1
    MaxSwitches = 1
    MaxLoadFaults = 1
INVARIANTS
    PlatformTypeOK
    GivesUpForAReason
    QuotaHolds
    PreviewFitsForm
    PagesSafe
PROPERTIES
    NewsReachUsers
    PlatformSettles
CHECK_DEADLOCK FALSE
