CONSTANTS
    Servers = {s1, s2}
    AutoSync = {s1, s2}
    Commands = {c1}
    NumLotteries = 2
    None = None
    MaxStarts = 2
    MaxAttempts = 2
    MaxFaults = 1
SPECIFICATION FairSpec
INVARIANTS
    TypeOK
    OrphansArePaidFor
    WarningsMatch
    NoLostTimer
PROPERTIES
    RecoverySparesServers
    LockIsFreed
CHECK_DEADLOCK FALSE
