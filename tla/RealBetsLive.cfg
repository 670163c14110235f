CONSTANTS
    NumContests = 2
    Window = 1
    Batches = {b1}
    Target <- MCTarget
    Users = {u1}
    Checkers = {k1}
    Values = {v1, v2}
    Noisy = {}
    None = None
    Unknown = Unknown
    MaxCorrections = 1
    MaxImports = 0
    MaxFaults = 1
SPECIFICATION FairSpec
PROPERTIES
    PrizesSettle
    CorrectionsPropagate
CHECK_DEADLOCK FALSE
