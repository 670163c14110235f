CONSTANTS
    NumContests = 2
    Window = 2
    Batches = {b1, b2}
    Target <- MCOneEach
    Users = {u1, u2}
    Checkers = {}
    Values = {v1}
    Noisy = {v1}
    None = None
    Unknown = Unknown
    MaxCorrections = 0
    MaxImports = 0
    MaxFaults = 0
SPECIFICATION FairSpec
PROPERTY CorrectionsPropagate
CHECK_DEADLOCK FALSE
