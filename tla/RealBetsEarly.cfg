CONSTANTS
    NumContests = 1
    Window = 1
    Batches = {b1}
    Target <- MCTarget
    Users = {u1}
    Checkers = {}
    Values = {v1}
    Noisy = {}
    None = None
    Unknown = Unknown
    MaxCorrections = 0
    MaxImports = 0
    MaxFaults = 0
SPECIFICATION Spec
PROPERTY LiveBetsOnly
CHECK_DEADLOCK FALSE
