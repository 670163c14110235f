CONSTANTS
    NumContests = 1
    Window = 1
    Batches = {b1}
    Target <- MCTarget
    Users = {u1, u2}
    Checkers = {k1}
    Values = {v1, v2}
    Noisy = {v2}
    None = None
    Unknown = Unknown
    MaxCorrections = 1
    MaxImports = 1
    MaxFaults = 1
SYMMETRY MCSymmetry
SPECIFICATION Spec
INVARIANTS
    TypeOK
    OneBetPerBatch
PROPERTY NoPrizeLost
CHECK_DEADLOCK FALSE
