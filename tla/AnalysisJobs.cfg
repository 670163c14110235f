CONSTANTS
    Jobs = {1, 2}
    Persisting = {1}
    NoJob = NoJob
    MaxFaults = 2
    MaxRestarts = 1
SPECIFICATION Spec
INVARIANTS
    TypeOK
    NoLostWakeup
    OrphansArePaidFor
    EarlyCancelWins
    SavedInBounds
PROPERTY LifecycleKept
