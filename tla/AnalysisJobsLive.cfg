CONSTANTS
    Jobs = {1, 2}
    Persisting = {1}
    NoJob = NoJob
    MaxFaults = 1
    MaxRestarts = 1
SPECIFICATION FairSpec
PROPERTIES
    QueuedIsServed
    EveryJobSettles
