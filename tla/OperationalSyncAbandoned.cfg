CONSTANTS
    Servers = {s1}
    AutoSync = {s1}
    Commands = {c1}
    NumLotteries = 1
    None = None
    MaxStarts = 1
    MaxAttempts = 2
    MaxFaults = 0
SPECIFICATION Spec
INVARIANT AbandonedWereInterrupted
CHECK_DEADLOCK FALSE
