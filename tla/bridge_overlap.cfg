SPECIFICATION FairSpec
CONSTANTS
    j1 = j1
    j2 = j2
    None = None
    Monitors = {j1, j2}
    NumMessages = 1
    BatchSize = 1
    Patience = 0
    MaxAttempts = 2
    MaxTime = 2
    MaxFaults = 1
CHECK_DEADLOCK FALSE
INVARIANTS TypeOK UntrackedSettled
PROPERTIES ClearedOnlyIfFailed EveryMessageSettles
