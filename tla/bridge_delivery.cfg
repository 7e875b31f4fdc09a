SPECIFICATION FairSpec
CONSTANTS
    j1 = j1
    j2 = j2
    None = None
    Monitors = {j1}
    NumMessages = 2
    BatchSize = 1
    Patience = 0
    MaxAttempts = 1
    MaxTime = 1
    MaxFaults = 1
CHECK_DEADLOCK FALSE
PROPERTIES FinalUnlessRewatched EveryMessageSettles
