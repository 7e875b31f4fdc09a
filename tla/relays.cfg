SPECIFICATION FairSpec
CONSTANTS
    j1 = j1
    j2 = j2
    Jobs = {j1, j2}
    None = None
    Kinds = {"decoded", "undecoded", "l2", "messenger"}
    ItemsOf <- MCItemsOf
    TypeMaps <- MCTypeMaps
    BatchSize = 2
    PageSize = 1
    MaxAttempts = 2
    CanRevert <- MCCanRevert
    RpcLag = 1
    MaxFaults = 1
INVARIANTS TypeOK CursorBehindExecuted
PROPERTIES ImplementsDelivery EveryMessageRelayed
CHECK_DEADLOCK FALSE
