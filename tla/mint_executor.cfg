SPECIFICATION FairSpec
CONSTANTS
    j1 = j1
    Jobs = {j1}
    None = None
    MintInterval = 2
    TransferInterval = 1
    MaxRetries = 2
    AvailableFrom = 0
    RpcLag = 1
    MaxDay = 2
    MaxManual = 1
    MaxFaults = 1
INVARIANTS TypeOK PrematureBounded
PROPERTY CaughtUp
