SPECIFICATION FairSpec
CONSTANTS
    j1 = j1
    Jobs = {j1}
    None = None
    BatchSize = 1
    MaxAttempts = 2
    DeployedBlock = 1
    RpcLag = 0
    MaxPerBlock = 1
    MaxDeposits = 2
    MaxEmptyBlocks = 2
    MaxFaults = 1
PROPERTY AllRelayed
