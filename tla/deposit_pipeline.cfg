SPECIFICATION FairPipelineSpec
CONSTANTS
    j1 = j1
    Jobs = {j1}
    None = None
    BatchSize = 2
    MaxAttempts = 2
    DeployedBlock = 1
    RpcLag = 1
    MaxPerBlock = 1
    MaxDeposits = 2
    MaxEmptyBlocks = 1
    MaxFaults = 1
    r1 = r1
    Registers = {r1}
    TokenIndexOf <- MCTokenIndexOf
    ERC20Indexes = {1, 2}
    NoMetadata = {}
    InLimit = 1
    SearchRange = 1
    SearchAttempts = 2
    MaxBlock = 9
    MaxRegFaults = 1
PROPERTIES ImplementsRegister DepositsRegistered
CHECK_DEADLOCK FALSE
