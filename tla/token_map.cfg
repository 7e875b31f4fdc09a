SPECIFICATION FairSpec
CONSTANTS
    r1 = r1
    r2 = r2
    Registers = {r1, r2}
    TokenIndexOf <- MCTokenIndexOf
    ERC20Indexes = {1, 2}
    NoMetadata = {2}
    InLimit = 1
    SearchRange = 1
    SearchAttempts = 2
    DeployedBlock = 1
    RpcLag = 1
    MaxPerBlock = 2
    MaxDeposits = 3
    MaxBlock = 4
    MaxRegFaults = 1
INVARIANTS TypeOK NoTokenMissed IdsRegistered
PROPERTY AllRegistered
CHECK_DEADLOCK FALSE
