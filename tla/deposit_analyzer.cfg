SPECIFICATION Spec
CONSTANTS
    j1 = j1
    j2 = j2
    Jobs = {j1, j2}
    None = None
    BatchSize = 2
    MaxAttempts = 2
    DeployedBlock = 1
    RpcLag = 1
    MaxPerBlock = 2
    MaxDeposits = 3
    MaxEmptyBlocks = 2
    MaxFaults = 1
SYMMETRY JobSymmetry
INVARIANTS TypeOK NoBlockSkipped BroadcastRelayable
PROPERTY GasShortfallBounded
