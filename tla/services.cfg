SPECIFICATION FairSpec
CONSTANTS
    d1 = d1
    d2 = d2
    b1 = b1
    b2 = b2
    c1 = c1
    c2 = c2
    w1 = w1
    w2 = w2
    Digests = {d1, d2}
    Readers = {c1}
    Cleaners = {c2}
    MinExpiresIn = 1
    DefaultExpiresIn = 1
    CacheTtl = 1
    DeleteLimit = 1
    MaxSaves = 3
    MaxCleanerFaults = 1
    LastBlock = 5
    RangeSizes = {0, 1, 2, 3, 6}
    ParallelRequests = 2
    MaxRetries = 2
    EIP1559Estimates <- MCEstimates
    ScrollFees <- MCScrollFees
    ScrollMultiplier = 20
    IncrementRate = 3
    MaxAttempts = 5
    NonceLag = 1
    MaxCalls = 2
    MaxTimeouts = 2
    CoinList <- MCCoinList
    Decimals <- MCDecimals
    Ethereum = "eth"
    Unknown = Unknown
    DefaultDecimals = 18
    CoinsPerBatch = 2
    Syncs = {c1}
    Fetches = {c1, c2}
    MaxUploads = 2
    MaxFeedFaults = 1
    MaxRestarts = 1
    ApiTokens = {1, 2}
    Clients = {c1}
    Filters <- MCFilters
    PerPages = {1}
    DocLimit = 2
    NoPage = NoPage
    Candidates = {b1, b2}
    Trusted = {b1}
    Profiles <- MCProfiles
    RequiredVersion = 1
    AllowedTokens = {0}
    MaxFee = 2
    MinBalance = 1
    Tries = 3
    MaxCheckFaults = 3
    Wallets = {w1, w2}
    Required <- MCRequired
    Acceptable = 1
    MaxEther = 2
    MaxRollupBlock = 1
    MaxSpends = 1
    MaxAlertFaults = 1
INVARIANTS
    TypeOK EventsExact OneEffectPending ReplacementAccepted
    DecimalsTrueUnlessFailed WalkComplete FitExactly
PROPERTIES
    LostOnlyIfRenewed ExpiredVanishes PricesSettle AlertsRaised
CHECK_DEADLOCK FALSE
