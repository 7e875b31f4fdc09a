SPECIFICATION Spec
CONSTANTS
    ApiTokens = {1, 2}
    Clients = {c1}
    Filters <- MCFilters
    PerPages = {1}
    DocLimit = 2
    CoinsPerBatch = 2
    NoPage = NoPage
INVARIANT WalkComplete
