SPECIFICATION FairSpec
CONSTANTS
    b1 = b1
    b2 = b2
    r1 = r1
    None = None
    Builders = {b1, b2}
    Requests = {r1}
    Mode = "GUARANTEED_ALLOWLIST"
    Allowlist = {b1}
    ListSize = 2
    MinAllowlist = 1
    CheckSize = 2
    Day = 1
    NumHeartbeats = 2
    MaxTime = 1
    MaxFaults = 0
INVARIANTS TypeOK ListedPassed
PROPERTIES DownRetired UpActivated
