SPECIFICATION FairSpec
CONSTANTS
    b1 = b1
    b2 = b2
    r1 = r1
    None = None
    Builders = {b1}
    Requests = {r1}
    Mode = "ALLOWLIST_PRIORITY"
    Allowlist = {b1}
    ListSize = 2
    MinAllowlist = 1
    CheckSize = 2
    Day = 1
    NumHeartbeats = 2
    MaxTime = 2
    MaxFaults = 2
INVARIANT HeartbeatsKept
PROPERTY SilentRetiredUnlessListed
