SPECIFICATION FairSpec
CONSTANTS
    Calls = {c1, c2, c3}
    Urls = {u1, u2}
    None = None
    CacheSize = 1
    MaxInFlight = 1
    MaxDecompress = 1
    MaxRetries = 1
PROPERTIES
    LeaderReturns
    WaiterReturns
