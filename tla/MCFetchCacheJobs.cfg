SPECIFICATION Spec
CONSTANTS
    Calls = {c1, c2}
    Urls = {u1, u2}
    None = None
    CacheSize = 1
    MaxInFlight = 2
    MaxDecompress = 1
    MaxRetries = 1
INVARIANT DecompressionCap
