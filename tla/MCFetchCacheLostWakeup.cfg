SPECIFICATION FairSpec
CONSTANTS
    Calls = {c1, c2}
    Urls = {u1}
    None = None
    CacheSize = 1
    MaxInFlight = 1
    MaxDecompress = 1
    MaxRetries = 1
PROPERTY FollowersReturn
