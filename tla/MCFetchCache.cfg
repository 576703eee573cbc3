SPECIFICATION Spec
CONSTANTS
    Calls = {c1, c2, c3, c4}
    Urls = {u1, u2}
    None = None
    CacheSize = 1
    MaxInFlight = 2
    MaxDecompress = 1
    MaxRetries = 1
INVARIANTS
    TypeOK
    SingleFlight
    EntryHasLeader
    WokenHasResult
    PermitsBalanced
PROPERTY ImplementsCoalescedFetch
SYMMETRY Symmetry
