SPECIFICATION FairSpec
CONSTANTS
    a = a
    b = b
    Clients = {a, b}
    MaxRequests = 6
    FeeRequests = {1, 3, 5}
    ClientOf <- MCClientOf
    MaxTime = 6
    MaxRestarts = 1
    RateLimitMax = 2
    RateLimitWindow = 3
    CacheDuration = 3
    RpcTimeout = 1
INVARIANTS
    BurstBounded
    RefusalDeserved
    FeeFresh
PROPERTIES
    LookupsSpaced
    LookupEnds
CHECK_DEADLOCK FALSE
