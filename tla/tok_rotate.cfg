CONSTANTS
    a1 = a1  a2 = a2
    t1 = t1
    p1 = p1  p2 = p2
    v1 = v1  v2 = v2
    i1 = i1  i2 = i2
    Agent = {a1}
    TokenId = {t1}
    None = None
    Instance = {i1, i2}
    Postgres = TRUE
    RedisEnabled = TRUE
    ChildLimit = 2
    CacheSize = 1
    Proc = {p1, p2}
    Host <- TwoHosts
    TokenProc = {v1, v2}
    TokenHost <- SameHost
    Requests <- Overlaps
    MaxRevokeDepth = 2
    MaxKeys = 3
    MaxFaults = 1
    Failures <- Interrupted
    MaxChain = 2
SPECIFICATION TokenSpec
CONSTRAINT OneRests
SYMMETRY TokenProcSymmetry
INVARIANTS CacheWellFormed RotatedKeyIsRefusedUnlessRaced
