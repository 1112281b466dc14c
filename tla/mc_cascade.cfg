CONSTANTS
    a1 = a1  a2 = a2  a3 = a3
    p1 = p1  p2 = p2
    i1 = i1  i2 = i2
    Agent = {a1, a2, a3}
    TokenId = {}
    None = None
    Instance = {i1}
    Postgres = FALSE
    RedisEnabled = FALSE
    ChildLimit = 1
    CacheSize = 1
    Proc = {p1, p2}
    Host <- OneHost
    Requests <- RevokeAndRegister
    MaxRevokeDepth = 3
    MaxKeys = 1
    MaxFaults = 0
    Failures <- NoFailures
SPECIFICATION Spec
SYMMETRY OneHostSymmetry
INVARIANTS AckedIsInForce AckedIsRevokedInStore StoreTopDown
PROPERTY KeepsPromise
