CONSTANTS
    a1 = a1  a2 = a2  a3 = a3
    p1 = p1  p2 = p2
    i1 = i1  i2 = i2
    Agent = {a1, a2}
    TokenId = {}
    None = None
    Instance = {i1}
    Postgres = FALSE
    RedisEnabled = TRUE
    ChildLimit = 1
    CacheSize = 1
    Proc = {p1, p2}
    Host <- OneHost
    Requests <- AllRequests
    MaxRevokeDepth = 2
    MaxKeys = 2
    MaxFaults = 1
    Failures <- AllFailures
SPECIFICATION Spec
SYMMETRY OneHostSymmetry
INVARIANTS TypeOK KeyIndexIsInverse
PROPERTY KeepsPromise
\* With every ID of Agent given out and the in-memory store lost in a restart,
\* no request can name an agent and none can be registered.
CHECK_DEADLOCK FALSE
