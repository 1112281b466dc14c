CONSTANTS
    a1 = a1  a2 = a2  a3 = a3
    p1 = p1  p2 = p2
    i1 = i1  i2 = i2
    Agent = {a1}
    TokenId = {}
    None = None
    Instance = {i1}
    Postgres = FALSE
    RedisEnabled = FALSE
    ChildLimit = 2
    CacheSize = 1
    Proc = {p1, p2}
    Host <- OneHost
    Requests <- AllRequests
    MaxRevokeDepth = 2
    MaxKeys = 2
    MaxFaults = 0
    Failures <- NoFailures
SPECIFICATION Spec
PROPERTY RevokedIsFinal
