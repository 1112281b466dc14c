CONSTANTS
    a1 = a1  a2 = a2
    t1 = t1
    p1 = p1  p2 = p2
    v1 = v1  v2 = v2
    i1 = i1  i2 = i2
    Agent = {a1, a2}
    TokenId = {t1}
    None = None
    Instance = {i1, i2}
    Postgres = TRUE
    RedisEnabled = TRUE
    ChildLimit = 2
    CacheSize = 1
    Proc = {p1}
    Host <- OneProc
    TokenProc = {v1}
    TokenHost <- OtherHost
    Requests <- Revocations
    MaxRevokeDepth = 2
    MaxKeys = 1
    MaxFaults = 1
    Failures <- Reported
    MaxChain = 2
SPECIFICATION TokenSpec
SYMMETRY AgentSymmetry
INVARIANTS TokenTypeOK NoStaleAccept NoIssueAfterRevoke MemoryTrailsRedis
