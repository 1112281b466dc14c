CONSTANTS
    Agent = {a1}
    TokenId = {t1}
    None = None
    Instance = {i1, i2}
    Postgres = TRUE
    RedisEnabled = TRUE
    PolicyId = {p1, p2, p3}
    Draft <- Drafts
    MaxPolicyFaults = 1
    BufferCap = 3
    EvictCount = 2
    MaxAttempts = 3
    MaxEntries = 5
    ApprovalId = {r1, r2}
    Approver = {u, v}
    MaxApprovalFaults = 2
    Identity = {x, y}
    UserId = {x1, x2}
    Scope = {read, write}
    Binder = {b1, b2}
    MaxUserFaults = 1
    Url = {w1, w2}
    SigningKey = {k1}
    Fetcher = {f1, f2}
    CacheTTL = 2
    CacheSize = 1
    FetchTimeout = 1
    MaxClock = 4
    Rate = 3
    Interval = 3
    IdleIntervals = 2
    MaxTicks = 18
    Credential = {c1}
    Secret = {s1, s2}
    MasterKey = {m1, m2}
    Nonce = {n1, n2, n3}
    Sealer = {g1, g2}
    MaxVaultFaults = 1
    RootKeyPair = {r1, r2, r3}
    Holder = {h1, h2}
    Server = Server
    Capability = {"read", "write"}
    MaxInt = 7
    Expiry <- Expiries
    MaxBlocks = 3
    MaxTime = 3
    Tool = {"read", "run"}
    ToolMap <- Tools
    MaxUse = 3
SPECIFICATION ServicesSpec
SYMMETRY ServicesSymmetry
INVARIANTS ServicesTypeOK DecisionFollowsTable AnsweredPoliciesInForce RemovedStaysRemoved UnpersistedAreCounted BufferKeepsNewest AnswersMatchRecord NotifiedIsOnRecord UnboundStaysUnbound AnsweredBindingInForce WithdrawnKeysExpire AtMostTwiceTheRate ThrottledOnlyAtRate LastAnswerIsRead SignaturesSurviveRestarts AnsweredUseIsGranted ClaimsNeverOutliveToken
