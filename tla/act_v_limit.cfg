CONSTANTS
    Agent = {a1}
    Server = Server
    Capability = {c1}
    MaxInt = 7
    Expiry <- Deadline
    NotBefore <- NoStart
    Limit <- LimitOfTwo
    MaxBlocks = 5
    MaxTime = 3
SPECIFICATION ActSpec
INVARIANT LimitsHold
