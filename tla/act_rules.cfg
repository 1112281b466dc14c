CONSTANTS
    Agent = {a1, a2}
    Server = Server
    Capability = {c1, c2}
    MaxInt = 7
    Expiry <- SomeExpiries
    NotBefore <- SomeStarts
    Limit <- SomeLimits
    MaxBlocks = 3
    MaxTime = 3
SPECIFICATION ActSpec
SYMMETRY ActSymmetry
INVARIANTS ActTypeOK BuiltIsAccepted AnsweredExpiryIsExact DelegateAndVerifyAgree AcceptedExtensionsAttenuate RootLimitHolds
