SPECIFICATION Spec
CONSTANTS
    Hashes = {h1, h2, h3}
    Peers = {p1}
    Nodes = {}
    Capacity = 2
    Ttl = 1
    CoalesceWindow = 1
    MaxCandidates = 1
    MaxSourceNodes = 1
    FreshPerRetry = 1
    FreshSaturation = 2
    RetryInitialDelay = 1
    RetryMaxDelay = 2
    RetryMaxAttempts = 2
    RetryHistoryTtl = 3
    RetryHistoryCapacity = 2
    MaxExtraAttempts = 1
    IngressLag = 1
    MinRetryDelay = 1
    MaxRetryLifetime = 5
    MaxConcurrent = 1
    LookupEnabled = FALSE
    AdmissionDelays = {}
    MaxEvents = 4
    MaxTime = 3
    None = None
INVARIANTS
    IndexesAgree
    OneOwner
    Bounded
    RetriesGetTheirTurn
PROPERTIES
    NoWastedEviction
CHECK_DEADLOCK FALSE
SYMMETRY HashSymmetry
