SPECIFICATION Spec
CONSTANTS
    Hashes = {h1}
    Peers = {p1, p2}
    Nodes = {n1}
    Capacity = 1
    Ttl = 0
    CoalesceWindow = 0
    MaxCandidates = 1
    MaxSourceNodes = 1
    FreshPerRetry = 1
    FreshSaturation = 2
    RetryInitialDelay = 1
    RetryMaxDelay = 2
    RetryMaxAttempts = 2
    RetryHistoryTtl = 2
    RetryHistoryCapacity = 1
    MaxExtraAttempts = 1
    IngressLag = 1
    MinRetryDelay = 1
    MaxRetryLifetime = 5
    MaxConcurrent = 1
    LookupEnabled = TRUE
    AdmissionDelays = {0}
    MaxEvents = 3
    MaxTime = 4
    None = None
INVARIANTS
    GaugeIsPressure
CHECK_DEADLOCK FALSE
