SPECIFICATION LiveSpec
CONSTANTS
    Hashes = {h1, h2}
    Peers = {p1}
    Nodes = {}
    Capacity = 2
    Ttl = 1
    CoalesceWindow = 1
    MaxCandidates = 1
    MaxSourceNodes = 1
    FreshPerRetry = 1
    FreshSaturation = 2
    RetryInitialDelay = 1
    RetryMaxDelay = 2
    RetryMaxAttempts = 2
    RetryHistoryTtl = 2
    RetryHistoryCapacity = 2
    MaxExtraAttempts = 1
    IngressLag = 0
    MinRetryDelay = 1
    MaxRetryLifetime = 5
    MaxConcurrent = 1
    LookupEnabled = TRUE
    AdmissionDelays = {0}
    MaxEvents = 3
    MaxTime = 6
    None = None
    LastInput = 1
PROPERTIES
    Drains
    HashesMoveOn
    CompletionsReported
CHECK_DEADLOCK FALSE
