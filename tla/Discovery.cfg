CONSTANTS
    Hashes = {h1, h2}
    Nodes = {n1, n2, n3}
    NoNode = NoNode
    DedupCapacity = 1
    DedupTtl = 2
    MaxHashSources = 2
    MaxNodes = 2
    MaxInFlight = 2
    CooldownCapacity = 2
    Burst = 2
    QueryTimeout = 1
    FailureDelay = 1
    NoNewBackoff = 2
    MinInterval = 0
    Intervals = {1, 3}
    MaxInterval = 2
    SeedRefresh = 2
    ExpiryBatch = 1
    MaxTime = 4

SPECIFICATION Spec
INVARIANTS
    IndexesAgree
    EveryNodePlaced
    CooldownReserved
PROPERTY
    IntervalHonoured
CHECK_DEADLOCK FALSE
SYMMETRY NodeHashSymmetry
