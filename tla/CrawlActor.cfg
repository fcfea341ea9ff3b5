CONSTANTS
    a1 = a1
    a2 = a2
    b1 = b1
    NoAddr = NoAddr
    Addrs = {a1, a2, b1}
    Sources = {b1}
    Subnets <- MCSubnets
    PoolCapacity = 2
    ReplacementRate = 1
    RecentTtl = 2
    ReservoirCapacity = 2
    ResponsiveTtl = 2
    RevisitInterval = 1
    BackoffBase = 1
    BackoffMax = 2
    MaxFailures = 2
    RevisitBatch = 2
    LowWatermark = 1
    MaxNodesPerRound = 1
    BootstrapInterval = 3
    SourceBackoffBase = 1
    SourceBackoffMax = 2
    MaxInFlight = 3
    MaxPerSubnet = 2
    RequestTimeout = 1
    Rate = 3
    Rates = {3}
    Burst = 3
    DestinationRate = 2
    ScanLimit = 1
    ScheduleInterval = 1
    MaxTime = 2
SPECIFICATION Spec
INVARIANTS
    InFlightAccounted
    RevisitsSpaced
    BudgetsHonoured
CHECK_DEADLOCK FALSE
SYMMETRY Twins
