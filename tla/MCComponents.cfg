CONSTANTS
    Addrs = {1, 2, 3, 4, 5, 6, 7}
    Ttl = 2
    ExpiryBatch = 1
    Clock <- MCClock
    ProbeAddrs = {1, 2, 3, 4, 5, 6, 7}
    Configs <- MCConfigs
    DestinationRate = 1
    ReservoirCapacity = 1
    MaxInFlight = 2
    ProbeTime = 4
    IdBits = 3
    PrefixBits = 2
    Populations <- MCPopulations
    NoNode = NoNode
    SnapshotSize = 3
    MaxChanges = 4
    Sources = {s1, s2}
    Lengths = {1, 2}
    PacketRate = 3
    ByteRate = 3
    MinByteBurst = 2
    SourceRate = 1
    Second = 2
    SourceTtl = 3
    LimiterTime = 4
    Sockets = {v4}
    WorkerCount = 3
    QueueSize = 1
    InitialPool = 1
    MaxPool = 2
    Origins = {3}
    Kinds = {"invalid", "ping", "announce_peer"}
    MaxPackets = 3
SPECIFICATION PartsSpec
INVARIANTS
    HeapSound
    RecentFits
    SampleStratified
    EveryNodeShown
    NearestAgrees
    
    SourcesExpire
    BuffersAccounted
    
PROPERTIES
    WindowSpec
    RejectionIsFree
    NoWorkerSkipped
CHECK_DEADLOCK FALSE
