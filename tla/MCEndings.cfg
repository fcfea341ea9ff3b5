CONSTANTS
    Peers = {p1, p2}
    MaxPeers = 1
    MaxCandidates = 2
    MaxInitial = 2
    NoPeer = NoPeer
    Sockets = {v4}
    WorkerCount = 3
    QueueSize = 1
    InitialPool = 1
    MaxPool = 2
    Origins = {3}
    Kinds = {"invalid", "ping", "announce_peer"}
    MaxPackets = 2
SPECIFICATION EndingsSpec
PROPERTIES
    RaceEnds
    ShutdownStops
CHECK_DEADLOCK FALSE
