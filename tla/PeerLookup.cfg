CONSTANTS
    Nodes = {n1, n2}
    Peers = {p1}
    MaxActive = 2
    MaxQueries = 2
    MaxConcurrentQueries = 2
    MaxPeersPerLookup = 1
    MaxFrontier = 1
    MaxSources = 1
    LookupTimeout = 3
    QueryTimeout = 2
    MaxLookups = 2
    MaxTime = 4
    NoNode = NoNode
SPECIFICATION Spec
INVARIANTS SlotsAccounted
PROPERTIES MaintenanceCatchesUp LookupsEnd
CHECK_DEADLOCK FALSE
