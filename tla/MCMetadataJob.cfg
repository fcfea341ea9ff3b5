CONSTANTS
    h1 = h1
    h2 = h2
    p1 = p1
    Hashes = {h1, h2}
    Peers = {p1}
    Honest <- MCHonest
    Info <- MCInfo
    Lengths <- MCLengths
    Bytes <- MCBytes
    MaxIndex = 1
    Sizes = {3, 4}
    Ids = {1}
    PieceLength = 2
    SizeLimit = 3
    Word = 16
    TotalTimeout = 1
    Lag = 1
    MaxTime = 2
    MaxStarts = 3
    CacheCapacity = 2
    FailureTtl = 1
    RacePeers = {r1, r2, r3}
    MaxPeers = 2
    MaxCandidates = 3
    MaxInitial = 1
    NoPeer = NoPeer
SPECIFICATION JobSpec
INVARIANTS AttemptBudget GivesUpOnlyWhenDry CacheSound HonestPeerServes
PROPERTY SkipsAreEarned
SYMMETRY RaceSymmetry
CHECK_DEADLOCK FALSE
