SPECIFICATION ServerFairSpec
CONSTANTS
    Conns = {c1, c2}
    Kinds = {"connect", "sub"}
    Restricted = FALSE
    Capacity = 1
    MaxSubscriptions = 1
    PubBatchLimit = 1
    SkimLimit = 1
    FlushThreshold = 2
    Word = 16
    MaxFrames = 2
    Talkers = {c1}
    MaxIds = 4
    MaxMsgs = 1
    MaxPings = 0
    MaxConnections = 1
    Tls = TRUE
INVARIANTS
    ActiveIsExact
    DrainedMeansDone
PROPERTIES
    ClosedPeersEnd
    ShutdownReleases
    ShutdownEnds
CHECK_DEADLOCK FALSE
