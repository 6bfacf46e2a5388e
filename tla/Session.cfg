CONSTANTS
    Conns = {c1}
    Kinds = {"connect", "connect_bad", "ping", "sub", "sub_denied", "sub_invalid", "unsub", "stream", "ack", "pub", "pub_denied", "pub_invalid", "pub_broken", "pub_oversize", "nonsense", "garbage"}
    Restricted = TRUE
    Capacity = 2
    MaxSubscriptions = 1
    PubBatchLimit = 1
    SkimLimit = 2
    FlushThreshold = 2
    Word = 16
    MaxFrames = 3
    MaxIds = 3
    MaxMsgs = 1
    MaxPings = 1
SPECIFICATION Spec
INVARIANTS
    WrittenInOrder
    ClosedIsFlushed
    PubsAreCounted
    ReadLoopHandlesAll
CHECK_DEADLOCK FALSE
