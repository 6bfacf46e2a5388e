SPECIFICATION FairSpec
CONSTANTS
    Apps = {a1}
    LoopTask = LoopTask
    None = None
    Calls = {"subscribe", "unsubscribe", "request", "flush", "close"}
    MaxAttempts = 2
    SubBuffer = 1
    Restarts = FALSE
    MaxCalls = 2
    MaxHandles = 2
    MaxMsgs = 2
    MaxDrops = 1
INVARIANTS
    RoutedToOwner
    ReplayRestores
    FlushConfirms
PROPERTIES
    LostLinkRecovers
    CallsReturn
CHECK_DEADLOCK FALSE
