SPECIFICATION Spec
CONSTANTS
    a = a
    b = b
    StreamNames <- OneStream
    ConsumerNames <- OneName
    Subjects = {a}
    NoFilter = NoFilter
    Sizes = {1, 3}
    StreamConfigs <- EveryLimit
    ConsumerConfigs <- EveryPolicy
    Tasks = {t1}
    Word = 16
    StartTime = 1
    MaxTime = 2
    MaxSeq = 3
    MaxEpoch = 2
INVARIANTS
    TypeOK
    Contiguous
    BytesAgree
    WithinLimits
    FreshIsRetained
    BooksBalance
PROPERTY ImplementsLog
CHECK_DEADLOCK FALSE
