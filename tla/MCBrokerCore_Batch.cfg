SPECIFICATION CoreSpec
CONSTANTS
    a = a
    b = b
    w = w
    Conns = {c1}
    Subjects = {a, b}
    Wilds = {w}
    Groups = {}
    NoGroup = NoGroup
    MaxSubs = 2
    Publishers = {p1}
    Match <- WildMatchesA
    MaxMsgs = 2
    BatchSizes = {1, 2}
CONSTRAINT StillPublishing
SYMMETRY ConnSymmetry
INVARIANTS
    NothingLost
    OnlyMatching
    InOrder
CHECK_DEADLOCK FALSE
