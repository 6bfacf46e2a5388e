SPECIFICATION CoreSpec
CONSTANTS
    a = a
    b = b
    w = w
    Conns = {c1, c2}
    Subjects = {a}
    Wilds = {w}
    Groups = {}
    NoGroup = NoGroup
    MaxSubs = 2
    Publishers = {p1}
    Match <- WildMatchesA
    MaxMsgs = 1
    BatchSizes = {1}
CONSTRAINT StillPublishing
SYMMETRY ConnSymmetry
INVARIANTS
    NothingLostOnWildcard
    NoDeliveryAfterRemoval
CHECK_DEADLOCK FALSE
