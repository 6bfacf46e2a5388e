SPECIFICATION CoreSpec
CONSTANTS
    a = a
    b = b
    w = w
    Conns = {c1}
    Subjects = {a}
    Wilds = {}
    Groups = {q}
    NoGroup = NoGroup
    MaxSubs = 2
    Publishers = {p1}
    Match <- NothingMatches
    MaxMsgs = 2
    BatchSizes = {1, 2}
CONSTRAINT StillPublishing
SYMMETRY ConnSymmetry
INVARIANTS
    StableGroupServed
CHECK_DEADLOCK FALSE
