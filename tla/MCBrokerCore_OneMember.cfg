SPECIFICATION CoreSpec
CONSTANTS
    a = a
    b = b
    w = w
    Conns = {c1}
    Subjects = {a}
    Wilds = {}
    Groups = {q}
    NoGroup = NoGroup
    MaxSubs = 2
    Publishers = {p1}
    Match <- NothingMatches
    MaxMsgs = 1
    BatchSizes = {1}
CONSTRAINT StillPublishing
SYMMETRY ConnSymmetry
INVARIANT OneMemberPerMessage
CHECK_DEADLOCK FALSE
