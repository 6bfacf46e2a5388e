SPECIFICATION FairSpec
CONSTANTS
    Conns = {c1, c2}
    Subjects = {a}
    Wilds = {w}
    Groups = {q}
    NoGroup = NoGroup
    MaxSubs = 2
INVARIANTS
    RegisteredIsReachable
    RouteIsOwned
    CountAgrees
    MembersHoldTheirKey
    ClosedLeavesNothing
PROPERTY CallsReturn
CHECK_DEADLOCK FALSE
