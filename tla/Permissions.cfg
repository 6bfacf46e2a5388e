SPECIFICATION AccessSpec
CONSTANTS
    Literals = {"a", "b"}
    Foreign = "c"
    MaxTokens = 3
    SubIds = {i1, i2}
    OwnIds = {i1}
    NoPattern = NoPattern
INVARIANTS
    MatchesAgree
    DeliversWithinPermissions
    DeniesOnlyTheUncovered
CHECK_DEADLOCK FALSE
