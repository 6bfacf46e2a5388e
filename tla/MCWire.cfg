SPECIFICATION Spec
CONSTANTS
    Byte = 20
    None = None
    Commands <- EveryCommand
    Ids = {21}
    Accepted <- OneUser
    MaxFrameSize = 37
    ClientMax = 37
    MaxFrames = 2
INVARIANTS
    DecodedAsMeant
    NothingIsHeldBack
CHECK_DEADLOCK FALSE
