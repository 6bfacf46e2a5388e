SPECIFICATION SegmentSpec
CONSTANTS
    Payloads = {p1, p2}
    MaxRecords = 3
    MaxFaults = 2
INVARIANTS
    AppendOnly
    ReadsBack
CHECK_DEADLOCK FALSE
