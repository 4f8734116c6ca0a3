SPECIFICATION Spec
CONSTANTS
    Producers = {p1, p2}
    Rows = 2
    MaxSends = 2
    MaxStarts = 1
    Leader = Leader
    Follower = Follower
    NoBroker = NoBroker
    NoMsg = NoMsg
SYMMETRY Symmetry
CHECK_DEADLOCK FALSE
INVARIANT
    AckedReadable
