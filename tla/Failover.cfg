SPECIFICATION Spec
CONSTANTS
    Producers = {p1, p2}
    Rows = 2
    MaxSends = 2
    MaxStarts = 2
    Leader = Leader
    Follower = Follower
    NoBroker = NoBroker
    NoMsg = NoMsg
SYMMETRY Symmetry
CHECK_DEADLOCK FALSE
INVARIANTS
    TypeOK
    AckedSurvive
    AckedKeepOffset
    AckedInOrder
