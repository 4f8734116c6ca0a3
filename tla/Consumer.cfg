SPECIFICATION LiveSpec
CONSTANTS
    Producers = {p1}
    Rows = 2
    MaxSends = 2
    MaxStarts = 1
    FetchMax = 2
    MaxIterations = 3
    MaxDisruptions = 2
    Leader = Leader
    Follower = Follower
    NoBroker = NoBroker
    NoMsg = NoMsg
CHECK_DEADLOCK FALSE
INVARIANTS
    ConsumerTypeOK
    AckedReadable
    
    

    
