SPECIFICATION Spec
CONSTANTS
    MaxRequests = 3
    MaxConns = 2
    HeaderSize = 3
    BodySize = 2
    MaxLength = 3
CHECK_DEADLOCK FALSE
INVARIANTS
    TypeOK
    FramesInOrder

    
