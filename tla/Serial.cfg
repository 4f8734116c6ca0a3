SPECIFICATION Spec
CONSTANTS
    Producers = {p1}
    Handlers = {h1}
    Conns = {c1, c2, c3}
    MaxMessages = 2
    MaxRetries = 3
    MaxSends = 3
    NoConn = NoConn
    NoHandler = NoHandler
    NoMsg = NoMsg
SYMMETRY Symmetry
INVARIANTS
    AckedReplicated
    HwmReplicated
    VisibleReplicatedOrRefused
    AckedVisible
PROPERTIES
    HwmMonotonic
    ImplementsContract
    ImplementsFailover
