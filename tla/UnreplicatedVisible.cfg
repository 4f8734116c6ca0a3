SPECIFICATION Spec
CONSTANTS
    Producers = {p1}
    Handlers = {h1}
    Conns = {c1, c2, c3}
    MaxMessages = 2
    MaxRetries = 2
    MaxSends = 2
    NoConn = NoConn
    NoHandler = NoHandler
    NoMsg = NoMsg
SYMMETRY Symmetry
INVARIANTS
    NothingUnreplicatedVisible
