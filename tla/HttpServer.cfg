SPECIFICATION Spec
CONSTANTS
    w1 = w1
    w2 = w2
    c1 = c1
    c2 = c2
    c3 = c3
    Workers <- WorkersOfTwo
    Conns <- ThreeConns
    Addresses = 2
    Backlog = 2
    MaxRequests = 2
INVARIANTS
    TypeOK
    InOnePlace
    EnoughAwake
    DrainedBeforeReturn
PROPERTIES
    AllServed
    ListenReturns
CHECK_DEADLOCK FALSE
