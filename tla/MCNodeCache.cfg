CONSTANTS
    Call = {c1, c2}
    Vmid = {v1}
    Node = {n1, n2}
    NoNode = NoNode
    NoVmid = NoVmid
    TTL = 2
    MaxClock = 5
SPECIFICATION Spec
SYMMETRY Symmetry
INVARIANTS
    TypeOK
    CacheWitnessed
    AnswerFresh
PROPERTY
    ImplementsLocation
CHECK_DEADLOCK FALSE
