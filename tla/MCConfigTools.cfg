CONSTANTS
    Call = {c1, c2, c3, c4}
    Mapping = {"gpu0"}
    Storage = {"local", "data"}
    Defaults = {"local"}
    FirstRules <- Rule1to2
    Node = {"n1", "n2"}
    Listing <- TwoListings
    Wanted <- ThreeWanted
    NoMapping = NoMapping
    NoTarget = NoTarget
    NoDevice = NoDevice
    NoRule = NoRule
SPECIFICATION Spec
SYMMETRY Symmetry
INVARIANTS
    TypeOK
    OnlyStaleWritesLose
    EntriesDescribeDevices
    DeletedAsSeen
    AddedOnce
CHECK_DEADLOCK FALSE
