CONSTANTS
    Call = {c1}
    Vmid = {v1}
    Node = {n1, n2}
    NoNode = NoNode
    NoVmid = NoVmid
    TTL = 1
    MaxClock = 0
    Tools <- AllTools
    Gates <- AllGates
    ConfirmTools <- TableConfirmTools
    TargetTools <- TableTargetTools
    MigrateTools <- TableMigrateTools
    GuestTools <- TableGuestTools
    OtherGuestTools <- TableOtherGuestTools
    Configs <- AnyConfig
SPECIFICATION ToolSpec
SYMMETRY Symmetry
INVARIANTS
    ToolTypeOK
    ProtectedGuestsKept
    ActingNodesAllowed
PROPERTY
    ImplementsPermittedCalls
CHECK_DEADLOCK FALSE
