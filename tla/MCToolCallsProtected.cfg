CONSTANTS
    Call = {c1}
    Vmid = {v1}
    Node = {n1, n2}
    NoNode = NoNode
    NoVmid = NoVmid
    TTL = 1
    MaxClock = 0
    Tools <- ReadmeProtected
    Gates <- AllGates
    ConfirmTools <- TableConfirmTools
    TargetTools <- TableTargetTools
    MigrateTools <- TableMigrateTools
    GuestTools <- TableGuestTools
    OtherGuestTools <- TableOtherGuestTools
    Configs <- ProtectedConfig
SPECIFICATION ToolSpec
SYMMETRY Symmetry
INVARIANTS
    ProtectedUntouched
CHECK_DEADLOCK FALSE
