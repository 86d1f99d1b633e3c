CONSTANTS
    Call = {c1}
    Vmid = {v1}
    Node = {n1, n2, n3}
    NoNode = NoNode
    NoVmid = NoVmid
    TTL = 1
    MaxClock = 0
    Tools <- ReadmeAllowed
    Gates <- AllGates
    ConfirmTools <- TableConfirmTools
    TargetTools <- TableTargetTools
    MigrateTools <- TableMigrateTools
    GuestTools <- TableGuestTools
    OtherGuestTools <- TableOtherGuestTools
    Configs <- RestrictedConfig
SPECIFICATION ToolSpec
SYMMETRY Symmetry
INVARIANTS
    OnlyAllowedNodes
CHECK_DEADLOCK FALSE
