CONSTANTS
    Call = {c1, c2}
    Vmid = {v1}
    Node = {n1, n2}
    NoNode = NoNode
    NoVmid = NoVmid
    TTL = 1
    MaxClock = 1
    Tools <- SharedTools
    Gates <- SharedGates
    ConfirmTools <- TableConfirmTools
    TargetTools <- TableTargetTools
    MigrateTools <- TableMigrateTools
    GuestTools <- TableGuestTools
    OtherGuestTools <- TableOtherGuestTools
    Configs <- OpenConfig
SPECIFICATION FairToolSpec
INVARIANTS
    SentWhereGuestWas
PROPERTY
    EveryCallAnswered
CHECK_DEADLOCK FALSE
