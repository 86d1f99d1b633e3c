CONSTANTS
    Call = {c1}
    Offered = {"partition_disk"}
    Host = {h1}
    h1 = h1
    h2 = h2
    p2 = p2
    NoPath = NoPath
    Route <- Straight
    Path = {p2}
    NewUses = {}
    Cases <- SystemDisk
    OldBackups <- OldBackup
SPECIFICATION Spec
SYMMETRY Symmetry
CHECK_DEADLOCK FALSE
INVARIANT UsedDisksKept
