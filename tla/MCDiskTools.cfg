CONSTANTS
    Call = {c1, c2}
    Offered = {"partition_disk", "format_disk", "create_mount_point", "unmount_path"}
    Host = {h1, h2}
    h1 = h1
    h2 = h2
    p2 = p2
    NoPath = NoPath
    Route <- Astray
    Path = {p1, p2}
    NewUses = {"member"}
    Cases <- UsedDisks
    OldBackups <- OldBackup
SPECIFICATION Spec
SYMMETRY Symmetry
CHECK_DEADLOCK FALSE
INVARIANT TypeOK
INVARIANT HitsOnlyUnseen
INVARIANT FstabAllOrNothing
INVARIANT AddedEntriesStay
INVARIANT AdminLineStays
INVARIANT ReportedEntriesValid
