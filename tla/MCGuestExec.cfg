CONSTANTS
    Call = {c1, c2}
    Guest = {g1, g2}
    Address = {a1, inner, local}
    Qemu = {g1}
    Inner = {inner}
    Local = {local}
    TmpApart = {g2}
    FirstOwners <- FirstG1
    g1 = g1
    g2 = g2
    a1 = a1
    inner = inner
    local = local
    MaxChunks = 2
    MaxMoves = 1
    Nobody = Nobody
SPECIFICATION Spec
SYMMETRY Symmetry
CHECK_DEADLOCK FALSE
INVARIANT TypeOK
INVARIANT RightGuest
INVARIANT WholeFile
INVARIANT OwnMode
INVARIANT TempsRemoved
INVARIANT SuccessDelivered
INVARIANT WholeScript
