CONSTANTS
    Call = {c1}
    Guest = {g1, g2}
    Address = {a1, inner, local}
    Qemu = {g1}
    Inner = {inner}
    Local = {local}
    TmpApart = {}
    FirstOwners <- FirstG1
    g1 = g1
    g2 = g2
    a1 = a1
    inner = inner
    local = local
    MaxChunks = 1
    MaxMoves = 1
    Nobody = Nobody
SPECIFICATION Spec
CHECK_DEADLOCK FALSE
INVARIANT TextTransferred
