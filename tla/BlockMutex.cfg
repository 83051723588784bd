SPECIFICATION Spec
SYMMETRY Interchangeable
CONSTANTS
    Proc = {p1, p2, p3}
    InitWriter = p1
    Shared = sh
    Cell = {p1, sh}
    Lease = 1
    WrCountThreshold = 2
    MaxFastRelThreshold = 2
    LazyMerge = FALSE
    FastRelease = FALSE
    Usage = {"mutex"}
    MaxCut = 0
    MaxWrites = 3
INVARIANTS TypeOK FreshReads
