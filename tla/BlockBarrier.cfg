SPECIFICATION Spec
CONSTANTS
    Proc = {p1, p2}
    InitWriter = p1
    Shared = sh
    Cell = {p1, p2}
    Lease = 1
    WrCountThreshold = 2
    MaxFastRelThreshold = 2
    LazyMerge = FALSE
    FastRelease = FALSE
    Usage = {"barrier", "fence"}
    MaxCut = 1
    MaxWrites = 2
INVARIANTS
    FreshReads
    ExpiredIsInvalid
