SPECIFICATION Spec
CONSTANTS
    Proc = {p1, p2}
    InitWriter = p1
    Shared = sh
    Cell = {p1}
    Lease = 1
    WrCountThreshold = 2
    MaxFastRelThreshold = 2
    LazyMerge = TRUE
    FastRelease = TRUE
    Usage = {"barrier"}
    MaxCut = 0
    MaxWrites = 2
INVARIANTS
    FreshReads
