SPECIFICATION Spec
CONSTANTS
    Proc = {p1, p2}
    InitWriter = p1
    Shared = sh
    Cell = {p1, p2}
    Lease = 1
    WrCountThreshold = 2
    MaxFastRelThreshold = 2
    LazyMerge = TRUE
    FastRelease = TRUE
    Usage = {"mutex", "pin"}
    MaxCut = 1
    MaxWrites = 2
INVARIANTS NoFalseRace NoLostUpdate LeaseIsKnown
PROPERTIES WriteBeatsLeases
