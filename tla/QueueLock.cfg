SPECIFICATION FairSpec
CONSTANTS
    NumProcs = 3
    InitOwner = 1
    LAD = {a, b}
INVARIANTS MutualExclusion LadIsLatest AssertsHold
PROPERTIES RefinesLadLock FollowerIsServed ServedWhenQuiet LockProgress
