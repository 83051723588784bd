SPECIFICATION FairSpec
CONSTANTS
    Nil = nil
    Con = con
    Thread = {t1, t2}
    Node = {n1, n2, n3}
    MaxOngoing = 1
    NullBy = {"self"}
INVARIANTS MpiSerialized ConsumerParked PredecessorAlive FreeLockMeansIdle RequestIsServedOnce
PROPERTIES CallReturnsWhenQuiet
