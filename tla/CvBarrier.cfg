SPECIFICATION Spec
CONSTANTS
    Nil = nil
    Thread = {t1, t2, t3}
    Node = {n1, n2, n3}
    MaxRound = 2
INVARIANTS MutualExclusion QueueIsSound EntryAlive
PROPERTIES RefinesBarrier
