SPECIFICATION Spec
CONSTANTS
    Nil = nil
    Thread = {t1, t2}
    Blk = {b1, b2}
    Lease = 1
    MaxTs = 3
INVARIANTS NoneForgotten
