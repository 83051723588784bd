SPECIFICATION Spec
SYMMETRY Interchangeable
CONSTANTS
    Nil = nil
    Proc = {p1, p2}
    Var = {v1, v2}
    Blk = {b1, b2, b3}
    MaxTs = 2
    MaxLen = 2
INVARIANTS AcquireCovers SigsWellFormed
