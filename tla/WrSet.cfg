CONSTANTS
    Thread = {t1, t2, t3}
    Blk = {b1}
    MaxGen = 3
SPECIFICATION Spec
INVARIANTS NoBlockForgotten FenceCoversWrites
PROPERTY FenceReturns
