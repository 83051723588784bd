SPECIFICATION Spec
CONSTANTS
    Worker = {w1, w2}
    Node = {n1, n2, n3, n4, n5}
    Threshold = 2
INVARIANTS InOnePlace ComesHome
PROPERTIES RefinesPool
