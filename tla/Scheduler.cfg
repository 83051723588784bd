SPECIFICATION Spec
CONSTANTS
    Nil = nil
    Worker = {w0, w1}
    Root = w0
    Main = main
    Desc = {d1, d2}
    Size = 2
    Width = 4
    MaxOps = 4
INVARIANTS RunsOnce RootAtHome NeverFull StackIsSafe
PROPERTIES Terminates
