\* Are the locals of a block dropped only when its children are done?
SPECIFICATION Spec
CONSTANTS
    r = r
    a = a
    b = b
    Tasks = {r, a, b}
    Root = r
    Parent <- Family
    MaxOps <- Ops
    FirstCap = 1
    None = None
INVARIANT BorrowsOutlived
