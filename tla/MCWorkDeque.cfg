\* Four fibers through a two-slot deque: overflow, wrap-around and every
\* race of the owner with three thieves for the last item.
CONSTANTS
    Items = {i1, i2, i3, i4}
    Threads = {o, t1, t2, t3}
    Owner = o
    NoItem = NoItem
    NoThread = NoThread
    Cap = 2
    MaxSeq = 5
SYMMETRY Symmetry
SPECIFICATION Spec
INVARIANTS NoDoubleTake
PROPERTY ImplementsDeque
