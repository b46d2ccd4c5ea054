\* Two fibers, one of which may be cancelled, and the program thread.
CONSTANTS
    Fibers = {p1, p2}
    OsThreads = {m1}
    Cancellable = {p1}
    Modulus = 2
SPECIFICATION MutexSpec
INVARIANTS ExclusiveUse
