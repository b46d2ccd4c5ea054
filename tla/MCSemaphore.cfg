\* Three cancellable fibers and the program thread on two permits, and on the
\* lock and the condvar underneath.
CONSTANTS
    Fibers = {p1, p2, p3}
    OsThreads = {m1}
    Cancellable = {p1, p2, p3}
    Permits = 2
SYMMETRY Symmetry
SPECIFICATION SemSpec
INVARIANTS PermitsAccounted SemNoMissedWakeup MutualExclusion NoStranded
