\* Two cancellable fibers and the program thread on a channel of two slots.  A
\* caller may wait for ever for another that never comes.
CONSTANTS
    Fibers = {p1, p2}
    OsThreads = {m1}
    Cancellable = {p1, p2}
    Values = {v1, v2}
    Capacity = 2
    Offered <- Methods
    Nothing = Nothing
    Raised = Raised
    Refused = Refused
    End = End
SYMMETRY Symmetry
SPECIFICATION ChanSpec
INVARIANT ChanNoMissedWakeup
PROPERTIES ImplementsChannel ChanKeepsLockRules
CHECK_DEADLOCK FALSE
