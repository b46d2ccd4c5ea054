\* A task spawns and joins two others, all that may throw, wait and be cancelled.
SPECIFICATION FairSpec
CONSTANTS
    r = r
    a = a
    b = b
    Tasks = {r, a, b}
    Root = r
    Parent <- Family
    MaxOps <- Ops
    FirstCap = 1
    None = None
INVARIANTS TypeOK NoDangling JoinedAndFreed
PROPERTIES FailuresHeard TasksComplete
