\* Two carriers; the program thread spawns a task, which spawns another, which spawns a third;
\* each may throw and leave its child to itself.
CONSTANTS
    f1 = f1
    f2 = f2
    f3 = f3
    Fibers = {f1, f2, f3}
    N = 2
    Main = Main
    None = None
    Spawner <- Tree
    Detached = {}
    Backstop = TRUE
SPECIFICATION FairSpec
INVARIANTS TypeOK OnePlace PinnedResume NoLostWakeup
PROPERTIES SpawnedCompletes ShutdownReturns
