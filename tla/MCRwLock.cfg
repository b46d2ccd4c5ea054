\* Two fibers and two blocking threads read and write one value.
CONSTANTS
    Fibers = {p1, p2}
    OsThreads = {m1, m2}
    Modulus = 2
SPECIFICATION FairSpec
INVARIANTS RwExclusion WholeValue RwNoStranded
PROPERTIES WritersGetIn
