\* Two sets, one of a fiber that may be cancelled, share a descriptor, which may be
\* closed and its number used again.  A set's member may be dead and listed anew.
\* The ring has room for two events, the caller's arrays for one.
CONSTANTS
    s1 = s1
    s2 = s2
    fd1 = fd1
    r = r
    w = w
    Sets = {s1, s2}
    Cancellable = {s1}
    Fds = {fd1}
    Dirs = {r, w}
    Watched <- Shared
    Ring = 2
    Caps = {1}
    MaxMembers <- Most
SPECIFICATION FairSpec
INVARIANTS TypeOK EventsBelong ParkedIsAttended
PROPERTY WaitReturns
