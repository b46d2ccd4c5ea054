\* Two fibers, one of which may be cancelled, wait for tasks and for either
\* direction of one descriptor, with timeouts of up to two ticks.
CONSTANTS
    Fibers = {p1, p2}
    Cancellable = {p1}
    MaxTimeout = 2
    Fds = {fd1}
    Dirs = {r, w}
    Interests = {{r}, {w}}
SPECIFICATION Spec
INVARIANTS FramesAlive Armed WakeComing NoOversleep
