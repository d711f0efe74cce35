SPECIFICATION Spec
CONSTANTS
    Pids = {p1, p2, p3, p4, p5}
    Dirs = {plugin}
    Shells = {hook1, hook2, terminal}
    Scripts <- Mixed
    DirOf <- OneDir
    Nobody = Nobody
    Missing = Missing
    Empty = Empty
    hook1 = hook1
    hook2 = hook2
    terminal = terminal
    plugin = plugin
    MaxFaults = 2
    MaxUnrelated = 1
CHECK_DEADLOCK FALSE
SYMMETRY PidSymmetry
INVARIANTS TypeOK OnePoller PidFileNamesDaemon
PROPERTIES StartsAreNotLost
