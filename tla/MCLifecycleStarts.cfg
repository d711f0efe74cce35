SPECIFICATION FairSpec
CONSTANTS
    Pids = {p1, p2, p3, p4, p5}
    Dirs = {plugin}
    Shells = {hook1, hook2, terminal}
    Scripts <- StartsAndStops
    DirOf <- OneDir
    Nobody = Nobody
    Missing = Missing
    Empty = Empty
    hook1 = hook1
    hook2 = hook2
    terminal = terminal
    plugin = plugin
    MaxFaults = 0
    MaxUnrelated = 0
CHECK_DEADLOCK FALSE
PROPERTIES StartsYieldDaemon StopEndsDaemon
