SPECIFICATION FairSpec
CONSTANTS
    Pids = {p1, p2, p3}
    Dirs = {plugin}
    Shells = {terminal}
    Scripts <- Restart
    DirOf <- OneDir
    Nobody = Nobody
    Missing = Missing
    Empty = Empty
    hook1 = hook1
    hook2 = hook2
    terminal = terminal
    plugin = plugin
    MaxFaults = 0
    MaxUnrelated = 0
CHECK_DEADLOCK FALSE
PROPERTIES RestartYieldsDaemon
