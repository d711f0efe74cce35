SPECIFICATION Spec
CONSTANTS
    Pids = {p1, p2, p3}
    Dirs = {plugin}
    Shells = {hook1, terminal}
    Scripts <- StartsAndStop
    DirOf <- OneDir
    Nobody = Nobody
    Missing = Missing
    Empty = Empty
    hook1 = hook1
    hook2 = hook2
    terminal = terminal
    plugin = plugin
    MaxFaults = 1
    MaxUnrelated = 1
CHECK_DEADLOCK FALSE
PROPERTIES StaleFileIgnored
