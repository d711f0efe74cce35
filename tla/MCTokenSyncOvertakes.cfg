SPECIFICATION FairSpec
CONSTANTS
    Nil = Nil
    Foreign = Foreign
    NoSnapshot = NoSnapshot
    NoRequest = NoRequest
    Labels = {"alpha", "beta"}
    Statuses = {"blocked"}
    ValueMode = "label"
    WorkspaceIDs = {w1}
    AgentIDs = {}
    ForeignKeys = {}
    SlowHerdr = FALSE
    MaxLate = 1
CHECK_DEADLOCK FALSE
PROPERTIES Converges HeartbeatRefreshes
