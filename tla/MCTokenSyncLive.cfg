SPECIFICATION FairSpec
CONSTANTS
    Nil = Nil
    Foreign = Foreign
    NoSnapshot = NoSnapshot
    NoRequest = NoRequest
    Labels = {"alpha"}
    Statuses = {}
    ValueMode = "label"
    WorkspaceIDs = {w1, w2}
    AgentIDs = {}
    ForeignKeys = {}
    SlowHerdr = TRUE
    MaxLate = 1
CHECK_DEADLOCK FALSE
PROPERTIES NobodyStarves Quiesces ShutsDown
