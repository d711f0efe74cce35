SPECIFICATION Spec
CONSTANTS
    Nil = Nil
    Foreign = Foreign
    NoSnapshot = NoSnapshot
    NoRequest = NoRequest
    Labels = {"alpha"}
    Statuses = {"blocked"}
    ValueMode = "status"
    WorkspaceIDs = {w1}
    AgentIDs = {a1}
    ForeignKeys = {"st_idle"}
    SlowHerdr = FALSE
    MaxLate = 1
CHECK_DEADLOCK FALSE
INVARIANTS OneTickHeals CoherentTokens
