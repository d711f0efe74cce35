SPECIFICATION Spec
CONSTANTS
    Nil = Nil
    Foreign = Foreign
    NoSnapshot = NoSnapshot
    NoRequest = NoRequest
    Labels = {"alpha"}
    Statuses = {"blocked"}
    ValueMode = "label"
    WorkspaceIDs = {w1, w2}
    AgentIDs = {}
    ForeignKeys = {}
    SlowHerdr = FALSE
    MaxLate = 0
CHECK_DEADLOCK FALSE
SYMMETRY Symmetry
INVARIANTS TypeOK OneTickHeals TracksOpenWorkspaces CoherentTokens
PROPERTIES NeverBlanks StaysRight WritesOnlyWhenNeeded WindsDown PublishesReadings
