CONSTANTS
    FULL = 1
    ROUTE = 1
    STEP_TRAVEL = 1
    MAX_TRAVEL = 2
    ERROR <- Errors
    Ids = {0, 1}
    MAX_ACTIVITIES = 1
    Commands <- SomeCommands
    Remotes = {"Down"}
    NewConfigs <- TwoConfigs
    Removable = {1}
    Editable = {0}
SPECIFICATION Spec
INVARIANTS TypeOK
PROPERTIES RefusalsAreWhole
