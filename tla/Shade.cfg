CONSTANTS
    FULL = 2
    ROUTE = 1
    STEP_TRAVEL = 2
    MAX_TRAVEL = 4
    ERROR <- Errors
    Ids = {0}
    MAX_ACTIVITIES = 1
    Commands <- AllCommands
    Remotes = {"Up", "Down", "My", "StepUp", "StepDown", "Prog"}
    NewConfigs <- OneConfig
    Removable = {}
    Editable = {}
SPECIFICATION FairSpec
INVARIANTS OneMovement EstimateIsCommanded
PROPERTIES ClockOnlyContinues SequencesEnd
