SPECIFICATION Spec
CONSTANTS
    MaxDeps = 1
    Builds = FALSE
    HasVolume = FALSE
    Reconciles = TRUE
    Budget <- BudgetStop
PROPERTIES
    StoppedIsLeftAlone
CHECK_DEADLOCK FALSE
