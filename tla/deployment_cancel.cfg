SPECIFICATION Spec
CONSTANTS
    MaxDeps = 1
    Builds = TRUE
    HasVolume = FALSE
    Reconciles = FALSE
    Budget <- BudgetCancel
PROPERTIES
    FailedStaysFailed
CHECK_DEADLOCK FALSE
