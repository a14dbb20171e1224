SPECIFICATION Spec
CONSTANTS
    MaxDeps = 2
    Builds = TRUE
    HasVolume = FALSE
    Reconciles = FALSE
    Budget <- BudgetRestart
INVARIANTS
    EverySuccessWasApplied
CHECK_DEADLOCK FALSE
