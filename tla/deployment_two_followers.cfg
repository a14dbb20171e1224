SPECIFICATION Spec
CONSTANTS
    MaxDeps = 1
    Builds = TRUE
    HasVolume = FALSE
    Reconciles = FALSE
    Budget <- BudgetFirst
INVARIANTS
    NeverTwoFollowers
CHECK_DEADLOCK FALSE
