SPECIFICATION FairSpec
CONSTANTS
    MaxDeps = 1
    Builds = FALSE
    HasVolume = TRUE
    Reconciles = TRUE
    Budget <- BudgetStatus
PROPERTIES
    StatusFollowsCluster
CHECK_DEADLOCK FALSE
