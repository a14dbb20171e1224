SPECIFICATION FairSpec
CONSTANTS
    MaxDeps = 1
    Builds = FALSE
    HasVolume = FALSE
    Reconciles = TRUE
    Budget <- BudgetStartStop
PROPERTIES
    StoppedMeansStopped
CHECK_DEADLOCK FALSE
