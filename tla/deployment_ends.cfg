SPECIFICATION FairSpec
CONSTANTS
    MaxDeps = 1
    Builds = TRUE
    HasVolume = FALSE
    Reconciles = FALSE
    Budget <- BudgetEnds
PROPERTIES
    InFlightEnds
CHECK_DEADLOCK FALSE
