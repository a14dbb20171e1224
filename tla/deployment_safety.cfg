SPECIFICATION Spec
CONSTANTS
    MaxDeps = 2
    Builds = TRUE
    HasVolume = TRUE
    Reconciles = FALSE
    Budget <- BudgetUsers
INVARIANTS
    TypeOK
    ImageWasBuilt
    SuccessWasDeployed
    SomebodyFollows
    OneFollower
PROPERTIES
    FinalIsFinal
CONSTRAINT EarlyOrCancel
CHECK_DEADLOCK FALSE
