SPECIFICATION Spec
CONSTANTS
    Services <- Chain
    DependsOn <- ChainDeps
    Builds = {"api"}
    Caps = {0}
    MaxDeps = 3
    Slow = {}
    Budget <- Crashes
PROPERTIES
    FailureHoldsBack
CHECK_DEADLOCK FALSE
