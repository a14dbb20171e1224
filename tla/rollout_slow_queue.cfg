SPECIFICATION Spec
CONSTANTS
    Services <- Fan
    DependsOn <- FanDeps
    Builds <- FanBuilds
    Caps = {1}
    MaxDeps = 4
    Slow = {"queue"}
    Budget <- NoFaults
INVARIANTS
    SucceededMeansUp
CHECK_DEADLOCK FALSE
