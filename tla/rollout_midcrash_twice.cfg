SPECIFICATION Spec
CONSTANTS
    Services <- Chain
    DependsOn <- ChainDeps
    Builds = {"api"}
    Caps = {0}
    MaxDeps = 4
    Slow = {}
    Budget <- MidCrash
INVARIANTS
    EachOnce
CHECK_DEADLOCK FALSE
