SPECIFICATION FairSpec
CONSTANTS
    Services <- Pair
    DependsOn <- PairDeps
    Builds = {"api", "worker"}
    Caps = {0, 1}
    MaxDeps = 3
    Slow = {"queue", "layer"}
    Budget <- Anything
PROPERTIES
    RunEnds
CHECK_DEADLOCK FALSE
