SPECIFICATION Spec
CONSTANTS
    Services <- Fan
    DependsOn <- FanDeps
    Builds <- FanBuilds
    Caps = {0, 1, 2}
    MaxDeps = 4
    Slow = {}
    Budget <- Crashes
INVARIANTS
    TypeOK
    RecordIsFinal
PROPERTIES
    BuildsCapped
    ImplementsOrder
CHECK_DEADLOCK FALSE
