SPECIFICATION Spec
CONSTANTS
    Services <- Chain
    DependsOn <- ChainDeps
    Builds = {"api"}
    Caps = {0}
    MaxDeps = 3
    Slow = {"layer"}
    Budget <- NoFaults
INVARIANTS
    RunCoversItsLayers
CHECK_DEADLOCK FALSE
