SPECIFICATION Spec
CONSTANTS
    None = None
    Runners = {"unit", "hand"}
    Callers = {"a"}
    Services = {"api", "caddy"}
    Channels = {c1}
    Shipped = {"compose", "proxy"}
    MaxRelease = 2
    MaxPushes = 0
    MaxDomains = 0
    MaxRequests = 2
    MaxByHand = 0
    MaxFaults = 1
    MaxCrashes = 1
    MaxStops = 0
CHECK_DEADLOCK FALSE
INVARIANT
    RolledBackIsWhole
