SPECIFICATION Spec
CONSTANTS
    None = None
    Runners = {"unit", "hand"}
    Callers = {"a"}
    Services = {"api", "caddy"}
    Channels = {c1}
    Shipped = {"compose", "proxy"}
    MaxRelease = 1
    MaxPushes = 0
    MaxDomains = 0
    MaxRequests = 2
    MaxByHand = 0
    MaxFaults = 0
    MaxCrashes = 1
    MaxStops = 0
CHECK_DEADLOCK FALSE
INVARIANT
    UpgradedEdgeIsServed
