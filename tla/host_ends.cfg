SPECIFICATION Spec
CONSTANTS
    None = None
    Runners = {"unit", "hand"}
    Callers = {"a", "b"}
    Services = {"api", "caddy"}
    Channels = {c1}
    Shipped = {"compose"}
    MaxRelease = 1
    MaxPushes = 0
    MaxDomains = 0
    MaxRequests = 2
    MaxByHand = 1
    MaxFaults = 1
    MaxCrashes = 1
    MaxStops = 1
CHECK_DEADLOCK FALSE
INVARIANT
    NoneOverwritten
PROPERTY
    NeverRunningForever
    RequestsAreTaken
