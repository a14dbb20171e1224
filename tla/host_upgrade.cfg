SPECIFICATION Spec
CONSTANTS
    None = None
    Runners = {"direct"}
    Callers = {"a"}
    Services = {"api", "caddy"}
    Channels = {c1, c2}
    Shipped = {"compose"}
    MaxRelease = 1
    MaxPushes = 1
    MaxDomains = 1
    MaxRequests = 0
    MaxByHand = 2
    MaxFaults = 2
    MaxCrashes = 1
    MaxStops = 0
SYMMETRY Symmetric
CONSTRAINT CrashesApart
CHECK_DEADLOCK FALSE
INVARIANT
    TypeOK
    SucceededIsWhole
    FailureRestores
    ServedIsOnDisk
