SPECIFICATION Spec
CONSTANTS
    None = None
    Stages = {"migrate.move"}
    Handlers = {h1}
    Builds = {b1}
    MaxRequests = 2
    MaxDomains = 1
    MaxRestarts = 1
    MaxFailures = 0
CHECK_DEADLOCK FALSE
INVARIANT
    RunningIsRunning
