SPECIFICATION Spec
CONSTANTS
    None = None
    Stages = {"migrate.move"}
    Handlers = {h1, h2}
    Builds = {b1}
    MaxRequests = 3
    MaxDomains = 2
    MaxRestarts = 0
    MaxFailures = 0
CHECK_DEADLOCK FALSE
INVARIANT
    SettledIsServed
