SPECIFICATION Spec
CONSTANTS
    None = None
    Stages = {"migrate.move"}
    Handlers = {h1, h2}
    Builds = {b1}
    MaxRequests = 2
    MaxDomains = 2
    MaxRestarts = 1
    MaxFailures = 1
CHECK_DEADLOCK FALSE
INVARIANT
    TypeOK
    RunOnce
    PublishedIsServed
PROPERTY
    RequestsAreAnswered
