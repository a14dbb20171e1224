SPECIFICATION Spec
CONSTANTS
    Groups <- TwoGroups
    Applications <- ShopAndBlog
    Databases <- ShopData
    Stacks = {"wiki"}
    Dumped = {"pg"}
    Copied = {"wiki"}
    Ports = {"pg"}
    Domains <- HostNames
    Host = "host"
    Plans <- EitherPlan
    Unused = {"web"}
    UndoFails <- Stoppable
    EdgeFirst = {TRUE, FALSE}
    Budget <- FailOnce
    Troubles = 1
INVARIANTS
    TypeOK
    OneSide
    PutBack
    FirstMoveLosesNothing
    NothingGoesDark
    JournalTells
    RemovedRuns
PROPERTIES
    ImplementsHandover
CHECK_DEADLOCK FALSE
