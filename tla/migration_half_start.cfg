SPECIFICATION Spec
CONSTANTS
    Groups <- TwoGroups
    Applications <- ShopAndBlog
    Databases <- ShopData
    Stacks = {"wiki"}
    Dumped = {"pg"}
    Copied = {"wiki"}
    Ports = {"pg"}
    Domains <- HostNames
    Host = "host"
    Plans <- EitherPlan
    Unused = {"web"}
    UndoFails <- Stoppable
    EdgeFirst = {TRUE, FALSE}
    Budget <- StartsByHalves
    Troubles = 1
INVARIANTS
    OneSide
CHECK_DEADLOCK FALSE
