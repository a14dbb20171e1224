SPECIFICATION FairSpec
CONSTANTS
    None = None
    NotYet = NotYet
    Gone = Gone
    Routes = {"a", "b"}
    Ports = {1, 2}
    Zones = {"public", "mesh"}
    To = {"x", "y"}
    MeshIP = TRUE
    Budgets <- BudgetsAll
CHECK_DEADLOCK FALSE
INVARIANT
    TypeOK
    OpenAsAsked
    SteadyIsOpen
PROPERTY
    Converges
