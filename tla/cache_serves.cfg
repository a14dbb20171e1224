SPECIFICATION FairSpec
CONSTANTS
    Names <- Hosts
    Wildcard <- HostsWildcard
    Answers = {"a"}
    Requests = {"g1"}
    Budgets <- BudgetsAll
INVARIANTS
    TypeOK
    SteadyIsServed
    SavedWasPublished
PROPERTIES
    EventuallyFresh
CHECK_DEADLOCK FALSE
