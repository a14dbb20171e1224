SPECIFICATION Spec
CONSTANTS
    Names <- Hosts
    Wildcard <- HostsWildcard
    Answers = {"a"}
    Requests = {"g1"}
    Budgets <- BudgetAsk
INVARIANTS
    ChangeTakesEffect
CHECK_DEADLOCK FALSE
