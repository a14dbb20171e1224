---------------------------- MODULE MCRouteCache ----------------------------
(* Instances of RouteCache for TLC: one hostname, the wildcard over it, and *)
(* what changes and fails.                                                  *)
EXTENDS RouteCache, TLC

Hosts == {"app", "*"}
HostsWildcard == ("app" :> "*") @@ ("*" :> NoName)

Spending(change, fallback, outage, crash, ask, write) ==
    ("change" :> change) @@ ("fallback" :> fallback) @@ ("outage" :> outage)
        @@ ("crash" :> crash) @@ ("ask" :> ask) @@ ("disk" :> write)

\* Everything but a change of a change, and a change of a change.
BudgetsAll ==
    {Spending(2, 0, 1, 1, 1, 0), Spending(1, 1, 1, 1, 0, 1),
     Spending(1, 1, 0, 1, 1, 1)}
BudgetAsk == {Spending(1, 0, 0, 0, 1, 0)}
BudgetOutage == {Spending(1, 0, 1, 0, 0, 0)}
=============================================================================
