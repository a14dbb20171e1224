---------------------------- MODULE MCDeployment ----------------------------
(* Instances of Deployment for TLC: what the environment may do, how often. *)
EXTENDS Deployment, TLC

Spending(crash, soon, cancel, delete, stop, start, flap) ==
    [e \in Expenses |-> CASE e = "crash" -> crash
                          [] e = "early" -> soon
                          [] e = "cancel" -> cancel
                          [] e = "delete" -> delete
                          [] e = "stop" -> stop
                          [] e = "start" -> start
                          [] e = "flap" -> flap]

\* Bound: a behaviour has a request before ResumeInFlight, or a cancel, not both.
EarlyOrCancel ==
    budget["early"] = Budget["early"] \/ budget["cancel"] = Budget["cancel"]

BudgetRestart == Spending(1, 0, 0, 0, 0, 0, 0)
BudgetFirst == Spending(0, 1, 0, 0, 0, 0, 0)
BudgetCancel == Spending(0, 0, 1, 0, 0, 0, 0)
BudgetUsers == Spending(2, 1, 1, 0, 0, 0, 0)
BudgetEnds == Spending(2, 1, 1, 1, 1, 1, 0)
BudgetStatus == Spending(1, 0, 1, 0, 1, 1, 1)
BudgetStop == Spending(0, 0, 0, 0, 1, 0, 0)
BudgetStartStop == Spending(0, 0, 0, 0, 1, 1, 0)
=============================================================================
