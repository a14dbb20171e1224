----------------------------- MODULE MCTcpRoutes -----------------------------
(***************************************************************************)
(* Instances of TcpRoutes: budgets for what the users and the machine do.  *)
(***************************************************************************)
EXTENDS TcpRoutes

\* Users at work on a healthy machine; a machine that fails while little
\* changes; and other programs on the gateway's ports.
BudgetUsers == [change |-> 3, outage |-> 0, crash |-> 0, disk |-> 0, take |-> 0]
BudgetFailures == [change |-> 2, outage |-> 1, crash |-> 1, disk |-> 1, take |-> 0]
BudgetPorts == [change |-> 2, outage |-> 0, crash |-> 1, disk |-> 0, take |-> 1]
BudgetsAll == {BudgetUsers, BudgetFailures, BudgetPorts}
=============================================================================
