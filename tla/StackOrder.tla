----------------------------- MODULE StackOrder -----------------------------
(***************************************************************************)
(* What the rollout of a stack promises, without layers, caps, processes   *)
(* or records: a service starts when everything it depends on is up, is    *)
(* held back when something it depends on is not going to be, and the run  *)
(* ends, with the verdict its services give, when nothing is left to do.   *)
(***************************************************************************)
CONSTANTS
    Services,
    DependsOn

VARIABLES
    phase,      \* how far each service is
    verdict     \* what the run says of itself

vars == <<phase, verdict>>

Init ==
    /\ phase = [s \in Services |-> "waiting"]
    /\ verdict = "none"

Begin ==
    /\ verdict = "none"
    /\ verdict' = "running"
    /\ UNCHANGED phase

\* A service starts, or cannot be started at all.
Start(s) ==
    /\ verdict = "running"
    /\ phase[s] = "waiting"
    /\ \A t \in DependsOn[s] : phase[t] = "succeeded"
    /\ \E p \in {"started", "failed"} : phase' = [phase EXCEPT ![s] = p]
    /\ UNCHANGED verdict

End(s) ==
    /\ phase[s] = "started"
    /\ \E p \in {"succeeded", "failed"} : phase' = [phase EXCEPT ![s] = p]
    /\ UNCHANGED verdict

\* Some services are held back, each for a dependency that failed or was held
\* back itself.
HoldBack(held) ==
    /\ verdict = "running"
    /\ held # {}
    /\ \A s \in held : /\ phase[s] = "waiting"
                       /\ \E t \in DependsOn[s] : phase[t] \in {"failed", "held"}
    /\ phase' = [s \in Services |-> IF s \in held THEN "held" ELSE phase[s]]
    /\ UNCHANGED verdict

\* An apply with errors of its own has failed even when every service is up.
Close ==
    /\ verdict = "running"
    /\ \A s \in Services : phase[s] \in {"succeeded", "failed", "held"}
    /\ LET some(p) == \E s \in Services : phase[s] = p
       IN  verdict' \in IF some("held") THEN {"stopped"}
                        ELSE IF some("failed") THEN {"failed"}
                        ELSE {"succeeded", "failed"}
    /\ UNCHANGED phase

Next ==
    \/ Begin
    \/ \E s \in Services : Start(s) \/ End(s)
    \/ \E held \in SUBSET Services : HoldBack(held)
    \/ Close

Spec == Init /\ [][Next]_vars
=============================================================================
