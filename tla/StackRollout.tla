---------------------------- MODULE StackRollout ----------------------------
(***************************************************************************)
(* One run of a stack: the services an Apply or a Sync rolls out, layer by *)
(* layer in depends_on order, a cap on the builds at once, and a record of *)
(* the run from which it is carried on after the API restarts              *)
(* (packages/server/service/stack_rollout.go, stack_runs.go, the end of    *)
(* Apply in stack.go).  A deployment is here what waitDeployments and the  *)
(* cap read of its row; module Deployment is how it gets there.  Variants  *)
(* are the mistakes their neighbours could have been, as in Deployment.    *)
(***************************************************************************)
EXTENDS Integers, FiniteSets, FiniteSetsExt

CONSTANTS
    Services,       \* what the run rolls out
    DependsOn,      \* depends_on, of one service on others of the run
    Builds,         \* the services whose deploy builds an image
    Caps,           \* the values MaxParallelBuilds takes; 0 is no cap
    MaxDeps,        \* how many deployments are ever made: a bound
    Slow,           \* what may outlast stackRolloutWait: "queue", "layer"
    Budget          \* how often each of these happens: a bound

Expenses == {"crash", "midcrash", "delete", "setCap", "gone"}

\* serviceLayers: after everything a service depends on.
Layer[s \in Services] ==
    IF DependsOn[s] = {} THEN 0
    ELSE 1 + Max({Layer[t] : t \in DependsOn[s]})

ASSUME RolloutAssumption ==
    /\ IsFiniteSet(Services) /\ Services # {}
    /\ DependsOn \in [Services -> SUBSET Services]
    /\ Builds \subseteq Services
    /\ Caps \subseteq Nat /\ Caps # {}
    /\ MaxDeps \in Nat
    /\ Slow \subseteq {"queue", "layer"}
    /\ Budget \in [Expenses -> Nat]

\* Compose refuses depends_on with a cycle in it: the services can be ranked.
ASSUME NoCycle ==
    \E rank \in [Services -> 0 .. Cardinality(Services)] :
        \A s \in Services : \A t \in DependsOn[s] : rank[t] < rank[s]

VARIABLES
    dep,        \* the deployments: service and status
    cap,        \* the stack's max_parallel_builds
    run,        \* the run's row: status, rollout (its steps) and result
    proc,       \* the goroutine that follows the run, or the Apply request
    budget      \* what is left of Budget

vars == <<dep, cap, run, proc, budget>>

-----------------------------------------------------------------------------
(* Data *)

DepIds == 1 .. MaxDeps
NoDep == 0

Unfinished == {"building", "deploying"}
DepStatus == Unfinished \union {"success", "failed"}
NoRecord == {"none", "deleted"}

StepStatus == {"waiting", "started", "succeeded", "failed", "not_started"}
RolloutSteps == [Services -> [status : StepStatus, dep : DepIds \union {NoDep}]]
Ended == {"succeeded", "failed", "stopped"}

Waiting == [s \in Services |-> [status |-> "waiting", dep |-> NoDep]]

\* The follower's program counter: trigger is in triggerLayer, with todo left;
\* record is Apply's recordResult; queue is startQueuedBuilds; wait is
\* waitDeployments; save and close are the two writes of finishRun.
Points == {"none", "trigger", "record", "queue", "wait", "save", "close"}

NotRunning == [pc |-> "none", ret |-> "queue", steps |-> Waiting, todo |-> {},
               previous |-> {}, queued |-> {}, next |-> 0, blocked |-> {},
               max |-> 0, errors |-> FALSE]

TypeOK ==
    /\ dep \in [DepIds -> [svc : Services, status : DepStatus \union NoRecord]]
    /\ cap \in Caps
    /\ run \in [status : {"none", "running"} \union Ended, steps : RolloutSteps,
                errors : BOOLEAN]
    /\ proc \in [pc : Points, ret : {"record", "queue"}, steps : RolloutSteps,
                 todo : SUBSET Services, previous : SUBSET DepIds,
                 queued : SUBSET Services, next : Nat, blocked : SUBSET Services,
                 max : Nat, errors : BOOLEAN]
    /\ budget \in [Expenses -> Nat]

Spend(what) ==
    /\ budget[what] > 0
    /\ budget' = [budget EXCEPT ![what] = @ - 1]

InLayer(n) == {s \in Services : Layer[s] = n}
LastLayer == Max({Layer[s] : s \in Services})

\* capBuilds: what starts now of a layer - what builds nothing, and at most max
\* that do, whichever come first in the file.
StartNow(layer, max) ==
    IF max = 0 THEN {layer}
    ELSE {layer \ later : later \in
            {q \in SUBSET (layer \cap Builds) :
                Cardinality((layer \cap Builds) \ q) =
                    Min({max, Cardinality(layer \cap Builds)})}}

Init ==
    /\ dep = [i \in DepIds |-> [svc |-> CHOOSE s \in Services : TRUE, status |-> "none"]]
    /\ cap \in Caps
    /\ run = [status |-> "none", steps |-> Waiting, errors |-> FALSE]
    /\ proc = NotRunning
    /\ budget = Budget

-----------------------------------------------------------------------------
(* Apply and the follower *)

\* The end of Apply: the run's record, then its first layer; errors is whether
\* reconciling the records had any.
Apply ==
    /\ run.status = "none"
    /\ run' = [run EXCEPT !.status = "running"]
    /\ \E now \in StartNow(InLayer(0), cap), e \in BOOLEAN :
        proc' = [proc EXCEPT !.pc = "trigger", !.ret = "record", !.todo = now,
                             !.queued = InLayer(0) \ now, !.next = 1, !.max = cap,
                             !.errors = e]
    /\ UNCHANGED <<dep, cap, budget>>

\* triggerLayer starts one service's deployment, or it cannot be started; the
\* row is made at once and the step is in memory until the layer is done.
TriggerOne(s) ==
    /\ proc.pc = "trigger"
    /\ s \in proc.todo
    /\ \/ \E i \in DepIds :
            /\ dep[i].status = "none"
            /\ \A j \in DepIds : j < i => dep[j].status # "none"
            /\ dep' = [dep EXCEPT ![i] = [svc |-> s, status |-> IF s \in Builds
                                                     THEN "building" ELSE "deploying"]]
            /\ proc' = [proc EXCEPT !.todo = @ \ {s},
                                    !.previous = @ \union {i},
                                    !.steps[s] = [status |-> "started", dep |-> i]]
       \/ /\ proc' = [proc EXCEPT !.todo = @ \ {s},
                                  !.steps[s].status = "failed",
                                  !.errors = @ \/ proc.ret = "record"]
          /\ UNCHANGED dep
    /\ UNCHANGED <<cap, run, budget>>

\* triggerLayer ends by saving the steps.
SaveLayer ==
    /\ proc.pc = "trigger"
    /\ proc.todo = {}
    /\ run' = [run EXCEPT !.steps = proc.steps]
    /\ proc' = [proc EXCEPT !.pc = proc.ret, !.ret = "queue"]
    /\ UNCHANGED <<dep, cap, budget>>

\* What the apply said, errors included, is kept with the run.
recordResult ==
    /\ proc.pc = "record"
    /\ run' = [run EXCEPT !.errors = proc.errors]
    /\ proc' = [proc EXCEPT !.pc = "queue"]
    /\ UNCHANGED <<dep, cap, budget>>

\* Variant: builds are counted by the wrong status.
BuildingMiscounted == Cardinality({i \in proc.previous : dep[i].status = "deploying"})
Building == Cardinality({i \in proc.previous : dep[i].status = "building"})

\* startQueuedBuilds: builds start as places free up under the cap, until the
\* queue is empty or has waited for stackRolloutWait; a cap of 0, read by a
\* resumed run, leaves no place free ever.
startQueuedBuilds ==
    /\ proc.pc = "queue"
    /\ \/ /\ proc.queued = {}
          /\ proc' = [proc EXCEPT !.pc = "wait"]
       \/ /\ proc.queued # {} /\ proc.max > Building
          /\ \E q \in SUBSET proc.queued :
                /\ Cardinality(q) = Min({proc.max - Building, Cardinality(proc.queued)})
                /\ proc' = [proc EXCEPT !.pc = "trigger", !.todo = q, !.queued = @ \ q]
       \/ /\ proc.queued # {} /\ proc.max <= Building
          /\ "queue" \in Slow \/ proc.max = 0
          /\ proc' = [proc EXCEPT !.pc = "wait", !.queued = {}]
    /\ UNCHANGED <<dep, cap, run, budget>>

\* Variant: nothing reads how the deployments ended.
OutcomeUnread == proc.steps

\* stepByDeployment, for the deployments waitDeployments found ended.
Outcome ==
    [s \in Services |->
        LET i == proc.steps[s].dep
        IN  IF i \notin proc.previous \/ dep[i].status \notin {"success", "failed"}
            THEN proc.steps[s]
            ELSE [proc.steps[s] EXCEPT !.status = IF dep[i].status = "success"
                                                 THEN "succeeded" ELSE "failed"]]

FailedNames(steps) == {s \in Services : steps[s].status = "failed"}

\* Variant: only what has nothing left to depend on is held back.
HeldBackByAll(layer, blocked) == {s \in layer : DependsOn[s] \subseteq blocked}

\* holdBack, and the steps of what it holds back.
HeldBack(layer, blocked) == {s \in layer : DependsOn[s] \cap blocked # {}}

StillWaiting(steps, layer) == {s \in layer : steps[s].status = "waiting"}

\* Variant: a deleted record never counts as ended.
PreviousRecorded == \A i \in proc.previous : dep[i].status \in {"success", "failed"}

\* waitDeployments: no deployment of the layer is unfinished any more.
PreviousEnded ==
    \A i \in proc.previous : dep[i].status \in {"success", "failed", "deleted"}

\* The next layer: the failed services and what was held back for them hold
\* back their own; the rest of the layer starts, under the cap.
NextLayer ==
    /\ proc.pc = "wait"
    /\ PreviousEnded
    /\ proc.next <= LastLayer
    /\ LET blocked == proc.blocked \union FailedNames(Outcome)
           layer == StillWaiting(Outcome, InLayer(proc.next))
           held == HeldBack(layer, blocked)
       IN  \E now \in StartNow(layer \ held, proc.max) :
            proc' = [proc EXCEPT
                !.pc = "trigger", !.ret = "queue", !.previous = {}, !.next = @ + 1,
                !.todo = now, !.queued = (layer \ held) \ now,
                !.blocked = blocked \union held,
                !.steps = [s \in Services |-> IF s \in held
                                              THEN [Outcome[s] EXCEPT !.status = "not_started"]
                                              ELSE Outcome[s]]]
    /\ UNCHANGED <<dep, cap, run, budget>>

LayersDone ==
    /\ proc.pc = "wait"
    /\ PreviousEnded
    /\ proc.next > LastLayer
    /\ proc' = [proc EXCEPT !.pc = "save", !.steps = Outcome]
    /\ UNCHANGED <<dep, cap, run, budget>>

\* stopRest: what never started is not going to be.
StopRest(steps) ==
    [s \in Services |-> IF steps[s].status = "waiting"
                        THEN [steps[s] EXCEPT !.status = "not_started"] ELSE steps[s]]

\* The layer took longer than stackRolloutWait (or its rows could not be read):
\* nothing after it starts.
WaitTimesOut ==
    /\ proc.pc = "wait"
    /\ \E i \in proc.previous : dep[i].status \in Unfinished
    /\ "layer" \in Slow
    /\ proc' = [proc EXCEPT !.pc = "save", !.steps = StopRest(Outcome)]
    /\ UNCHANGED <<dep, cap, run, budget>>

\* finishRun: the steps, then the verdict read from them.
FinishSave ==
    /\ proc.pc = "save"
    /\ run' = [run EXCEPT !.steps = proc.steps]
    /\ proc' = [proc EXCEPT !.pc = "close"]
    /\ UNCHANGED <<dep, cap, budget>>

\* Variant: a step's state given for the run's.
VerdictMixedUp(steps, errors) ==
    IF \E s \in Services : steps[s].status = "not_started" THEN "not_started"
    ELSE IF errors \/ FailedNames(steps) # {} THEN "failed"
    ELSE "succeeded"

Verdict(steps, errors) ==
    IF \E s \in Services : steps[s].status = "not_started" THEN "stopped"
    ELSE IF errors \/ FailedNames(steps) # {} THEN "failed"
    ELSE "succeeded"

finishRun ==
    /\ proc.pc = "close"
    /\ run' = [run EXCEPT !.status = Verdict(proc.steps, proc.errors)]
    /\ proc' = NotRunning
    /\ UNCHANGED <<dep, cap, budget>>

-----------------------------------------------------------------------------
(* A restart of the API *)

\* Between two saves of the steps, or (midcrash) between a deployment's row and
\* the save that records it.
Crash ==
    /\ proc.pc # "none"
    /\ Spend(IF proc.pc = "trigger" THEN "midcrash" ELSE "crash")
    /\ proc' = NotRunning
    /\ UNCHANGED <<dep, cap, run>>

\* resumePlan: the layer in flight is the last one with a step that started.
Current(steps) ==
    Max({-1} \union {Layer[s] : s \in {t \in Services :
                        steps[t].status \notin {"waiting", "not_started"}}})

resumeRun ==
    /\ proc.pc = "none"
    /\ run.status = "running"
    /\ LET current == Current(run.steps)
           here == {s \in Services : Layer[s] = current}
       IN proc' = [NotRunning EXCEPT
            !.pc = "queue", !.steps = run.steps,
            !.previous = {run.steps[s].dep : s \in here} \ {NoDep},
            !.queued = StillWaiting(run.steps, here),
            !.next = current + 1,
            !.max = cap,
            !.errors = run.errors]
    /\ UNCHANGED <<dep, cap, run, budget>>

\* The stack cannot be read, as when it is gone: the run is closed.
ResumeGone ==
    /\ proc.pc = "none"
    /\ run.status = "running"
    /\ Spend("gone")
    /\ proc' = [NotRunning EXCEPT !.pc = "save", !.steps = StopRest(run.steps),
                                  !.errors = run.errors]
    /\ UNCHANGED <<dep, cap, run>>

-----------------------------------------------------------------------------
(* What else happens *)

\* The deployments' own progress.
DeployStep(i) ==
    /\ \/ dep[i].status = "building"
          /\ \E st \in {"deploying", "failed"} : dep' = [dep EXCEPT ![i].status = st]
       \/ dep[i].status = "deploying"
          /\ \E st \in {"success", "failed"} : dep' = [dep EXCEPT ![i].status = st]
    /\ UNCHANGED <<cap, run, proc, budget>>

\* A finished deployment's record is deleted.
DeleteRecord(i) ==
    /\ dep[i].status \in {"success", "failed"}
    /\ Spend("delete")
    /\ dep' = [dep EXCEPT ![i].status = "deleted"]
    /\ UNCHANGED <<cap, run, proc>>

\* The stack is edited: the next run, or a resumed one, reads the new cap.
SetCap ==
    /\ Spend("setCap")
    /\ cap' \in Caps \ {cap}
    /\ UNCHANGED <<dep, run, proc>>

-----------------------------------------------------------------------------

Follower ==
    \/ \E s \in Services : TriggerOne(s)
    \/ SaveLayer \/ recordResult \/ startQueuedBuilds
    \/ NextLayer \/ LayersDone \/ WaitTimesOut
    \/ FinishSave \/ finishRun

Resume == resumeRun \/ ResumeGone

Next ==
    \/ Apply \/ Follower \/ Crash \/ Resume \/ SetCap
    \/ \E i \in DepIds : DeployStep(i) \/ DeleteRecord(i)

\* The follower goes on, a restarted API resumes the run, and every deployment
\* ends (module Deployment, InFlightEnds).
Fairness ==
    /\ WF_vars(Follower)
    /\ WF_vars(Resume)
    /\ \A i \in DepIds : WF_vars(DeployStep(i))

Spec == Init /\ [][Next]_vars
FairSpec == Spec /\ Fairness

-----------------------------------------------------------------------------
(* Properties *)

Made(i) == dep[i].status = "none" /\ dep'[i].status # "none"

\* A failure holds back what depends on it, directly or through a service it
\* held back: a service starts only beside dependencies that came up.
FailureHoldsBack ==
    [][\A i \in DepIds : Made(i) =>
          \A t \in DependsOn[dep'[i].svc] :
              \E j \in DepIds : dep[j].svc = t /\ dep[j].status = "success"]_vars

\* MaxParallelBuilds: a build starts only while fewer than that many of the
\* stack's builds are going on.
BuildsCapped ==
    [][\A i \in DepIds : Made(i) /\ dep'[i].status = "building" /\ proc.max > 0 =>
          Cardinality({j \in DepIds : dep[j].status = "building"}) < proc.max]_vars

\* A run, however often resumed, starts each service once.
EachOnce ==
    \A i, j \in DepIds : dep[i].status # "none" /\ dep[j].status # "none" /\ i # j =>
        dep[i].svc # dep[j].svc

\* Status is running until the last layer has finished.
RunCoversItsLayers ==
    run.status \in Ended => \A i \in DepIds : dep[i].status \notin Unfinished

\* A run said to have succeeded has every service of it up.
SucceededMeansUp ==
    run.status = "succeeded" =>
        \A s \in Services : \E i \in DepIds : dep[i].svc = s /\ dep[i].status = "success"

\* The record of a run that ended says how each service went: its step is its
\* deployment's end, and none is left waiting or started.
RecordIsFinal ==
    run.status \in Ended =>
        \A s \in Services :
            LET st == run.steps[s]
            IN  CASE st.status = "succeeded" -> st.dep # NoDep /\ dep[st.dep].status = "success"
                  [] st.status = "failed" -> st.dep # NoDep => dep[st.dep].status = "failed"
                  [] st.status = "not_started" -> st.dep = NoDep
                  [] OTHER -> FALSE

\* A run is closed in the end, whatever fails or restarts.
RunEnds == run.status = "running" ~> run.status \in Ended

\* The order of the run as its caller sees it (module StackOrder): what a
\* service's deployment says or, if it has none, its step.  A service deployed
\* twice is in no phase of that order.
Steps == IF proc.pc = "none" THEN run.steps ELSE proc.steps
Phase ==
    [s \in Services |->
        LET mine == {i \in DepIds : dep[i].svc = s /\ dep[i].status # "none"}
        IN  IF Cardinality(mine) > 1 THEN "twice"
            ELSE IF mine # {}
            THEN LET i == CHOOSE i \in mine : TRUE
                 IN  IF dep[i].status \in Unfinished THEN "started"
                     ELSE IF dep[i].status = "success" THEN "succeeded" ELSE "failed"
            ELSE CASE Steps[s].status = "failed" -> "failed"
                   [] Steps[s].status = "not_started" -> "held"
                   [] OTHER -> "waiting"]

Order == INSTANCE StackOrder WITH phase <- Phase, verdict <- run.status
ImplementsOrder == Order!Spec

=============================================================================
