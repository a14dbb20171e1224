-------------------------- MODULE DeploymentProofs --------------------------
(***************************************************************************)
(* Theorems of Deployment, for any number of deployments and any budget:   *)
(* its types; that a deployment in flight is always followed; that what is *)
(* in the cluster was built, and what is recorded as a success was in the  *)
(* cluster; that one goroutine follows a deployment, unless it was made    *)
(* before ResumeInFlight had run; and that what it recorded stays, unless  *)
(* the deployment was cancelled.                                           *)
(***************************************************************************)
EXTENDS Deployment, TLAPS

-----------------------------------------------------------------------------
(* Strengthenings *)

\* A goroutine that still has the deployment's row to write before it ends.
Closing == {"idle", "succeedSvc", "failSvc", "failLast"}
Attends(d, r) == task[d][r].pc \notin Closing

\* SomebodyFollows, by somebody who is going to write how it went.
Attended ==
    api.up /\ api.resumed =>
        \A d \in Deps : row[d].status \in InFlight =>
            \E r \in {"run", "resume"} : Attends(d, r)

\* A Job that succeeded has pushed its image.
JobsPushed == \A d \in Deps : job[d] = "succeeded" => d \in registry

\* An image of a deployment's own was built, and first applied by it.
ReachedWasBuilt == \A d \in Deps : d \in reached => d \in registry /\ d \in applied

\* The workload, and the service's row, name images that were in the cluster.
AppWasReached == app.exists \/ app.image \in Deps => app.image \in reached
ServiceWasReached == svc.image \in Deps => svc.image \in reached

\* A build's row names its own image; another's, one that was in the cluster.
RowsName ==
    \A d \in Deps : row[d].status # "none" =>
        IF row[d].kind = "build" THEN row[d].image = d
        ELSE row[d].image \in Deps => row[d].image \in reached

\* A goroutine's deployment has, or had, a row.
TasksHaveRows ==
    \A d \in Deps, r \in Roles : task[d][r].pc # "idle" => row[d].status # "none"

BuiltSteps == {"deploying", "apply"}
AppliedSteps == {"publish", "watch", "rewatch", "succeed", "succeedSvc"}
Applied(point) ==
    point.pc \in AppliedSteps \/ (point.pc # "idle" /\ point.why = "rollout")

\* Past its Job, a build's image is there; past startWorkload, it was applied.
AfterBuild ==
    \A d \in Deps, r \in Roles :
        task[d][r].pc \in BuiltSteps /\ row[d].kind = "build" => d \in registry

AfterApply ==
    \A d \in Deps, r \in Roles :
        Applied(task[d][r]) =>
            /\ row[d].image \in reached
            /\ row[d].kind = "build" => d \in applied

\* The parts about the cluster and the service, and about rows and goroutines.
OfCluster == JobsPushed /\ ReachedWasBuilt /\ AppWasReached /\ ServiceWasReached
OfTasks == RowsName /\ SuccessWasDeployed /\ TasksHaveRows /\ AfterBuild /\ AfterApply

Provenance == OfCluster /\ OfTasks

\* The image a Start has read off the service's row, and is about to apply.
OfOperation == op.image \in Deps => op.image \in reached

-----------------------------------------------------------------------------
(* Types *)

\* Every initial state has the types of TypeOK.
LEMMA InitTypeOK == Init => TypeOK
BY DeploymentAssumption
DEF Init, TypeOK, Rows, ServiceRows, Workloads, Points, Ticks, Deps, Images, External,
    NoImage, DeploymentStatus, InFlight, NoRow, NoRecord, ServiceStatus, JobStatus,
    Health, Roles, Steps, Reasons, Idle, Operations, NoOp

\* What the shorthands of the goroutines write has its type.
LEMMA GotoType ==
    ASSUME TypeOK, NEW d \in Deps, NEW r \in Roles, NEW next \in Points, Goto(d, r, next)
    PROVE  task' \in [Deps -> [Roles -> Points]]
BY DEF TypeOK, Goto

\* A write of one deployment's status leaves rows of their type.
LEMMA SetStatusType ==
    ASSUME TypeOK, NEW d \in Deps, NEW status \in DeploymentStatus, SetStatus(d, status)
    PROVE  row' \in [Deps -> Rows]
<1>1. [row[d] EXCEPT !.status = status] \in Rows
  BY DEF TypeOK, Rows
<1>2. QED
  BY <1>1 DEF TypeOK, SetStatus

\* What the environment does is taken off a budget that stays a number.
LEMMA SpendType ==
    ASSUME TypeOK, NEW what \in Expenses, Spend(what)
    PROVE  budget' \in [Expenses -> Nat]
BY DEF TypeOK, Spend

\* Where a goroutine is sent is a point it can be at.
LEMMA PointTypes ==
    /\ Idle \in Points
    /\ \A step \in Steps : At(step) \in Points
    /\ \A reason \in Reasons : Failing(reason) \in Points
BY DEF Idle, At, Failing, Points, Steps, Reasons

\* ApplyDeployment leaves a workload that can be rolled out.
LEMMA RevisionType ==
    ASSUME TypeOK, NEW image \in Images \union {NoImage}
    PROVE  Revision(image) \in Workloads
BY DeploymentAssumption DEF TypeOK, Revision, Available, Workloads, Health

\* deriveServiceStatus answers with a status a service can have.
LEMMA DerivedType == deriveServiceStatus(app) \in ServiceStatus
BY DEF deriveServiceStatus, ServiceStatus

\* Every request keeps the types.
LEMMA RequestTypes ==
    ASSUME TypeOK, NEW d \in Deps, Request(d)
    PROVE  TypeOK'
<1> USE PointTypes DEF Roles, cluster, history
<1>1. \A status \in DeploymentStatus, kind \in {"build", "image", "reuse"},
         image \in Images \union {NoImage}, step \in Steps :
            Create(d, status, kind, image, step) => TypeOK'
  <2>1. SUFFICES ASSUME NEW status \in DeploymentStatus, NEW kind \in {"build", "image", "reuse"},
                        NEW image \in Images \union {NoImage}, NEW step \in Steps,
                        Create(d, status, kind, image, step)
                 PROVE  TypeOK'
    OBVIOUS
  <2>2. row' \in [Deps -> Rows]
    BY <2>1 DEF Create, TypeOK, Rows
  <2>3. task' \in [Deps -> [Roles -> Points]]
    BY <2>1, GotoType DEF Create
  <2>4. budget' \in [Expenses -> Nat] /\ early' \in SUBSET Deps
    BY <2>1, SpendType DEF Create, TypeOK, Expenses
  <2>5. QED
    BY <2>1, <2>2, <2>3, <2>4 DEF Create, TypeOK
<1>2. CASE Trigger(d)
  BY <1>1, <1>2 DEF Trigger, DeploymentStatus, InFlight, Steps, Images
<1>3. CASE triggerDirectDeploy(d)
  BY <1>1, <1>3 DEF triggerDirectDeploy, DeploymentStatus, InFlight, Steps, TypeOK, ServiceRows
<1>4. CASE Rollback(d)
  BY <1>1, <1>4 DEF Rollback, DeploymentStatus, InFlight, Steps, TypeOK, Rows
<1>5. CASE Redeploy(d)
  BY <1>1, <1>5 DEF Redeploy, DeploymentStatus, InFlight, Steps, TypeOK, Rows
<1>6. CASE Cancel(d)
  BY <1>6, GotoType, SpendType DEF Cancel, DeleteJob, TypeOK, JobStatus, Expenses, Steps
<1>7. CASE DeleteRecord(d)
  <2>1. [row[d] EXCEPT !.status = "deleted"] \in Rows
    BY DEF TypeOK, Rows, NoRecord
  <2>2. QED
    BY <1>7, <2>1, SpendType DEF DeleteRecord, TypeOK, Expenses
<1>8. QED
  BY <1>2, <1>3, <1>4, <1>5, <1>6, <1>7 DEF Request

\* Every step of the goroutine that made a deployment, and of resume's first.
LEMMA PipelineTypes ==
    ASSUME TypeOK, NEW d \in Deps, Pipeline(d)
    PROVE  TypeOK'
<1> USE PointTypes DEF Roles, cluster, history
<1>1. CASE MarkDeploying(d)
  BY <1>1, GotoType DEF MarkDeploying, TypeOK, ServiceRows, ServiceStatus, Steps, Reasons
<1>2. CASE CreateBuildJob(d)
  BY <1>2, GotoType DEF CreateBuildJob, TypeOK, JobStatus, Steps, Reasons
<1>3. CASE NotePending(d)
  BY <1>3, GotoType, SetStatusType
  DEF NotePending, TypeOK, Steps, DeploymentStatus, InFlight
<1>4. CASE CancelRow(d)
  BY <1>4, GotoType, SetStatusType DEF CancelRow, TypeOK, DeploymentStatus
<1>5. CASE ResumeBuild(d)
  BY <1>5, GotoType, SetStatusType
  DEF ResumeBuild, TypeOK, Steps, Reasons, DeploymentStatus, InFlight
<1>6. CASE ResumeRollout(d)
  BY <1>6, GotoType DEF ResumeRollout, TypeOK, Steps, Reasons
<1>7. QED
  BY <1>1, <1>2, <1>3, <1>4, <1>5, <1>6 DEF Pipeline

\* Every step of a goroutine that follows a deployment.
LEMMA FollowTypes ==
    ASSUME TypeOK, NEW d \in Deps, NEW r \in {"run", "resume"}, Follow(d, r)
    PROVE  TypeOK'
<1> USE PointTypes, GotoType, SetStatusType DEF Roles, cluster, history
<1>1. task[d][r] \in Points /\ row[d] \in Rows
  BY DEF TypeOK
<1>2. CASE OnStarted(d, r)
  BY <1>2 DEF OnStarted, TypeOK, Steps, DeploymentStatus, InFlight
<1>3. CASE WaitForJob(d, r)
  BY <1>3 DEF WaitForJob, TypeOK, Steps, Reasons
<1>4. CASE DropJob(d, r)
  BY <1>4 DEF DropJob, DeleteJob, TypeOK, JobStatus, Reasons
<1>5. CASE SetDeploying(d, r)
  BY <1>5 DEF SetDeploying, TypeOK, Steps, DeploymentStatus, InFlight
<1>6. CASE startWorkload(d, r)
  <2>1. task' \in [Deps -> [Roles -> Points]]
    BY <1>6 DEF startWorkload, Steps, Reasons
  <2>2. app' \in Workloads /\ applied' \in SUBSET Deps
            /\ reached' \in SUBSET (Images \union {NoImage})
    BY <1>1, <1>6, RevisionType DEF startWorkload, TypeOK, Rows
  <2>3. QED
    BY <1>6, <2>1, <2>2 DEF startWorkload, TypeOK
<1>7. CASE Publish(d, r)
  <2>1. svc' \in ServiceRows
    BY <1>7 DEF Publish, TypeOK, ServiceRows
  <2>2. task' \in [Deps -> [Roles -> Points]]
    BY <1>7 DEF Publish, Steps, Reasons
  <2>3. QED
    BY <1>7, <2>1, <2>2 DEF Publish, TypeOK
<1>8. CASE WatchRollout(d, r)
  <2>1. svc' \in ServiceRows
    <3>1. (svc.deployed \/ task[d][r].pc = "rewatch") \in BOOLEAN
      OBVIOUS
    <3>2. QED
      BY <1>8, <3>1 DEF WatchRollout, TypeOK, ServiceRows
  <2>2. task' \in [Deps -> [Roles -> Points]]
    BY <1>8 DEF WatchRollout, Steps, Reasons
  <2>3. QED
    BY <1>8, <2>1, <2>2 DEF WatchRollout, TypeOK
<1>9. CASE succeedDeployment(d, r)
  BY <1>9 DEF succeedDeployment, TypeOK, Steps, DeploymentStatus
<1>10. CASE SucceedService(d, r)
  BY <1>1, <1>10 DEF SucceedService, TypeOK, Rows, ServiceRows, ServiceStatus
<1>11. CASE failDeployment(d, r)
  <2>1. [task[d][r] EXCEPT !.pc = "failSvc"] \in Points
    BY <1>1 DEF Points, Steps
  <2>2. QED
    BY <1>11, <2>1 DEF failDeployment, TypeOK, DeploymentStatus
<1>12. CASE FailService(d, r)
  <2>1. [task[d][r] EXCEPT !.pc = "failLast"] \in Points
    BY <1>1 DEF Points, Steps
  <2>2. svc' \in ServiceRows
    BY <1>12 DEF FailService, TypeOK, ServiceRows, ServiceStatus
  <2>3. QED
    BY <1>12, <2>1, <2>2 DEF FailService, TypeOK
<1>13. CASE FailRollout(d, r)
  <2>1. svc' \in ServiceRows
    BY <1>1, <1>13 DEF FailRollout, TypeOK, Rows, ServiceRows, ServiceStatus
  <2>2. QED
    BY <1>13, <2>1 DEF FailRollout, TypeOK
<1>14. QED
  BY <1>2, <1>3, <1>4, <1>5, <1>6, <1>7, <1>8, <1>9, <1>10, <1>11, <1>12, <1>13
  DEF Follow

\* Every step of a Start or a Stop, and of the reconciler's tick.
LEMMA ServiceTypes ==
    ASSUME TypeOK, Stop \/ Start \/ Operate \/ Reconcile
    PROVE  TypeOK'
<1> USE DEF cluster, history
<1>1. CASE Stop
  BY <1>1, SpendType DEF Stop, NoOp, Operations, TypeOK, Workloads, Expenses
<1>2. CASE Start
  BY <1>2, SpendType DEF Start, NoOp, Operations, TypeOK, ServiceRows, ServiceStatus, Expenses
<1>3. CASE ReapplyService
  BY <1>3 DEF ReapplyService, TypeOK, ServiceRows, Operations
<1>4. CASE ReapplyWorkload
  <2>1. op.image \in Images \union {NoImage}
    BY DEF TypeOK, Operations
  <2>2. app' \in Workloads /\ reached' \in SUBSET (Images \union {NoImage})
    BY <1>4, <2>1, RevisionType DEF ReapplyWorkload, TypeOK
  <2>3. QED
    BY <1>4, <2>2 DEF ReapplyWorkload, TypeOK, Operations
<1>5. CASE ReapplyPublish
  BY <1>5 DEF ReapplyPublish, TypeOK, ServiceRows, Operations
<1>6. CASE WriteStatus
  BY <1>6 DEF WriteStatus, NoOp, Operations, TypeOK, ServiceRows, ServiceStatus
<1>7. CASE RecList
  BY <1>7 DEF RecList, reconciledStatuses, TypeOK, Ticks, ServiceRows, ServiceStatus
<1>8. CASE RecInFlight
  BY <1>8 DEF RecInFlight, TypeOK, Ticks
<1>9. CASE RecCluster
  BY <1>9, DerivedType DEF RecCluster, TypeOK, Ticks
<1>10. CASE RecWrite
  BY <1>10 DEF RecWrite, TypeOK, Ticks, ServiceRows
<1>11. QED
  BY <1>1, <1>2, <1>3, <1>4, <1>5, <1>6, <1>7, <1>8, <1>9, <1>10 DEF Operate, Reconcile

\* Every step of the API's restart, and of the cluster.
LEMMA SystemTypes ==
    ASSUME TypeOK,
           \/ Crash \/ Restart \/ ResumeInFlight \/ RolloutSettles \/ PodsFlap
           \/ \E d \in Deps : K8s(d)
    PROVE  TypeOK'
<1> USE DEF cluster, history
<1>1. CASE Crash
  BY <1>1, PointTypes, SpendType
  DEF Crash, TypeOK, Ticks, ServiceStatus, Expenses, NoOp, Operations
<1>2. CASE Restart
  BY <1>2 DEF Restart, TypeOK
<1>3. CASE ResumeInFlight
  <2>1. \A d \in Deps : At(ResumeStep(row[d])) \in Points
    BY PointTypes DEF ResumeStep, Steps
  <2>2. QED
    BY <1>3, <2>1 DEF ResumeInFlight, TypeOK, Roles
<1>4. CASE RolloutSettles
  BY <1>4 DEF RolloutSettles, TypeOK, Workloads, Health
<1>5. CASE PodsFlap
  BY <1>5, SpendType DEF PodsFlap, TypeOK, Workloads, Health, Expenses
<1>6. ASSUME NEW d \in Deps, K8s(d) PROVE TypeOK'
  BY <1>6 DEF K8s, JobStarts, JobEnds, JobExpires, TypeOK, JobStatus
<1>7. QED
  BY <1>1, <1>2, <1>3, <1>4, <1>5, <1>6

\* Each variable keeps the type the code's structures give it: every status is
\* one the tables know, every goroutine is at one of its points.
THEOREM TypeCorrect == Spec => []TypeOK
<1>1. TypeOK /\ [Next]_vars => TypeOK'
  <2>1. SUFFICES ASSUME TypeOK, Next PROVE TypeOK'
    BY DEF vars, cluster, history, TypeOK
  <2>2. QED
    BY <2>1, RequestTypes, PipelineTypes, FollowTypes, ServiceTypes, SystemTypes
    DEF Next
<1>2. QED
  BY InitTypeOK, <1>1, PTL DEF Spec

-----------------------------------------------------------------------------
(* A deployment in flight is followed *)

\* What SetStatus changes: one row's status, and of a row that is there.
LEMMA SetStatusWrites ==
    ASSUME TypeOK, NEW d \in Deps, NEW status, SetStatus(d, status)
    PROVE  /\ \A e \in Deps : /\ row'[e].kind = row[e].kind
                              /\ row'[e].image = row[e].image
                              /\ e # d => row'[e].status = row[e].status
           /\ row'[d].status = IF row[d].status \in NoRecord THEN row[d].status ELSE status
BY DEF TypeOK, SetStatus, Rows

\* A step of one goroutine leaves every deployment in flight attended if its
\* own is: by where the goroutine goes, or by the other as it was before.
LEMMA StepAttends ==
    ASSUME TypeOK, Attended, api' = api,
           NEW d \in Deps, NEW r \in Roles, NEW next \in Points, Goto(d, r, next),
           \A e \in Deps : e # d => row'[e].status = row[e].status,
           row'[d].status \in InFlight =>
              \/ r # "cancel" /\ next.pc \notin Closing
              \/ row[d].status \in InFlight /\ (r = "cancel" \/ ~Attends(d, r))
    PROVE  Attended'
<1>1. SUFFICES ASSUME api.up, api.resumed, NEW e \in Deps, row'[e].status \in InFlight
               PROVE  \E q \in {"run", "resume"} : task'[e][q].pc \notin Closing
  BY DEF Attended, Attends
<1>2. \A f \in Deps, q \in Roles :
        task'[f][q] = IF f = d /\ q = r THEN next ELSE task[f][q]
  BY DEF Goto, TypeOK
<1>3. CASE row[e].status \in InFlight /\ (e = d => r = "cancel" \/ ~Attends(d, r))
  <2>1. PICK q \in {"run", "resume"} : Attends(e, q)
    BY <1>1, <1>3 DEF Attended
  <2>2. task'[e][q] = task[e][q]
    BY <1>2, <1>3, <2>1 DEF Roles
  <2>3. QED
    BY <2>1, <2>2 DEF Attends
<1>4. CASE e = d /\ r # "cancel" /\ next.pc \notin Closing
  BY <1>2, <1>4 DEF Roles
<1>5. QED
  BY <1>1, <1>3, <1>4

\* What changes no status, no goroutine and not the API, attends as before.
LEMMA StutterAttends ==
    ASSUME Attended, api' = api, row' = row, task' = task
    PROVE  Attended'
BY DEF Attended, Attends

\* A request makes a row and its goroutine at once, and Cancel or a deletion
\* puts no row in flight.
LEMMA RequestAttends ==
    ASSUME TypeOK, Attended, NEW d \in Deps, Request(d)
    PROVE  Attended'
<1> USE PointTypes DEF Roles
<1>1. ASSUME NEW status \in DeploymentStatus, NEW kind, NEW image,
             NEW step \in Steps \ Closing, Create(d, status, kind, image, step)
      PROVE  Attended'
  <2>1. \A e \in Deps : e # d => row'[e].status = row[e].status
    BY <1>1 DEF Create, TypeOK
  <2>2. At(step).pc \notin Closing
    BY DEF At
  <2>3. QED
    BY <1>1, <2>1, <2>2, StepAttends DEF Create
<1>2. CASE Trigger(d)
  BY <1>1, <1>2 DEF Trigger, DeploymentStatus, InFlight, Steps, Closing
<1>3. CASE triggerDirectDeploy(d)
  BY <1>1, <1>3 DEF triggerDirectDeploy, DeploymentStatus, InFlight, Steps, Closing
<1>4. CASE Rollback(d)
  BY <1>1, <1>4 DEF Rollback, DeploymentStatus, InFlight, Steps, Closing
<1>5. CASE Redeploy(d)
  BY <1>1, <1>5 DEF Redeploy, DeploymentStatus, InFlight, Steps, Closing
<1>6. CASE Cancel(d)
  BY <1>6, StepAttends DEF Cancel, Steps
<1>7. CASE DeleteRecord(d)
  <2>1. \A e \in Deps : row'[e].status \in InFlight => row[e].status \in InFlight
    BY <1>7 DEF DeleteRecord, TypeOK, Rows, InFlight
  <2>2. QED
    BY <1>7, <2>1 DEF DeleteRecord, Attended, Attends
<1>8. QED
  BY <1>2, <1>3, <1>4, <1>5, <1>6, <1>7 DEF Request

\* A pipeline goes on, or goes to failDeployment, before it is done.
LEMMA PipelineAttends ==
    ASSUME TypeOK, Attended, NEW d \in Deps, Pipeline(d)
    PROVE  Attended'
<1> USE PointTypes, StepAttends, SetStatusWrites DEF Roles, At, Failing, Closing, Idle
<1>1. CASE MarkDeploying(d)
  BY <1>1 DEF MarkDeploying, Steps, Reasons
<1>2. CASE CreateBuildJob(d)
  BY <1>2 DEF CreateBuildJob, Steps, Reasons
<1>3. CASE NotePending(d)
  BY <1>3 DEF NotePending, Steps
<1>4. CASE CancelRow(d)
  BY <1>4 DEF CancelRow, InFlight, NoRecord
<1>5. CASE ResumeBuild(d)
  BY <1>5 DEF ResumeBuild, Steps, Reasons
<1>6. CASE ResumeRollout(d)
  BY <1>6 DEF ResumeRollout, Steps, Reasons
<1>7. QED
  BY <1>1, <1>2, <1>3, <1>4, <1>5, <1>6 DEF Pipeline

\* A goroutine leaves the deployment's row final before it closes.
LEMMA FollowAttends ==
    ASSUME TypeOK, Attended, NEW d \in Deps, NEW r \in {"run", "resume"}, Follow(d, r)
    PROVE  Attended'
<1> USE PointTypes, StepAttends, SetStatusWrites DEF Roles, At, Failing, Closing, Idle, Attends
<1>1. task[d][r] \in Points
  BY DEF TypeOK
<1>2. CASE OnStarted(d, r)
  BY <1>2 DEF OnStarted, Steps
<1>3. CASE WaitForJob(d, r)
  BY <1>3 DEF WaitForJob, Steps, Reasons
<1>4. CASE DropJob(d, r)
  BY <1>4 DEF DropJob, Reasons
<1>5. CASE SetDeploying(d, r)
  BY <1>5 DEF SetDeploying, Steps
<1>6. CASE startWorkload(d, r)
  BY <1>6 DEF startWorkload, Steps, Reasons
<1>7. CASE Publish(d, r)
  BY <1>7 DEF Publish, Steps, Reasons
<1>8. CASE WatchRollout(d, r)
  BY <1>8 DEF WatchRollout, Steps, Reasons
<1>9. CASE succeedDeployment(d, r)
  BY <1>9 DEF succeedDeployment, Steps, InFlight, NoRecord
<1>10. CASE SucceedService(d, r)
  BY <1>10 DEF SucceedService
<1>11. CASE failDeployment(d, r)
  <2>1. [task[d][r] EXCEPT !.pc = "failSvc"] \in Points
    BY <1>1 DEF Points, Steps
  <2>2. QED
    BY <1>11, <2>1 DEF failDeployment, InFlight, NoRecord
<1>12. CASE FailService(d, r)
  <2>1. [task[d][r] EXCEPT !.pc = "failLast"] \in Points
    BY <1>1 DEF Points, Steps
  <2>2. QED
    BY <1>12, <2>1 DEF FailService
<1>13. CASE FailRollout(d, r)
  BY <1>13 DEF FailRollout
<1>14. QED
  BY <1>2, <1>3, <1>4, <1>5, <1>6, <1>7, <1>8, <1>9, <1>10, <1>11, <1>12, <1>13
  DEF Follow

\* Resume takes up every row in flight it finds.
LEMMA ResumeAttends ==
    ASSUME TypeOK, ResumeInFlight
    PROVE  Attended'
<1>1. SUFFICES ASSUME NEW d \in Deps, row[d].status \in InFlight
               PROVE  task'[d]["resume"].pc \notin Closing
  BY DEF Attended, Attends, ResumeInFlight
<1>2. task'[d]["resume"] = At(ResumeStep(row[d]))
  BY <1>1 DEF ResumeInFlight, ToResume, TypeOK, Roles
<1>3. QED
  BY <1>2 DEF At, ResumeStep, Closing

\* Once the API has taken up what it found, every deployment in flight has a
\* goroutine: a request, a cancel, a failure or a crash leaves none behind.
THEOREM AlwaysFollowed == Spec => []SomebodyFollows
<1>1. Init => Attended
  BY DEF Init, Attended
<1>2. TypeOK /\ Attended /\ [Next]_vars => Attended'
  <2>1. SUFFICES ASSUME TypeOK, Attended, [Next]_vars PROVE Attended'
    OBVIOUS
  <2>2. CASE \E d \in Deps : Request(d) \/ Pipeline(d)
    BY <2>1, <2>2, RequestAttends, PipelineAttends
  <2>3. CASE \E d \in Deps, r \in {"run", "resume"} : Follow(d, r)
    BY <2>1, <2>3, FollowAttends
  <2>4. CASE Crash \/ Restart
    BY <2>4 DEF Crash, Restart, Attended
  <2>5. CASE ResumeInFlight
    BY <2>1, <2>5, ResumeAttends
  <2>6. CASE \E d \in Deps : K8s(d)
    BY <2>1, <2>6, StutterAttends DEF K8s, JobStarts, JobEnds, JobExpires
  <2>7. CASE Stop \/ Start \/ Operate
    BY <2>1, <2>7, StutterAttends
    DEF Stop, Start, Operate, ReapplyService, ReapplyWorkload, ReapplyPublish, WriteStatus
  <2>8. CASE Reconcile
    BY <2>1, <2>8, StutterAttends DEF Reconcile, RecList, RecInFlight, RecCluster, RecWrite
  <2>9. CASE RolloutSettles \/ PodsFlap
    BY <2>1, <2>9, StutterAttends DEF RolloutSettles, PodsFlap
  <2>10. CASE UNCHANGED vars
    BY <2>1, <2>10, StutterAttends DEF vars
  <2>11. QED
    BY <2>1, <2>2, <2>3, <2>4, <2>5, <2>6, <2>7, <2>8, <2>9, <2>10 DEF Next
<1>3. Attended => SomebodyFollows
  BY DEF Attended, Attends, Closing, SomebodyFollows, Follows
<1>4. QED
  BY TypeCorrect, <1>1, <1>2, <1>3, PTL DEF Spec

-----------------------------------------------------------------------------
(* Where images come from *)

\* What a step may give deployment d's goroutine to do next.
Justified(d, next) ==
    /\ next.pc # "idle" => row[d].status # "none"
    /\ next.pc \in BuiltSteps /\ row[d].kind = "build" => d \in registry
    /\ Applied(next) =>
        /\ row[d].image \in reached'
        /\ row[d].kind = "build" => d \in applied'

Grow == registry \subseteq registry' /\ reached \subseteq reached' /\ applied \subseteq applied'

\* A step of one goroutine that is justified, and a success with it, keeps
\* what is known of every row and goroutine.
LEMMA StepKeepsTasks ==
    ASSUME TypeOK, OfTasks, Grow,
           NEW d \in Deps, NEW r \in Roles, NEW next \in Points, Goto(d, r, next),
           Justified(d, next),
           \/ row' = row
           \/ \E status \in DeploymentStatus :
                /\ SetStatus(d, status)
                /\ status = "success" => /\ row[d].image \in reached
                                         /\ row[d].kind = "build" => d \in applied
    PROVE  OfTasks'
<1>1. \A f \in Deps, q \in Roles :
        task'[f][q] = IF f = d /\ q = r THEN next ELSE task[f][q]
  BY DEF Goto, TypeOK
<1>2. \A e \in Deps : /\ row'[e].kind = row[e].kind
                      /\ row'[e].image = row[e].image
                      /\ row'[e].status = "none" <=> row[e].status = "none"
                      /\ row'[e].status = "success" =>
                            \/ row[e].status = "success"
                            \/ /\ row[e].image \in reached
                               /\ row[e].kind = "build" => e \in applied
  <2>1. CASE row' = row
    BY <2>1
  <2>2. CASE \E status \in DeploymentStatus :
                /\ SetStatus(d, status)
                /\ status = "success" => /\ row[d].image \in reached
                                         /\ row[d].kind = "build" => d \in applied
    BY <2>2, SetStatusWrites DEF DeploymentStatus, InFlight, NoRecord
  <2>3. QED
    BY <2>1, <2>2
<1>3. RowsName'
  BY <1>2 DEF RowsName, OfTasks, Grow
<1>4. SuccessWasDeployed'
  BY <1>2 DEF SuccessWasDeployed, OfTasks, Grow
<1>5. TasksHaveRows'
  BY <1>1, <1>2 DEF TasksHaveRows, OfTasks, Justified
<1>6. AfterBuild'
  BY <1>1, <1>2 DEF AfterBuild, OfTasks, Grow, Justified
<1>7. AfterApply'
  BY <1>1, <1>2 DEF AfterApply, OfTasks, Grow, Justified
<1>8. QED
  BY <1>3, <1>4, <1>5, <1>6, <1>7 DEF OfTasks

\* What leaves rows and goroutines alone keeps what is known of them.
LEMMA StutterKeepsTasks ==
    ASSUME OfTasks, Grow, row' = row, task' = task
    PROVE  OfTasks'
BY DEF OfTasks, Grow, RowsName, SuccessWasDeployed, TasksHaveRows, AfterBuild, AfterApply

\* What leaves Jobs, workload and service alone keeps what is known of them.
LEMMA StutterKeepsCluster ==
    ASSUME OfCluster, Grow, applied' = applied, reached' = reached,
           job' = job, app' = app, svc'.image = svc.image
    PROVE  OfCluster'
BY DEF OfCluster, Grow, JobsPushed, ReachedWasBuilt, AppWasReached, ServiceWasReached

\* A request names the image it will build, or one that ran before: Rollback
\* and Redeploy take theirs from a deployment that succeeded.
LEMMA RequestProvenance ==
    ASSUME TypeOK, Provenance, NEW d \in Deps, Request(d)
    PROVE  Provenance'
<1> USE DEF Provenance, Roles, cluster, history
<1>1. ASSUME NEW status \in InFlight, NEW kind, NEW image \in Images \union {NoImage},
             NEW step \in {"mark", "apply"},
             row[d].status = "none", Create(d, status, kind, image, step),
             IF kind = "build" THEN image = d /\ step = "mark"
             ELSE image \in Deps => image \in reached
      PROVE  Provenance'
  <2>1. \A e \in Deps : row'[e] = IF e = d
                        THEN [status |-> status, kind |-> kind, image |-> image] ELSE row[e]
    BY <1>1 DEF Create, TypeOK
  <2>2. \A e \in Deps, q \in Roles :
            task'[e][q] = IF e = d /\ q = "run" THEN At(step) ELSE task[e][q]
    BY <1>1 DEF Create, Goto, TypeOK
  <2>3. \A q \in Roles : task[d][q].pc = "idle"
    BY <1>1 DEF OfTasks, TasksHaveRows
  <2>4. At(step).pc = step /\ At(step).why = "plain"
    BY DEF At
  <2>5. UNCHANGED <<registry, reached, applied, job, app, svc>>
    BY <1>1 DEF Create
  <2>6. OfCluster'
    BY <2>5, StutterKeepsCluster DEF Grow
  <2>7. RowsName'
    BY <1>1, <2>1, <2>5 DEF OfTasks, RowsName
  <2>8. SuccessWasDeployed'
    BY <1>1, <2>1, <2>5 DEF OfTasks, SuccessWasDeployed, InFlight
  <2>9. TasksHaveRows'
    BY <1>1, <2>1, <2>2 DEF OfTasks, TasksHaveRows, InFlight
  <2>10. AfterBuild'
    BY <1>1, <2>1, <2>2, <2>3, <2>4, <2>5 DEF OfTasks, AfterBuild, BuiltSteps
  <2>11. AfterApply'
    <3>1. ASSUME NEW e \in Deps, NEW q \in Roles,
                 Applied(task'[e][q]), e = d
          PROVE  FALSE
      BY <2>2, <2>3, <2>4, <3>1 DEF Applied, AppliedSteps
    <3>2. QED
      BY <2>1, <2>2, <2>5, <3>1 DEF OfTasks, AfterApply
  <2>12. QED
    BY <2>6, <2>7, <2>8, <2>9, <2>10, <2>11 DEF OfTasks
<1>2. CASE Trigger(d)
  BY <1>1, <1>2 DEF Trigger, IsNext, InFlight, Images
<1>3. CASE triggerDirectDeploy(d)
  BY <1>1, <1>3
  DEF triggerDirectDeploy, IsNext, InFlight, TypeOK, ServiceRows, OfCluster, ServiceWasReached
<1>4. CASE Rollback(d)
  BY <1>1, <1>4 DEF Rollback, IsNext, InFlight, TypeOK, Rows, OfTasks, SuccessWasDeployed
<1>5. CASE Redeploy(d)
  BY <1>1, <1>5 DEF Redeploy, IsNext, InFlight, TypeOK, Rows, OfTasks, SuccessWasDeployed
<1>6. CASE Cancel(d)
  <2>1. OfCluster'
    BY <1>6 DEF Cancel, DeleteJob, OfCluster, JobsPushed, ReachedWasBuilt, AppWasReached,
                ServiceWasReached, TypeOK
  <2>2. Justified(d, At("cancel"))
    BY <1>6 DEF Cancel, Justified, At, BuiltSteps, Applied, AppliedSteps, InFlight
  <2>3. OfTasks'
    BY <1>6, <2>2, StepKeepsTasks, PointTypes DEF Cancel, Grow, Steps
  <2>4. QED
    BY <2>1, <2>3
<1>7. CASE DeleteRecord(d)
  <2>1. \A e \in Deps : /\ row'[e].kind = row[e].kind
                        /\ row'[e].image = row[e].image
                        /\ row'[e].status = "success" => row[e].status = "success"
                        /\ row'[e].status = "none" <=> row[e].status = "none"
    BY <1>7 DEF DeleteRecord, TypeOK, Rows
  <2>2. UNCHANGED <<registry, reached, applied, job, app, svc, task>>
    BY <1>7 DEF DeleteRecord
  <2>3. OfCluster'
    BY <2>2, StutterKeepsCluster DEF Grow
  <2>4. OfTasks'
    BY <2>1, <2>2 DEF OfTasks, RowsName, SuccessWasDeployed, TasksHaveRows, AfterBuild, AfterApply
  <2>5. QED
    BY <2>3, <2>4
<1>8. QED
  BY <1>2, <1>3, <1>4, <1>5, <1>6, <1>7 DEF Request

\* No step before the build Job's end, and none of resume's own, puts an image
\* in the cluster; resume watches only a workload of the deployment's image.
LEMMA PipelineProvenance ==
    ASSUME TypeOK, Provenance, NEW d \in Deps, Pipeline(d)
    PROVE  Provenance'
<1> USE PointTypes DEF Provenance, Roles, cluster, history, Justified, Grow
<1>1. \A r \in Roles : task[d][r].pc # "idle" => row[d].status # "none"
  BY DEF OfTasks, TasksHaveRows
<1>2. \A step \in Steps \ (BuiltSteps \union AppliedSteps) :
        task[d]["run"].pc # "idle" \/ task[d]["resume"].pc # "idle" => Justified(d, At(step))
  BY <1>1 DEF At, Applied
<1>3. task[d]["run"].pc # "idle" \/ task[d]["resume"].pc # "idle" =>
        Justified(d, Failing("plain")) /\ Justified(d, Failing("unreached"))
  BY <1>1 DEF Failing, Applied, BuiltSteps, AppliedSteps
<1>4. CASE MarkDeploying(d)
  <2>1. row[d].kind # "build" => Justified(d, At("apply"))
    BY <1>1, <1>4 DEF MarkDeploying, At, Applied, AppliedSteps
  <2>2. OfTasks'
    BY <1>2, <1>3, <1>4, <2>1, StepKeepsTasks
    DEF MarkDeploying, Steps, Reasons, BuiltSteps, AppliedSteps
  <2>3. OfCluster'
    <3>1. svc'.image = svc.image
      BY <1>4 DEF MarkDeploying, TypeOK, ServiceRows
    <3>2. QED
      BY <1>4, <3>1, StutterKeepsCluster DEF MarkDeploying
  <2>4. QED
    BY <2>2, <2>3
<1>5. CASE CreateBuildJob(d)
  <2>1. OfTasks'
    BY <1>2, <1>3, <1>5, StepKeepsTasks
    DEF CreateBuildJob, Steps, Reasons, BuiltSteps, AppliedSteps
  <2>2. OfCluster'
    BY <1>5 DEF CreateBuildJob, OfCluster, JobsPushed, ReachedWasBuilt, AppWasReached,
                ServiceWasReached, TypeOK
  <2>3. QED
    BY <2>1, <2>2
<1>6. CASE NotePending(d)
  BY <1>2, <1>6, StepKeepsTasks, StutterKeepsCluster
  DEF NotePending, Steps, BuiltSteps, AppliedSteps, DeploymentStatus, InFlight
<1>7. CASE CancelRow(d)
  BY <1>7, StepKeepsTasks, StutterKeepsCluster
  DEF CancelRow, Idle, BuiltSteps, Applied, AppliedSteps, DeploymentStatus
<1>8. CASE ResumeBuild(d)
  BY <1>2, <1>3, <1>8, StepKeepsTasks, StutterKeepsCluster
  DEF ResumeBuild, Steps, Reasons, BuiltSteps, AppliedSteps, DeploymentStatus, InFlight
<1>9. CASE ResumeRollout(d)
  <2>1. CASE ReachedCluster(d) /\ Goto(d, "resume", At("rewatch"))
    <3>1. row[d].status # "none"
      BY <1>1, <1>9 DEF ResumeRollout
    <3>2. row[d].image \in reached
      BY <2>1 DEF ReachedCluster, OfCluster, AppWasReached
    <3>3. row[d].kind = "build" => d \in applied
      BY <3>1, <3>2 DEF OfTasks, RowsName, OfCluster, ReachedWasBuilt
    <3>4. Justified(d, At("rewatch"))
      BY <1>9, <3>1, <3>2, <3>3 DEF ResumeRollout, At, BuiltSteps
    <3>5. QED
      BY <1>9, <2>1, <3>4, StepKeepsTasks, StutterKeepsCluster DEF ResumeRollout, Steps
  <2>2. CASE Goto(d, "resume", Failing("unreached"))
    BY <1>3, <1>9, <2>2, StepKeepsTasks, StutterKeepsCluster DEF ResumeRollout, Reasons
  <2>3. QED
    BY <1>9, <2>1, <2>2 DEF ResumeRollout
<1>10. QED
  BY <1>4, <1>5, <1>6, <1>7, <1>8, <1>9 DEF Pipeline

\* followBuild and deployImage apply what was built, and succeed only after.
LEMMA FollowProvenance ==
    ASSUME TypeOK, Provenance, NEW d \in Deps, NEW r \in {"run", "resume"}, Follow(d, r)
    PROVE  Provenance'
<1> USE PointTypes DEF Provenance, Roles, cluster, history, Justified, Grow
<1>0. /\ task[d][r] \in Points /\ row[d] \in Rows /\ d \in Nat
      /\ task[d][r].pc # "idle" => row[d].status # "none"
      /\ row[d].status # "none" =>
            IF row[d].kind = "build" THEN row[d].image = d
            ELSE row[d].image \in Deps => row[d].image \in reached
      /\ task[d][r].pc \in BuiltSteps /\ row[d].kind = "build" => d \in registry
      /\ Applied(task[d][r]) => /\ row[d].image \in reached
                                /\ row[d].kind = "build" => d \in applied
  BY DEF TypeOK, Deps, OfTasks, TasksHaveRows, RowsName, AfterBuild, AfterApply
<1>1. \A step \in Steps \ (BuiltSteps \union AppliedSteps) :
        task[d][r].pc # "idle" => Justified(d, At(step))
  BY <1>0 DEF At, Applied
<1>2. task[d][r].pc # "idle" => Justified(d, Failing("plain"))
  BY <1>0 DEF Failing, Applied, BuiltSteps, AppliedSteps
<1>3. Justified(d, Idle)
  BY DEF Idle, Applied, BuiltSteps, AppliedSteps
<1>4. CASE OnStarted(d, r)
  BY <1>1, <1>4, StepKeepsTasks, StutterKeepsCluster
  DEF OnStarted, Steps, BuiltSteps, AppliedSteps, DeploymentStatus, InFlight
<1>5. CASE WaitForJob(d, r)
  <2>1. CASE JobSucceeded(d) /\ Goto(d, r, At("deploying"))
    <3>1. Justified(d, At("deploying"))
      BY <1>0, <1>5, <2>1 DEF WaitForJob, JobSucceeded, At, Applied, AppliedSteps, OfCluster, JobsPushed
    <3>2. QED
      BY <1>5, <2>1, <3>1, StepKeepsTasks, StutterKeepsCluster DEF WaitForJob, Steps
  <2>2. CASE Goto(d, r, Failing("plain")) \/ Goto(d, r, At("drop"))
    BY <1>1, <1>2, <1>5, <2>2, StepKeepsTasks, StutterKeepsCluster
    DEF WaitForJob, Steps, Reasons, BuiltSteps, AppliedSteps
  <2>3. QED
    BY <1>5, <2>1, <2>2 DEF WaitForJob
<1>6. CASE DropJob(d, r)
  <2>1. OfTasks'
    BY <1>2, <1>6, StepKeepsTasks DEF DropJob, Reasons
  <2>2. OfCluster'
    BY <1>6 DEF DropJob, DeleteJob, OfCluster, JobsPushed, ReachedWasBuilt, AppWasReached,
                ServiceWasReached, TypeOK
  <2>3. QED
    BY <2>1, <2>2
<1>7. CASE SetDeploying(d, r)
  <2>1. Justified(d, At("apply"))
    BY <1>0, <1>7 DEF SetDeploying, At, Applied, BuiltSteps, AppliedSteps
  <2>2. QED
    BY <1>7, <2>1, StepKeepsTasks, StutterKeepsCluster
    DEF SetDeploying, Steps, DeploymentStatus, InFlight
<1>8. CASE startWorkload(d, r)
  <2>1. CASE /\ app' = Revision(row[d].image)
             /\ applied' = applied \union {d}
             /\ reached' = reached \union {row[d].image}
             /\ Goto(d, r, At("publish"))
    <3>1. Justified(d, At("publish"))
      BY <1>0, <1>8, <2>1 DEF startWorkload, At, BuiltSteps
    <3>2. OfTasks'
      BY <1>8, <2>1, <3>1, StepKeepsTasks DEF startWorkload, Steps
    <3>3. ReachedWasBuilt'
      BY <1>0, <1>8, <2>1 DEF startWorkload, OfCluster, ReachedWasBuilt, BuiltSteps
    <3>4. AppWasReached'
      BY <2>1 DEF Revision, AppWasReached
    <3>5. JobsPushed' /\ ServiceWasReached'
      BY <1>8, <2>1 DEF startWorkload, OfCluster, JobsPushed, ServiceWasReached
    <3>6. QED
      BY <3>2, <3>3, <3>4, <3>5 DEF OfCluster
  <2>2. CASE Goto(d, r, Failing("plain")) /\ UNCHANGED <<app, applied, reached>>
    BY <1>2, <1>8, <2>2, StepKeepsTasks, StutterKeepsCluster DEF startWorkload, Reasons
  <2>3. QED
    BY <1>8, <2>1, <2>2 DEF startWorkload
<1>9. CASE Publish(d, r)
  <2>1. Justified(d, At(IF row[d].kind = "reuse" THEN "succeed" ELSE "watch"))
    BY <1>0, <1>9 DEF Publish, At, Applied, BuiltSteps, AppliedSteps
  <2>2. OfTasks'
    BY <1>2, <1>9, <2>1, StepKeepsTasks DEF Publish, Steps, Reasons
  <2>3. OfCluster'
    <3>1. svc'.image = svc.image
      BY <1>9 DEF Publish, TypeOK, ServiceRows
    <3>2. QED
      BY <1>9, <3>1, StutterKeepsCluster DEF Publish
  <2>4. QED
    BY <2>2, <2>3
<1>10. CASE WatchRollout(d, r)
  <2>1. Applied(task[d][r]) /\ task[d][r].pc # "idle"
    BY <1>10 DEF WatchRollout, Applied, AppliedSteps
  <2>2. Justified(d, At("succeed"))
    BY <1>0, <1>10, <2>1 DEF WatchRollout, At, BuiltSteps
  <2>3. Justified(d, Failing("rollout")) /\ Justified(d, Failing("rewatch"))
    BY <1>0, <1>10, <2>1 DEF WatchRollout, Failing, Applied, BuiltSteps, AppliedSteps
  <2>4. OfTasks'
    BY <1>10, <2>2, <2>3, StepKeepsTasks DEF WatchRollout, Steps, Reasons
  <2>5. OfCluster'
    <3>1. svc'.image = svc.image
      BY <1>10 DEF WatchRollout, TypeOK, ServiceRows
    <3>2. QED
      BY <1>10, <3>1, StutterKeepsCluster DEF WatchRollout
  <2>6. QED
    BY <2>4, <2>5
<1>11. CASE succeedDeployment(d, r)
  <2>1. Applied(task[d][r]) /\ task[d][r].pc # "idle"
    BY <1>11 DEF succeedDeployment, Applied, AppliedSteps
  <2>2. Justified(d, At("succeedSvc"))
    BY <1>0, <1>11, <2>1 DEF succeedDeployment, At, BuiltSteps
  <2>3. QED
    BY <1>0, <1>11, <2>1, <2>2, StepKeepsTasks, StutterKeepsCluster
    DEF succeedDeployment, Steps, DeploymentStatus
<1>12. CASE SucceedService(d, r)
  <2>1. OfTasks'
    BY <1>3, <1>12, StepKeepsTasks DEF SucceedService
  <2>2. row[d].image \in reached
    BY <1>0, <1>12 DEF SucceedService, Applied, AppliedSteps
  <2>3. OfCluster'
    BY <1>12, <2>2 DEF SucceedService, OfCluster, JobsPushed, ReachedWasBuilt,
                       AppWasReached, ServiceWasReached
  <2>4. QED
    BY <2>1, <2>3
<1>13. CASE failDeployment(d, r)
  <2>1. [task[d][r] EXCEPT !.pc = "failSvc"] \in Points
    BY <1>0 DEF Points, Steps
  <2>2. Justified(d, [task[d][r] EXCEPT !.pc = "failSvc"])
    BY <1>0, <1>13 DEF failDeployment, Points, Applied, BuiltSteps, AppliedSteps
  <2>3. SetStatus(d, "failed") /\ "failed" \in DeploymentStatus
    BY <1>13 DEF failDeployment, DeploymentStatus
  <2>4. OfTasks'
    BY <1>13, <2>1, <2>2, <2>3, StepKeepsTasks DEF failDeployment
  <2>5. OfCluster'
    BY <1>13, StutterKeepsCluster DEF failDeployment
  <2>6. QED
    BY <2>4, <2>5
<1>14. CASE FailService(d, r)
  <2>1. [task[d][r] EXCEPT !.pc = "failLast"] \in Points
    BY <1>0 DEF Points, Steps
  <2>2. Justified(d, [task[d][r] EXCEPT !.pc = "failLast"])
    BY <1>0, <1>14 DEF FailService, Points, Applied, BuiltSteps, AppliedSteps
  <2>3. OfTasks'
    BY <1>3, <1>14, <2>1, <2>2, StepKeepsTasks DEF FailService
  <2>4. OfCluster'
    <3>1. svc'.image = svc.image
      BY <1>14 DEF FailService, TypeOK, ServiceRows
    <3>2. QED
      BY <1>14, <3>1, StutterKeepsCluster DEF FailService
  <2>5. QED
    BY <2>3, <2>4
<1>15. CASE FailRollout(d, r)
  <2>1. OfTasks'
    BY <1>3, <1>15, StepKeepsTasks DEF FailRollout
  <2>2. svc'.image = svc.image \/ svc'.image \in reached
    BY <1>0, <1>15 DEF FailRollout, TypeOK, ServiceRows, Applied
  <2>3. OfCluster'
    BY <1>15, <2>2 DEF FailRollout, OfCluster, JobsPushed, ReachedWasBuilt,
                       AppWasReached, ServiceWasReached
  <2>4. QED
    BY <2>1, <2>3
<1>16. QED
  BY <1>4, <1>5, <1>6, <1>7, <1>8, <1>9, <1>10, <1>11, <1>12, <1>13, <1>14, <1>15
  DEF Follow

\* Start, Stop and the reconciler name no image that was not there before.
LEMMA ServiceProvenance ==
    ASSUME TypeOK, Provenance, OfOperation, Stop \/ Start \/ Operate \/ Reconcile
    PROVE  Provenance'
<1> USE DEF Provenance, cluster, history
<1>1. OfTasks'
  BY StutterKeepsTasks
  DEF Grow, Stop, Start, Operate, ReapplyService, ReapplyWorkload, ReapplyPublish, WriteStatus,
      Reconcile, RecList, RecInFlight, RecCluster, RecWrite
<1>2. CASE Stop
  <2>1. app'.exists = app.exists /\ app'.image = app.image
    BY <1>2 DEF Stop, TypeOK, Workloads
  <2>2. OfCluster'
    BY <1>2, <2>1 DEF Stop, OfCluster, JobsPushed, ReachedWasBuilt, AppWasReached,
                      ServiceWasReached
  <2>3. QED
    BY <1>1, <2>2
<1>3. CASE Start \/ ReapplyService \/ ReapplyPublish \/ WriteStatus \/ Reconcile
  <2>1. svc'.image = svc.image
    BY <1>3 DEF Start, ReapplyService, ReapplyPublish, WriteStatus, Reconcile, RecList,
                RecInFlight, RecCluster, RecWrite, TypeOK, ServiceRows
  <2>2. OfCluster'
    BY <1>3, <2>1, StutterKeepsCluster
    DEF Grow, Start, ReapplyService, ReapplyPublish, WriteStatus, Reconcile, RecList,
        RecInFlight, RecCluster, RecWrite
  <2>3. QED
    BY <1>1, <2>2
<1>4. CASE ReapplyWorkload
  <2>1. CASE app' = app /\ reached' = reached
    BY <1>1, <1>4, <2>1, StutterKeepsCluster DEF Grow, ReapplyWorkload
  <2>2. CASE app' = Revision(op.image) /\ reached' = reached \union {op.image}
    BY <1>1, <1>4, <2>2
    DEF OfOperation, ReapplyWorkload, Revision, OfCluster, JobsPushed, ReachedWasBuilt,
        AppWasReached, ServiceWasReached
  <2>3. QED
    BY <1>4, <2>1, <2>2 DEF ReapplyWorkload
<1>5. QED
  BY <1>2, <1>3, <1>4 DEF Operate

\* Nor does a restart of the API, and a build that ends has pushed its own.
LEMMA SystemProvenance ==
    ASSUME TypeOK, Provenance,
           \/ Crash \/ Restart \/ ResumeInFlight \/ RolloutSettles \/ PodsFlap
           \/ \E d \in Deps : K8s(d)
    PROVE  Provenance'
<1> USE DEF Provenance, cluster, history, Grow
<1>1. CASE Crash
  <2>1. \A d \in Deps, r \in Roles : task'[d][r].pc = "idle"
    BY <1>1 DEF Crash, Idle
  <2>2. UNCHANGED <<row, reached, applied, registry, app, job, svc>>
    BY <1>1 DEF Crash
  <2>3. TasksHaveRows' /\ AfterBuild' /\ AfterApply'
    BY <2>1 DEF TasksHaveRows, AfterBuild, AfterApply, BuiltSteps, Applied, AppliedSteps
  <2>4. RowsName' /\ SuccessWasDeployed'
    BY <2>2 DEF OfTasks, RowsName, SuccessWasDeployed
  <2>5. QED
    BY <2>2, <2>3, <2>4, StutterKeepsCluster DEF OfTasks
<1>2. CASE Restart
  BY <1>2, StutterKeepsTasks, StutterKeepsCluster DEF Restart
<1>3. CASE ResumeInFlight
  <2>1. UNCHANGED <<row, reached, applied, registry, app, job, svc>>
    BY <1>3 DEF ResumeInFlight
  <2>2. \A d \in Deps, r \in Roles :
            \/ task'[d][r] = task[d][r]
            \/ row[d].status \in InFlight /\ task'[d][r] = At(ResumeStep(row[d]))
    BY <1>3 DEF ResumeInFlight, ToResume, TypeOK
  <2>3. \A d \in Deps : LET point == At(ResumeStep(row[d]))
                        IN  point.pc \notin BuiltSteps /\ ~Applied(point)
    BY DEF At, ResumeStep, BuiltSteps, Applied, AppliedSteps
  <2>4. TasksHaveRows'
    BY <2>1, <2>2 DEF OfTasks, TasksHaveRows, InFlight
  <2>5. AfterBuild' /\ AfterApply'
    BY <2>1, <2>2, <2>3 DEF OfTasks, AfterBuild, AfterApply
  <2>6. RowsName' /\ SuccessWasDeployed'
    BY <2>1 DEF OfTasks, RowsName, SuccessWasDeployed
  <2>7. QED
    BY <2>1, <2>4, <2>5, <2>6, StutterKeepsCluster DEF OfTasks
<1>4. CASE RolloutSettles \/ PodsFlap
  <2>1. app'.exists = app.exists /\ app'.image = app.image
    BY <1>4 DEF RolloutSettles, PodsFlap, TypeOK, Workloads
  <2>2. OfCluster'
    BY <1>4, <2>1 DEF RolloutSettles, PodsFlap, OfCluster, JobsPushed, ReachedWasBuilt,
                      AppWasReached, ServiceWasReached
  <2>3. QED
    BY <1>4, <2>2, StutterKeepsTasks DEF RolloutSettles, PodsFlap
<1>5. ASSUME NEW d \in Deps, K8s(d) PROVE Provenance'
  <2>1. OfTasks'
    BY <1>5, StutterKeepsTasks DEF K8s, JobStarts, JobEnds, JobExpires
  <2>2. OfCluster'
    BY <1>5 DEF K8s, JobStarts, JobEnds, JobExpires, OfCluster, JobsPushed,
                ReachedWasBuilt, AppWasReached, ServiceWasReached, TypeOK
  <2>3. QED
    BY <2>1, <2>2
<1>6. QED
  BY <1>1, <1>2, <1>3, <1>4, <1>5

\* A Start holds the image it read off the row, or none.
LEMMA OperationKept ==
    ASSUME TypeOK, Provenance, OfOperation, [Next]_vars
    PROVE  OfOperation'
<1> DEFINE Holds == op'.image \in {op.image, svc.image, NoImage}
           Kept == reached \subseteq reached' /\ Holds
<1> USE DEF cluster, history
<1>1. CASE \E d \in Deps : Request(d)
  <2>1. reached' = reached /\ op' = op
    BY <1>1 DEF Request, Trigger, triggerDirectDeploy, Rollback, Redeploy, Create, Cancel,
                DeleteRecord
  <2>2. QED
    BY <2>1 DEF OfOperation
<1>2. CASE \E d \in Deps : Pipeline(d) \/ K8s(d)
  <2>1. reached' = reached /\ op' = op
    BY <1>2 DEF Pipeline, MarkDeploying, CreateBuildJob, NotePending, CancelRow, ResumeBuild,
                ResumeRollout, K8s, JobStarts, JobEnds, JobExpires
  <2>2. QED
    BY <2>1 DEF OfOperation
<1>3. CASE \E d \in Deps, r \in {"run", "resume"} : Follow(d, r)
  <2>1. reached \subseteq reached' /\ op' = op
    BY <1>3 DEF Follow, OnStarted, WaitForJob, DropJob, SetDeploying, startWorkload, Publish,
                WatchRollout, succeedDeployment, SucceedService, failDeployment, FailService,
                FailRollout
  <2>2. QED
    BY <2>1 DEF OfOperation
<1>4. CASE Stop \/ Start \/ Operate \/ Crash
  <2>1. Kept
    BY <1>4 DEF Stop, Start, Operate, ReapplyService, ReapplyWorkload, ReapplyPublish,
                WriteStatus, Crash, NoOp, TypeOK, Operations
  <2>2. svc.image \in Deps => svc.image \in reached
    BY DEF Provenance, OfCluster, ServiceWasReached
  <2>3. NoImage \notin Deps
    BY DeploymentAssumption DEF NoImage, Deps
  <2>4. QED
    BY <2>1, <2>2, <2>3 DEF OfOperation
<1>5. CASE \/ Restart \/ ResumeInFlight \/ Reconcile \/ RolloutSettles \/ PodsFlap
           \/ UNCHANGED vars
  <2>1. reached' = reached /\ op' = op
    BY <1>5 DEF Restart, ResumeInFlight, Reconcile, RecList, RecInFlight, RecCluster, RecWrite,
                RolloutSettles, PodsFlap, vars
  <2>2. QED
    BY <2>1 DEF OfOperation
<1>6. QED
  BY <1>1, <1>2, <1>3, <1>4, <1>5 DEF Next

\* The strengthening is an invariant: every step keeps where images come from.
LEMMA ProvenanceHolds == Spec => []Provenance
<1>1. Init => Provenance /\ OfOperation
  BY DeploymentAssumption
  DEF Init, Provenance, OfCluster, OfTasks, JobsPushed, ReachedWasBuilt, AppWasReached,
      ServiceWasReached, RowsName, SuccessWasDeployed, TasksHaveRows, AfterBuild,
      AfterApply, Applied, BuiltSteps, AppliedSteps, Idle, NoRow, NoImage, External, Deps,
      OfOperation, NoOp
<1>2. TypeOK /\ Provenance /\ OfOperation /\ [Next]_vars => Provenance' /\ OfOperation'
  <2>1. SUFFICES ASSUME TypeOK, Provenance, OfOperation, [Next]_vars PROVE Provenance'
    BY OperationKept
  <2>2. CASE Next
    BY <2>1, <2>2, RequestProvenance, PipelineProvenance, FollowProvenance,
       ServiceProvenance, SystemProvenance
    DEF Next
  <2>3. CASE UNCHANGED vars
    BY <2>1, <2>3, StutterKeepsTasks, StutterKeepsCluster
    DEF vars, cluster, history, Provenance, Grow
  <2>4. QED
    BY <2>1, <2>2, <2>3
<1>3. QED
  BY TypeCorrect, <1>1, <1>2, PTL DEF Spec

\* What is recorded as a success was in the cluster, and a build's success was
\* applied by that build: resume never records what did not happen.
THEOREM SuccessIsEarned == Spec => []SuccessWasDeployed
<1>1. Provenance => SuccessWasDeployed
  BY DEF Provenance, OfTasks
<1>2. QED
  BY ProvenanceHolds, <1>1, PTL

\* Nothing runs, or is left to run, that its build did not push.
THEOREM OnlyBuiltImages == Spec => []ImageWasBuilt
<1>1. Provenance => ImageWasBuilt
  BY DEF Provenance, OfCluster, ReachedWasBuilt, AppWasReached, ServiceWasReached,
         ImageWasBuilt
<1>2. QED
  BY ProvenanceHolds, <1>1, PTL

-----------------------------------------------------------------------------
(* One goroutine at a time, and what ended stays as it ended *)

\* Before the API has taken up what it found, only a deployment made meanwhile
\* has a goroutine that follows it.
StartsClean ==
    /\ ~api.up => \A d \in Deps, r \in Roles : task[d][r].pc = "idle"
    /\ ~api.resumed => \A d \in Deps : ~Follows(d, "resume")
    /\ ~api.resumed => \A d \in Deps : Follows(d, "run") => d \in early

\* A goroutine of Cancel is at work on a deployment that was cancelled.
CancelsMarked == \A d \in Deps : Follows(d, "cancel") => d \in cancelled

\* Whoever follows a deployment that ended writes its row no more.
Final == {"success", "failed"}
Exempt == early \union cancelled
EndedIsLeft ==
    \A d \in Deps \ Exempt, r \in {"run", "resume"} :
        row[d].status \in Final => task[d][r].pc \in Closing

Single == StartsClean /\ OneFollower /\ CancelsMarked /\ EndedIsLeft

\* A step of goroutine r: one that closes leaves the row alone, and one that
\* goes on ends nothing.
Advances(d, r, next) ==
    /\ task[d][r].pc # "idle"
    /\ Goto(d, r, next)
    /\ UNCHANGED <<api, early, cancelled>>
    /\ \A e \in Deps : e # d => row'[e].status = row[e].status
    /\ task[d][r].pc \in Closing => next.pc \in Closing /\ row'[d].status = row[d].status
    /\ next.pc \notin Closing => row'[d].status \in {row[d].status} \union InFlight

\* Every step of a pipeline, and of a goroutine that follows, is one.
LEMMA PipelineSteps ==
    ASSUME TypeOK, NEW d \in Deps, Pipeline(d)
    PROVE  \E r \in Roles, next \in Points : Advances(d, r, next)
<1> USE PointTypes, SetStatusWrites DEF Roles, At, Failing, Closing, Idle, Advances, InFlight, history
<1>1. CASE MarkDeploying(d)
  BY <1>1 DEF MarkDeploying, Steps, Reasons
<1>2. CASE CreateBuildJob(d)
  BY <1>2 DEF CreateBuildJob, Steps, Reasons
<1>3. CASE NotePending(d)
  BY <1>3 DEF NotePending, Steps
<1>4. CASE CancelRow(d)
  BY <1>4 DEF CancelRow
<1>5. CASE ResumeBuild(d)
  BY <1>5 DEF ResumeBuild, Steps, Reasons
<1>6. CASE ResumeRollout(d)
  BY <1>6 DEF ResumeRollout, Steps, Reasons
<1>7. QED
  BY <1>1, <1>2, <1>3, <1>4, <1>5, <1>6 DEF Pipeline

LEMMA FollowSteps ==
    ASSUME TypeOK, NEW d \in Deps, NEW r \in {"run", "resume"}, Follow(d, r)
    PROVE  \E next \in Points : Advances(d, r, next)
<1> USE PointTypes, SetStatusWrites DEF Roles, At, Failing, Closing, Idle, Advances, InFlight, history
<1>1. task[d][r] \in Points
  BY DEF TypeOK
<1>2. CASE OnStarted(d, r)
  BY <1>2 DEF OnStarted, Steps
<1>3. CASE WaitForJob(d, r)
  BY <1>3 DEF WaitForJob, Steps, Reasons
<1>4. CASE DropJob(d, r)
  BY <1>4 DEF DropJob, Reasons
<1>5. CASE SetDeploying(d, r)
  BY <1>5 DEF SetDeploying, Steps
<1>6. CASE startWorkload(d, r)
  BY <1>6 DEF startWorkload, Steps, Reasons
<1>7. CASE Publish(d, r)
  BY <1>7 DEF Publish, Steps, Reasons
<1>8. CASE WatchRollout(d, r)
  BY <1>8 DEF WatchRollout, Steps, Reasons
<1>9. CASE succeedDeployment(d, r)
  BY <1>9 DEF succeedDeployment, Steps
<1>10. CASE SucceedService(d, r)
  BY <1>10 DEF SucceedService
<1>11. CASE failDeployment(d, r)
  <2>1. [task[d][r] EXCEPT !.pc = "failSvc"] \in Points
    BY <1>1 DEF Points, Steps
  <2>2. QED
    BY <1>1, <1>11, <2>1 DEF failDeployment, Points
<1>12. CASE FailService(d, r)
  <2>1. [task[d][r] EXCEPT !.pc = "failLast"] \in Points
    BY <1>1 DEF Points, Steps
  <2>2. QED
    BY <1>1, <1>12, <2>1 DEF FailService, Points
<1>13. CASE FailRollout(d, r)
  BY <1>13 DEF FailRollout
<1>14. QED
  BY <1>2, <1>3, <1>4, <1>5, <1>6, <1>7, <1>8, <1>9, <1>10, <1>11, <1>12, <1>13
  DEF Follow

\* Such a step starts no second goroutine, and is the last to write when it ends
\* the row: the other is idle.
LEMMA StepSingle ==
    ASSUME TypeOK, Single, NEW d \in Deps, NEW r \in Roles, NEW next \in Points,
           Advances(d, r, next)
    PROVE  Single'
<1> USE DEF Follows
<1>1. \A e \in Deps, q \in Roles :
        task'[e][q] = IF e = d /\ q = r THEN next ELSE task[e][q]
  BY DEF Advances, Goto, TypeOK
<1>2. StartsClean'
  BY <1>1 DEF Single, StartsClean, Advances, Roles
<1>3. OneFollower'
  BY <1>1 DEF Single, OneFollower, Advances, Roles
<1>4. CancelsMarked'
  BY <1>1 DEF Single, CancelsMarked, Advances, Roles
<1>5. EndedIsLeft'
  <2>1. SUFFICES ASSUME NEW e \in Deps \ Exempt, NEW q \in {"run", "resume"},
                        row'[e].status \in Final
                 PROVE  task'[e][q].pc \in Closing
    BY DEF EndedIsLeft, Exempt, Advances
  <2>2. CASE row[e].status \in Final
    BY <1>1, <2>1, <2>2 DEF Single, EndedIsLeft, Advances, Roles
  <2>3. CASE row[e].status \notin Final
    <3>1. e = d /\ next.pc \in Closing
      BY <2>1, <2>3 DEF Advances, Final, InFlight
    <3>2. r # "cancel"
      BY <2>1, <3>1 DEF Single, CancelsMarked, Advances, Exempt
    <3>3. q # r => task[d][q].pc = "idle"
      BY <2>1, <3>1, <3>2 DEF Single, OneFollower, Advances, Roles, Exempt
    <3>4. QED
      BY <1>1, <3>1, <3>3 DEF Closing, Roles
  <2>4. QED
    BY <2>2, <2>3
<1>6. QED
  BY <1>2, <1>3, <1>4, <1>5 DEF Single

\* What moves no goroutine, no row and not the API, changes none of this.
LEMMA StutterSingle ==
    ASSUME Single, UNCHANGED <<row, task, api, early, cancelled>>
    PROVE  Single'
BY DEF Single, StartsClean, OneFollower, Follows, CancelsMarked, EndedIsLeft, Exempt

\* A deployment that is made has had no goroutine, and is marked when it is made
\* before ResumeInFlight; so is one that is cancelled.
LEMMA RequestSingle ==
    ASSUME TypeOK, TasksHaveRows, Single, NEW d \in Deps, Request(d)
    PROVE  Single'
<1> USE DEF Roles, Follows
<1>1. api.up /\ api' = api
  BY DEF Request, Trigger, triggerDirectDeploy, Rollback, Redeploy, IsNext, Cancel,
         DeleteRecord, Serving, Create
<1>2. ASSUME NEW status \in InFlight, NEW kind, NEW image, NEW step, IsNext(d),
             Create(d, status, kind, image, step)
      PROVE  Single'
  <2>1. \A q \in Roles : task[d][q].pc = "idle"
    BY <1>2 DEF IsNext, TasksHaveRows
  <2>2. \A e \in Deps, q \in Roles :
          task'[e][q] = IF e = d /\ q = "run" THEN At(step) ELSE task[e][q]
    BY <1>2 DEF Create, Goto, TypeOK
  <2>3. \A e \in Deps : row'[e].status = IF e = d THEN status ELSE row[e].status
    BY <1>2 DEF Create, TypeOK
  <2>4. /\ early \subseteq early' /\ cancelled' = cancelled
        /\ api.resumed \/ d \in early'
    BY <1>2 DEF Create
  <2>5. StartsClean'
    BY <1>1, <2>1, <2>2, <2>4 DEF Single, StartsClean
  <2>6. OneFollower'
    BY <2>1, <2>2, <2>4 DEF Single, OneFollower
  <2>7. CancelsMarked'
    BY <2>2, <2>4 DEF Single, CancelsMarked
  <2>8. EndedIsLeft'
    BY <2>2, <2>3, <2>4 DEF Single, EndedIsLeft, Exempt, Final, InFlight
  <2>9. QED
    BY <2>5, <2>6, <2>7, <2>8 DEF Single
<1>3. CASE Trigger(d) \/ triggerDirectDeploy(d) \/ Rollback(d) \/ Redeploy(d)
  BY <1>2, <1>3 DEF Trigger, triggerDirectDeploy, Rollback, Redeploy, InFlight
<1>4. CASE Cancel(d)
  <2>1. /\ row' = row /\ early' = early /\ cancelled' = cancelled \union {d}
        /\ Goto(d, "cancel", At("cancel"))
    BY <1>4 DEF Cancel
  <2>2. \A e \in Deps, q \in Roles : e # d \/ q # "cancel" => task'[e][q] = task[e][q]
    BY <2>1 DEF Goto, TypeOK
  <2>3. CancelsMarked'
    BY <2>1, <2>2 DEF Single, CancelsMarked
  <2>4. QED
    BY <1>1, <2>1, <2>2, <2>3 DEF Single, StartsClean, OneFollower, EndedIsLeft, Exempt
<1>5. CASE DeleteRecord(d)
  <2>1. UNCHANGED <<task, api, early, cancelled>>
    BY <1>5 DEF DeleteRecord, history
  <2>2. \A e \in Deps : row'[e].status \in Final => row[e].status = row'[e].status
    BY <1>5 DEF DeleteRecord, TypeOK, Rows, Final
  <2>3. QED
    BY <2>1, <2>2 DEF Single, StartsClean, OneFollower, CancelsMarked, EndedIsLeft, Exempt
<1>6. QED
  BY <1>3, <1>4, <1>5 DEF Request

\* A crash ends every goroutine; resume starts one where there is none, or where
\* the deployment was made before, and for none that ended.
LEMMA RestartSingle ==
    ASSUME TypeOK, Single, Crash \/ Restart \/ ResumeInFlight
    PROVE  Single'
<1> USE DEF Roles, Follows
<1>1. CASE Crash
  <2>1. \A d \in Deps, r \in Roles : task'[d][r].pc = "idle"
    BY <1>1 DEF Crash, Idle
  <2>2. QED
    BY <2>1 DEF Single, StartsClean, OneFollower, CancelsMarked, EndedIsLeft, Closing
<1>2. CASE Restart
  BY <1>2 DEF Restart, history, Single, StartsClean, OneFollower, CancelsMarked,
              EndedIsLeft, Exempt
<1>3. CASE ResumeInFlight
  <2>1. /\ \A d \in Deps : task[d]["resume"].pc = "idle"
        /\ \A d \in Deps : task[d]["run"].pc # "idle" => d \in early
    BY <1>3 DEF ResumeInFlight, Single, StartsClean
  <2>2. \A d \in Deps, r \in Roles :
          r # "resume" \/ row[d].status \notin InFlight => task'[d][r] = task[d][r]
    BY <1>3 DEF ResumeInFlight, ToResume, TypeOK
  <2>3. /\ api'.up /\ api'.resumed
        /\ UNCHANGED <<row, early, cancelled>>
    BY <1>3 DEF ResumeInFlight, TypeOK, history
  <2>4. QED
    BY <2>1, <2>2, <2>3
    DEF Single, StartsClean, OneFollower, CancelsMarked, EndedIsLeft, Exempt, Closing, Final,
        InFlight
<1>4. QED
  BY <1>1, <1>2, <1>3

LEMMA SingleHolds == Spec => []Single
<1>1. Init => Single
  BY DEF Init, Single, StartsClean, OneFollower, Follows, CancelsMarked, EndedIsLeft, Exempt,
         Idle, NoRow, Final, Roles
<1>2. TypeOK /\ Provenance /\ Single /\ [Next]_vars => Single'
  <2>1. SUFFICES ASSUME TypeOK, Provenance, Single, [Next]_vars PROVE Single'
    OBVIOUS
  <2> USE DEF history
  <2>2. CASE \E d \in Deps : Request(d)
    BY <2>1, <2>2, RequestSingle DEF Provenance, OfTasks
  <2>3. CASE \E d \in Deps : Pipeline(d)
    BY <2>1, <2>3, PipelineSteps, StepSingle
  <2>4. CASE \E d \in Deps, r \in {"run", "resume"} : Follow(d, r)
    BY <2>1, <2>4, FollowSteps, StepSingle DEF Roles
  <2>5. CASE Crash \/ Restart \/ ResumeInFlight
    BY <2>1, <2>5, RestartSingle
  <2>6. CASE \E d \in Deps : K8s(d)
    BY <2>1, <2>6, StutterSingle DEF K8s, JobStarts, JobEnds, JobExpires
  <2>7. CASE Stop \/ Start \/ Operate
    BY <2>1, <2>7, StutterSingle
    DEF Stop, Start, Operate, ReapplyService, ReapplyWorkload, ReapplyPublish, WriteStatus
  <2>8. CASE Reconcile \/ RolloutSettles \/ PodsFlap
    BY <2>1, <2>8, StutterSingle
    DEF Reconcile, RecList, RecInFlight, RecCluster, RecWrite, RolloutSettles, PodsFlap
  <2>9. CASE UNCHANGED vars
    BY <2>1, <2>9, StutterSingle DEF vars
  <2>10. QED
    BY <2>1, <2>2, <2>3, <2>4, <2>5, <2>6, <2>7, <2>8, <2>9 DEF Next
<1>3. QED
  BY TypeCorrect, ProvenanceHolds, <1>1, <1>2, PTL DEF Spec

\* A deployment is followed by one goroutine at a time, the one that made it or
\* the one that resumed it, unless it was made before ResumeInFlight had run.
THEOREM FollowedOnce == Spec => []OneFollower
<1>1. Single => OneFollower
  BY DEF Single
<1>2. QED
  BY SingleHolds, <1>1, PTL

\* What a deployment was recorded to have come to is what it came to: no late
\* goroutine writes over it, unless it was cancelled, or made before
\* ResumeInFlight had run, since the API last started.
THEOREM EndedForGood == Spec => FinalIsFinal
<1> DEFINE Kept == \A d \in Deps \ (early \union cancelled) :
                     row[d].status \in {"success", "failed"} =>
                       row'[d].status \in {row[d].status, "deleted"}
<1>1. TypeOK /\ Single /\ [Next]_vars => [Kept]_row
  <2>1. SUFFICES ASSUME TypeOK, Single, Next, NEW d \in Deps, d \notin Exempt,
                        row[d].status \in Final
                 PROVE  row'[d].status \in {row[d].status, "deleted"}
    BY DEF vars, Final, Exempt
  <2>2. CASE row' = row
    BY <2>2
  <2>3. ASSUME NEW e \in Deps, Request(e), row' # row
        PROVE  row'[d].status \in {row[d].status, "deleted"}
    BY <2>1, <2>3
    DEF Request, Trigger, triggerDirectDeploy, Rollback, Redeploy, IsNext, Create, Cancel,
        DeleteRecord, TypeOK, Rows, Final
  <2>4. ASSUME NEW e \in Deps, NEW r \in Roles, NEW next \in Points, Advances(e, r, next)
        PROVE  row'[d].status \in {row[d].status, "deleted"}
    <3>1. CASE e # d
      BY <2>4, <3>1 DEF Advances
    <3>2. CASE e = d
      <4>1. r # "cancel"
        BY <2>1, <2>4, <3>2 DEF Single, CancelsMarked, Follows, Advances, Exempt
      <4>2. QED
        BY <2>1, <2>4, <3>2, <4>1 DEF Single, EndedIsLeft, Advances, Roles
    <3>3. QED
      BY <3>1, <3>2
  <2>5. CASE \E e \in Deps : Pipeline(e)
    BY <2>1, <2>4, <2>5, PipelineSteps
  <2>6. CASE \E e \in Deps, r \in {"run", "resume"} : Follow(e, r)
    BY <2>1, <2>4, <2>6, FollowSteps DEF Roles
  <2>7. ~(\/ \E e \in Deps : Request(e) \/ Pipeline(e)
          \/ \E e \in Deps, r \in {"run", "resume"} : Follow(e, r)) => row' = row
    BY <2>1
    DEF Next, K8s, JobStarts, JobEnds, JobExpires, Stop, Start, Operate, ReapplyService,
        ReapplyWorkload, ReapplyPublish, WriteStatus, Crash, Restart, ResumeInFlight,
        Reconcile, RecList, RecInFlight, RecCluster, RecWrite, RolloutSettles, PodsFlap
  <2>8. QED
    BY <2>2, <2>3, <2>5, <2>6, <2>7
<1>2. QED
  BY TypeCorrect, SingleHolds, <1>1, PTL DEF Spec, FinalIsFinal

=============================================================================
