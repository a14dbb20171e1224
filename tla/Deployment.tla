----------------------------- MODULE Deployment -----------------------------
(***************************************************************************)
(* The deployments of one service: the rows of the deployments table, the  *)
(* service's own row, the build Jobs and the workload in the cluster, and  *)
(* the goroutines of the API process that move them                        *)
(* (packages/server/service/deployment.go, deployment_resume.go,           *)
(* workload.go, workload_status.go).  Every action is one database write   *)
(* or one call to the cluster, so that a crash, another request or the     *)
(* status reconciler may come between any two.  A definition introduced    *)
(* with Variant is the mistake its neighbour could have been: PROJECT.json *)
(* names the property that finds it.                                       *)
(***************************************************************************)
EXTENDS Integers

CONSTANTS
    MaxDeps,     \* how many deployments are ever made: a bound
    Builds,      \* the service is built from source, or runs an image as it is
    HasVolume,   \* its rollouts replace the old pod first (Recreate)
    Reconciles,  \* the status reconciler ticks
    Budget       \* how often the environment may do each thing: a bound

Expenses == {"crash", "early", "cancel", "delete", "stop", "start", "flap"}

ASSUME DeploymentAssumption ==
    /\ MaxDeps \in Nat \ {0}
    /\ Builds \in BOOLEAN
    /\ HasVolume \in BOOLEAN
    /\ Reconciles \in BOOLEAN
    /\ Budget \in [Expenses -> Nat]

VARIABLES
    row,        \* deployments table: row[d], "none" until it is created
    svc,        \* the service's row
    job,        \* build Jobs in the cluster
    registry,   \* images the builds pushed
    app,        \* the workload in the cluster
    api,        \* the API process
    task,       \* task[d][r]: what goroutine r does for deployment d
    op,         \* a Start or Stop request being served
    rec,        \* the status reconciler's tick
    budget,     \* what is left of Budget
    applied,    \* history: deployments that put their own workload in the cluster
    reached,    \* history: images that were ever in the cluster
    early,      \* history: deployments made before ResumeInFlight had run
    cancelled   \* history: deployments somebody cancelled since the API started

cluster == <<job, registry, app>>
history == <<applied, reached, early, cancelled>>
vars == <<row, svc, cluster, api, task, op, rec, budget, history>>

-----------------------------------------------------------------------------
(* Data *)

Deps == 1 .. MaxDeps

\* Image d is the one deployment d builds: its tag is the deployment's id.
External == 0
NoImage == -1
Images == Deps \union {External}

InFlight == {"pending", "building", "deploying"}
DeploymentStatus == InFlight \union {"success", "failed"}
ServiceStatus == {"stopped", "deploying", "running", "failed"}
JobStatus == {"none", "queued", "running", "succeeded", "failed"}
Health == {"progressing", "ready", "broken"}

Roles == {"run", "resume", "cancel"}
Steps == {"idle", "mark", "create", "note", "wait", "started", "drop",
          "deploying", "apply", "publish", "watch", "rewatch",
          "succeed", "succeedSvc",
          "fail", "failSvc", "failLast",
          "resumePending", "resumeBuilding", "resumeDeploying", "cancel"}

\* Why a deployment fails decides what is written after failDeployment.
Reasons == {"plain", "rollout", "rewatch", "unreached"}

Idle == [pc |-> "idle", why |-> "plain"]
At(step) == [pc |-> step, why |-> "plain"]
Failing(reason) == [pc |-> "fail", why |-> reason]

NoRow == [status |-> "none", kind |-> "build", image |-> NoImage]
NoRecord == {"none", "deleted"}

NoOp == [pc |-> "idle", image |-> NoImage]

Rows == [status : DeploymentStatus \union NoRecord,
         kind : {"build", "image", "reuse"},
         image : Images \union {NoImage}]
ServiceRows == [status : ServiceStatus, image : Images \union {NoImage},
                deployed : BOOLEAN, failed : BOOLEAN]
Workloads == [exists : BOOLEAN, image : Images \union {NoImage},
              wanted : BOOLEAN, health : Health, serving : BOOLEAN]
Points == [pc : Steps, why : Reasons]
Operations == [pc : {"idle", "stop", "start", "apply", "publish", "startEnd"},
               image : Images \union {NoImage}]
Ticks == [pc : {"idle", "busy", "cluster", "write"},
          seen : ServiceStatus, want : ServiceStatus]

TypeOK ==
    /\ row \in [Deps -> Rows]
    /\ svc \in ServiceRows
    /\ job \in [Deps -> JobStatus]
    /\ registry \in SUBSET Deps
    /\ app \in Workloads
    /\ api \in [up : BOOLEAN, resumed : BOOLEAN]
    /\ task \in [Deps -> [Roles -> Points]]
    /\ op \in Operations
    /\ rec \in Ticks
    /\ budget \in [Expenses -> Nat]
    /\ applied \in SUBSET Deps
    /\ reached \in SUBSET (Images \union {NoImage})
    /\ early \in SUBSET Deps
    /\ cancelled \in SUBSET Deps

-----------------------------------------------------------------------------
(* The cluster, as the code reads and writes it *)

\* A pod of the workload is available: the new revision's, or, during a
\* rolling update, one of the revision it replaces.
Available(a) == a.wanted /\ (a.health = "ready" \/ a.serving)

\* deriveServiceStatus: what the cluster says the service's status is.
deriveServiceStatus(a) ==
    CASE ~a.exists -> "failed"
      [] a.exists /\ ~a.wanted -> "stopped"
      [] a.exists /\ a.wanted /\ Available(a) -> "running"
      [] a.exists /\ a.wanted /\ ~Available(a) /\ a.health = "broken" -> "failed"
      [] OTHER -> "deploying"

\* ApplyDeployment: a new revision, rolled in beside the old one's pods or,
\* for a workload with a volume, in their place.
Revision(image) ==
    [exists |-> TRUE, image |-> image, wanted |-> TRUE,
     health |-> "progressing", serving |-> ~HasVolume /\ Available(app)]

-----------------------------------------------------------------------------
(* Shorthands for what the goroutines do *)

\* Updates(...).Where("id = ?", d): no row, no write.
SetStatus(d, status) ==
    row' = IF row[d].status \in NoRecord THEN row
           ELSE [row EXCEPT ![d].status = status]

Goto(d, r, next) == task' = [task EXCEPT ![d][r] = next]

Spend(what) ==
    /\ budget[what] > 0
    /\ budget' = [budget EXCEPT ![what] = @ - 1]

\* A request is served as soon as the API is up: ResumeInFlight sleeps in a
\* goroutine of its own, beside an API that already answers.
Serving == api.up

Init ==
    /\ row = [d \in Deps |-> NoRow]
    /\ svc = [status |-> "stopped", image |-> IF Builds THEN NoImage ELSE External,
              deployed |-> FALSE, failed |-> FALSE]
    /\ job = [d \in Deps |-> "none"]
    /\ registry = {}
    /\ app = [exists |-> FALSE, image |-> NoImage, wanted |-> FALSE,
              health |-> "progressing", serving |-> FALSE]
    /\ api = [up |-> TRUE, resumed |-> FALSE]
    /\ task = [d \in Deps |-> [r \in Roles |-> Idle]]
    /\ op = NoOp
    /\ rec = [pc |-> "idle", seen |-> "stopped", want |-> "stopped"]
    /\ budget = Budget
    /\ applied = {}
    /\ reached = {}
    /\ early = {}
    /\ cancelled = {}

-----------------------------------------------------------------------------
(* Requests that make a deployment: its row first, then its goroutine *)

\* The next id: rows are made in the order of their ids.
IsNext(d) ==
    /\ Serving
    /\ row[d].status = "none"
    /\ \A e \in Deps : e < d => row[e].status # "none"

Create(d, status, kind, image, step) ==
    /\ row' = [row EXCEPT ![d] = [status |-> status, kind |-> kind, image |-> image]]
    /\ Goto(d, "run", At(step))
    /\ \/ /\ api.resumed
          /\ UNCHANGED <<budget, early>>
       \/ /\ ~api.resumed
          /\ Spend("early")
          /\ early' = early \union {d}
    /\ UNCHANGED <<svc, cluster, api, op, rec, applied, reached, cancelled>>

\* Trigger of a service built from source.
Trigger(d) ==
    /\ Builds
    /\ IsNext(d)
    /\ Create(d, "pending", "build", d, "mark")

\* Trigger of a service that runs a configured image.
triggerDirectDeploy(d) ==
    /\ ~Builds
    /\ IsNext(d)
    /\ svc.image # NoImage
    /\ Create(d, "deploying", "image", svc.image, "mark")

\* Rollback: any successful deployment's image, as it is.
Rollback(d) ==
    /\ IsNext(d)
    /\ \E t \in Deps :
        /\ row[t].status = "success"
        /\ Create(d, "deploying", "reuse", row[t].image, "apply")

\* Redeploy: the image of the newest deployment that succeeded.
Redeploy(d) ==
    /\ IsNext(d)
    /\ \E t \in Deps :
        /\ row[t].status = "success"
        /\ \A e \in Deps : row[e].status = "success" => e <= t
        /\ Create(d, "deploying", "reuse", row[t].image, "apply")

\* The service reads deploying from here on; a clone that cannot be
\* authorised ends the deployment instead.
MarkDeploying(d) ==
    /\ task[d]["run"].pc = "mark"
    /\ \/ /\ svc' = [svc EXCEPT !.status = "deploying"]
          /\ Goto(d, "run", At(IF row[d].kind = "build" THEN "create" ELSE "apply"))
       \/ /\ row[d].kind = "build"
          /\ Goto(d, "run", Failing("plain"))
          /\ UNCHANGED svc
    /\ UNCHANGED <<row, cluster, api, op, rec, budget, history>>

-----------------------------------------------------------------------------
(* The pipeline *)

\* runPipeline up to the build Job, which a missing build node prevents.
CreateBuildJob(d) ==
    /\ task[d]["run"].pc = "create"
    /\ \/ /\ job' = [job EXCEPT ![d] = "queued"]
          /\ Goto(d, "run", At("note"))
       \/ /\ Goto(d, "run", Failing("plain"))
          /\ UNCHANGED job
    /\ UNCHANGED <<row, svc, registry, app, api, op, rec, budget, history>>

\* Queued until a node takes the pod; only then is it building.
NotePending(d) ==
    /\ task[d]["run"].pc = "note"
    /\ SetStatus(d, "pending")
    /\ Goto(d, "run", At("wait"))
    /\ UNCHANGED <<svc, cluster, api, op, rec, budget, history>>

\* OnStarted: the pod is on a node, and it is so once for this wait.
OnStarted(d, r) ==
    /\ task[d][r].pc = "wait"
    /\ job[d] \in {"running", "succeeded", "failed"}
    /\ SetStatus(d, "building")
    /\ Goto(d, r, At("started"))
    /\ UNCHANGED <<svc, cluster, api, op, rec, budget, history>>

\* Variant: a Job that ended is taken for one that succeeded.
JobEnded(d) == job[d] \in {"succeeded", "failed"}
JobSucceeded(d) == job[d] = "succeeded"

\* WaitForJobWith returns: the Job ended, it could not be read, the wait timed
\* out (a Job that is not there is asked for again until then), or no node
\* could take the pod.
WaitForJob(d, r) ==
    /\ task[d][r].pc \in {"wait", "started"}
    /\ \/ /\ JobSucceeded(d)
          /\ Goto(d, r, At("deploying"))
       \/ Goto(d, r, Failing("plain"))
       \/ /\ job[d] = "queued"
          /\ Goto(d, r, At("drop"))
    /\ UNCHANGED <<row, svc, cluster, api, op, rec, budget, history>>

\* The deletion of a Job, whose error is ignored: the Job may live on.
DeleteJob(d) == job' \in {job, [job EXCEPT ![d] = "none"]}

\* Deleted so it cannot start later, after the deploy was reported failed.
DropJob(d, r) ==
    /\ task[d][r].pc = "drop"
    /\ DeleteJob(d)
    /\ Goto(d, r, Failing("plain"))
    /\ UNCHANGED <<row, svc, registry, app, api, op, rec, budget, history>>

SetDeploying(d, r) ==
    /\ task[d][r].pc = "deploying"
    /\ SetStatus(d, "deploying")
    /\ Goto(d, r, At("apply"))
    /\ UNCHANGED <<svc, cluster, api, op, rec, budget, history>>

\* startWorkload, or the pull secret or the call itself failing.
startWorkload(d, r) ==
    /\ task[d][r].pc = "apply"
    /\ \/ /\ app' = Revision(row[d].image)
          /\ applied' = applied \union {d}
          /\ reached' = reached \union {row[d].image}
          /\ Goto(d, r, At("publish"))
       \/ /\ Goto(d, r, Failing("plain"))
          /\ UNCHANGED <<app, applied, reached>>
    /\ UNCHANGED <<row, svc, job, registry, api, op, rec, budget, early, cancelled>>

\* markDeployed, then the Services and NodePorts.  An image deployed as it is
\* counts as deployed once they are there; the others' rollout is watched.
Publish(d, r) ==
    /\ task[d][r].pc = "publish"
    /\ svc' = [svc EXCEPT !.deployed = TRUE]
    /\ \/ Goto(d, r, At(IF row[d].kind = "reuse" THEN "succeed" ELSE "watch"))
       \/ Goto(d, r, Failing("plain"))
    /\ UNCHANGED <<row, cluster, api, op, rec, budget, history>>

\* WatchRollout: done when the replicas asked for are there, which none are
\* of a workload scaled to zero.  It gives up on broken pods, on the timeout
\* and on an error reading the Deployment.  A watch taken up again by resume
\* marks the service deployed itself.
WatchRollout(d, r) ==
    /\ task[d][r].pc \in {"watch", "rewatch"}
    /\ \/ /\ app.exists /\ (~app.wanted \/ app.health = "ready")
          /\ svc' = [svc EXCEPT !.deployed = @ \/ task[d][r].pc = "rewatch"]
          /\ Goto(d, r, At("succeed"))
       \/ /\ Goto(d, r, Failing(IF task[d][r].pc = "watch" THEN "rollout" ELSE "rewatch"))
          /\ UNCHANGED svc
    /\ UNCHANGED <<row, cluster, api, op, rec, budget, history>>

\* succeedDeployment: the deployment's row, then the service's, whose image is
\* left alone by triggerDirectDeploy only.
succeedDeployment(d, r) ==
    /\ task[d][r].pc = "succeed"
    /\ SetStatus(d, "success")
    /\ Goto(d, r, At("succeedSvc"))
    /\ UNCHANGED <<svc, cluster, api, op, rec, budget, history>>

SucceedService(d, r) ==
    /\ task[d][r].pc = "succeedSvc"
    /\ svc' = [status |-> "running", deployed |-> TRUE, failed |-> FALSE,
               image |-> IF r = "run" /\ row[d].kind = "image" THEN svc.image
                         ELSE row[d].image]
    /\ Goto(d, r, Idle)
    /\ UNCHANGED <<row, cluster, api, op, rec, budget, history>>

\* failDeployment: the deployment's row, then the service found through it.
failDeployment(d, r) ==
    /\ task[d][r].pc = "fail"
    /\ SetStatus(d, "failed")
    /\ Goto(d, r, [task[d][r] EXCEPT !.pc = "failSvc"])
    /\ UNCHANGED <<svc, cluster, api, op, rec, budget, history>>

FailService(d, r) ==
    /\ task[d][r].pc = "failSvc"
    /\ svc' = IF row[d].status \in NoRecord THEN svc
              ELSE [svc EXCEPT !.status = IF svc.deployed THEN "running" ELSE "failed",
                               !.failed = TRUE]
    /\ Goto(d, r, IF task[d][r].why = "plain" THEN Idle
                  ELSE [task[d][r] EXCEPT !.pc = "failLast"])
    /\ UNCHANGED <<row, cluster, api, op, rec, budget, history>>

\* After a failed rollout the service is failed, whatever ran before; after a
\* resume that found nothing to watch, only if it still reads deploying.
FailRollout(d, r) ==
    /\ task[d][r].pc = "failLast"
    /\ svc' = CASE task[d][r].why = "rollout" ->
                     [svc EXCEPT !.status = "failed",
                                 !.image = IF row[d].kind = "build" THEN row[d].image ELSE @]
                [] /\ task[d][r].why # "rollout"
                   /\ task[d][r].why = "rewatch" \/ svc.status = "deploying" ->
                     [svc EXCEPT !.status = "failed"]
                [] OTHER -> svc
    /\ Goto(d, r, Idle)
    /\ UNCHANGED <<row, cluster, api, op, rec, budget, history>>

-----------------------------------------------------------------------------
(* Requests about a deployment that exists *)

\* Cancel deletes the Job of a deployment that is active, if it can, then writes
\* the row; it stops no goroutine and leaves the service's row alone.
Cancel(d) ==
    /\ Serving
    /\ row[d].status \in InFlight
    /\ task[d]["cancel"].pc = "idle"
    /\ Spend("cancel")
    /\ DeleteJob(d)
    /\ Goto(d, "cancel", At("cancel"))
    /\ cancelled' = cancelled \union {d}
    /\ UNCHANGED <<row, svc, registry, app, api, op, rec, applied, reached, early>>

CancelRow(d) ==
    /\ task[d]["cancel"].pc = "cancel"
    /\ SetStatus(d, "failed")
    /\ Goto(d, "cancel", Idle)
    /\ UNCHANGED <<svc, cluster, api, op, rec, budget, history>>

DeleteRecord(d) ==
    /\ Serving
    /\ row[d].status \in {"success", "failed"}
    /\ Spend("delete")
    /\ row' = [row EXCEPT ![d].status = "deleted"]
    /\ UNCHANGED <<svc, cluster, api, task, op, rec, history>>

\* Stop scales the workload to zero, if there is one, then writes the row.
Stop ==
    /\ Serving
    /\ op.pc = "idle"
    /\ Spend("stop")
    /\ app' = IF app.exists THEN [app EXCEPT !.wanted = FALSE, !.serving = FALSE]
              ELSE app
    /\ op' = [NoOp EXCEPT !.pc = "stop"]
    /\ UNCHANGED <<row, svc, job, registry, api, task, rec, history>>

\* Start writes running first, as ReapplyService acts only on a running service.
Start ==
    /\ Serving
    /\ op.pc = "idle"
    /\ svc.image # NoImage
    /\ Spend("start")
    /\ svc' = [svc EXCEPT !.status = "running"]
    /\ op' = [NoOp EXCEPT !.pc = "start"]
    /\ UNCHANGED <<row, cluster, api, task, rec, history>>

\* ReapplyService reads the row, and does nothing when it no longer reads
\* running.  An error here or later has Start put the row back to stopped.
ReapplyService ==
    /\ op.pc = "start"
    /\ \/ /\ svc.status = "running" /\ svc.image # NoImage
          /\ op' = [pc |-> "apply", image |-> svc.image]
       \/ /\ svc.status # "running" \/ svc.image = NoImage
          /\ op' = [op EXCEPT !.pc = "startEnd"]
       \/ op' = [op EXCEPT !.pc = "stop"]
    /\ UNCHANGED <<row, svc, cluster, api, task, rec, budget, history>>

\* The workload, from the row as it was read.
ReapplyWorkload ==
    /\ op.pc = "apply"
    /\ \/ /\ app' = Revision(op.image)
          /\ reached' = reached \union {op.image}
          /\ op' = [op EXCEPT !.pc = "publish"]
       \/ /\ op' = [op EXCEPT !.pc = "stop"]
          /\ UNCHANGED <<app, reached>>
    /\ UNCHANGED <<row, svc, job, registry, api, task, rec, budget, applied, early,
                   cancelled>>

\* markDeployed, then the Services, whose error comes after it.
ReapplyPublish ==
    /\ op.pc = "publish"
    /\ svc' = [svc EXCEPT !.deployed = TRUE]
    /\ \E next \in {"startEnd", "stop"} : op' = [op EXCEPT !.pc = next]
    /\ UNCHANGED <<row, cluster, api, task, rec, budget, history>>

\* The last write of a Stop or a Start.
WriteStatus ==
    /\ op.pc \in {"stop", "startEnd"}
    /\ svc' = [svc EXCEPT !.status = IF op.pc = "stop" THEN "stopped" ELSE "running"]
    /\ op' = NoOp
    /\ UNCHANGED <<row, cluster, api, task, rec, budget, history>>

-----------------------------------------------------------------------------
(* The API process, and what it takes up again after a restart *)

Crash ==
    /\ api.up
    /\ Spend("crash")
    /\ api' = [up |-> FALSE, resumed |-> FALSE]
    /\ task' = [d \in Deps |-> [r \in Roles |-> Idle]]
    /\ op' = NoOp
    /\ rec' = [pc |-> "idle", seen |-> "stopped", want |-> "stopped"]
    /\ early' = {}
    /\ cancelled' = {}
    /\ UNCHANGED <<row, svc, cluster, applied, reached>>

Restart ==
    /\ ~api.up
    /\ api' = [up |-> TRUE, resumed |-> FALSE]
    /\ UNCHANGED <<row, svc, cluster, task, op, rec, budget, history>>

\* Variant: the row's status taken for the step to go on from.
ResumeAsItReads(r) == r.status

\* Where resume begins, from the row as ResumeInFlight read it.
ResumeStep(r) ==
    CASE r.status = "pending" -> "resumePending"
      [] r.status = "building" -> "resumeBuilding"
      [] OTHER -> "resumeDeploying"

\* Variants: rows that wait for a node are left out; rows that ended are not.
ToResumeNotPending(d) == row[d].status \in InFlight \ {"pending"}
ToResumeFailedToo(d) == row[d].status \in InFlight \union {"failed"}
ToResume(d) == row[d].status \in InFlight

\* Variant: taken up again later too, from whoever follows it by then.
ResumeAnyTime ==
    /\ api.up
    /\ api' = [api EXCEPT !.resumed = TRUE]
    /\ task' = [d \in Deps |-> IF ToResume(d)
                               THEN [task[d] EXCEPT !["resume"] = At(ResumeStep(row[d]))]
                               ELSE task[d]]
    /\ UNCHANGED <<row, svc, cluster, op, rec, budget, history>>

\* Every row in flight, whoever follows it.
ResumeInFlight ==
    /\ api.up /\ ~api.resumed
    /\ api' = [api EXCEPT !.resumed = TRUE]
    /\ task' = [d \in Deps |-> IF ToResume(d)
                               THEN [task[d] EXCEPT !["resume"] = At(ResumeStep(row[d]))]
                               ELSE task[d]]
    /\ UNCHANGED <<row, svc, cluster, op, rec, budget, history>>

\* The Job goes on in the cluster whatever the API does: follow it again.
ResumeBuild(d) ==
    /\ task[d]["resume"].pc \in {"resumePending", "resumeBuilding"}
    /\ \/ /\ job[d] # "none"
          /\ SetStatus(d, IF task[d]["resume"].pc = "resumePending" THEN "pending" ELSE "building")
          /\ Goto(d, "resume", At("wait"))
       \/ /\ Goto(d, "resume", Failing("plain"))
          /\ UNCHANGED row
    /\ UNCHANGED <<svc, cluster, api, op, rec, budget, history>>

\* Variant: whatever workload is there is taken for this deployment's.
AnyWorkload(d) == app.exists
ReachedCluster(d) == app.exists /\ app.image = row[d].image

\* Only what reached the cluster can be watched.
ResumeRollout(d) ==
    /\ task[d]["resume"].pc = "resumeDeploying"
    /\ \/ /\ ReachedCluster(d)
          /\ Goto(d, "resume", At("rewatch"))
       \/ Goto(d, "resume", Failing("unreached"))
    /\ UNCHANGED <<row, svc, cluster, api, op, rec, budget, history>>

-----------------------------------------------------------------------------
(* reconcileStatuses: the service's row, the deployments in flight, the      *)
(* cluster, then the write, each read on its own.                            *)

\* Variant: a failed service is not looked at again.
reconciledNotFailed == {"running", "deploying"}
reconciledStatuses == {"running", "deploying", "failed"}

RecList ==
    /\ Reconciles
    /\ api.up /\ rec.pc = "idle"
    /\ svc.status \in reconciledStatuses
    /\ rec' = [rec EXCEPT !.pc = "busy", !.seen = svc.status]
    /\ UNCHANGED <<row, svc, cluster, api, task, op, budget, history>>

RecInFlight ==
    /\ rec.pc = "busy"
    /\ rec' = [rec EXCEPT !.pc = IF \E d \in Deps : row[d].status \in InFlight
                                 THEN "idle" ELSE "cluster"]
    /\ UNCHANGED <<row, svc, cluster, api, task, op, budget, history>>

\* A failed service stays failed until a pod is ready.
RecCluster ==
    /\ rec.pc = "cluster"
    /\ LET want == deriveServiceStatus(app)
       IN  rec' = IF want = rec.seen \/ (want = "deploying" /\ rec.seen = "failed")
                  THEN [rec EXCEPT !.pc = "idle"]
                  ELSE [rec EXCEPT !.pc = "write", !.want = want]
    /\ UNCHANGED <<row, svc, cluster, api, task, op, budget, history>>

RecWrite ==
    /\ rec.pc = "write"
    /\ svc' = [svc EXCEPT !.status = rec.want]
    /\ rec' = [rec EXCEPT !.pc = "idle"]
    /\ UNCHANGED <<row, cluster, api, task, op, budget, history>>

-----------------------------------------------------------------------------
(* What the cluster does by itself *)

JobStarts(d) ==
    /\ job[d] = "queued"
    /\ job' = [job EXCEPT ![d] = "running"]
    /\ UNCHANGED <<row, svc, registry, app, api, task, op, rec, budget, history>>

\* A build that succeeds has pushed its image.
JobEnds(d) ==
    /\ job[d] = "running"
    /\ \/ /\ job' = [job EXCEPT ![d] = "succeeded"]
          /\ registry' = registry \union {d}
       \/ /\ job' = [job EXCEPT ![d] = "failed"]
          /\ UNCHANGED registry
    /\ UNCHANGED <<row, svc, app, api, task, op, rec, budget, history>>

\* A finished Job is cleaned up an hour later: long after a running API saw
\* how it ended, but not after one that was down.
JobExpires(d) ==
    /\ ~api.up
    /\ job[d] \in {"succeeded", "failed"}
    /\ job' = [job EXCEPT ![d] = "none"]
    /\ UNCHANGED <<row, svc, registry, app, api, task, op, rec, budget, history>>

RolloutSettles ==
    /\ app.exists /\ app.wanted /\ app.health = "progressing"
    /\ \/ app' = [app EXCEPT !.health = "ready", !.serving = FALSE]
       \/ app' = [app EXCEPT !.health = "broken"]
    /\ UNCHANGED <<row, svc, job, registry, api, task, op, rec, budget, history>>

\* Pods fall over after they were ready, and recover.
PodsFlap ==
    /\ app.exists /\ app.wanted
    /\ Spend("flap")
    /\ \/ app.health = "ready" /\ app' = [app EXCEPT !.health = "broken"]
       \/ app.health = "broken" /\ app' = [app EXCEPT !.health = "ready", !.serving = FALSE]
    /\ UNCHANGED <<row, svc, job, registry, api, task, op, rec, history>>

-----------------------------------------------------------------------------

Request(d) ==
    \/ Trigger(d) \/ triggerDirectDeploy(d) \/ Rollback(d) \/ Redeploy(d)
    \/ Cancel(d) \/ DeleteRecord(d)

\* One step of goroutine r for deployment d.
Follow(d, r) ==
    \/ OnStarted(d, r) \/ WaitForJob(d, r) \/ DropJob(d, r) \/ SetDeploying(d, r)
    \/ startWorkload(d, r) \/ Publish(d, r) \/ WatchRollout(d, r)
    \/ succeedDeployment(d, r) \/ SucceedService(d, r)
    \/ failDeployment(d, r) \/ FailService(d, r) \/ FailRollout(d, r)

Pipeline(d) ==
    \/ MarkDeploying(d) \/ CreateBuildJob(d) \/ NotePending(d)
    \/ CancelRow(d) \/ ResumeBuild(d) \/ ResumeRollout(d)

Operate == ReapplyService \/ ReapplyWorkload \/ ReapplyPublish \/ WriteStatus
Reconcile == RecList \/ RecInFlight \/ RecCluster \/ RecWrite
K8s(d) == JobStarts(d) \/ JobEnds(d) \/ JobExpires(d)

Next ==
    \/ \E d \in Deps : Request(d) \/ Pipeline(d) \/ K8s(d)
    \/ \E d \in Deps, r \in {"run", "resume"} : Follow(d, r)
    \/ Stop \/ Start \/ Operate
    \/ Crash \/ Restart \/ ResumeInFlight
    \/ Reconcile
    \/ RolloutSettles \/ PodsFlap

\* The API's own steps go on while it is up, it is started again, and a
\* rollout settles; nothing makes users, failures or builds move.
Fairness ==
    /\ \A d \in Deps : WF_vars(Pipeline(d))
    /\ \A d \in Deps, r \in {"run", "resume"} : WF_vars(Follow(d, r))
    /\ WF_vars(Operate)
    /\ WF_vars(Restart)
    /\ WF_vars(ResumeInFlight)
    /\ WF_vars(Reconcile)
    /\ WF_vars(RolloutSettles)

Spec == Init /\ [][Next]_vars
FairSpec == Spec /\ Fairness

-----------------------------------------------------------------------------
(* Properties *)

\* No image is put in the cluster, or left on the service's row, that its
\* build did not push: whatever is cancelled, resumed or rolled back, what
\* followBuild applies is what a finished Job made.
ImageWasBuilt ==
    /\ app.image \in Deps => app.image \in registry
    /\ svc.image \in Deps => svc.image \in registry

\* A deployment is recorded as a success only when its image has been in the
\* cluster, and a build only when it was this deployment that put it there:
\* what succeedDeployment writes is never a guess of resume's.
SuccessWasDeployed ==
    \A d \in Deps : row[d].status = "success" =>
        /\ row[d].image \in reached
        /\ row[d].kind = "build" => d \in applied

Follows(d, r) == task[d][r].pc # "idle"

\* Once an API process has run ResumeInFlight, every deployment in flight is
\* followed by one of its goroutines: none is left pending or deploying for
\* good, with nothing to record how it went.
SomebodyFollows ==
    api.up /\ api.resumed =>
        \A d \in Deps : row[d].status \in InFlight =>
            Follows(d, "run") \/ Follows(d, "resume")

\* One goroutine at a time records how a deployment goes: the one that made
\* it, or the one that resumed it.  Only a deployment made while the API had
\* not yet taken up what it found can have both.
OneFollower ==
    \A d \in Deps : Follows(d, "run") /\ Follows(d, "resume") => d \in early

\* A deployment that was reported to have failed, or succeeded, is never
\* something else later, unless its record is deleted: only its own cancel, or
\* having been made in those first seconds, lets a late goroutine write over it.
FinalIsFinal ==
    [][\A d \in Deps \ (early \union cancelled) :
          row[d].status \in {"success", "failed"} =>
              row'[d].status \in {row[d].status, "deleted"}]_row

\* Every deployment in flight is ended, however often the API restarts.
InFlightEnds ==
    \A d \in Deps : row[d].status \in InFlight ~> row[d].status \notin InFlight

\* A service nobody stopped ends up reading what the cluster says it is (a
\* failed one may wait for a pod to be ready).
StatusFollowsCluster ==
    <>[](\/ svc.status = "stopped"
         \/ svc.status = deriveServiceStatus(app)
         \/ svc.status = "failed" /\ deriveServiceStatus(app) = "deploying")

\* Statements of the source that the code does not keep; each is checked by a
\* run that shows how.

\* deployment_resume.go: ResumeInFlight follows the deployments an API restart
\* left in flight, which nobody follows.
NeverTwoFollowers ==
    \A d \in Deps : ~(Follows(d, "run") /\ Follows(d, "resume"))

\* deployment.go: Cancel marks the deployment as failed.
FailedStaysFailed ==
    [][\A d \in Deps : row[d].status = "failed" =>
          row'[d].status \in {"failed", "deleted"}]_row

\* deployment_resume.go: only what reached the cluster can be watched.
EverySuccessWasApplied ==
    \A d \in Deps : row[d].status = "success" => d \in applied

\* workload_status.go: a stopped service is left alone.
StoppedIsLeftAlone ==
    [][rec.pc = "write" /\ rec'.pc = "idle" /\ api'.up => svc.status # "stopped"]_vars

\* service.go: stored service status is kept in step with the cluster.
StoppedMeansStopped ==
    <>[](svc.status = "stopped" => ~(app.exists /\ app.wanted))

=============================================================================
