# Meshploy in TLA+

Specifications of the parts of Meshploy whose correctness depends on the order
in which things happen: what becomes of a deployment while the API restarts
under it, how a stack is rolled out and resumed, what the edge proxy serves and
which ports it opens while its tables are reloaded, how a server is moved from
Dokploy and back, how a gateway upgrades itself, and how the API asks the host
for things. TLC checks them on small instances; TLAPS proves the main
invariants of several of them for every size.

Paths are relative to the repository, `service/` is
`packages/server/service/`, `k8s/` is `packages/server/k8s/`, `cmd/` is
`apps/cli/cmd/` and `dokploy/` is `apps/cli/internal/migrate/dokploy/`.

To check a configuration, `tlc -config X.cfg M`; to check the proofs, `tlapm
DeploymentProofs.tla`, and the other `Proofs` likewise. `PROJECT.json` lists the
runs, says which lines of the source each definition stands for, and gives for
every property a mistake in the code that would violate it (the definitions
commented *Variant*).

## The system

| component | state it keeps | operations | what is hard | status |
|---|---|---|---|---|
| deployment pipeline (`service/deployment.go`, `k8s/`) | `deployments` and `services` rows, build Jobs, Deployments, a goroutine per deployment | Trigger, Rollback, Redeploy, Cancel, DeleteRecord, the pipeline | several writers of two rows and one workload, each write its own transaction; API restarts | `Deployment` |
| resume (`service/deployment_resume.go`) | nothing of its own | ResumeInFlight, resume | has to tell from the cluster what a dead goroutine had done | `Deployment` |
| status (`service/workload_status.go`, `workload.go`) | `services.status` | Start, Stop, reconcileStatuses | reads a list, then the cluster, then writes | `Deployment` |
| stack rollout (`service/stack_rollout.go`, `stack_runs.go`) | `stack_runs` rows, the follower's memory | Apply, the follower, ResumeRuns | layers, a cap on builds, timeouts, a record that is behind what was started | `StackRollout`, `StackOrder` |
| edge route cache (`packages/proxy/cache`, `saved`, `packages/db/edge_version.go`) | table in memory, saved copy, count of changes | load, Get, FallbackFor, restore | requests add to the table while loads replace it; database outages | `RouteCache` |
| routes, fallback edge (`service/route.go`, `edge_fallback.go`) | `routes`, `route_targets`, `edge_fallbacks` | their writes | only the proxy depends on an order | `RouteCache`, in part |
| TCP routes and forwarder (`service/tcp_route.go`, `packages/proxy/tcp`) | `tcp_routes` rows, listeners, saved copy, statuses | Create, Update, SetPublished, Delete, Retarget; sync, apply, restore | the proxy writes back to rows users change, and its writes move the count it follows; ports others may hold | `TcpRoutes` |
| migration from Dokploy (`dokploy/`, `cmd/migrate_stages.go`, `internal/migrate/journal`) | the journal, workloads on both sides, data, ports 80 and 443 | move, cutover, finish, rollback | an effect and its record are two steps; every stage may fail, be cut off, resumed or put back | `Migration`, `Handover` |
| upgrades (`service/upgrade.go`, `cmd/updater.go`, `cmd/server_upgrade.go`, `internal/edgeconfig`) | inbox, marker, lock and status files; configuration, backups, image tags, containers | RequestUpgrade, the agent, the unit, the upgrade and its two ways back | an upgrade restarts the API and agent that asked for it; kills, reboots; the edge changed by others | `HostUpgrade` |
| host requests (`service/host_requests.go`, `edge_publish.go`, `registry_gc.go`, `cmd/host_requests.go`) | an inbox of files, a status file for each request, the domain set | queueHostRequest, PublishEdge, requestRegistryGC, requestRunner | the agent restarts; several types at once; last writer of the domain set | `HostRequests` |
| mesh gate (`packages/proxy/meshgate`) | policy in memory, saved copy | apply, restore, Check | as the route cache | planned |
| image retention | `image_removed_at`, the registry | pruneOldImages | a rollback racing a removal | planned |
| promotion and environments | rows of two levels | plan, promote | partial failure over several services | planned |
| node removal, mesh policy, backups, CLI login, OAuth codes | rows | | a life cycle each | planned, in that order |
| compose reconciliation, variables, DNS, git providers, notifications, handlers, MCP, client, console, rest of the CLI | rows; external systems | | data mapping or calls to others | not modelled |

Requests reach the services by function calls from the API's handlers. The
services share the database and the cluster, and nothing else except the
deployment service, which the stack rollout, promotion, volumes and Start call.
The proxy is another process: it reads the database and learns of changes from a
counter that every GORM write to a watched table moves in its own transaction.
The host agent is a third: it shares a directory with the API, in which
requests, states and the domain set are files. `PROJECT.json` lists all
components, with reasons for what is left out, and the hazards of the code at
the lines where they bite.

What makes each correct, in a sentence:

- *deployments*: what is in flight is followed and ends; what ended stays as it
  ended, unless somebody cancelled it or made it before the API had resumed; a
  success was deployed; nothing runs that was not built;
- *status*: what the console shows is, in the end, what the cluster does;
- *stack rollout*: a service starts once, after what it depends on is up, under
  the cap; the record says how it went; the run is closed;
- *route cache*: what is routed is served, through outages and restarts, and a
  change is served in the end;
- *TCP routes*: a port is open only as one row asked, stays open while it is
  published, and its status says in the end what is so;
- *migration*: a group never runs on two sides, loses nothing it wrote, can be
  put back as it was found, and no domain goes dark between stages;
- *upgrades*: a success is whole, a rollback restores, the edge serves what is
  on disk or somebody is told, no request is lost and no status runs for ever;
- *host requests*: each is run once and answered, or lost with the agent; a
  domain set that was published gets into service, or a later one does.

## Modules

    Deployment <- MCDeployment            StackOrder <- StackRollout <- MCStackRollout
               <- DeploymentProofs                                   <- StackRolloutProofs
    TcpRoutes  <- MCTcpRoutes             Handover   <- Migration    <- MCMigration
               <- TcpRoutesProofs                                    <- MigrationProofs
    HostUpgrade  <- HostUpgradeProofs     RouteCache <- MCRouteCache
    HostRequests <- HostRequestsProofs               <- RouteCacheProofs

### Deployment

All deployments of one service. `row[d]` and `svc` are the database's rows,
`job`, `registry` and `app` the cluster, `api` the process, and `task[d][r]`
says what goroutine `r` does for deployment `d`: `run` is the one its request
made, `resume` the one `ResumeInFlight` made, `cancel` a Cancel request between
its two writes. A step is one database write or one call to the cluster, so a
crash, a request or the reconciler may come between any two.

| code | actions |
|---|---|
| `Trigger`, `triggerDirectDeploy`, `Rollback`, `Redeploy`/`deployImage` | `Trigger`, `triggerDirectDeploy`, `Rollback`, `Redeploy`, `MarkDeploying` |
| `runPipeline` | `CreateBuildJob`, `NotePending` |
| `followBuild`, and the goroutines of the two direct deploys | `OnStarted`, `WaitForJob`, `DropJob`, `SetDeploying`, `startWorkload`, `Publish`, `WatchRollout` |
| `succeedDeployment` | `succeedDeployment`, `SucceedService` |
| `failDeployment` and what its callers write after it | `failDeployment`, `FailService`, `FailRollout` |
| `Cancel`, `DeleteRecord` | `Cancel`, `CancelRow`, `DeleteRecord` |
| `ResumeInFlight`, `resume` | `ResumeInFlight`, `ResumeBuild`, `ResumeRollout`, then the steps above with `r = "resume"` |
| `Start`, `ReapplyService`, `Stop` | `Start`, `ReapplyService`, `ReapplyWorkload`, `ReapplyPublish`, `Stop`, `WriteStatus` |
| `reconcileStatuses` | `RecList`, `RecInFlight`, `RecCluster`, `RecWrite` |
| the cluster | `JobStarts`, `JobEnds`, `JobExpires`, `RolloutSettles`, `PodsFlap` |

Image `d` is the one deployment `d` builds. The cluster's workload has an image,
a health (`progressing`, `ready`, `broken`), whether replicas are wanted, and
whether an older revision still serves beside the new one (`serving`, which a
volume's Recreate strategy rules out). `applied`, `reached`, `early` and
`cancelled` are history.

The API serves from the moment it is up, and `ResumeInFlight` comes five seconds
later, in a goroutine of its own (`service/service.go`): a request may come before
it, and the deployment it makes is in `early`. Such a deployment gets a second
goroutine, and the two may write over each other. `OneFollower` says that no
other ever does, `FinalIsFinal` that no other's outcome is overwritten but by a
cancel of it. The budget for `early` bounds how many there are.

Abstractions: one service of type application that does not run once; a step
that can fail for several reasons in the code fails nondeterministically; Jobs
and rollouts take as long as they like, and a wait may time out at any moment;
a finished Job expires only while the API is down, since the hour of its TTL is
long against what a running API needs to read it; a database query that fails by
itself, image retention, project holds and one Start or Stop at a time are the
limits. `failDeployment`'s read of the service is part of its write. A Job's
deletion may fail, as its error is ignored. `ResumeInFlight`'s return on an error
of its query is not modelled: until the next restart nobody would follow what it
should have read.

### StackRollout and StackOrder

One run of one stack. `run` is its `stack_runs` row, `proc` the goroutine that
follows it with everything it keeps in memory (the steps, the deployments it
waits for, the queue of builds, what is blocked, the cap it read), `dep` the
deployments as `waitDeployments` and the cap read them, with `pending` and
`building` as one status.

| code | actions |
|---|---|
| end of `Apply`, `startRun`, `recordResult` | `Apply`, `recordResult` |
| `triggerLayer` | `TriggerOne`, `SaveLayer` |
| `startQueuedBuilds`, `capBuilds` | `startQueuedBuilds`, `StartNow` |
| `waitDeployments`, `stepByDeployment`, `holdBack` | `PreviousEnded`, `Outcome`, `NextLayer`, `LayersDone`, `WaitTimesOut` |
| `finishRun` | `FinishSave`, `finishRun` |
| `resumeRun`, `resumePlan` | `resumeRun`, `ResumeGone` |

`Layer` is a recursive function over the dependencies, as `serviceLayers` is;
that the dependencies have no cycle (`NoCycle`) is what compose sees to before a
stack is applied.
The services of the model are those of the run: a dependency through a service
that the run leaves alone orders nothing here. A run record that could not be
created (`startRun` returning nil) is left out.

`StackOrder` is what a caller may rely on: a service starts when all it depends
on is up, is held back when some of it is not going to be, and the run ends with
the verdict its services give. It knows no layers, caps, goroutines or records.
`StackRollout` implements it under the mapping `Phase`, which takes a service's
phase from its deployment or, when it has none, from its step. A service with
two deployments maps to a phase of its own that `StackOrder` does not have, so
that the refinement also says that each service is deployed once. It says all
that could be asked separately: that nothing starts before what it depends on
is up, that what failed holds back what needs it, that a run closed as
succeeded has every service up, and that a closed run waited for all of its
deployments. Those stay as definitions (`EachOnce`, `RunCoversItsLayers`,
`SucceededMeansUp`, `FailureHoldsBack`) for the configurations that break them.

### RouteCache

Hostnames, one of them a wildcard, and what they answer. `db` holds targets,
the published routes, the old edge's hostnames and the count of changes;
`cache` is the table served from; `loader` a load in progress and the count it
has seen; `disk` the saved copy; `get[g]` a request. `load` is five actions
(two queries of the routes, the fallback, the save, the swap under the lock), a
request is one for the lookup, one for each query and one for the insert.
`ReadTargets` and `ReadRoutes` are apart because GORM's Preload is a second
query. `steady`, `ever` and `kept` are history.

Abstractions: `Answers` stands for a hostname's list of targets; path prefixes
and the pages the proxy makes itself are left out; a hit on the hostname itself
changes nothing and is not an action. A saved copy that cannot be read, or has
another format, is not modelled (`cache.go:138`): it is the same as none, the
proxy serves nothing until the database answers, and `SteadyIsServed` does not
hold of that restart.

### TcpRoutes

The rows of `tcp_routes` and the gateway's listeners. `rows` is the table,
`moved` whether the count of changes moved since the proxy looked, `open` the
listener on each port, `proc` the proxy's load with what it still has to apply,
`disk` the saved copy, `taken` what other programs listen on. A load is one
query, one write of the copy and then one step for each route, so that the API
writes, and other programs take a port, between any two of them.

| code | actions |
|---|---|
| `Create`, `Update`, `SetPublished`, `Delete`, `Retarget`; `SyncPublished` is `Delete`, `Create`, `Retarget` | `Create`, `UpdatePort`, `UpdateAllowed`, `ResolveTarget`, `SetPublished`, `Delete`, `Retarget` |
| `Start`, `sync`, `restore` | `Start`, `Load`, `LoadFails`, `Save`, `Restore` |
| `apply`, `setStatus` | `CloseUnwanted`, `ApplyPaused`, `ApplyWanted`, `ApplyEnds`, with `setStatus` |
| `FollowEdgeVersion` | `Check`, `Refresh` |

Abstractions: a route's target and its allow-list are one value, as a listener
takes them up together; the count is whether it moved; identities are not used
again; open connections, `last_error` and `Stop` are left out. A route may be
published with nowhere to go (no address yet): its port stays closed, and the
forwarder writes no status for it, so `Converges` asks for none.
A copy that cannot be read, or has another format, is not modelled: it is the
same as none, the ports stay closed until the database answers, and
`SteadyIsOpen` does not hold of that restart. Nor is a listener whose accept loop
ended on an error of its own (`packages/proxy/tcp/forwarder.go:257`): it stays in
the map as open, is given new targets, and listens to nobody.

### Migration and Handover

One server with groups of workloads. `journal` is what is done and what can be
undone; `was` the copies as found, `old` and `new` both sides' workloads, `data`
how many writes each copy of the data, and a dump, holds; `routes` and `edge`
what is served through which edge; `job` the stage that runs, with the steps it
has left. A step is two actions: its effect, then `Note`, which writes it to the
journal. A step the journal has is not done again.

| code | actions |
|---|---|
| `runMigrateMove`, `runMigrateCutover`, `runMigrateFinish`, `runMigrateRollback` | `StartMove`, `StartCutover`, `StartFinish`, `StartRollback`, `EndRun`, `EndReplay` |
| `Move` (`move.go`, `data.go`) | `StopOld`, `Dump`, `CopyFiles`, `Restore`, `StartNew`, `PublishTCPRoute`, `SwitchDomain`, `PublishRoute`, `Check`, in the order of `MoveSteps` |
| `Cutover`, edge last and edge first (`cutover.go`, `edge_first.go`, `edge.go`, `control.go`) | `TrustForwardedHeaders`, `SetFallback`, `StopControlPlane`, `LetGoOfPorts`, `StartCaddy`, `EdgeIsUp`, in the order of `CutoverSteps` |
| `Finish` | `RemoveOld`, `FinishHost` |
| the undo of a failed move, `Replay` | `FailMove`, `FailCutover`, `FailFinish`, `Undo`, `FailUndo` |
| the journal | `Note`, `Done`, `Undoable`, `NotDone` |

Crashes cut a stage off between two steps (`Crash`); `Torn` is one between an
effect and its entry. One stage runs at a time; that two may be asked for at
once is `HostRequests`'.

`Handover` is what is promised of each group: it leaves one side before it
arrives on the other. `Migration` implements it under `Side`.

Abstractions: data is the count of writes it holds; a workload runs or does
not; each domain is one application's; the plan is confirmed; images are there.
An entry is always written when its step has had its effect, a crash apart
(`Torn`). In the code an append may fail: after a start (`move.go:435`, `481`),
the start of Caddy (`cutover.go:281`) and the removals of finish the error is
ignored; elsewhere it fails the stage, the effect being there. Either way the
journal lacks what is so, which is what `migration_torn` shows a rollback to make
of. Stopping a compose project is whole or nothing, while the code may stop some
of its containers, or clear a restart policy, before it fails
(`control.go:97`, `121`). A data entry that failed has a key of its own in the
journal, which nothing reads; published ports of a stack, and the refusal of a
workload that never ran, are left out of `MoveSteps`.

### HostUpgrade

`request`, `marker`, `lock` and `status` are the files in the directory the API
shares with the host; `disk`, `backup`, `tags` and `up` the release of each
configuration file, its copy, each image tag and each container; `edge`,
`edgeBackup` and `served` the generated edge configuration, its copy and what
Caddy has loaded; `runs[r]` an upgrade: from the console's request (`unit`), by
hand through the updater (`hand`) or without its lock (`direct`).

| code | actions |
|---|---|
| `RequestUpgrade` | `CheckRequest`, `WriteRequest` |
| `updater start`, `updater stop` | `StartUpdater`, `StopUpdater`, `DiscardPending` |
| the host agent | `AgentStarts`, `Launch` |
| `updater run` (`runUpgrade`) | `TakeLock`, `TakeRequest`, `Announce`, `UpdateCLI`, `WaitHealthy`, `EndRun` |
| `serverUpgrade` | `Prepare`, `Pull`, `InstallFile`, `InstallEnds`, `GenerateEdge`, `Restart`, `RecreateEdge`, `Verify` |
| its two ways back | `PutBack`; `UndoEdge`, `UndoFiles`, `UndoStack` |
| `domain.apply` (`applyEdgeSnapshotChanges`) | `ApplyDomains`, `ReloadEdge`, `RecordInstalled` |

`KillRun` and `Reboot` cut a run off anywhere, `GoStale` lets a heartbeat grow
old. A restart of the API's container drops what a handler of it was doing
(`NewContainers`). Abstractions are in the module's head comment.

What an upgrade installs is decided at three moments. `Prepare` resolves the
release, `UpdateCLI` before it took the newest binary, and `Pull` takes what the
channel's tag names by then (`${MESHPLOY_CHANNEL}` in `deploy/docker-compose.yml`), which
the images of a release reach one by one, each pushed by a job of its own
(`Publish`, `PublishImage`). So files and images need not be of one release, nor
one image and the next, and `SucceededIsWhole` does not say so: it says that all
files are of the release that was resolved, that every container is on the image
its tag names, and that none is older than what was offered when the upgrade
began. The tag is that of the channel in `.env`: when the channel could not be
written there, which is a warning, the upgrade succeeds on the other's images.

A rollback has the images that were recorded, of the services that ran; what was
not recorded stays new. `FailureRestores` says of images what was recorded and
can be reached again by the tag that `.env` names; the message, "the server is
running the previous version again", says more. A failed `compose up` leaves some
containers new and others not, Caddy's among either, and the run is `stuck`.

`apply` and an upgrade may each fail at the edge, in the middle of `Install` or of
`Restore`; `told` is whether an error then said that what is on disk is not what is
loaded. An apply asked for again after that finds nothing to change and reloads
nothing, and the error before it remains the only word on it.

`crossed` is set of a run during which another was changing the host: with the
lock there is none (`LockedNeverCross`), but `server-upgrade` at a terminal takes
none, and of two at once neither leaves what it should.

### HostRequests

A request is a number, in the order it was left; `inbox`, `running` and `status`
are the files and the agent's memory. `domains` is the domain set in the
database; the sets left for the agent are numbered in `left`, the last being the
file `inbox/edge.json`, and `applying` and `served` are the numbers of the set
that the running apply read and of the one in service. `cut`, `brings` and
`promised` are history: requests that failed or went with the agent, what had
been left when each was asked for, and the last set whose publish was reported
done.

| code | actions |
|---|---|
| `queueHostRequest`, `RequestMigration` | `Queue`, `RequestStage` |
| `publishEdge`, `PublishEdge` | `ChangeDomain`, `ReadDomains`, `LeaveDesired`, `AskToApply`, `PublishFails`, `ApiRestarts` |
| `requestRegistryGC` | `CheckBuilds`, `AskForGC` |
| `requestRunner.check`, `runHostRequest` | `Take`, `Start`, `Finish` |
| restarts, the heartbeat | `AgentStops`, `AgentStarts`, `ReportGoesStale` |

Any number of handlers publish at once: no lock is around `PublishEdge`. A publish
may fail at any of its steps, and its handler logs that and goes on
(`packages/server/handler/domain.go:615`); the API may go between the row and the
file. Of what was dropped so nothing is claimed, and the handler's comment says
why: "The next publish sends the whole set again". `PublishedIsServed` is about
the others. Left out: a request that cannot be read, which is removed without a
status.

## Runs

| run | shows | bounds |
|---|---|---|
| `deployment_safety` | `TypeOK`, `ImageWasBuilt`, `SuccessWasDeployed`, `SomebodyFollows`, `OneFollower`, `FinalIsFinal` | 2 deployments with a volume, 2 crashes, and a cancel or a request before the resume |
| `deployment_ends` | `InFlightEnds` | 1 deployment, which may be made before the resume; 2 crashes, a cancel, a deletion, a Stop, a Start |
| `deployment_status` | `StatusFollowsCluster`, with a volume and the reconciler | 1 deployment of an image; a crash, a cancel, a Stop, a Start, a flap |
| `rollout_order` | `TypeOK`, `RecordIsFinal`, `BuildsCapped`, `ImplementsOrder` | 4 services in 2 layers, cap 0, 1 or 2, 2 crashes between saves |
| `rollout_ends` | `RunEnds` | 3 services, cap 0 or 1, one of everything that can go wrong |
| `cache_serves` | `TypeOK`, `SteadyIsServed`, `SavedWasPublished`, `EventuallyFresh` | 2 hostnames, every initial table, three budgets of changes, failures and requests |
| `tcp_routes` | `TypeOK`, `OpenAsAsked`, `SteadyIsOpen`, `Converges` | 2 routes, 2 ports, two zones; 3 changes, or 2 with an outage, a crash and a copy not written, or 2 with a crash and a port taken |
| `migration_moves` | `TypeOK`, `OneSide`, `PutBack`, `FirstMoveLosesNothing`, `NothingGoesDark`, `JournalTells`, `RemovedRuns`, `ImplementsHandover` | 2 groups: an application with a database, a compose app with a volume; one trouble in a behaviour: a failed step, a failed undo or a crash; a rollback, a second move, a write |
| `host_upgrade` | `TypeOK`, `SucceededIsWhole`, `FailureRestores`, `ServedIsOnDisk` | 2 runs of `server-upgrade`, 2 channels, 2 services, 2 files, a new release, an image pushed, 2 faults; a change of domains or a crash |
| `host_ends` | `NoneOverwritten`, `NeverRunningForever`, `RequestsAreTaken` | 2 callers, 2 requests, a run by hand, the updater switched off once, a fault, a crash |
| `requests_safe` | `TypeOK`, `RunOnce`, `PublishedIsServed`, `RequestsAreAnswered` | 2 requests of 3 types, 2 handlers, 2 changes of domains, a build, a restart of the agent, a failed publish or a restart of the API |
| `migration_moved_again` | a violation of `NothingLost` | 1 group, a rollback, a write, a second move |

Two deployments are the least with which one may overwrite the other, reuse its
image or pass for it after a restart; a second crash is one that hits a
resumed goroutine. A cancel and a request before the resume come in different
behaviours (`EarlyOrCancel`), each exempting its own deployment from
`FinalIsFinal`, which keeps the run short. `deployment_status` has no request
before the resume; with one, a Stop, a Start, and either a crash or a flap,
`StatusFollowsCluster` was found to hold as well. Two layers with three builds and an image give a layer partly
queued, partly held back, and a dependency of either kind. A hostname and its
wildcard give the three ways a name is found. Two routes and two ports let a
route move onto another's port, or be made again where one was deleted. Two
groups, one of which may be outside the plan, are a group that has moved beside
one that has not. In an upgrade two faults are one on the way and one on the way
back, and a crash leaves its snapshot to the next. `host_upgrade` takes the
channels for alike (`Symmetric`), and leaves out behaviours with both a crash and
a change of domains (`CrashesApart`): `ServedIsOnDisk` claims nothing after a
crash, and no other property is about domains. With an upgrade from the console
beside one without the lock, so that they cross, a crash, a fault and a pushed
image, the same properties hold too (700,000 states). Two requests wait behind a
running one or beside one of another type, and two handlers are the least that
overtake each other. Every configuration sets
`CHECK_DEADLOCK FALSE`: with the budgets spent and everything ended, the system
rests.

`migration_moves` lets any undo fail but those that stop a copy of Meshploy's
((`UndoFails`): after one of these fails, `Replay` goes on and starts Dokploy's
copy again beside it, and with all of `Kinds` in `UndoFails` `OneSide` is
violated.

`migration_moved_again` shows a statement of the source that the code does not
keep: a group that is moved, put back, used and moved again loses what was
written in between (`dokploy/data.go`), because the steps that read its data are
still done in the journal.

Further configurations, to be run by hand, show where the limits of the passing
runs are. Each is violated; those that disagree with the source's own words are
under `findings`.

| configuration | what it shows |
|---|---|
| `deployment_cancel` | a cancelled deployment past its build goes on and is recorded as a success (`FailedStaysFailed`) |
| `deployment_resume_redeploy` | a redeploy cut off by a restart before it was applied is recorded as a success, the old workload having the same image (`EverySuccessWasApplied`) |
| `deployment_two_followers` | a deployment made in the five seconds before ResumeInFlight gets a second goroutine (`NeverTwoFollowers`); this is why `OneFollower` and `FinalIsFinal` exempt it |
| `deployment_reconcile_stopped` | the reconciler overwrites a Stop that came after its list (`StoppedIsLeftAlone`; "A stopped service is left alone", `service/workload_status.go:28`) |
| `deployment_stopped_running` | a stopped service may be running for good, after a Start whose Services failed or a late write of the reconciler (`StoppedMeansStopped`) |
| `rollout_resume_held` | after a restart, what a service held back would have held back is started (`FailureHoldsBack`; `rollout_order` has two layers, and so nothing held back through another service) |
| `rollout_slow_queue` | builds still queued after 45 minutes are dropped, and the run is closed as succeeded (`SucceededMeansUp`) |
| `rollout_slow_layer` | a layer that outlasts the wait: the run is closed before its deployments end (`RunCoversItsLayers`) |
| `rollout_midcrash_twice` | a restart within `triggerLayer`: a service is deployed twice (`EachOnce`) |
| `cache_stale_insert` | a request puts back what it read before a reload (`ChangeTakesEffect`) |
| `migration_half_start` | a start that fails and has started something: both sides run (`OneSide`) |
| `migration_aside` | an old edge that does not come up on its side port is not given its ports back by any rollback (`PutBack`) |
| `migration_recut` | a cutover run again over one that had succeeded gives up on ports Caddy holds, and reports the old edge restored while Caddy goes on serving (`PutBack`) |
| `migration_fallback` | a group put back after the edge was taken first is not among the hosts sent to the old edge (`EdgeFirstServesTheRest`) |
| `migration_torn`, `migration_finish_torn` | a crash between an effect and its entry: put back without being so, removed without running (`PutBack`, `RemovedRuns`) |
| `migration_revoke` | when finish could not revoke the migration's principal, a move after it is not refused, and when it fails it undoes a group whose old copies are gone (`RemovedRuns`) |
| `host_rollback_mixed` | an upgrade tried again after a crash, that fails, rolls back to a mix of two releases (`RolledBackIsWhole`) |
| `host_rollback_edge` | a rollback puts back an older backup of the edge than its own (`RollbackKeepsEdge`) |
| `host_edge_unserved` | after a crash, an upgrade that is tried again recreates nothing, and Caddy serves what it had (`UpgradedEdgeIsServed`) |
| `host_accept_window` | a second request is accepted between the removal of the first and its status (`NoneAcceptedWhileRunning`) |
| `host_stop_race` | a request written while the updater is switched off waits for it to come back (`NothingWaitsWhenOff`) |
| `requests_gc` | a build starts after the builds were counted, and the registry is collected while it pushes (`NoBuildWhileCollecting`) |
| `requests_two_publish` | of two handlers the older domain set may be left last, and stay in service though nothing failed (`SettledIsServed`) |
| `requests_restart` | a request lost with the agent says running for ever (`RunningIsRunning`) |

### Fairness

`Deployment`: every goroutine of a running API goes on (the Go scheduler and the
timeouts of its waits see to it), the API is started again (it is supervised),
`ResumeInFlight` runs, the reconciler ticks, and a rollout settles one way or
the other, which `WatchRollout`'s own timeout would end too. Nothing makes a
build start or end, a user do anything or a failure happen.
`StackRollout`: the follower goes on, a run is resumed after a restart, and
each deployment ends, which is `InFlightEnds`. `RouteCache`: loads and requests
go on (queries have timeouts), the ticker ticks, and an outage ends.
`TcpRoutes`: the proxy is started again (its container restarts) and its loads
go on, the ticker ticks, and an outage ends. `HostUpgrade`: systemd starts the
agent again, the agent's loop launches what waits, a run's steps return or time
out (the unit has a limit of thirty minutes; of a run by hand it is assumed), and
a heartbeat nobody keeps grows old. `HostRequests`: the agent reads its
inbox every two seconds, what it runs ends (an assumption, there being no limit
on it), and systemd starts it again. `Migration` assumes none: its properties are of safety, a stage goes on only
when an operator runs it.


## Proofs

Seven modules of proofs, each for every value of the constants that the
assumption of its component admits (`DeploymentAssumption`, `TcpAssumption`,
`CacheAssumption`, `RolloutAssumption` with `NoCycle`, `MigrationAssumption`, and `BoundsAssumption` in `HostRequests` and `HostUpgrade`:
the types of the constants, that there is something to model, and that `None` is
none of the values it stands beside; of a plan, that it names a workload once, in
one group, as an application or as a database, which `buildGroups` sees to by
the item's identifier). What a theorem assumes beside them is in
the table.

| module | theorem | property |
|---|---|---|
| `DeploymentProofs` | `TypeCorrect` | `TypeOK` |
| | `AlwaysFollowed` | `SomebodyFollows` |
| | `SuccessIsEarned` | `SuccessWasDeployed` |
| | `OnlyBuiltImages` | `ImageWasBuilt` |
| | `FollowedOnce` | `OneFollower` |
| | `EndedForGood` | `FinalIsFinal` |
| `StackRolloutProofs` | `TypeCorrect` | `TypeOK` |
| | `StartsEachOnce` | `EachOnce`, without a restart within a layer |
| | `BuildsStayCapped` | `BuildsCapped`, without a restart within a layer |
| | `RecordStaysFinal` | `RecordIsFinal`, of a stack left alone and in time (`Quiet`) |
| | `RolloutImplementsOrder` | `ImplementsOrder`, as above, and with no restart or with two layers |
| `MigrationProofs` | `TypeCorrect` | `TypeOK` |
| | `GroupsOnOneSide` | `OneSide`, of starts and stops that are whole (`Clean`) |
| | `StagesImplementHandover` | `ImplementsHandover`, likewise |
| | `JournalIsTrue` | `JournalTells`, likewise, and of an old edge that settles |
| | `RemovedAlwaysRuns` | `RemovedRuns`, of starts and stops that are whole, and of a principal revoked at the first attempt |
| | `PutBackIsAsFound` | `PutBack`, likewise, of an old edge that settles, ports that change hands once and Meshploy's edge that can be stopped (`Orderly`) |
| | `FirstMoveKeepsAll` | `FirstMoveLosesNothing`, of starts and stops that are whole |
| | `NothingEverGoesDark` | `NothingGoesDark`, likewise with `Orderly`, and of an old edge whose undo does not fail |
| `HostRequestsProofs` | `TypeCorrect` | `TypeOK` |
| | `NoneRunTwice` | `RunOnce` |
| | `OnlyLostWithTheAgent` | `NothingElseLost` |
| | `PublishedGetsServed` | `PublishedIsServed` |
| `HostUpgradeProofs` | `TypeCorrect` | `TypeOK` |
| | `NoRequestOverwritten` | `NoneOverwritten` |
| | `SuccessIsWhole` | `SucceededIsWhole` |
| | `FailurePutsBack` | `FailureRestores` |
| | `LockedNeverCross` | that no run is crossed, when every upgrade takes the lock |
| | `EdgeIsServed` | `ServedIsOnDisk` |
| `TcpRoutesProofs` | `TypeCorrect` | `TypeOK` |
| | `PortsAreAsAsked` | `OpenAsAsked` |
| | `SteadyStaysOpen` | `SteadyIsOpen` |
| `RouteCacheProofs` | `TypeCorrect` | `TypeOK` |
| | `CopyWasPublished` | `SavedWasPublished` |
| | `SteadyAlwaysServed` | `SteadyIsServed` |

*Deployment*, for any number of deployments, any budget, and every value of
`Builds`, `HasVolume` and `Reconciles`. `SomebodyFollows` is
not inductive: a goroutine that has written a deployment's row and has the
service's left to write follows it no more in any useful sense. `Attended` asks
for a goroutine with the row still to write, and is: a step either leaves the
goroutine attending, or has just written an outcome, and another goroutine's or
a Cancel's write can only end the row too. The one write that reopens a row,
`setStatus` of a resumed or concurrent goroutine, is made by a goroutine that
attends itself.

The other two properties need where an image comes from. `Provenance` is
`OfCluster` (a Job that succeeded has pushed; what was in the cluster was built,
and applied first by its own deployment; the workload and the service's row name
what was in the cluster) and `OfTasks` (rows name their own image or one that
was in the cluster; a goroutine past its Job has an image; one past
`startWorkload` was applied). Each action has a lemma for the parts it can
disturb.

`FollowedOnce` and `EndedForGood` come from one invariant, `Single`: before
`ResumeInFlight` has run, a goroutine follows only what was made meanwhile
(`StartsClean`); a deployment with two was made so (`OneFollower`); a cancel's
goroutine is at work on what was cancelled (`CancelsMarked`); and whoever follows
a deployment that ended, and was neither, has only the service's row left to
write (`EndedIsLeft`). Every step of a pipeline is an `Advances`: one goroutine
goes on, and it alone may end its deployment's row.

*StackRollout*, for any services and dependencies without a cycle, any caps and
any budget. Where a service stands among the layers is a recursive function, for
which the prover has no induction. What the proofs need of it is that it is one
more than the latest of what a service depends on (`LayerIsAfter`).
`LayeringExists` has that from the ranks of `NoCycle`: were there no function
that keeps to the recursion up to every rank, there would be a first rank at
which none does (`LeastNatural`, from the library's `WFMin`), and one that does
below it can be continued there.

`TypeOK` alone is inductive. `Book`, which takes no hypothesis either, says how
the goroutine's table and the record stand to the deployments and the layers: a
step names a deployment of its own service; what is under way is all of the last
layer that started, nothing of a later one has; what is still to be started or
queued is of the current layer; what the goroutine waits for is what this layer
made. `Recorded` is the converse, that every deployment made is in the table or
the record, and so that a service has one at most: this is what a restart within
a layer breaks, as `rollout_midcrash_twice` shows, and without one it gives
`StartsEachOnce`. `BuildsStayCapped` is of steps: from the counting of the
places to the start of the last build of the batch, what builds and what is
still to be started fit under the cap together (`UnderCap`).

`RecordStaysFinal` and the refinement are of a stack left alone while it is
rolled out (`Quiet`): nobody deletes a deployment's record, edits the cap or
deletes the stack, and no wait ends before what it waits for does
(`rollout_slow_queue` and `rollout_slow_layer` show the verdict otherwise).
`RecordAgrees` then says that a step which is over says how its deployment
ended, in the table and in the record, and that no layer was left before all of
it was over. The refinement goes by the actions of `StackOrder`. With
`Recorded`, a service's phase is read from its step and the one deployment it
names (`PhaseIsBySteps`), so that `TriggerOne` is `Start`, `NextLayer` a
`HoldBack` of all it holds back at once, a deployment's end its service's `End`,
`finishRun` the `Close`, and everything else leaves the phases alone. That what
starts may start is `HeldForAReason`: what is still to be started has all it
depends on up, and what is held back depends on what failed or was held back. A
restart forgets what was held back, and in a third layer starts what depends on
it (`rollout_resume_held`); hence the last hypothesis, that there are two layers
or no restarts.

*Migration*, for any groups, workloads, plans, ways to cut over and budgets. The
lists of steps are built from sequences, and the order of what they do is all
that these properties rest on. `NoneAfter` says it: in a list, nothing of one
kind comes after something of another. The module first shows how the operators
that make the lists treat it (taking what is in a set, joining, flattening,
reversing, dropping the head), and then what that gives for each stage
(`MoveStepsAre`, `CutoverStepsAre`, `FinishStepsAre`, `UndoListIs`). `InForm`,
which takes no hypothesis, keeps of every state that what is left of a stage is
of its kind.

`OneSide` rests on `Ordered`, an invariant of two kinds of steps of a group, here
its stops and its starts: in the journal no stop comes after a start, a start
that is in it has all the stops in it, and has its undo; what is left of a move
has the stops first, and if one is left nothing has started; what is left of a
replay has the starts first, and if a stop is left to undo every start that is
in the journal is left too. `Sides` connects that with what runs, the step at
hand counting when it had its effect and is not noted. `Clean` is what it
needs: a start that fails started nothing (`migration_half_start`), no crash
comes between an effect and its entry (`migration_torn`), and stopping
Meshploy's copy in an undo does not fail (`Stoppable`, with `OneSide` violated
otherwise). The refinement adds that a step changes one workload, on one side
(`OneChanges`).

`JournalTells` has two parts, each with an invariant that counts the step at
hand. `TellsStops` needs that a replay starts only what was up when it was
found, and that what finish removes had been moved, and so is down
(`RemovesMoved`, and `Ordered` again). `TellsEdge` needs that a cutover has the
edge's step once, and only when the journal has not; an old edge that is told to
move aside and never settles leaves no entry (`migration_aside`), which is its
own hypothesis.

`RemovedRuns` says nothing of how a copy came to run, and is not inductive. What
is gone was told to go by finish, which removes what the journal has as started
(`RemovesMoved`, `GoneStarted`); what the journal has as started runs
(`StartedRuns`). That needs that what stops a copy first takes the entry away:
the services of a stack are undone after the stack (`StackOrder`, which is
`Ordered` of one workload), and the copies a failed move stops outright come
after the undos (`OutrightLast`). `Ending` has it that from the first removal on
nothing else is started, since finish goes on until it is complete and the
principal is revoked before that: a revocation that failed is the hypothesis
(`migration_revoke`), and so is, in `Clean`, a finish cut short
(`migration_finish_torn`).

`PutBack` is of the journal at both ends: what a stage did is to be undone, and
what a replay that failed nothing has gone through is undone. The first is
`TellsStops` for the copies, `Routed` for the routes and `EdgeTold` for what the
edge was told, the step at hand counted. `Outcome` is the second: while a replay
goes on without a failure, the entries it covers are in what it has left; when
it reports back, none of them is in the journal. The edge needs an order of its
own (`EdgesInOrder`): that Meshploy's is up is noted after the old one let go,
and undone before, so that the ports are free when the old one takes them. The
hypotheses of `Orderly` are that nothing happens which one of the variants shows
to break the journal (`migration_aside`, `migration_recut`, `migration_revoke`),
and one more: where Meshploy's edge cannot be stopped, a second rollback has
nothing to undo of the ports, and reports back with the old edge still off them.

`FirstMoveLosesNothing` is of three orders, each an instance of `Follows`: of
steps X and Y of a move, once any of X is in the journal all of Y is, and what
is left has Y first. What carries data comes before the applications start, a
dump before its restore, and the stops of the applications before anything is
read. The first two hold of every group, since no undo takes such an entry away;
the third is of a group moved for the first time (`FirstTime`), whose stops no
undo has taken away while what was read stayed noted. `Across` says from it how
far the data has got: nobody can write once it was read, so the dump has what
Dokploy's copy has until it is restored, and from then on Meshploy's has it. A
restore that is repeated finds no dump and is refused, so a list that names a
database twice does no harm.

`NothingGoesDark` is of a migration at rest, and what it rests on is made stage by
stage; `Serving` is the conjunction. A group at rest has nothing left to undo or
has moved altogether (`Standing`): the first by `Outcome`, the second since a
move probes each domain, and a probe is an answer through Meshploy's proxy
(`Probed`). The ports are nobody's only in a cutover that has let them go, and in
what takes them back (`HandedOver`). Who is served through the old edge needs it
there: once it is down, Meshploy answers for every group that can be moved
(`TakenDown`), and once it is gone, for every group, since finish starts with all
of them moved (`AllMoved`). While it stands aside, Meshploy's proxy trusts it and
sends it the rest: both were set up before it moved and are undone only after it
is back (`Aside`, `EdgeAfterEarly`), and what is sent covers every group that has
not moved and was not put back since (`FallsBack`, `Accounted`).

The list of what is sent there is why the old edge's undo must not fail. With two
troubles, a crash in the cutover that takes the edge and then its undo failing in the
rollback that follows, the old edge stays on its side port, a later cutover does
not set up the fallback again, and a group put back after that is served by
nobody. The run that checks `NothingGoesDark` has one trouble at a time, and does
not come to it.

*HostRequests*, for any number of requests, changes, handlers, builds, stages
and restarts. `RunOnce` needs that what waits has not been run
(`WaitingIsFresh`), which holds because the file is removed before the run. That
a request is lost only with the agent follows it from the inbox through
`running` to its status. `PublishedIsServed` needs the order of what was left:
`Delivery` says that a publish that was reported done asked for an apply after it
had left its set (`PromiseIsAsked`), and that each apply ever asked for waits, or
runs and will read or has read what had been left when it was asked for, or has
put that in service, or was cut short (`ApplysBring`), service never going back to
an older number (`ServedGrows`), as one apply runs at a time. No hypothesis is
needed, however many handlers publish; that the set left last is the newest one
is what does fail with two (`requests_two_publish`).

*HostUpgrade*, for any number of requests, callers, services, shipped files,
releases, faults, crashes and switches. `NoneOverwritten` needs that a handler
which has checked, and not yet written, finds the inbox empty (`Checked`): the
mutex keeps other handlers away, and everybody else only takes from it.
`SucceededIsWhole` and `FailureRestores` rest on `Turns`, which says of a run that
was not crossed, at each of its steps, which files, tags and containers are in
place already, and that no image is older than was offered (`Forward`, the
registry only growing), and for which of them the backup, or the host, still has
what it found (`Backward`): also when the backup has files of an upgrade cut
short before. That two runs that are changing the host at once are both marked
as crossed is `Met`, its other part. With the lock no run is (`Alone`, from which
`LockedNeverCross`). `ServedIsOnDisk` needs none of this: in `Loading`,
configuration that is not loaded has been reported so, or is owed by an apply or
by a run that has it loaded before it ends.

*TcpRoutes*, for any routes, ports, zones and budgets. `TypeOK` has in it that a
port has one route, which every write of the table must keep (`PutRow`,
`ChangeRow`). `OpenAsAsked` needs that the three tables a listener may be opened
from, the database's, the one loaded and the saved copy, ask nothing that was
not asked (`TablesAsked`), and that `apply` opens only what its table wants
(`TodoIsMade`). `SteadyIsOpen` says nothing of the middle of an `apply`, which
closes ports before it opens others: `StillOpen` has in it that a route steady
all along is in the load and in the copy with its port and its zone, so that
nothing closes it, and that the routes `apply` has come to are open.

*RouteCache*, for any hostnames, wildcards, requests and budgets.
`SavedWasPublished` follows what is published through the load into the copy
(`Sources`). `SteadyIsServed` is about a request's last step, and is not
inductive; `Served` says of every place a name may be looked up in that it has
what is routed all along: a load from its first query on, the copy, the table
once a load was kept and the proxy listens again, and that a request which asked
such a table and went on is not for one of those names. Between the two queries
of a load nothing is lost, since a name that is routed all along has its targets
in the first and is published in the second.

Only model-checked: liveness, which is beyond the prover, and what a theorem
leaves out by a hypothesis the table names, as far as the bounds of its run go.

## Plan

1. Image retention in `Deployment` (`ImageRemovedAt`, the rollback's question to
   the registry, the sweep that must not meet a push), and services that run
   once.
2. The mesh gate; the load it shares with `RouteCache` and `TcpRoutes` as one
   abstract specification that the three implement.
3. `Promotion` of several services as one plan; node removal; backups.
4. Mesh policy, CLI login, OAuth codes.
5. Proofs: the safety of each of these modules as it comes. Of the modules there
   are, the migration without `Clean`, where what a crash cut short is left out
   of the invariants group by group (`past.cut`).

## Not modelled

- Mesh gate: the same load, saved copy and count as the route cache, over a
  policy instead of a table; nothing in it was found that those two modules do
  not show. Image retention, promotion, node removal, backups, mesh policy, CLI
  login and OAuth codes: on the plan.
- Compose reconciliation, references between variables, permissions, templates
  and the migration's survey and import: transformations of data without an
  order of their own. DNS providers, git providers, notifications: calls to
  others, without effect on the state here.
- Handlers, MCP server, client, console, installer: they parse, call and format.
  They are most of the repository's lines, and the reason why the share of it
  that the modules stand for is small.
- In what is modelled: time, beyond that something is late; sizes and contents;
  logs and messages; a database query that fails by itself.
