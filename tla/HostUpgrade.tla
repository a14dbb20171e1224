----------------------------- MODULE HostUpgrade -----------------------------
(***************************************************************************)
(* How a gateway upgrades itself.                                          *)
(*                                                                         *)
(* The console asks the API for an upgrade; the API leaves one request in  *)
(* an inbox it shares with the host (service/upgrade.go).  The host agent  *)
(* launches a systemd unit for it (cmd/host.go), the unit takes the        *)
(* upgrade lock and the request and runs the upgrade (cmd/updater.go):     *)
(* the CLI replaces itself, then `server-upgrade` replaces configuration,  *)
(* images and containers, and puts them back when that does not come up    *)
(* (cmd/server_upgrade.go).  An operator may run the same upgrade by hand, *)
(* or only its last part, which takes no lock.  Meanwhile the agent        *)
(* applies domain sets to the edge's configuration (cmd/domain.go), in the *)
(* same directory and with a backup of its own.                            *)
(*                                                                         *)
(* Abstractions.  A release is a commit's place in main's history.  A      *)
(* shipped file, an image and a container are what release they are of.    *)
(* A channel's newest release is what an upgrade resolves; its images are   *)
(* pushed one by one, before or after, and a moving tag is pulled as it is *)
(* then.  .env stands for the channel it names, which every service's      *)
(* image follows, Caddy's too.  The generated configuration is one, loaded *)
(* as one by the container of Caddy.  Both channels' images were pulled    *)
(* once.  Whether the API believes the agent reports lags behind the agent *)
(* and does not restrict a request here.  The two minutes before a         *)
(* heartbeat is stale, and before a request is launched again, are steps   *)
(* that may be taken at any time.  The request is read and removed in one  *)
(* step, and one the API wrote is never malformed.  Not here: --no-sync,   *)
(* --from, --ee with its checks, and --no-rollback.                        *)
(***************************************************************************)
EXTENDS Integers, FiniteSets, TLC

CONSTANTS
    None,         \* No request, no runner, nothing saved.
    Runners,      \* Which upgrades there may be, of "unit", "hand", "direct".
    Callers,      \* The API's handlers that may be asking at the same time.
    Channels,     \* What an install can follow: stable and edge.
    Services,     \* The services whose image a release replaces.
    Shipped,      \* The files a release ships.
    MaxRelease,   \* Releases published after the one installed first.
    MaxPushes,    \* Images pushed.
    MaxDomains,   \* Changes of the domain set.
    MaxRequests,  \* Upgrades accepted from the console.
    MaxByHand,    \* Upgrades an operator runs.
    MaxFaults,    \* Steps that fail.
    MaxCrashes,   \* Reboots, or kills of an upgrade or of the agent.
    MaxStops      \* Times the updater is switched off.

ASSUME BoundsAssumption ==
    /\ Runners \subseteq {"unit", "hand", "direct"}
    /\ {MaxRelease, MaxPushes, MaxDomains, MaxRequests, MaxByHand, MaxFaults,
        MaxCrashes, MaxStops} \subseteq Nat
    /\ "compose" \in Shipped /\ ".env" \notin Shipped /\ "caddy" \in Services
    /\ None \notin Runners \cup Callers \cup Channels /\ None \notin Nat
    /\ None \notin {"upgraded", "putback", "rolledback"}

VARIABLES
    latest,     \* The newest release of each channel.
    registry,   \* The release each channel's image of a service is of.
    cli,        \* The release of the meshploy binary on the host.
    marker,     \* Whether the updater is on: state/enabled is there.
    stopping,   \* Whether `updater stop` is between its two removals.
    agent,      \* Whether the host agent runs.
    request,    \* The id in the inbox, or None.
    mutex,      \* The caller holding upgradeMu, or None.
    status,     \* state/status.json: whose run, and how it stands.
    stale,      \* Whether the status's heartbeat is over two minutes old.
    lock,       \* The runner holding the upgrade's flock, or None.
    runs,       \* What each runner is doing.
    disk,       \* The release each configuration file is of; .env, the channel.
    backup,     \* .upgrade-previous: the copy of each file, or None.
    tags,       \* The release each channel's local tag of a service names.
    up,         \* The tag, image and configuration each container runs.
    edge,       \* The generated edge configuration on disk.
    edgeBackup, \* .edge-previous: what the last Install replaced, or None.
    served,     \* The edge configuration Caddy has loaded.
    domains,    \* The domain set the API wants served.
    installed,  \* The domain set state/ says is served.
    apply,      \* The agent's domain.apply: its step and its domain set.
    asked, byHand, faults, crashes, stops, pushes,  \* The bounds' counters.
    taken, discarded,  \* History: the requests run, and those thrown away.
    told,       \* History: an error said the edge on disk is not loaded.
    cut         \* History: an apply lost its agent before the edge reloaded.

published == <<latest, registry, pushes>>
reqVars == <<request, mutex, asked, taken, discarded>>
switchVars == <<marker, stopping, stops>>
stackVars == <<disk, backup, tags, up>>
edgeVars == <<edge, edgeBackup, served, told>>
domainVars == <<domains, installed, apply, cut>>
budgets == <<faults, crashes, byHand>>
vars == <<published, cli, switchVars, agent, reqVars, status, stale, lock, runs,
          stackVars, edgeVars, domainVars, budgets>>

Release == 0 .. MaxRelease
Ids == 1 .. MaxRequests
Files == Shipped \cup {".env"}
Edge == [template : Release, domains : 0 .. MaxDomains]
Image == [channel : Channels, image : Release]
Container == [channel : Channels, image : Release, conf : Release]

\* What a configuration file holds: .env a channel, the others a release's.
Holds(f) == IF f = ".env" THEN Channels ELSE Release
Configs == {d \in [Files -> Release \cup Channels] : \A f \in Files : d[f] \in Holds(f)}

\* A run: its step, whose it is, its channel, the release it installs, what it
\* saved, the images it recorded, whether it changed the edge, how it turned
\* out, and (histories) the host as it found it, and whether another upgrade
\* was changing it at the same time.
Idle == [pc |-> "idle", id |-> None, channel |-> None, target |-> 0,
         saved |-> {}, images |-> [s \in Services |-> None], edged |-> FALSE,
         outcome |-> None, before |-> None, crossed |-> FALSE]

\* The steps from which the heartbeat is kept and the status is this run's.
Beating == {"cli", "prepare", "pull", "putback", "install", "edge", "restart",
            "recreate", "verify", "undoedge", "undo", "retag", "health", "end"}
\* The steps of server-upgrade, and those of them that follow its first change.
Changing == {"pull", "putback", "install", "edge", "restart", "recreate",
             "verify", "undoedge", "undo", "retag"}

Hosts == [disk : Configs, up : [Services -> Container], edge : Edge,
          offered : [Services -> Release]]
Run == [pc : Beating \cup {"idle", "lock", "take", "announce"},
        id : Ids \cup {0, None}, channel : Channels \cup {None},
        target : Release, saved : SUBSET Files,
        images : [Services -> Image \cup {None}], edged : BOOLEAN,
        outcome : {None, "unchanged", "putback", "rolledback", "stuck",
                   "unhealthy", "upgraded"},
        before : Hosts \cup {None}, crossed : BOOLEAN]

Init ==
    /\ latest = [c \in Channels |-> 0] /\ cli = 0
    /\ registry = [c \in Channels |-> [s \in Services |-> 0]]
    /\ marker = TRUE /\ stopping = FALSE /\ agent = TRUE
    /\ request = None /\ mutex = None
    /\ status = [id |-> None, state |-> None] /\ stale = FALSE
    /\ lock = None /\ runs = [r \in Runners |-> Idle]
    /\ \E c \in Channels :
         /\ disk = [f \in Files |-> IF f = ".env" THEN c ELSE 0]
         /\ up = [s \in Services |-> [channel |-> c, image |-> 0, conf |-> 0]]
    /\ backup = [f \in Files |-> None]
    /\ tags = [c \in Channels |-> [s \in Services |-> 0]]
    /\ edge = [template |-> 0, domains |-> 0]
    /\ edgeBackup = None /\ served = edge
    /\ domains = 0 /\ installed = 0 /\ apply = [pc |-> "idle", set |-> 0]
    /\ asked = 0 /\ byHand = 0 /\ faults = 0 /\ crashes = 0 /\ stops = 0
    /\ pushes = 0 /\ told = FALSE
    /\ taken = {} /\ discarded = {} /\ cut = FALSE

(***************************************************************************)
(* The API's side: one request at a time, none while an upgrade runs.      *)
(***************************************************************************)
\* The status as it was last written.
StatusSaysRunning == status.state = "running"

\* effectiveUpgradeState: a run that no longer beats was interrupted.
StatusRunning == status.state = "running" /\ ~stale

\* RequestUpgrade, with the check of the inbox left out.
CheckRunningOnly(c) ==
    /\ mutex = None
    /\ asked < MaxRequests
    /\ marker
    /\ ~StatusRunning
    /\ mutex' = c
    /\ UNCHANGED <<published, cli, switchVars, agent, request, asked, taken,
                   discarded, status, stale, lock, runs, stackVars, edgeVars,
                   domainVars, budgets>>

\* RequestUpgrade up to its checks, under upgradeMu.
CheckRequest(c) ==
    /\ mutex = None
    /\ asked < MaxRequests
    /\ marker
    /\ request = None /\ ~StatusRunning
    /\ mutex' = c
    /\ UNCHANGED <<published, cli, switchVars, agent, request, asked, taken,
                   discarded, status, stale, lock, runs, stackVars, edgeVars,
                   domainVars, budgets>>

\* Its second half: the request is renamed into the inbox, over any there.
WriteRequest(c) ==
    /\ mutex = c
    /\ mutex' = None
    /\ asked' = asked + 1
    /\ request' = asked + 1
    /\ UNCHANGED <<published, cli, switchVars, agent, taken, discarded, status,
                   stale, lock, runs, stackVars, edgeVars, domainVars, budgets>>

\* The heartbeat of a run that is no more grows old.
GoStale ==
    /\ status.state = "running" /\ ~stale
    /\ \A r \in Runners \ {"direct"} : runs[r].pc \notin Beating
    /\ stale' = TRUE
    /\ UNCHANGED <<published, cli, switchVars, agent, reqVars, status, lock, runs,
                   stackVars, edgeVars, domainVars, budgets>>

(***************************************************************************)
(* The switch, and the agent that launches the unit.                       *)
(***************************************************************************)
\* `updater stop` removes the marker first ...
StopUpdater ==
    /\ marker /\ ~stopping /\ stops < MaxStops
    /\ marker' = FALSE /\ stopping' = TRUE /\ stops' = stops + 1
    /\ UNCHANGED <<published, cli, agent, reqVars, status, stale, lock, runs,
                   stackVars, edgeVars, domainVars, budgets>>

\* ... then the request that waits.
DiscardPending ==
    /\ stopping
    /\ stopping' = FALSE
    /\ request' = None
    /\ discarded' = discarded \cup ({request} \ {None})
    /\ UNCHANGED <<published, cli, marker, stops, agent, mutex, asked, taken,
                   status, stale, lock, runs, stackVars, edgeVars, domainVars,
                   budgets>>

\* The agent is restarted, with the request it was running, which nobody runs
\* again.
RestartAgent ==
    /\ agent' = TRUE
    /\ apply' = [pc |-> "idle", set |-> 0]
    /\ cut' = (cut \/ apply.pc = "written")

\* `updater start` (re)starts the agent, then writes the marker.
StartUpdater ==
    /\ ~marker /\ ~stopping
    /\ marker' = TRUE
    /\ RestartAgent
    /\ UNCHANGED <<published, cli, stopping, stops, reqVars, status, stale, lock,
                   runs, stackVars, edgeVars, domains, installed, budgets>>

\* systemd starts the agent again (Restart=always, and at boot).
AgentStarts ==
    /\ ~agent
    /\ agent' = TRUE
    /\ UNCHANGED <<published, cli, switchVars, reqVars, status, stale, lock, runs,
                   stackVars, edgeVars, domainVars, budgets>>

\* upgradeLauncher.check: a request waits and the unit is not active.
Launch ==
    /\ "unit" \in Runners
    /\ agent /\ marker /\ request # None
    /\ runs["unit"].pc = "idle"
    /\ runs' = [runs EXCEPT !["unit"] = [Idle EXCEPT !.pc = "lock"]]
    /\ UNCHANGED <<published, cli, switchVars, agent, reqVars, status, stale, lock,
                   stackVars, edgeVars, domainVars, budgets>>

\* `updater run` or `server-upgrade` at a terminal.
RunByHand(r) ==
    /\ r \in Runners \ {"unit"} /\ runs[r].pc = "idle" /\ byHand < MaxByHand
    /\ byHand' = byHand + 1
    /\ IF r = "hand"
       THEN runs' = [runs EXCEPT ![r] = [Idle EXCEPT !.pc = "lock"]]
       ELSE \E c \in Channels :
              runs' = [runs EXCEPT ![r] =
                         [Idle EXCEPT !.pc = "prepare", !.channel = c]]
    /\ UNCHANGED <<published, cli, switchVars, agent, reqVars, status, stale, lock,
                   stackVars, edgeVars, domainVars, faults, crashes>>

(***************************************************************************)
(* runUpgrade: the lock, the request, the status.                          *)
(***************************************************************************)
GoTo(r, pc) == runs' = [runs EXCEPT ![r].pc = pc]
Unlocked(r) == lock' = (IF lock = r THEN None ELSE lock)

\* lockUpgrade: taken, or another run is left to finish.
TakeLock(r) ==
    /\ runs[r].pc = "lock"
    /\ IF lock = None
       THEN lock' = r /\ GoTo(r, "take")
       ELSE UNCHANGED lock /\ runs' = [runs EXCEPT ![r] = Idle]
    /\ UNCHANGED <<published, cli, switchVars, agent, reqVars, status, stale,
                   stackVars, edgeVars, domainVars, budgets>>

\* consumeUpgradeRequest: the unit's run is the request's, on the channel it
\* names, and ends when there is none; a run by hand throws the request away.
TakeRequest(r) ==
    /\ runs[r].pc = "take"
    /\ request' = None
    /\ IF r = "unit" /\ request = None
       THEN /\ runs' = [runs EXCEPT ![r] = Idle] /\ Unlocked(r)
            /\ UNCHANGED <<taken, discarded>>
       ELSE /\ \E c \in Channels :
                 runs' = [runs EXCEPT ![r] = [@ EXCEPT
                     !.pc = "announce", !.channel = c,
                     !.id = IF r = "unit" THEN request ELSE 0]]
            /\ IF r = "unit"
               THEN taken' = taken \cup {request} /\ UNCHANGED discarded
               ELSE /\ discarded' = discarded \cup ({request} \ {None})
                    /\ UNCHANGED taken
            /\ UNCHANGED lock
    /\ UNCHANGED <<published, cli, switchVars, agent, mutex, asked, status, stale,
                   stackVars, edgeVars, domainVars, budgets>>

\* The status says running, and its heartbeat starts.
Announce(r) ==
    /\ runs[r].pc = "announce"
    /\ status' = [id |-> runs[r].id, state |-> "running"] /\ stale' = FALSE
    /\ GoTo(r, "cli")
    /\ UNCHANGED <<published, cli, switchVars, agent, reqVars, lock, stackVars,
                   edgeVars, domainVars, budgets>>

\* A step fails, on the budget for faults: where the run goes from there.
Fails(r, pc, outcome) ==
    /\ faults < MaxFaults /\ faults' = faults + 1
    /\ runs' = [runs EXCEPT ![r].pc = pc, ![r].outcome = outcome]

\* `meshploy update`: the binary replaces itself.
UpdateCLI(r) ==
    /\ runs[r].pc = "cli"
    /\ \/ cli' = latest[runs[r].channel] /\ GoTo(r, "prepare") /\ UNCHANGED faults
       \/ Fails(r, "end", "unchanged") /\ UNCHANGED cli
    /\ UNCHANGED <<published, switchVars, agent, reqVars, status, stale, lock,
                   stackVars, edgeVars, domainVars, crashes, byHand>>

\* waitForHealthyAPI, after server-upgrade succeeded.
WaitHealthy(r) ==
    /\ runs[r].pc = "health"
    /\ \/ GoTo(r, "end") /\ UNCHANGED faults
       \/ Fails(r, "end", "unhealthy")
    /\ UNCHANGED <<published, cli, switchVars, agent, reqVars, status, stale, lock,
                   stackVars, edgeVars, domainVars, crashes, byHand>>

\* upgradeRun.end: the outcome is recorded and the lock let go.  server-upgrade
\* run by itself has neither.
EndRun(r) ==
    /\ runs[r].pc = "end"
    /\ runs' = [runs EXCEPT ![r] = Idle]
    /\ Unlocked(r)
    /\ IF r = "direct" THEN UNCHANGED <<status, stale>>
       ELSE /\ status' = [id |-> runs[r].id, state |->
                  IF runs[r].outcome = "upgraded" THEN "succeeded" ELSE "failed"]
            /\ stale' = FALSE
    /\ UNCHANGED <<published, cli, switchVars, agent, reqVars, stackVars, edgeVars,
                   domainVars, budgets>>

(***************************************************************************)
(* serverUpgrade.                                                          *)
(***************************************************************************)
\* A run that is changing the host, or is about to say how it left it.
Busy(r) == \/ runs[r].pc \in Changing
           \/ runs[r].outcome \in {"putback", "rolledback", "upgraded"}

\* The runs, r's now mine and the others' host changed under them.
Crossing(r, mine) == [q \in Runners |->
    IF q = r THEN mine ELSE [runs[q] EXCEPT !.crossed = @ \/ Busy(q)]]

\* Everything of a release is downloaded; then the backup of the upgrade before
\* is thrown away and .env saved; the images of the services that run are
\* recorded and the channel set, neither of which stops the upgrade.
Prepare(r) ==
    /\ runs[r].pc = "prepare"
    /\ \/ Fails(r, "end", "unchanged") /\ UNCHANGED <<disk, backup>>
       \/ /\ faults < MaxFaults /\ faults' = faults + 1
          /\ backup' = [f \in Files |-> None]
          /\ runs' = Crossing(r, [runs[r] EXCEPT !.pc = "end", !.outcome = "unchanged"])
          /\ UNCHANGED disk
       \/ \E recorded \in SUBSET Services, env \in {disk[".env"], runs[r].channel} :
            /\ faults' = faults + (IF recorded = Services THEN 0 ELSE 1)
                                + (IF env = runs[r].channel THEN 0 ELSE 1)
            /\ faults' <= MaxFaults
            /\ disk' = [disk EXCEPT ![".env"] = env]
            /\ backup' = [f \in Files |-> IF f = ".env" THEN disk[f] ELSE None]
            /\ runs' = Crossing(r, [runs[r] EXCEPT
                 !.pc = "pull", !.target = latest[runs[r].channel],
                 !.saved = {".env"},
                 !.images = [s \in Services |-> IF s \notin recorded THEN None
                     ELSE [channel |-> up[s].channel, image |-> up[s].image]],
                 !.before = [disk |-> disk, up |-> up, edge |-> edge,
                             offered |-> registry[env]],
                 !.crossed = \E q \in Runners \ {r} : runs[q].pc \in Changing])
    /\ UNCHANGED <<published, cli, switchVars, agent, reqVars, status, stale, lock,
                   tags, up, edgeVars, domainVars, crashes, byHand>>

\* The local tags once the images of S are pulled: .env's channel, as it is now.
Pulled(S) == [tags EXCEPT ![disk[".env"]] =
    [s \in Services |-> IF s \in S THEN registry[disk[".env"]][s] ELSE @[s]]]

\* The images are pulled, believing a pull that reports success without one.
PullTrusted(r) ==
    /\ runs[r].pc = "pull"
    /\ \E S \in SUBSET Services : tags' = Pulled(S)
    /\ GoTo(r, "install")
    /\ UNCHANGED <<published, cli, switchVars, agent, reqVars, status, stale, lock,
                   disk, backup, up, edgeVars, domainVars, budgets>>

\* The images are pulled: all of them, or some and then a failure.
Pull(r) ==
    /\ runs[r].pc = "pull"
    /\ \E S \in SUBSET Services :
         /\ tags' = Pulled(S)
         /\ \/ S = Services /\ GoTo(r, "install") /\ UNCHANGED faults
            \/ Fails(r, "putback", "putback")
    /\ UNCHANGED <<published, cli, switchVars, agent, reqVars, status, stale, lock,
                   disk, backup, up, edgeVars, domainVars, crashes, byHand>>

\* The backup's directory, copied back as it is.
WholeBackup(F) == backup

\* configSnapshot.restore: of the saved files F, those whose copy is still there.
Restored(F) == [f \in Files |->
    IF f \in F /\ backup[f] # None THEN backup[f] ELSE disk[f]]

\* The saved files are put back, all of them, or some and then the run is stuck.
PutsBack(r, pc) ==
    \/ disk' = Restored(runs[r].saved) /\ GoTo(r, pc) /\ UNCHANGED faults
    \/ /\ \E F \in SUBSET runs[r].saved : disk' = Restored(F)
       /\ Fails(r, pc, "stuck")

\* putBackBeforeRestart.
PutBack(r) ==
    /\ runs[r].pc = "putback"
    /\ PutsBack(r, "end")
    /\ UNCHANGED <<published, cli, switchVars, agent, reqVars, status, stale, lock,
                   backup, tags, up, edgeVars, domainVars, crashes, byHand>>

\* installStaged: each file is saved, once, and then replaced.
InstallFile(r, f) ==
    /\ runs[r].pc = "install" /\ f \notin runs[r].saved
    /\ backup' = [backup EXCEPT ![f] = disk[f]]
    /\ disk' = [disk EXCEPT ![f] = runs[r].target]
    /\ runs' = [runs EXCEPT ![r].saved = @ \cup {f}]
    /\ UNCHANGED <<published, cli, switchVars, agent, reqVars, status, stale, lock,
                   tags, up, edgeVars, domainVars, budgets>>

\* The last file is in, or one could not be replaced.
InstallEnds(r) ==
    /\ runs[r].pc = "install"
    /\ \/ runs[r].saved = Files /\ GoTo(r, "edge") /\ UNCHANGED faults
       \/ Fails(r, "undoedge", "rolledback")
    /\ UNCHANGED <<published, cli, switchVars, agent, reqVars, status, stale, lock,
                   stackVars, edgeVars, domainVars, crashes, byHand>>

\* The configurations a failure may leave between a and b.
Mixed(a, b) == {[template |-> t, domains |-> d] :
                  t \in {a.template, b.template}, d \in {a.domains, b.domains}}

\* edgeconfig.Install, over a backup of what it replaces; nothing is written
\* when that is what is on disk already.
Install(rendered) ==
    /\ edge' = rendered
    /\ edgeBackup' = (IF edge = rendered THEN edgeBackup ELSE edge)

\* It fails before or in the middle of either, or what follows it does.
InstallFails(rendered) ==
    \/ UNCHANGED <<edge, edgeBackup>>
    \/ /\ edge # rendered
       /\ edgeBackup' \in {None, edge}
       /\ edge' \in Mixed(edge, rendered)
       /\ edge' # edge => edgeBackup' = edge

\* Whether somebody has been told, now or before, that the configuration on
\* disk is not the one that is loaded.
Reports(now) ==
    told' = (served' # edge' /\ (now \/ (told /\ edge' = edge)))

\* applyEdgeConfigFromEnv: what this binary renders from the domain set that is
\* installed.
GenerateEdge(r) ==
    /\ runs[r].pc = "edge"
    /\ LET rendered == [template |-> cli, domains |-> installed] IN
       \/ /\ Install(rendered)
          /\ runs' = [runs EXCEPT ![r].pc = "restart",
                                  ![r].edged = (edge # rendered)]
          /\ UNCHANGED faults
       \/ InstallFails(rendered) /\ Fails(r, "undoedge", "rolledback")
    /\ UNCHANGED served /\ Reports(FALSE)
    /\ UNCHANGED <<published, cli, switchVars, agent, reqVars, status, stale, lock,
                   stackVars, domainVars, crashes, byHand>>

\* What `compose up` makes of the containers of S, when the tags are t.
Recreated(t, S) == [s \in Services |->
    IF s \in S THEN [channel |-> disk[".env"], image |-> t[disk[".env"]][s],
                     conf |-> disk["compose"]]
    ELSE up[s]]

\* New containers for R: a handler asking for an upgrade goes with the API's,
\* and the edge's loads what is on disk.
NewContainers(R) ==
    /\ mutex' = (IF "api" \in R THEN None ELSE mutex)
    /\ served' = (IF "caddy" \in R THEN edge ELSE served)

\* `compose up -d`: every service, or some and a failure.  A container is a new
\* one when its image is, or its definition may be; podman makes all anew.
Restart(r) ==
    /\ runs[r].pc = "restart"
    /\ \E S \in SUBSET Services : \E R \in SUBSET S :
         /\ up' = Recreated(tags, S)
         /\ \A s \in S \ R : up'[s].channel = up[s].channel /\ up'[s].image = up[s].image
         /\ NewContainers(R)
         /\ \/ S = Services /\ GoTo(r, "recreate") /\ UNCHANGED faults
            \/ Fails(r, "undoedge", "rolledback")
    /\ UNCHANGED edge /\ Reports(FALSE)
    /\ UNCHANGED <<published, cli, switchVars, agent, request, asked, taken,
                   discarded, status, stale, lock, disk, backup, tags,
                   edgeBackup, domainVars, crashes, byHand>>

\* The edge's container is left to `up -d`, which does not look inside mounted files.
RecreateNothing(r) ==
    /\ runs[r].pc = "recreate"
    /\ GoTo(r, "verify") /\ UNCHANGED faults
    /\ UNCHANGED <<published, cli, switchVars, agent, reqVars, status, stale, lock,
                   stackVars, edgeVars, domainVars, crashes, byHand>>

\* The edge's container, when this upgrade changed its configuration.
RecreateEdge(r) ==
    /\ runs[r].pc = "recreate"
    /\ IF runs[r].edged
       THEN \/ /\ up' = Recreated(tags, {"caddy"}) /\ served' = edge
               /\ GoTo(r, "verify") /\ UNCHANGED faults
            \/ /\ served' \in {served, edge}
               /\ up' = (IF served' = served THEN up ELSE Recreated(tags, {"caddy"}))
               /\ Fails(r, "undoedge", "rolledback")
       ELSE GoTo(r, "verify") /\ UNCHANGED <<up, served, faults>>
    /\ UNCHANGED edge /\ Reports(FALSE)
    /\ UNCHANGED <<published, cli, switchVars, agent, reqVars, status, stale, lock,
                   disk, backup, tags, edgeBackup, domainVars, crashes, byHand>>

\* verifyStack; then the host agent is restarted, with what it was doing.
Verify(r) ==
    /\ runs[r].pc = "verify"
    /\ \/ /\ runs' = [runs EXCEPT
               ![r].pc = IF r = "direct" THEN "end" ELSE "health",
               ![r].outcome = "upgraded"]
          /\ RestartAgent
          /\ UNCHANGED faults
       \/ Fails(r, "undoedge", "rolledback") /\ UNCHANGED <<agent, apply, cut>>
    /\ UNCHANGED <<published, cli, switchVars, reqVars, status, stale, lock,
                   stackVars, edgeVars, domains, installed, crashes, byHand>>

\* What edgeconfig.Restore puts back, and what it may leave when it fails.
PreviousEdge == IF edgeBackup = None THEN edge ELSE edgeBackup

\* edgeconfig.Restore, whatever it was that the last Install replaced; that it
\* failed is ignored.
UndoEdge(r) ==
    /\ runs[r].pc = "undoedge"
    /\ \/ edge' = PreviousEdge /\ UNCHANGED faults
       \/ /\ faults < MaxFaults /\ faults' = faults + 1
          /\ edge' \in Mixed(edge, PreviousEdge)
    /\ GoTo(r, "undo")
    /\ UNCHANGED served /\ Reports(FALSE)
    /\ UNCHANGED <<published, cli, switchVars, agent, reqVars, status, stale, lock,
                   stackVars, edgeBackup, domainVars, crashes, byHand>>

\* rollBack: the saved files ...
UndoFiles(r) ==
    /\ runs[r].pc = "undo"
    /\ PutsBack(r, "retag")
    /\ UNCHANGED <<published, cli, switchVars, agent, reqVars, status, stale, lock,
                   backup, tags, up, edgeVars, domainVars, crashes, byHand>>

\* Every container afresh, leaving the images the pull brought.
UndoWithoutRetag(r) ==
    /\ runs[r].pc = "retag"
    /\ up' = Recreated(tags, Services) /\ NewContainers(Services)
    /\ GoTo(r, "end")
    /\ UNCHANGED edge /\ Reports(FALSE)
    /\ UNCHANGED <<published, cli, switchVars, agent, request, asked, taken,
                   discarded, status, stale, lock, disk, backup, tags,
                   edgeBackup, domainVars, budgets>>

\* The local tags once those of the recorded images of S point at them again.
Retagged(r, S) == [c \in Channels |-> [s \in Services |->
    LET recorded == runs[r].images[s] IN
    IF s \in S /\ recorded # None /\ recorded.channel = c THEN recorded.image
    ELSE tags[c][s]]]

\* ... the recorded images, what was not recorded staying as it is, and every
\* container afresh; or some of either, and the rollback did not complete.
UndoStack(r) ==
    /\ runs[r].pc = "retag"
    /\ \/ /\ tags' = Retagged(r, Services)
          /\ up' = Recreated(tags', Services) /\ NewContainers(Services)
          /\ GoTo(r, "end") /\ UNCHANGED faults
       \/ \E T, S \in SUBSET Services :
            /\ tags' = Retagged(r, T)
            /\ up' = Recreated(tags', S) /\ NewContainers(S)
            /\ Fails(r, "end", "stuck")
    /\ UNCHANGED edge /\ Reports(TRUE)
    /\ UNCHANGED <<published, cli, switchVars, agent, request, asked, taken,
                   discarded, status, stale, lock, disk, backup, edgeBackup,
                   domainVars, crashes, byHand>>

(***************************************************************************)
(* Domains, which the agent applies to the edge's configuration.           *)
(***************************************************************************)
\* The API records another set and asks for it to be applied.
ChangeDomains ==
    /\ domains < MaxDomains
    /\ domains' = domains + 1
    /\ UNCHANGED <<published, cli, switchVars, agent, reqVars, status, stale, lock,
                   runs, stackVars, edgeVars, installed, apply, cut, budgets>>

\* runDomainApplyRequest, by an agent of any of the binaries installed so far:
\* rendered and written.  When that is what is on disk already, nothing is
\* reloaded.
ApplyDomains ==
    /\ agent /\ apply.pc = "idle" /\ domains # installed
    /\ LET rendered == [template |-> cli, domains |-> domains] IN
       \/ /\ Install(rendered)
          /\ apply' = [pc |-> IF edge = rendered THEN "served" ELSE "written",
                       set |-> domains]
          /\ UNCHANGED served /\ Reports(FALSE) /\ UNCHANGED faults
       \/ /\ faults < MaxFaults /\ faults' = faults + 1
          /\ InstallFails(rendered)
          /\ UNCHANGED <<served, apply>> /\ Reports(TRUE)
    /\ UNCHANGED <<published, cli, switchVars, agent, reqVars, status, stale, lock,
                   runs, stackVars, domains, installed, cut, crashes, byHand>>

\* The edge reloads.  When it does not, the previous configuration is put back
\* and reloaded; that fails too when it cannot be put back, or does not load.
ReloadEdge ==
    /\ agent /\ apply.pc = "written"
    /\ \/ /\ served' = edge
          /\ apply' = [apply EXCEPT !.pc = "served"]
          /\ UNCHANGED <<edge, faults>>
       \/ /\ faults < MaxFaults /\ faults' = faults + 1
          /\ edge' \in {edge, PreviousEdge} /\ served' = edge'
          /\ apply' = [apply EXCEPT !.pc = "idle"]
       \/ /\ faults + 1 < MaxFaults /\ faults' = faults + 2
          /\ edge' \in Mixed(edge, PreviousEdge) /\ UNCHANGED served
          /\ apply' = [apply EXCEPT !.pc = "idle"]
    /\ Reports(TRUE)
    /\ UNCHANGED <<published, cli, switchVars, agent, reqVars, status, stale, lock,
                   runs, stackVars, edgeBackup, domains, installed, cut,
                   crashes, byHand>>

\* state/ claims the set, once the edge serves it.
RecordInstalled ==
    /\ agent /\ apply.pc = "served"
    /\ installed' = apply.set
    /\ apply' = [pc |-> "idle", set |-> 0]
    /\ UNCHANGED <<published, cli, switchVars, agent, reqVars, status, stale, lock,
                   runs, stackVars, edgeVars, domains, cut, budgets>>

(***************************************************************************)
(* What else happens: releases are published, the machine reboots, an      *)
(* upgrade is killed (a unit at its thirty minutes), the agent dies.       *)
(***************************************************************************)
\* A release becomes the newest of a channel.
Publish(c) ==
    /\ latest[c] < MaxRelease
    /\ latest' = [latest EXCEPT ![c] = @ + 1]
    /\ UNCHANGED <<registry, pushes, cli, switchVars, agent, reqVars, status,
                   stale, lock, runs, stackVars, edgeVars, domainVars, budgets>>

\* An image of the next release is pushed, by a job of its own: the channel's
\* tag moves on.
PublishImage(c, s) ==
    /\ registry[c][s] < MaxRelease /\ pushes < MaxPushes
    /\ registry' = [registry EXCEPT ![c][s] = @ + 1]
    /\ pushes' = pushes + 1
    /\ UNCHANGED <<latest, cli, switchVars, agent, reqVars, status, stale, lock,
                   runs, stackVars, edgeVars, domainVars, budgets>>

\* Were the lock a file that only the run's end removes.
KillKeepingLock(r) ==
    /\ runs[r].pc # "idle" /\ crashes < MaxCrashes
    /\ crashes' = crashes + 1
    /\ runs' = [runs EXCEPT ![r] = Idle]
    /\ UNCHANGED <<published, cli, switchVars, agent, reqVars, status, stale, lock,
                   stackVars, edgeVars, domainVars, faults, byHand>>

\* The kernel lets go of a killed run's lock.
KillRun(r) ==
    /\ runs[r].pc # "idle" /\ crashes < MaxCrashes
    /\ crashes' = crashes + 1
    /\ runs' = [runs EXCEPT ![r] = Idle]
    /\ Unlocked(r)
    /\ UNCHANGED <<published, cli, switchVars, agent, reqVars, status, stale,
                   stackVars, edgeVars, domainVars, faults, byHand>>

Reboot ==
    /\ crashes < MaxCrashes
    /\ crashes' = crashes + 1
    /\ runs' = [r \in Runners |-> Idle] /\ lock' = None
    /\ agent' = FALSE /\ apply' = [pc |-> "idle", set |-> 0]
    /\ mutex' = None /\ stopping' = FALSE
    /\ served' = edge /\ told' = FALSE
    /\ UNCHANGED <<published, cli, marker, stops, request, asked, taken, discarded,
                   status, stale, stackVars, edge, edgeBackup, domains,
                   installed, cut, faults, byHand>>

RunStep(r) ==
    \/ TakeLock(r) \/ TakeRequest(r) \/ Announce(r) \/ UpdateCLI(r)
    \/ Prepare(r) \/ Pull(r) \/ PutBack(r)
    \/ (\E f \in Shipped : InstallFile(r, f)) \/ InstallEnds(r)
    \/ GenerateEdge(r) \/ Restart(r) \/ RecreateEdge(r) \/ Verify(r)
    \/ UndoEdge(r) \/ UndoFiles(r) \/ UndoStack(r)
    \/ WaitHealthy(r) \/ EndRun(r)

Next ==
    \/ \E c \in Callers : CheckRequest(c) \/ WriteRequest(c)
    \/ GoStale \/ StopUpdater \/ DiscardPending \/ StartUpdater
    \/ AgentStarts \/ Launch
    \/ \E r \in Runners : RunByHand(r) \/ RunStep(r) \/ KillRun(r)
    \/ ChangeDomains \/ ApplyDomains \/ ReloadEdge \/ RecordInstalled
    \/ (\E c \in Channels : Publish(c) \/ \E s \in Services : PublishImage(c, s))
    \/ Reboot

\* systemd starts the agent again; the agent's loop launches what waits; a
\* run's steps return or time out; a heartbeat nobody keeps grows old.
Fairness ==
    /\ WF_vars(AgentStarts) /\ WF_vars(Launch) /\ WF_vars(GoStale)
    /\ \A r \in Runners : WF_vars(RunStep(r))

Spec == Init /\ [][Next]_vars /\ Fairness

\* For model checking: the channels are alike; and no behaviour has both a
\* crash, after which ServedIsOnDisk claims nothing, and a change of domains,
\* which none but it is about.
Symmetric == Permutations(Channels)
CrashesApart == crashes = 0 \/ domains = 0

(***************************************************************************)
(* Properties.                                                             *)
(***************************************************************************)
\* A run knows its channel once it has a request, or from the start.
RunsOK ==
    /\ runs \in [Runners -> Run]
    /\ \A r \in Runners : runs[r].pc \notin {"idle", "lock", "take"} =>
         runs[r].channel \in Channels

\* Every variable stays in its range.
TypeOK ==
    /\ latest \in [Channels -> Release] /\ cli \in Release
    /\ registry \in [Channels -> [Services -> Release]]
    /\ marker \in BOOLEAN /\ stopping \in BOOLEAN /\ agent \in BOOLEAN
    /\ stale \in BOOLEAN /\ cut \in BOOLEAN /\ told \in BOOLEAN
    /\ request \in 1 .. asked \cup {None} /\ mutex \in Callers \cup {None}
    /\ status \in [id : Ids \cup {0, None},
                    state : {None, "running", "succeeded", "failed"}]
    /\ lock \in Runners \cup {None}
    /\ RunsOK
    /\ disk \in Configs /\ tags \in [Channels -> [Services -> Release]]
    /\ backup \in [Files -> Release \cup Channels \cup {None}]
    /\ \A f \in Files : backup[f] \in Holds(f) \cup {None}
    /\ up \in [Services -> Container]
    /\ edge \in Edge /\ served \in Edge /\ edgeBackup \in Edge \cup {None}
    /\ domains \in 0 .. MaxDomains /\ installed \in 0 .. MaxDomains
    /\ apply \in [pc : {"idle", "written", "served"}, set : 0 .. MaxDomains]
    /\ taken \cup discarded \subseteq 1 .. asked
    /\ asked \in 0 .. MaxRequests
    /\ byHand \in Nat /\ faults \in Nat /\ crashes \in Nat /\ stops \in Nat
    /\ pushes \in Nat

\* A request the API accepted is in the inbox, was run, or was thrown away by
\* an operator: none is written over by another, whoever asks at once.
NoneOverwritten ==
    1 .. asked \subseteq {request} \cup taken \cup discarded

\* An upgrade that says it succeeded, and had the host to itself, left every
\* file of the release it resolved; every container on that configuration and on
\* the image its channel's tag names; and none of the images older than what the
\* registry had when it began, whatever an upgrade cut short before it left.
SucceededIsWhole ==
    \A r \in Runners : runs[r].outcome = "upgraded" /\ ~runs[r].crossed =>
        LET c == disk[".env"]  v == runs[r].target IN
        /\ \A f \in Shipped : disk[f] = v
        /\ \A s \in Services :
             /\ up[s] = [channel |-> c, image |-> tags[c][s], conf |-> v]
             /\ tags[c][s] >= runs[r].before.offered[s]

\* An upgrade that failed before it restarted anything, and had the host to
\* itself, leaves files and containers as it found them.  One that says it was
\* rolled back leaves the files so, and every container on them; and on the
\* image it ran, when that was recorded and is of the channel .env names again.
FailureRestores ==
    \A r \in Runners : runs[r].pc = "end" /\ ~runs[r].crossed =>
        LET b == runs[r].before IN
        /\ runs[r].outcome = "putback" => disk = b.disk /\ up = b.up
        /\ runs[r].outcome = "rolledback" =>
             /\ disk = b.disk
             /\ \A s \in Services :
                  /\ up[s].conf = b.disk["compose"]
                  /\ up[s].channel = b.disk[".env"]
                  /\ runs[r].images[s] # None /\ b.up[s].channel = b.disk[".env"]
                       => up[s].image = b.up[s].image

\* Between upgrades and applies Caddy has loaded the configuration on disk, or
\* an upgrade or an apply has said that it failed to; unless the machine or a
\* process was cut off in the middle of one.
ServedIsOnDisk ==
    (\A r \in Runners : runs[r].pc \notin Changing) /\ apply.pc # "written"
      /\ crashes = 0 /\ ~cut
        => served = edge \/ told

\* A status that says running is that of a run under way, or is believed no
\* more before long ("must not be reported as running forever").
NeverRunningForever == StatusRunning ~> ~StatusRunning

\* With the updater on, a request that was accepted is taken.
RequestsAreTaken ==
    \A i \in Ids : request = i /\ marker ~> request # i \/ ~marker

\* An upgrade that was rolled back leaves the edge's configuration as it found
\* it, when nobody has changed a domain since (server_upgrade.go:302).
RollbackKeepsEdge ==
    \A r \in Runners :
        runs[r].pc = "end" /\ runs[r].outcome = "rolledback"
          /\ runs[r].before.edge.domains = domains
            => edge = runs[r].before.edge

\* An upgrade that says it was rolled back put the previous release back
\* (server_upgrade.go:634): every file and container is configured by one release.
RolledBackIsWhole ==
    \A r \in Runners :
        runs[r].pc = "end" /\ runs[r].outcome = "rolledback" =>
            \E v \in Release : /\ \A f \in Shipped : disk[f] = v
                               /\ \A s \in Services : up[s].conf = v

\* No request is accepted while an upgrade runs (ErrUpgradeRunning).
NoneAcceptedWhileRunning ==
    [][request' # request /\ request' # None =>
         \A r \in Runners : runs[r].pc \notin Beating \cup {"announce"}]_vars

\* With the updater off nothing waits to run when it comes back
\* (updater.go:299).
NothingWaitsWhenOff == ~marker /\ ~stopping => request = None

\* After an upgrade that succeeded Caddy has loaded what is on disk.
UpgradedEdgeIsServed ==
    \A r \in Runners :
        runs[r].outcome = "upgraded" /\ apply.pc = "idle" => served = edge
=============================================================================
