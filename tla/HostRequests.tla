---------------------------- MODULE HostRequests -----------------------------
(***************************************************************************)
(* The requests the API leaves for the host agent, and what becomes of     *)
(* them (service/host_requests.go, edge_publish.go, registry_gc.go on the  *)
(* API's side; cmd/host_requests.go on the agent's).                       *)
(*                                                                         *)
(* A request is a file in an inbox.  The agent takes the files in, at most *)
(* one of each type at a time, removes each before running it and writes   *)
(* its status beside it.  Two of the types act on what others are doing:   *)
(* domain.apply puts in service the domain set the API left last, and      *)
(* registry.gc must not run while a build pushes its image.                *)
(*                                                                         *)
(* Abstractions.  A request is a number, in the order it was left.  A      *)
(* domain set is the count of changes it holds, and the sets left for the  *)
(* agent are numbered in the order they were left.  What a migration stage *)
(* does is the module Migration's; here it only runs and ends.             *)
(***************************************************************************)
EXTENDS Integers, Sequences, FiniteSets

CONSTANTS
    None,         \* No request.
    Stages,       \* The migration's request types asked for.
    Handlers,     \* The API's handlers that publish a domain set.
    Builds,       \* The builds that may push an image.
    MaxRequests, MaxDomains, MaxRestarts, MaxFailures  \* Bounds.

Apply == "domain.apply"
GC == "registry.gc"
Types == Stages \cup {Apply, GC}

ASSUME BoundsAssumption ==
    /\ {Apply, GC} \cap Stages = {}
    /\ {MaxRequests, MaxDomains, MaxRestarts, MaxFailures} \subseteq Nat
    /\ None \notin Nat /\ None \notin {"running", "succeeded", "failed"}

VARIABLES
    asked,      \* How many requests have been left.
    kind,       \* The type of each request.
    inbox,      \* The requests waiting in the inbox.
    running,    \* The request of each type the agent has taken, or None.
    status,     \* The state in each request's status file.
    agent,      \* Whether the agent runs.
    reporting,  \* Whether the API believes it does.
    restarts,   \* How often the agent was restarted.
    domains,    \* The domain set in the database.
    left,       \* The sets the API left for the agent: the last is desired.
    applying,   \* The number of the set the running apply has read, or 0.
    served,     \* The number of the one in service, 0 being the first of all.
    publishers, \* What each publishing handler is doing, and with which set.
    failures,   \* How often a publish failed, or the API went.
    gcAsk,      \* The API's hourly check: "idle", or "clear" once it has read.
    builds,     \* How each build stands.
    ran,        \* History: how often each request was run.
    cut,        \* History: the requests that failed, or went with their agent.
    brings,     \* History: how many sets had been left when each was asked for.
    promised    \* History: the last set whose publish was reported done.

reqVars == <<asked, kind, inbox, running, status, ran, cut, brings>>
agentVars == <<agent, reporting, restarts>>
setVars == <<domains, left, applying, served>>
edgeVars == <<setVars, publishers, failures, promised>>
gcVars == <<gcAsk, builds>>
vars == <<reqVars, agentVars, edgeVars, gcVars>>

Ids == 1 .. MaxRequests
Resting == [pc |-> "idle", set |-> 0, no |-> 0]
Later(m, n) == IF m < n THEN n ELSE m

Init ==
    /\ asked = 0 /\ kind = [i \in Ids |-> None] /\ inbox = {}
    /\ running = [t \in Types |-> None]
    /\ status = [i \in Ids |-> None]
    /\ agent = TRUE /\ reporting = TRUE /\ restarts = 0
    /\ domains = 0 /\ left = <<>> /\ applying = 0 /\ served = 0
    /\ publishers = [h \in Handlers |-> Resting] /\ failures = 0
    /\ gcAsk = "idle" /\ builds = [b \in Builds |-> "none"]
    /\ ran = [i \in Ids |-> 0] /\ cut = {}
    /\ brings = [i \in Ids |-> 0] /\ promised = 0

\* Variant: a request whose count is written after it, once it is there.
QueueUncounted(t) ==
    /\ asked < MaxRequests
    /\ UNCHANGED asked
    /\ kind' = [kind EXCEPT ![asked + 1] = t]
    /\ inbox' = inbox \cup {asked + 1}
    /\ brings' = [brings EXCEPT ![asked + 1] = IF t = Apply THEN Len(left) ELSE 0]

(***************************************************************************)
(* The API.                                                                *)
(***************************************************************************)
\* queueHostRequest: renamed into the inbox under a name of its own.
Queue(t) ==
    /\ asked < MaxRequests
    /\ asked' = asked + 1
    /\ kind' = [kind EXCEPT ![asked + 1] = t]
    /\ inbox' = inbox \cup {asked + 1}
    /\ brings' = [brings EXCEPT ![asked + 1] = IF t = Apply THEN Len(left) ELSE 0]

NothingQueued == UNCHANGED <<asked, kind, inbox, brings>>

\* RequestMigration: the agent reports; nothing else is looked at.
RequestStage(t) ==
    /\ reporting
    /\ Queue(t)
    /\ UNCHANGED <<running, status, ran, cut, agentVars, edgeVars, gcVars>>

\* A handler changes a domain, and then publishes the set it reads back.
ChangeDomain(h) ==
    /\ publishers[h].pc = "idle" /\ domains < MaxDomains
    /\ domains' = domains + 1
    /\ publishers' = [publishers EXCEPT ![h].pc = "read"]
    /\ UNCHANGED <<reqVars, agentVars, left, applying, served, failures, promised, gcVars>>

\* PublishEdge: the set is read, ...
ReadDomains(h) ==
    /\ publishers[h].pc = "read"
    /\ publishers' = [publishers EXCEPT ![h].pc = "write", ![h].set = domains]
    /\ UNCHANGED <<reqVars, agentVars, setVars, failures, promised, gcVars>>

\* ... left where the agent looks, in the place of the one before ...
LeaveDesired(h) ==
    /\ publishers[h].pc = "write"
    /\ left' = Append(left, publishers[h].set)
    /\ publishers' = [publishers EXCEPT ![h] = [pc |-> "queue", set |-> 0, no |-> Len(left) + 1]]
    /\ UNCHANGED <<reqVars, agentVars, domains, applying, served, failures, promised, gcVars>>

\* Variant: an apply that is running is taken to be enough.
AskUnlessRunning(h) ==
    /\ publishers[h].pc = "queue"
    /\ publishers' = [publishers EXCEPT ![h] = Resting]
    /\ IF reporting
       THEN /\ IF running[Apply] = None THEN Queue(Apply) ELSE NothingQueued
            /\ promised' = Later(promised, publishers[h].no)
       ELSE NothingQueued /\ UNCHANGED promised
    /\ UNCHANGED <<running, status, ran, cut, agentVars, setVars, failures, gcVars>>

\* ... and asked for; an agent that does not report is not asked, and the set
\* waits for the next time anything asks.
AskToApply(h) ==
    /\ publishers[h].pc = "queue"
    /\ publishers' = [publishers EXCEPT ![h] = Resting]
    /\ IF reporting
       THEN Queue(Apply) /\ promised' = Later(promised, publishers[h].no)
       ELSE NothingQueued /\ UNCHANGED promised
    /\ UNCHANGED <<running, status, ran, cut, agentVars, setVars, failures, gcVars>>

\* A publish fails at any of its steps; its caller logs it and goes on.
PublishFails(h) ==
    /\ publishers[h].pc # "idle" /\ failures < MaxFailures
    /\ publishers' = [publishers EXCEPT ![h] = Resting]
    /\ failures' = failures + 1
    /\ UNCHANGED <<reqVars, agentVars, setVars, promised, gcVars>>

\* The API goes, with every handler and the check that was under way.
ApiRestarts ==
    /\ failures < MaxFailures
    /\ gcAsk = "clear" \/ \E h \in Handlers : publishers[h].pc # "idle"
    /\ publishers' = [h \in Handlers |-> Resting]
    /\ gcAsk' = "idle"
    /\ failures' = failures + 1
    /\ UNCHANGED <<reqVars, agentVars, setVars, promised, builds>>

\* requestRegistryGC up to its count of builds: none asked for yet, none
\* pending or building.
CheckBuilds ==
    /\ gcAsk = "idle"
    /\ \A i \in inbox : kind[i] # GC
    /\ \A b \in Builds : builds[b] \notin {"pending", "building"}
    /\ gcAsk' = "clear"
    /\ UNCHANGED <<reqVars, agentVars, edgeVars, builds>>

\* Its end: the request.
AskForGC ==
    /\ gcAsk = "clear"
    /\ gcAsk' = "idle"
    /\ Queue(GC)
    /\ UNCHANGED <<running, status, ran, cut, agentVars, edgeVars, builds>>

\* A deployment is triggered, builds and pushes, and is done.
BuildStep(b) ==
    /\ \/ builds[b] = "none" /\ builds' = [builds EXCEPT ![b] = "pending"]
       \/ builds[b] = "pending" /\ builds' = [builds EXCEPT ![b] = "building"]
       \/ builds[b] = "building" /\ builds' = [builds EXCEPT ![b] = "done"]
    /\ UNCHANGED <<reqVars, agentVars, edgeVars, gcAsk>>

(***************************************************************************)
(* The agent.                                                              *)
(***************************************************************************)
\* Variant: a waiting request is run with its file left where it is.
TakeAndKeep(i) ==
    /\ agent /\ i \in inbox
    /\ running[kind[i]] = None
    /\ running' = [running EXCEPT ![kind[i]] = i]
    /\ UNCHANGED <<asked, kind, inbox, status, ran, cut, brings, agentVars, edgeVars, gcVars>>

\* requestRunner.check: a waiting request whose type is not running is removed
\* from the inbox, ...
Take(i) ==
    /\ agent /\ i \in inbox
    /\ running[kind[i]] = None
    /\ inbox' = inbox \ {i}
    /\ running' = [running EXCEPT ![kind[i]] = i]
    /\ UNCHANGED <<asked, kind, status, ran, cut, brings, agentVars, edgeVars, gcVars>>

Started(t) == running[t] # None /\ status[running[t]] = "running"

\* ... and then run: its status first, and an apply reads what is left by then.
Start(t) ==
    /\ agent /\ running[t] # None /\ ~Started(t)
    /\ status' = [status EXCEPT ![running[t]] = "running"]
    /\ ran' = [ran EXCEPT ![running[t]] = @ + 1]
    /\ applying' = (IF t = Apply THEN Len(left) ELSE applying)
    /\ UNCHANGED <<asked, kind, inbox, running, cut, brings, agentVars, domains, left, served,
                   publishers, failures, promised, gcVars>>

\* How a request ends: an apply that failed may have put its set in service.
Ends(t, outcome) ==
    /\ agent /\ Started(t)
    /\ status' = [status EXCEPT ![running[t]] = outcome]
    /\ served' \in (IF t # Apply THEN {served}
                    ELSE IF outcome = "succeeded" THEN {applying} ELSE {served, applying})
    /\ cut' = (IF outcome = "failed" THEN cut \cup {running[t]} ELSE cut)
    /\ applying' = (IF t = Apply THEN 0 ELSE applying)
    /\ UNCHANGED <<asked, kind, inbox, ran, brings, agentVars, domains, left, publishers,
                   failures, promised, gcVars>>

\* The request ends, either way, and its type is free again.
Finish(t) ==
    \E outcome \in {"succeeded", "failed"} :
        /\ Ends(t, outcome)
        /\ running' = [running EXCEPT ![t] = None]

\* The agent goes, with what it had taken: a reboot, or an upgrade's restart.
AgentStops ==
    /\ agent /\ restarts < MaxRestarts
    /\ agent' = FALSE /\ restarts' = restarts + 1
    /\ cut' = cut \cup {running[t] : t \in {u \in Types : running[u] # None}}
    /\ running' = [t \in Types |-> None]
    /\ served' \in {served} \cup (IF Started(Apply) THEN {applying} ELSE {})
    /\ applying' = 0
    /\ UNCHANGED <<asked, kind, inbox, status, ran, brings, reporting, domains, left,
                   publishers, failures, promised, gcVars>>

\* Variant: an agent that starts throws away what waits.
AgentStartsAfresh ==
    /\ ~agent
    /\ agent' = TRUE /\ reporting' = TRUE /\ inbox' = {}
    /\ UNCHANGED <<asked, kind, running, status, ran, cut, brings, restarts, edgeVars, gcVars>>

\* systemd starts it again: what waited in the inbox still waits.
AgentStarts ==
    /\ ~agent
    /\ agent' = TRUE /\ reporting' = TRUE
    /\ UNCHANGED <<reqVars, restarts, edgeVars, gcVars>>

\* Its heartbeat is too old to believe.
ReportGoesStale ==
    /\ ~agent /\ reporting
    /\ reporting' = FALSE
    /\ UNCHANGED <<reqVars, agent, restarts, edgeVars, gcVars>>

Next ==
    \/ \E t \in Stages : RequestStage(t)
    \/ \E h \in Handlers : ChangeDomain(h) \/ ReadDomains(h) \/ LeaveDesired(h)
                           \/ AskToApply(h) \/ PublishFails(h)
    \/ ApiRestarts
    \/ CheckBuilds \/ AskForGC
    \/ \E b \in Builds : BuildStep(b)
    \/ \E i \in Ids : Take(i)
    \/ \E t \in Types : Start(t) \/ Finish(t)
    \/ AgentStops \/ AgentStarts \/ ReportGoesStale

\* The agent reads its inbox every two seconds, what it runs ends, and systemd
\* starts it again.
Fairness ==
    /\ \A i \in Ids : WF_vars(Take(i))
    /\ \A t \in Types : WF_vars(Start(t) \/ Finish(t))
    /\ WF_vars(AgentStarts)

Spec == Init /\ [][Next]_vars /\ Fairness

(***************************************************************************)
(* Properties.                                                             *)
(***************************************************************************)
\* Every variable stays in its range.
TypeOK ==
    /\ asked \in 0 .. MaxRequests /\ restarts \in 0 .. MaxRestarts
    /\ kind \in [Ids -> Types \cup {None}]
    /\ inbox \subseteq 1 .. asked
    /\ running \in [Types -> Ids \cup {None}]
    /\ status \in [Ids -> {None, "running", "succeeded", "failed"}]
    /\ {agent, reporting} \subseteq BOOLEAN
    /\ domains \in 0 .. MaxDomains /\ failures \in 0 .. MaxFailures
    /\ left \in Seq(0 .. MaxDomains)
    /\ {applying, served, promised} \subseteq 0 .. Len(left)
    /\ publishers \in [Handlers -> [pc : {"idle", "read", "write", "queue"},
                                    set : 0 .. MaxDomains, no : 0 .. Len(left)]]
    /\ gcAsk \in {"idle", "clear"}
    /\ builds \in [Builds -> {"none", "pending", "building", "done"}]
    /\ ran \in [Ids -> Nat] /\ cut \subseteq Ids
    /\ brings \in [Ids -> 0 .. Len(left)]

\* A request is run at most once, however often the agent goes and comes back:
\* a migration's stage must not be repeated by a restart.
RunOnce == \A i \in Ids : ran[i] <= 1

\* Nothing is lost but with the agent that had taken it: every request left
\* waits, runs, or has its answer.
NothingElseLost ==
    \A i \in 1 .. asked :
        \/ i \in inbox
        \/ running[kind[i]] = i
        \/ status[i] \in {"succeeded", "failed"}
        \/ i \in cut

\* The set a handler published and saw asked for is in service, or a later one
\* is, or an apply is still to put one of these there, unless the apply that was
\* asked for it, or for a later one, failed or went with its agent: whatever the
\* handlers do at once, whichever publishes fail, however often the agent goes.
PublishedIsServed ==
    \/ served >= promised
    \/ \E i \in inbox : kind[i] = Apply
    \/ running[Apply] # None /\ (Started(Apply) => applying >= promised)
    \/ \E i \in cut : kind[i] = Apply /\ brings[i] >= promised

\* edge_publish.go: PublishEdge records the domain set this organisation should
\* be served on.  What is in service is the database's once everything has
\* settled, when no publish failed, no apply did, and the agent was there.
SettledIsServed ==
    (/\ \A h \in Handlers : publishers[h].pc = "idle"
     /\ \A i \in inbox : kind[i] # Apply
     /\ running[Apply] = None
     /\ restarts = 0 /\ failures = 0
     /\ \A i \in cut : kind[i] # Apply)
        => (IF served = 0 THEN 0 ELSE left[served]) = domains

\* A request that waits is answered, or goes with the agent.
RequestsAreAnswered ==
    \A i \in Ids : i \in inbox ~> status[i] \in {"succeeded", "failed"} \/ i \in cut

\* A collection never runs while a build pushes (registry_gc.go:20, "never
\* while a build may be pushing").
NoBuildWhileCollecting ==
    running[GC] # None => \A b \in Builds : builds[b] # "building"

\* What a status says is running is being run.
RunningIsRunning ==
    \A i \in Ids : status[i] = "running" /\ agent => running[kind[i]] = i

\* Two stages of a migration never run at once: they work from one journal.
OneStage == Cardinality({t \in Stages : running[t] # None}) <= 1
=============================================================================
