----------------------------- MODULE Migration ------------------------------
(***************************************************************************)
(* Moving a server from Dokploy to Meshploy: each group of workloads that  *)
(* has to move together is moved or put back, ports 80 and 443 change      *)
(* hands, and what is left of Dokploy is removed                           *)
(* (apps/cli/internal/migrate/dokploy: move.go, data.go, control.go,       *)
(* rollback.go, cutover.go, edge_first.go, edge.go, finish.go; the journal *)
(* in internal/migrate/journal; the stages in cmd/migrate_stages.go).      *)
(*                                                                         *)
(* Every stage is a list of steps.  A step has its effect, then is written *)
(* to the journal; a step the journal has is not done again; what carries  *)
(* an undo is reversed newest first.  One stage runs at a time, which the  *)
(* host agent sees to and a terminal does not.  Variants are the mistakes   *)
(* their neighbours could have been.                                       *)
(***************************************************************************)
EXTENDS Integers, FiniteSets, Sequences, SequencesExt

CONSTANTS
    Groups,         \* the plan's groups
    Applications,   \* of each group, its applications and compose apps, in order
    Databases,      \* of each group, its databases, in order
    Stacks,         \* the compose apps
    Dumped,         \* databases whose data moves by dump and restore
    Copied,         \* workloads whose data moves as files
    Ports,          \* databases published on a port of the host
    Domains,        \* applications with a hostname, in the order the names sort
    Host,           \* stands for the host where a step is not of a workload
    Plans,          \* the sets of groups that can move, of which one is given
    Unused,         \* workloads the operator may have stopped beforehand
    EdgeFirst,      \* the ways to cut over: TRUE takes the edge first
    UndoFails,      \* the steps whose undo may fail
    Budget,         \* how often each of these happens: a bound
    Troubles        \* how many of those that go wrong happen at all: a bound

Wrong == {"fail", "undofail", "partial", "crash", "torn", "settle", "revoke"}
Expenses == Wrong \union {"write", "rollback", "recut", "again"}

Members(g) == ToSet(Applications[g]) \union ToSet(Databases[g])
Workloads == UNION {Members(g) : g \in Groups}
Carried == Dumped \union Copied
GroupOf(w) == CHOOSE g \in Groups : w \in Members(g)

ASSUME MigrationAssumption ==
    /\ IsFiniteSet(Groups)
    /\ \A g \in Groups : Members(g) # {}
    /\ \A g, h \in Groups : g # h => Members(g) \cap Members(h) = {}
    /\ \A g \in Groups : Applications[g] \in Seq(Members(g)) /\ Databases[g] \in Seq(Members(g))
    /\ \A g \in Groups : /\ IsInjective(Applications[g])
                        /\ ToSet(Applications[g]) \cap ToSet(Databases[g]) = {}
    /\ Domains \in Seq(Workloads)
    /\ Host \notin Workloads \union Groups
    /\ Stacks \union ToSet(Domains) \subseteq UNION {ToSet(Applications[g]) : g \in Groups}
    /\ Dumped \union Ports \subseteq UNION {ToSet(Databases[g]) : g \in Groups}
    /\ Copied \subseteq Workloads \ Dumped
    /\ Plans \subseteq SUBSET Groups /\ Plans # {}
    /\ Unused \subseteq Workloads \ Carried
    /\ EdgeFirst \subseteq BOOLEAN
    /\ Budget \in [Expenses -> Nat]
    /\ Troubles \in Nat

VARIABLES
    movable,    \* the groups the confirmed plan can move
    journal,    \* what is done, and what can be undone, oldest first
    was,        \* Dokploy's copies as the migration found them
    old,        \* Dokploy's copy of each workload
    new,        \* whether Meshploy's copy of it runs
    data,       \* how far each copy of the data, and the dump, has got
    routes,     \* domains switched in the old edge's files and published in
                \* Meshploy; TCP routes open
    edge,       \* Dokploy's edge and console, who holds the ports, and what
                \* Meshploy's proxy sends to the old edge
    job,        \* the stage that runs, or how the last one ended
    past,       \* history: cut short, put back, put back past the cutover
    budget      \* what is left of Budget

vars == <<movable, journal, was, old, new, data, routes, edge, job, past, budget>>

-----------------------------------------------------------------------------
(* Data *)

Nothing == -1           \* no dump
NotNoted == "no"        \* the step at hand has not had its effect

\* Its effect is had; it is to be noted with an undo, or without one.
Noting == {"undo", "plain"}

HostSteps == {"ready", "trust", "fallback", "proxy", "console", "edge", "gone", "caddy",
              "up", "platform", "clear", "agent", "complete"}
Kinds == {"ready", "stop", "dump", "copy", "service", "start", "healthy", "restore",
          "tcp", "domain", "publish", "probe", "outright", "remove"} \union HostSteps

\* The steps the journal has an entry for.
Journalled == Kinds \ {"ready", "healthy", "probe", "proxy", "gone", "caddy", "outright", "clear"}

Runs == {"move", "cutover", "finish"}           \* stages that run steps
Replays == {"undo", "rollback", "restore"}      \* stages that replay the journal
Ends == {"none", "moved", "cut over", "finished", "undone", "put back", "restored",
         "undo failed", "failed", "cut short"}

Steps == Kinds \X (Workloads \union {Host})

\* What of seq is in this set, in the order of seq.
Only(seq, in) ==
    LET kept[i \in 0 .. Len(seq)] ==
            IF i = 0 THEN <<>>
            ELSE IF seq[i] \in in THEN Append(kept[i - 1], seq[i]) ELSE kept[i - 1]
    IN  kept[Len(seq)]

TypeOK ==
    /\ movable \in Plans
    /\ journal.done \subseteq Steps
    /\ journal.live \in Seq(Steps)
    /\ was \in [Workloads -> {"up", "down"}]
    /\ old \in [Workloads -> {"up", "down", "gone"}]
    /\ new \in [Workloads -> BOOLEAN]
    /\ data \in [Carried -> [old : Nat, new : Nat, dump : Nat \union {Nothing}]]
    /\ routes \in [switched : SUBSET ToSet(Domains), published : SUBSET ToSet(Domains),
                   tcp : SUBSET Ports]
    /\ edge \in [at : {"ports", "side", "down", "gone"}, ports : {"old", "caddy", "nobody"},
                 trust : BOOLEAN, console : {"up", "down", "gone"},
                 fallback : SUBSET ToSet(Domains)]
    /\ job.kind \in {"idle"} \union Runs \union Replays
    /\ job.group \in Groups \union {Host}
    /\ job.todo \in Seq(Steps)
    /\ job.noting \in {NotNoted} \union Noting
    /\ job.failed \in BOOLEAN /\ job.first \in BOOLEAN
    /\ job.ended \in Ends
    /\ past \in [cut : SUBSET (Groups \union {Host}), again : SUBSET Groups,
                 returned : SUBSET Groups]
    /\ budget \in [Expenses -> Nat]

GoneWrong == SumFunctionOnSet([e \in Expenses |-> Budget[e] - budget[e]], Wrong)

Spend(what) ==
    /\ budget[what] > 0
    /\ what \in Wrong => GoneWrong < Troubles
    /\ budget' = [budget EXCEPT ![what] = @ - 1]

Done(what, w) == <<what, w>> \in journal.done

\* groupHasMoved: every member started in Meshploy.
GroupHasMoved(g) == \A w \in Members(g) : Done("start", w)

Finished == Done("complete", Host)

StepsOf(g) == Kinds \X (IF g = Host THEN Workloads \union {Host} ELSE Members(g))

\* Undoable, of a group or (Host) of everything: newest first.
UndoableOldestFirst(g) == Only(journal.live, StepsOf(g))

Undoable(g) == Reverse(Only(journal.live, StepsOf(g)))

-----------------------------------------------------------------------------
(* The steps of each stage *)

Each(what, ws) == [i \in DOMAIN ws |-> <<what, ws[i]>>]

\* start and startStack: a stack counts as started once its services are up.
Start(w) ==
    IF w \in Stacks THEN <<<<"service", w>>, <<"healthy", w>>, <<"start", w>>>>
    ELSE <<<<"start", w>>, <<"healthy", w>>>>

StartAll(ws) == FlattenSeq([i \in DOMAIN ws |-> Start(ws[i])])

\* switchDomain: with the edge taken first, publishing the route is the switch.
Switch(w) ==
    IF Done("fallback", Host) THEN <<<<"publish", w>>>>
    ELSE <<<<"domain", w>>, <<"publish", w>>>>

DomainsOf(g) == Only(Domains, Members(g))

\* run, in move.go: what writes stops, then what is written to, read in between;
DumpedFirst(g) ==
    Each("dump", Only(Databases[g], Dumped))
    \o Each("stop", Applications[g] \o Databases[g])

DatabasesLeftUp(g) ==
    Each("stop", Applications[g]) \o Each("dump", Only(Databases[g], Dumped))

TakeDown(g) ==
    Each("stop", Applications[g])
    \o Each("dump", Only(Databases[g], Dumped))
    \o Each("stop", Databases[g])

\* files are copied with both sides down, and what reads starts after what holds;
BringUp(g) ==
    Each("copy", Only(Databases[g] \o Applications[g], Copied))
    \o StartAll(Databases[g])
    \o Each("restore", Only(Databases[g], Dumped))
    \o StartAll(Applications[g])

\* ports and domains last.
MoveSteps(g) ==
    Each("ready", Only(Applications[g], Stacks))
    \o TakeDown(g)
    \o BringUp(g)
    \o Each("tcp", Only(Databases[g], Ports))
    \o FlattenSeq([i \in DOMAIN DomainsOf(g) |-> Switch(DomainsOf(g)[i])])
    \o Each("probe", DomainsOf(g))

\* Cutover; caddy is StartCaddy, and up is edgeIsUp and the entry after it.
CutoverSteps(first) ==
    Each("ready", <<Host>>)
    \o (IF first THEN <<<<"trust", Host>>, <<"fallback", Host>>, <<"proxy", Host>>>> ELSE <<>>)
    \o <<<<"console", Host>>, <<"edge", Host>>, <<"gone", Host>>, <<"caddy", Host>>,
         <<"up", Host>>>>
    \o Each("probe", Only(Domains, {w \in Workloads : GroupOf(w) \in movable}))

\* Finish: what moved, the platform, what the proxy sends it, the credential.
FinishSteps ==
    Each("remove", SetToSeq({w \in Workloads : Done("start", w)}))
    \o <<<<"platform", Host>>, <<"clear", Host>>, <<"agent", Host>>, <<"complete", Host>>>>

\* A step of the journal's is not repeated: what probes and waits is.
ToDo(steps) == Only(steps, Steps \ journal.done)

-----------------------------------------------------------------------------
(* What is served *)

Published(w) == w \in routes.published /\ new[w]
FromOldEdge(w) == w \notin routes.switched /\ old[w] = "up"

\* Whether a visitor of w's hostname gets an answer, and from whom.
ServedByMeshploy(w) ==
    /\ Published(w)
    /\ edge.ports = "caddy" \/ (edge.ports = "old" /\ w \in routes.switched)

ServedByDokploy(w) ==
    /\ FromOldEdge(w)
    /\ \/ edge.ports = "old"
       \/ /\ edge.ports = "caddy" /\ edge.at = "side" /\ edge.trust
          /\ w \in edge.fallback \ routes.published

Served(w) == ServedByMeshploy(w) \/ ServedByDokploy(w)

\* notMovedDomains: what the old edge goes on serving.
MovableDomains ==
    {w \in ToSet(Domains) : GroupOf(w) \in movable /\ ~GroupHasMoved(GroupOf(w))}

NotMovedDomains == {w \in ToSet(Domains) : ~GroupHasMoved(GroupOf(w))}

\* The first of them as the names sort, which waitProxyFallback asks for.
FirstOf(hosts) == Head(Only(Domains, hosts))

-----------------------------------------------------------------------------
Idle(ended) ==
    [kind |-> "idle", group |-> job.group, todo |-> <<>>, noting |-> NotNoted,
     failed |-> FALSE, first |-> job.first, ended |-> ended]

Begin(kind, g, todo) ==
    job' = [job EXCEPT !.kind = kind, !.group = g, !.todo = todo, !.failed = FALSE,
                       !.ended = "none"]

Init ==
    /\ movable \in Plans
    /\ was \in {f \in [Workloads -> {"up", "down"}] :
                    \A w \in Workloads \ Unused : f[w] = "up"}
    /\ journal = [done |-> {}, live |-> <<>>]
    /\ old = was
    /\ new = [w \in Workloads |-> FALSE]
    /\ data = [w \in Carried |-> [old |-> 0, new |-> 0, dump |-> Nothing]]
    /\ routes = [switched |-> {}, published |-> {}, tcp |-> {}]
    /\ edge = [at |-> "ports", ports |-> "old", trust |-> FALSE, console |-> "up",
               fallback |-> {}]
    /\ job = [kind |-> "idle", group |-> Host, todo |-> <<>>, noting |-> NotNoted,
              failed |-> FALSE, first |-> FALSE, ended |-> "none"]
    /\ past = [cut |-> {}, again |-> {}, returned |-> {}]
    /\ budget = Budget

-----------------------------------------------------------------------------
(* Starting a stage *)

\* runMigrateMove and Move: a group that can move, whether or not it has moved;
\* not once the credential it acts with is revoked.
StartMove(g) ==
    /\ job.kind = "idle"
    /\ g \in movable
    /\ ~Done("agent", Host)
    /\ IF g \in past.again THEN Spend("again") ELSE UNCHANGED budget
    /\ Begin("move", g, ToDo(MoveSteps(g)))
    /\ UNCHANGED <<movable, journal, was, old, new, data, routes, edge, past>>

\* Cutover refuses while a group can still move, unless the edge goes first.
StartCutover(first) ==
    /\ job.kind = "idle"
    /\ ~Finished
    /\ first \/ \A g \in movable : GroupHasMoved(g)
    /\ IF edge.ports = "caddy" THEN Spend("recut") ELSE UNCHANGED budget
    /\ job' = [job EXCEPT !.kind = "cutover", !.group = Host, !.first = first,
                          !.todo = ToDo(CutoverSteps(first)), !.ended = "none"]
    /\ UNCHANGED <<movable, journal, was, old, new, data, routes, edge, past>>

\* finishBlockers: every group has moved, and the ports are handed over.
StartFinish ==
    /\ job.kind = "idle"
    /\ ~Finished
    /\ \A g \in Groups : GroupHasMoved(g)
    /\ Done("edge", Host)
    /\ Begin("finish", Host, ToDo(FinishSteps))
    /\ UNCHANGED <<movable, journal, was, old, new, data, routes, edge, past, budget>>

\* runMigrateRollback, of a group or (Host) of everything: the journal's undos,
\* and nothing else.
StartRollback(g) ==
    /\ job.kind = "idle"
    /\ ~Finished
    /\ Undoable(g) # <<>>
    /\ Spend("rollback")
    /\ Begin("rollback", g, Undoable(g))
    /\ UNCHANGED <<movable, journal, was, old, new, data, routes, edge, past>>

-----------------------------------------------------------------------------
(* One step of a stage *)

\* The step at hand cannot succeed.
Refused(s) ==
    LET what == s[1] w == s[2] IN
    \/ what = "dump" /\ old[w] # "up"
    \/ what = "restore" /\ (data[w].dump = Nothing \/ ~new[w])
    \/ what = "healthy" /\ ~new[w]
    \/ what = "probe" /\ job.kind = "move" /\ ~ServedByMeshploy(w)
    \/ what = "probe" /\ job.kind = "cutover" /\ ~Served(w)
    \/ what = "proxy" /\ NotMovedDomains # {} /\ FirstOf(NotMovedDomains) \notin edge.fallback
    \/ what = "gone" /\ edge.ports # "nobody"
    \/ what = "up" /\ edge.ports # "caddy"

At(what, w) ==
    /\ job.kind \in Runs
    /\ job.noting = NotNoted
    /\ job.todo # <<>> /\ Head(job.todo) = <<what, w>>
    /\ ~Refused(<<what, w>>)

\* The effect is had: it is noted next, if the journal has such steps.
Had(noting) ==
    job' = IF Head(job.todo)[1] \in Journalled THEN [job EXCEPT !.noting = noting]
           ELSE [job EXCEPT !.todo = Tail(@)]

\* Control.Stop: already down is noted without an undo.
StopWithUndo(w) ==
    /\ At("stop", w)
    /\ old' = [old EXCEPT ![w] = IF @ = "up" THEN "down" ELSE @]
    /\ Had("undo")
    /\ UNCHANGED <<movable, journal, was, new, data, routes, edge, past, budget>>

StopOld(w) ==
    /\ At("stop", w)
    /\ old' = [old EXCEPT ![w] = IF @ = "up" THEN "down" ELSE @]
    /\ Had(IF old[w] = "up" THEN "undo" ELSE "plain")
    /\ UNCHANGED <<movable, journal, was, new, data, routes, edge, past, budget>>

Dump(w) ==
    /\ At("dump", w)
    /\ data' = [data EXCEPT ![w].dump = data[w].old]
    /\ Had("plain")
    /\ UNCHANGED <<movable, journal, was, old, new, routes, edge, past, budget>>

CopyFiles(w) ==
    /\ At("copy", w)
    /\ data' = [data EXCEPT ![w].new = data[w].old]
    /\ Had("plain")
    /\ UNCHANGED <<movable, journal, was, old, new, routes, edge, past, budget>>

\* The dump is removed before the restore is noted.
RestoreRemoved(w) ==
    /\ At("restore", w)
    /\ data' = [data EXCEPT ![w].dump = Nothing, ![w].new = Nothing]
    /\ Had("plain")
    /\ UNCHANGED <<movable, journal, was, old, new, routes, edge, past, budget>>

Restore(w) ==
    /\ At("restore", w)
    /\ data' = [data EXCEPT ![w].new = data[w].dump, ![w].dump = Nothing]
    /\ Had("plain")
    /\ UNCHANGED <<movable, journal, was, old, new, routes, edge, past, budget>>

\* StartService; of a stack, the entry that it is started undoes to nothing.
StartNew(w) ==
    /\ At("start", w) \/ At("service", w)
    /\ new' = [new EXCEPT ![w] = TRUE]
    /\ Had("undo")
    /\ UNCHANGED <<movable, journal, was, old, data, routes, edge, past, budget>>

PublishTCPRoute(w) ==
    /\ At("tcp", w)
    /\ routes' = [routes EXCEPT !.tcp = @ \union {w}]
    /\ Had("undo")
    /\ UNCHANGED <<movable, journal, was, old, new, data, edge, past, budget>>

\* SwitchApp, TakeOverHosts.
SwitchDomain(w) ==
    /\ At("domain", w)
    /\ routes' = [routes EXCEPT !.switched = @ \union {w}]
    /\ Had("undo")
    /\ UNCHANGED <<movable, journal, was, old, new, data, edge, past, budget>>

PublishRoute(w) ==
    /\ At("publish", w)
    /\ routes' = [routes EXCEPT !.published = @ \union {w}]
    /\ Had("undo")
    /\ UNCHANGED <<movable, journal, was, old, new, data, edge, past, budget>>

\* What only waits, asks or probes.
Check(what, w) ==
    /\ what \in {"ready", "healthy", "probe", "proxy", "gone"}
    /\ At(what, w)
    /\ Had("plain")
    /\ UNCHANGED <<movable, journal, was, old, new, data, routes, edge, past, budget>>

TrustForwardedHeaders ==
    /\ At("trust", Host)
    /\ edge' = [edge EXCEPT !.trust = TRUE]
    /\ Had(IF edge.trust THEN "plain" ELSE "undo")
    /\ UNCHANGED <<movable, journal, was, old, new, data, routes, past, budget>>

SetFallback ==
    /\ At("fallback", Host)
    /\ edge' = [edge EXCEPT !.fallback = NotMovedDomains]
    /\ Had("undo")
    /\ UNCHANGED <<movable, journal, was, old, new, data, routes, past, budget>>

StopControlPlane ==
    /\ At("console", Host)
    /\ edge' = [edge EXCEPT !.console = "down"]
    /\ Had(IF edge.console = "up" THEN "undo" ELSE "plain")
    /\ UNCHANGED <<movable, journal, was, old, new, data, routes, past, budget>>

\* stopEdge, or moveEdgeAside: told to move aside, the edge settles on its side
\* port, or it is an entry that failed, which no restore and no rollback replays.
LetGoOfPorts ==
    /\ At("edge", Host)
    /\ edge' = [edge EXCEPT !.at = IF job.first THEN "side" ELSE "down",
                            !.ports = IF @ = "old" THEN "nobody" ELSE @]
    /\ \/ /\ Had(IF edge.at = "ports" THEN "undo" ELSE "plain")
          /\ UNCHANGED <<past, budget>>
       \/ /\ job.first /\ Spend("settle")
          /\ job' = Idle("failed")
          /\ past' = [past EXCEPT !.cut = @ \union {Host}]
    /\ UNCHANGED <<movable, journal, was, old, new, data, routes>>

\* StartCaddy: the container is made, which is not that it holds the ports.
StartCaddy ==
    /\ At("caddy", Host)
    /\ \/ /\ edge' = [edge EXCEPT !.ports = IF @ = "nobody" THEN "caddy" ELSE @]
          /\ UNCHANGED budget
       \/ UNCHANGED edge /\ Spend("fail")
    /\ Had("plain")
    /\ UNCHANGED <<movable, journal, was, old, new, data, routes, past>>

EdgeIsUp ==
    /\ At("up", Host)
    /\ Had("undo")
    /\ UNCHANGED <<movable, journal, was, old, new, data, routes, edge, past, budget>>

RemoveOld(w) ==
    /\ At("remove", w)
    /\ old' = [old EXCEPT ![w] = "gone"]
    /\ Had("plain")
    /\ UNCHANGED <<movable, journal, was, new, data, routes, edge, past, budget>>

FinishHost(what) ==
    /\ what \in {"platform", "clear", "agent", "complete"}
    /\ At(what, Host)
    /\ edge' = CASE what = "platform" -> [edge EXCEPT !.at = "gone", !.console = "gone"]
                 [] what = "clear" -> [edge EXCEPT !.fallback = {}]
                 [] OTHER -> edge
    /\ Had("plain")
    /\ UNCHANGED <<movable, journal, was, old, new, data, routes, past, budget>>

\* Append.
Note ==
    /\ job.noting # NotNoted
    /\ journal' = [done |-> journal.done \union {Head(job.todo)},
                   live |-> IF job.noting = "undo" THEN Append(journal.live, Head(job.todo))
                            ELSE journal.live]
    /\ job' = [job EXCEPT !.todo = Tail(@), !.noting = NotNoted]
    /\ UNCHANGED <<movable, was, old, new, data, routes, edge, past, budget>>

-----------------------------------------------------------------------------
(* A step that fails, and what follows from it *)

NotDone(s) == [journal EXCEPT !.done = @ \ {s}]

\* The step at hand fails: because it cannot succeed, or for some reason (not
\* edgeIsUp, when Meshploy's edge is).  A start that errored may have started
\* something.
FailsWith(s) ==
    /\ job.noting = NotNoted
    /\ job.todo # <<>> /\ Head(job.todo) = s
    /\ \/ /\ IF Refused(s) THEN UNCHANGED budget
             ELSE s[1] # "up" /\ Spend(IF s[1] = "agent" THEN "revoke" ELSE "fail")
          /\ UNCHANGED new
       \/ /\ s[1] \in {"start", "service"} /\ Spend("partial")
          /\ new' = [new EXCEPT ![s[2]] = TRUE]
    /\ UNCHANGED <<movable, was, old, data, routes, edge>>

\* Move puts the group back: the journal's undos, then every copy stopped
\* outright, whether or not the journal knows it started.
FailMove(s) ==
    /\ job.kind = "move"
    /\ FailsWith(s)
    /\ journal' = NotDone(s)
    /\ Begin("undo", job.group,
             Undoable(job.group) \o Each("outright", Databases[job.group] \o Applications[job.group]))
    /\ UNCHANGED past

\* restoreEdge replays the edge's own entry, and nothing else of the cutover.
EdgeEntry == Only(Undoable(Host), {<<"edge", Host>>})

\* Cutover puts the old edge back once it has let go of the ports, and until
\* Meshploy's is up; before and after, it only says what failed.
FailCutover(s) ==
    /\ job.kind = "cutover"
    /\ FailsWith(s)
    /\ journal' = NotDone(s)
    /\ IF s[1] \in {"gone", "caddy", "up"} THEN Begin("restore", Host, EdgeEntry)
       ELSE job' = Idle("failed")
    /\ UNCHANGED past

\* Finish carries on.
FailFinish(s) ==
    /\ job.kind = "finish"
    /\ s[1] \notin {"complete"}
    /\ FailsWith(s)
    /\ journal' = NotDone(s)
    /\ job' = [job EXCEPT !.todo = Tail(@)]
    /\ UNCHANGED past

-----------------------------------------------------------------------------
(* Replaying the journal *)

\* one, of rollback.go: what the undo of a step does.
UndoesOld(s) == old' = IF s[1] = "stop" THEN [old EXCEPT ![s[2]] = "up"] ELSE old

UndoesNew(s) ==
    new' = IF s[1] \in {"start", "service", "outright"} THEN [new EXCEPT ![s[2]] = FALSE]
           ELSE new

UndoesRoutes(s) ==
    routes' = CASE s[1] = "domain" -> [routes EXCEPT !.switched = @ \ {s[2]}]
                [] s[1] = "publish" -> [routes EXCEPT !.published = @ \ {s[2]}]
                [] s[1] = "tcp" -> [routes EXCEPT !.tcp = @ \ {s[2]}]
                [] OTHER -> routes

UndoesEdge(s) ==
    edge' = CASE s[1] = "trust" -> [edge EXCEPT !.trust = FALSE]
              [] s[1] = "fallback" -> [edge EXCEPT !.fallback = {}]
              [] s[1] = "console" -> [edge EXCEPT !.console = "up"]
              [] s[1] = "edge" ->
                    [edge EXCEPT !.at = "ports",
                                 !.ports = IF @ = "nobody" THEN "old" ELSE @]
              [] s[1] = "up" ->
                    [edge EXCEPT !.ports = IF @ = "caddy" THEN "nobody" ELSE @]
              [] OTHER -> edge

\* What is of Dokploy's is there to be put back.
CanUndo(s) ==
    /\ s[1] = "stop" => old[s[2]] # "gone"
    /\ s[1] = "edge" => edge.at # "gone"

Unrecorded(s) ==
    [done |-> journal.done \ {s}, live |-> Only(journal.live, Steps \ {s})]

\* Replay, one entry: its undo, then that it is undone.
UndoOf(s) ==
    /\ job.kind \in Replays
    /\ job.todo # <<>> /\ Head(job.todo) = s
    /\ CanUndo(s)
    /\ UndoesOld(s) /\ UndoesNew(s) /\ UndoesRoutes(s) /\ UndoesEdge(s)
    /\ job' = [job EXCEPT !.todo = Tail(@)]
    /\ UNCHANGED <<movable, was, data, past, budget>>

RollbackUnrecorded(s) ==
    /\ UndoOf(s)
    /\ IF job.kind = "rollback" THEN UNCHANGED journal
       ELSE journal' = Unrecorded(s)

RestoreUnrecorded(s) ==
    /\ UndoOf(s)
    /\ IF job.kind = "restore" THEN UNCHANGED journal
       ELSE journal' = Unrecorded(s)

Undo(s) ==
    /\ UndoOf(s)
    /\ journal' = Unrecorded(s)

\* An undo that fails is reported at the end, and the next one is tried.
FailUndo ==
    /\ job.kind \in Replays
    /\ job.todo # <<>>
    /\ IF CanUndo(Head(job.todo)) THEN Head(job.todo)[1] \in UndoFails /\ Spend("undofail")
       ELSE UNCHANGED budget
    /\ job' = [job EXCEPT !.todo = Tail(@), !.failed = TRUE]
    /\ UNCHANGED <<movable, journal, was, old, new, data, routes, edge, past>>

-----------------------------------------------------------------------------
(* The end of a stage *)

Touched == IF job.kind = "rollback" /\ job.group = Host THEN Groups \union {Host}
           ELSE {job.group}

\* Of the groups put back: whose data had been read, and which, having moved by
\* then, nothing is told to serve once the ports have changed hands.
WasRead(g) == \E w \in Members(g) : Done("dump", w) \/ Done("copy", w)
PastCutover(g) ==
    \/ edge.at = "down"
    \/ Done("fallback", Host) /\ ~(ToSet(DomainsOf(g)) \subseteq edge.fallback)

EndRun ==
    /\ job.kind \in Runs
    /\ job.todo = <<>>
    /\ job' = Idle(CASE job.kind = "move" -> "moved"
                     [] job.kind = "cutover" -> "cut over"
                     [] job.kind = "finish" -> "finished")
    /\ past' = [past EXCEPT !.cut = IF job.kind = "finish" THEN @ ELSE @ \ {job.group},
                            !.returned = @ \ {job.group}]
    /\ UNCHANGED <<movable, journal, was, old, new, data, routes, edge, budget>>

EndReplay ==
    /\ job.kind \in Replays
    /\ job.todo = <<>>
    /\ job' = Idle(IF job.failed THEN "undo failed"
                   ELSE CASE job.kind = "undo" -> "undone"
                          [] job.kind = "rollback" -> "put back"
                          [] job.kind = "restore" -> "restored")
    /\ LET back == (Touched \ {Host}) IN
        past' = [cut |-> IF job.failed THEN past.cut \union Touched ELSE past.cut \ Touched,
                 again |-> past.again \union {g \in back : WasRead(g)},
                 returned |-> IF job.kind = "rollback" /\ job.group = Host THEN {}
                              ELSE past.returned \union {g \in back : PastCutover(g)}]
    /\ UNCHANGED <<movable, journal, was, old, new, data, routes, edge, budget>>

\* A step has had its effect and is not noted, Meshploy's edge is up and is not
\* noted, or finish is part of the way.
Torn ==
    \/ job.noting # NotNoted
    \/ job.todo # <<>> /\ Head(job.todo)[1] = "up"
    \/ job.kind = "finish"

\* The machine or the process goes down.
Crash ==
    /\ job.kind # "idle"
    /\ Spend(IF Torn THEN "torn" ELSE "crash")
    /\ job' = Idle("cut short")
    /\ past' = [past EXCEPT !.cut = @ \union Touched,
                            !.again = @ \union {g \in Touched \ {Host} :
                                                job.kind \in Replays /\ WasRead(g)}]
    /\ UNCHANGED <<movable, journal, was, old, new, data, routes, edge>>

\* Users write to what runs on Dokploy: an application to its own files, and to
\* its group's databases.
Write(w) ==
    /\ w \in Carried
    /\ old[w] = "up"
    /\ w \in ToSet(Databases[GroupOf(w)]) =>
            \E a \in ToSet(Applications[GroupOf(w)]) : old[a] = "up"
    /\ Spend("write")
    /\ data' = [data EXCEPT ![w].old = @ + 1]
    /\ UNCHANGED <<movable, journal, was, old, new, routes, edge, job, past>>

Step ==
    \/ \E w \in Workloads :
        \/ StopOld(w) \/ Dump(w) \/ CopyFiles(w) \/ Restore(w) \/ StartNew(w)
        \/ PublishTCPRoute(w) \/ SwitchDomain(w) \/ PublishRoute(w) \/ RemoveOld(w)
    \/ \E what \in Kinds, w \in Workloads \union {Host} : Check(what, w)
    \/ \E what \in Kinds : FinishHost(what)
    \/ TrustForwardedHeaders \/ SetFallback \/ StopControlPlane
    \/ LetGoOfPorts \/ StartCaddy \/ EdgeIsUp
    \/ Note

Next ==
    \/ \E g \in Groups : StartMove(g)
    \/ \E first \in EdgeFirst : StartCutover(first)
    \/ StartFinish
    \/ \E g \in Groups \union {Host} : StartRollback(g)
    \/ Step
    \/ \E s \in Steps : FailMove(s) \/ FailCutover(s) \/ FailFinish(s) \/ Undo(s)
    \/ FailUndo \/ EndRun \/ EndReplay \/ Crash
    \/ \E w \in Workloads : Write(w)

Spec == Init /\ [][Next]_vars

-----------------------------------------------------------------------------
(* Properties *)

\* A half-moved group never serves: nothing of it runs on Dokploy once anything
\* of it runs on Meshploy, also while it is being put back (the order of run and
\* of Undoable).
OneSide ==
    \A g \in Groups : (\E w \in Members(g) : new[w])
                        => \A w \in Members(g) : old[w] # "up"

\* A group that was put back, by a failed move or by a rollback that reports no
\* failure, is as the migration found it; and so is the edge, when everything
\* was; and a cutover that restored the edge left it the ports (what the operator
\* hears as "rolled back").
PutBackGroup(g) ==
    /\ \A w \in Members(g) : old[w] = was[w] /\ ~new[w]
    /\ \A w \in Members(g) : w \notin routes.switched \union routes.published \union routes.tcp

PutBackEdge == edge.at = "ports" /\ edge.ports = "old"

PutBack ==
    /\ (job.ended \in {"undone", "put back"} /\ job.group # Host) => PutBackGroup(job.group)
    /\ (job.ended = "put back" /\ job.group = Host) =>
            /\ \A g \in Groups : PutBackGroup(g)
            /\ PutBackEdge
            /\ edge.console = "up" /\ edge.fallback = {} /\ ~edge.trust
    /\ job.ended = "restored" => PutBackEdge

\* An application runs on Meshploy only with everything its group had written:
\* the data is read with nothing writing, and loaded before what uses it starts.
CarriesAll(g) ==
    (\E a \in ToSet(Applications[g]) : new[a])
        => \A w \in Members(g) \cap Carried : data[w].new = data[w].old

\* Of a group that is moved for the first time.
FirstMoveLosesNothing == \A g \in Groups \ past.again : CarriesAll(g)

\* Of a group that was put back and is moved again as well.  (Not so: what was
\* read the first time is not read again.)
NothingLost == \A g \in Groups : CarriesAll(g)

\* Whenever no stage runs, every domain the server served is served: by Dokploy
\* or by Meshploy, through whichever edge holds the ports.  Apart from what a
\* crash cut short, what a cutover says it leaves behind, and what is put back
\* once the ports have changed hands.
LeftBehind(g) ==
    g \in past.returned \/ (g \notin movable /\ edge.at = "down")

NothingGoesDark ==
    (job.kind = "idle" /\ Host \notin past.cut) =>
        \A w \in ToSet(Domains) :
            (was[w] = "up" /\ GroupOf(w) \notin past.cut /\ ~LeftBehind(GroupOf(w)))
                => Served(w)

\* With the edge taken first, what has not moved is served where it is, a group
\* that was put back included.  (Not so: what goes to the old edge is listed
\* once.)
EdgeFirstServesTheRest ==
    (/\ job.kind = "idle" /\ Host \notin past.cut
     /\ edge.at = "side" /\ edge.ports = "caddy") =>
        \A w \in NotMovedDomains :
            (was[w] = "up" /\ GroupOf(w) \notin past.cut) => Served(w)

\* The journal says what is so, whatever was tried, undone and resumed: that the
\* ports are handed over exactly when the old edge is off them, and that a copy
\* is to be started again exactly when the migration stopped it.
JournalTells ==
    job.noting = NotNoted =>
        /\ Done("edge", Host) <=> edge.at # "ports"
        /\ \A w \in Workloads :
            <<"stop", w>> \in ToSet(journal.live) <=> (was[w] = "up" /\ old[w] # "up")

\* Dokploy's copy is removed only of what runs on Meshploy.
RemovedRuns == \A w \in Workloads : old[w] = "gone" => new[w]

\* What the promise is, of each group: that it changes sides through neither.
Side == [g \in Groups |->
            IF \E w \in Members(g) : new[w] THEN "new"
            ELSE IF \E w \in Members(g) : old[w] = "up" THEN "old" ELSE "neither"]

Promise == INSTANCE Handover WITH side <- Side

\* The stages implement it.
ImplementsHandover == Promise!Spec
=============================================================================
