------------------------------ MODULE TcpRoutes ------------------------------
(***************************************************************************)
(* The TCP ports the gateway publishes: the rows the API writes            *)
(* (service/tcp_route.go), and the proxy that opens a listener for each    *)
(* and writes back what came of it (packages/proxy/tcp/forwarder.go).      *)
(*                                                                         *)
(* A load is one query, the saved copy, and then one step for each route:  *)
(* between two of them the API may write, another program may take the     *)
(* port, the database may go and the proxy may be killed.  What it writes  *)
(* back moves the count of changes it follows itself.                      *)
(*                                                                         *)
(* Abstractions.  `to` is where a route's connections go and who may make  *)
(* them (target and allow-list, which a listener takes up together).  A    *)
(* route's identity is never used again.  The count is whether it moved    *)
(* since the loop looked.  Connections that are open are not followed.     *)
(***************************************************************************)
EXTENDS Integers

CONSTANTS
    None,       \* No target; no listener.
    NotYet, Gone,  \* No row: not made yet; deleted.
    Routes,     \* The identities of routes.
    Ports,      \* The gateway's ports.
    Zones,      \* The zones asked for.
    To,         \* What a connection may be given.
    MeshIP,     \* Whether the proxy was told the gateway's mesh address.
    Budgets     \* The choices of how often the environment may do what: a bound.

Expenses == {"change", "outage", "crash", "disk", "take"}

ASSUME TcpAssumption ==
    /\ Routes # {} /\ Ports # {} /\ To # {}
    /\ Zones \subseteq {"public", "mesh", "local", "address"}
    /\ MeshIP \in BOOLEAN
    /\ None \notin To
    /\ None \notin [bind : {"mesh", "loopback", "address", "every"}, to : To]
    /\ Budgets \subseteq [Expenses -> Nat]

VARIABLES
    rows,       \* tcp_routes, with what was not made yet or is gone
    moved,      \* whether the count moved since the loop looked
    up,         \* whether the database answers
    taken,      \* <<port, address>> pairs other programs listen on
    open,       \* the listener on each port, or None
    proc,       \* the proxy's load, and what it has left to apply
    disk,       \* the saved copy
    left,       \* what is left of the budget chosen
    asked,      \* history: what published rows asked for, ever
    steady,     \* history: routes published all along on one port and zone
    refused,    \* history: ports whose last listen failed
    kept        \* history: a load was saved and applied

dbVars == <<rows, moved, asked, steady>>
history == <<asked, steady, refused, kept>>
vars == <<rows, moved, up, taken, open, proc, disk, left, history>>

Statuses == {"pending", "open", "failed", "paused"}
Row == [port : Ports, zone : Zones, to : To \union {None}, published : BOOLEAN,
        status : Statuses]
\* The routes in a table.
Made(t) == {r \in Routes : t[r] \notin {NotYet, Gone}}

\* bindFor, meshBind: without its mesh address the gateway falls back to
\* loopback, never to every interface; an address route has one of its own.
bindFor(zone) ==
    CASE zone = "mesh" -> IF MeshIP THEN "mesh" ELSE "loopback"
      [] zone = "local" -> "loopback"
      [] zone = "address" -> "address"
      [] OTHER -> "every"
Addresses == {bindFor(z) : z \in Zones}

\* Two listeners that cannot be on one port at once.
Clash(a, b) == a = b \/ "every" \in {a, b}
CanListen(port, address) ==
    \A b \in Addresses : <<port, b>> \in taken => ~Clash(address, b)

Listener(row) == [bind |-> bindFor(row.zone), to |-> row.to]

\* What apply opens.
Wanted(t) == {r \in Made(t) : t[r].published /\ t[r].to # None}

Asked(t) == {<<t[r].port, Listener(t[r])>> : r \in Wanted(t)}

Down == [pc |-> "down", first |-> TRUE, rows |-> [r \in Routes |-> NotYet],
         todo |-> {}]

Spend(what) ==
    /\ left[what] > 0
    /\ left' = [left EXCEPT ![what] = @ - 1]

\* One route that was just published, in some zone; the proxy is yet to start.
Init ==
    /\ \E z \in Zones :
         rows = [r \in Routes |->
                   IF r = CHOOSE q \in Routes : TRUE
                   THEN [port |-> CHOOSE p \in Ports : TRUE, zone |-> z,
                         to |-> CHOOSE t \in To : TRUE, published |-> TRUE,
                         status |-> "pending"]
                   ELSE NotYet]
    /\ moved = TRUE /\ up = TRUE /\ taken = {}
    /\ open = [p \in Ports |-> None]
    /\ proc = Down
    /\ disk = [exists |-> FALSE, rows |-> [r \in Routes |-> NotYet]]
    /\ left \in Budgets
    /\ asked = Asked(rows)
    /\ steady = Wanted(rows)
    /\ refused = {} /\ kept = FALSE

-----------------------------------------------------------------------------
(* The API *)

\* A write through GORM moves the count with it.
Write(t) ==
    /\ up
    /\ rows' = t
    /\ moved' = TRUE
    /\ asked' = asked \union Asked(t)
    /\ steady' = {r \in steady \intersect Wanted(t) :
                    t[r].port = rows[r].port /\ t[r].zone = rows[r].zone}

Change(t) ==
    /\ Spend("change")
    /\ Write(t)
    /\ UNCHANGED <<up, taken, open, proc, disk, refused, kept>>

\* Variant: a paused route's port is free.
portNotOpen(r, p) == \A q \in Wanted(rows) : q # r => rows[q].port # p

\* checkPort, and the unique index behind it: a port has one route, paused or not.
checkPort(r, p) == \A q \in Made(rows) : q # r => rows[q].port # p

\* One made paused may wait for its address, and so may a published one: the
\* node it goes to need not have joined the mesh.
Create(r, p, z, to) ==
    /\ rows[r] = NotYet
    /\ checkPort(r, p)
    /\ \/ Change([rows EXCEPT ![r] = [port |-> p, zone |-> z, to |-> to,
                                      published |-> TRUE, status |-> "pending"]])
       \/ Change([rows EXCEPT ![r] = [port |-> p, zone |-> z, to |-> to,
                                      published |-> FALSE, status |-> "paused"]])

\* Update: another port makes the route pending; another allow-list does not.
UpdatePort(r, p) ==
    /\ r \in Made(rows)
    /\ rows[r].port # p /\ checkPort(r, p)
    /\ Change([rows EXCEPT ![r].port = p, ![r].status = "pending"])

UpdateAllowed(r, to) ==
    /\ r \in Made(rows)
    /\ rows[r].to \notin {None, to}
    /\ Change([rows EXCEPT ![r].to = to])

\* SetPublished: a service's route without an address gets one first, ...
ResolveTarget(r, to) ==
    /\ r \in Made(rows)
    /\ rows[r].to = None
    /\ Change([rows EXCEPT ![r].to = to])

\* ... and then the route is opened or paused, whatever it was, and whether or
\* not its node has an address.
SetPublished(r, published) ==
    /\ r \in Made(rows)
    /\ Change([rows EXCEPT ![r].published = published, ![r].status = "pending"])

\* Retarget, after a deploy, to whatever address the gateway's node has by now:
\* SyncPublished's Delete and Create come before it.
Retarget(r, to) ==
    /\ r \in Made(rows)
    /\ rows[r].to # to
    /\ Change([rows EXCEPT ![r].to = to, ![r].status = "pending"])

Delete(r) ==
    /\ r \in Made(rows)
    /\ Change([rows EXCEPT ![r] = Gone])

-----------------------------------------------------------------------------
(* The proxy: Start, sync, restore and apply *)

Start ==
    /\ proc.pc = "down"
    /\ proc' = [Down EXCEPT !.pc = "load"]
    /\ UNCHANGED <<dbVars, up, taken, open, disk, left, refused, kept>>

\* FollowEdgeVersion: a load when the count moved, ...
Check ==
    /\ proc.pc = "idle"
    /\ up /\ moved
    /\ moved' = FALSE
    /\ proc' = [proc EXCEPT !.pc = "load"]
    /\ UNCHANGED <<rows, up, taken, open, disk, left, history>>

\* ... and at every full interval.
Refresh ==
    /\ proc.pc = "idle"
    /\ moved' = (moved /\ ~up)
    /\ proc' = [proc EXCEPT !.pc = "load"]
    /\ UNCHANGED <<rows, up, taken, open, disk, left, history>>

Load ==
    /\ proc.pc = "load" /\ up
    /\ proc' = [proc EXCEPT !.pc = "save", !.rows = rows]
    /\ UNCHANGED <<dbVars, up, taken, open, disk, left, refused, kept>>

\* Variant: a load that failed is one that found nothing.
CloseAll == [p \in Ports |-> None]
KeepOpen == open

\* The ports stay open; the first load falls back on the saved copy.
LoadFails ==
    /\ proc.pc = "load" /\ ~up
    /\ open' = KeepOpen
    /\ proc' = [proc EXCEPT !.pc = IF proc.first THEN "restore" ELSE "idle"]
    /\ UNCHANGED <<dbVars, up, taken, disk, left, refused, kept>>

Save ==
    /\ proc.pc = "save"
    /\ proc' = [proc EXCEPT !.pc = "close"]
    /\ \/ /\ disk' = [exists |-> TRUE, rows |-> proc.rows]
          /\ UNCHANGED left
       \/ /\ Spend("disk")
          /\ UNCHANGED disk
    /\ UNCHANGED <<dbVars, up, taken, open, refused, kept>>

Restore ==
    /\ proc.pc = "restore"
    /\ proc' = IF disk.exists
               THEN [proc EXCEPT !.pc = "close", !.rows = disk.rows]
               ELSE [proc EXCEPT !.pc = "idle", !.first = FALSE]
    /\ UNCHANGED <<dbVars, up, taken, open, disk, left, refused, kept>>

\* apply, up to its first status: what is not wanted is closed.
CloseUnwanted ==
    /\ proc.pc = "close"
    /\ open' = [p \in Ports |->
                 IF \E r \in Wanted(proc.rows) : proc.rows[r].port = p
                 THEN open[p] ELSE None]
    /\ proc' = [proc EXCEPT !.pc = "apply", !.todo =
                 {r \in Made(proc.rows) :
                    proc.rows[r].published => r \in Wanted(proc.rows)}]
    /\ UNCHANGED <<dbVars, up, taken, disk, left, refused, kept>>

\* Written when it differs from what was loaded; a write that fails is logged,
\* and one for a route that is gone changes nothing.
setStatus(r, status) ==
    IF proc.rows[r].status # status /\ up /\ r \in Made(rows)
    THEN Write([rows EXCEPT ![r].status = status])
    ELSE UNCHANGED dbVars

Applied(r) == proc' = [proc EXCEPT !.todo = @ \ {r}]

\* The paused ones first.
ApplyPaused(r) ==
    /\ proc.pc = "apply" /\ r \in proc.todo
    /\ ~proc.rows[r].published
    /\ Applied(r)
    /\ setStatus(r, "paused")
    /\ UNCHANGED <<up, taken, open, disk, left, refused, kept>>

\* A listener on the address the route binds is given the new target; any
\* other is closed, and the port opened anew.
\* Variant: a listener is never opened anew.
SameSocketAlways(l, row) == l # None
SameSocket(l, row) == l # None /\ l.bind = bindFor(row.zone)

\* Variant: a port that could not be opened is only logged.
FailedUnsaid(r) == UNCHANGED dbVars
ListenFailed(r) == setStatus(r, "failed")

ApplyWanted(r) ==
    /\ proc.pc = "apply" /\ r \in proc.todo
    /\ \A q \in proc.todo : proc.rows[q].published
    /\ Applied(r)
    /\ LET row == proc.rows[r]
           p == row.port
       IN  \/ /\ SameSocket(open[p], row)
              /\ open' = [open EXCEPT ![p].to = row.to]
              /\ setStatus(r, "open")
              /\ UNCHANGED refused
           \/ /\ ~SameSocket(open[p], row)
              /\ CanListen(p, bindFor(row.zone))
              /\ open' = [open EXCEPT ![p] = Listener(row)]
              /\ setStatus(r, "open")
              /\ refused' = refused \ {p}
           \/ /\ ~SameSocket(open[p], row)
              /\ ~CanListen(p, bindFor(row.zone))
              /\ open' = [open EXCEPT ![p] = None]
              /\ ListenFailed(r)
              /\ refused' = refused \union {p}
    /\ UNCHANGED <<up, taken, disk, left, kept>>

ApplyEnds ==
    /\ proc.pc = "apply" /\ proc.todo = {}
    /\ proc' = [proc EXCEPT !.pc = "idle", !.first = FALSE,
                            !.rows = [r \in Routes |-> NotYet]]
    /\ kept' = (kept \/ disk.exists)
    /\ UNCHANGED <<dbVars, up, taken, open, disk, left, refused>>

-----------------------------------------------------------------------------
(* The machine and the database *)

Crash ==
    /\ proc.pc # "down"
    /\ Spend("crash")
    /\ proc' = Down
    /\ open' = [p \in Ports |-> None]
    /\ moved' = TRUE
    /\ refused' = {}
    /\ UNCHANGED <<rows, up, taken, disk, asked, steady, kept>>

Outage ==
    /\ up /\ Spend("outage")
    /\ up' = FALSE
    /\ UNCHANGED <<dbVars, taken, open, proc, disk, refused, kept>>

Recover ==
    /\ ~up
    /\ up' = TRUE
    /\ UNCHANGED <<dbVars, taken, open, proc, disk, left, refused, kept>>

\* Another program listens on a port, and stops.
TakePort(p, a) ==
    /\ CanListen(p, a)
    /\ open[p] # None => ~Clash(open[p].bind, a)
    /\ Spend("take")
    /\ taken' = taken \union {<<p, a>>}
    /\ UNCHANGED <<dbVars, up, open, proc, disk, refused, kept>>

LeavePort(p, a) ==
    /\ <<p, a>> \in taken
    /\ taken' = taken \ {<<p, a>>}
    /\ UNCHANGED <<dbVars, up, open, proc, disk, left, refused, kept>>

-----------------------------------------------------------------------------

Users(r) ==
    \/ \E p \in Ports : UpdatePort(r, p)
    \/ \E p \in Ports, z \in Zones, to \in To \union {None} : Create(r, p, z, to)
    \/ \E to \in To : UpdateAllowed(r, to) \/ ResolveTarget(r, to)
    \/ \E to \in To \union {None} : Retarget(r, to)
    \/ \E published \in BOOLEAN : SetPublished(r, published)
    \/ Delete(r)

Sync ==
    \/ Start \/ Load \/ LoadFails \/ Save \/ Restore \/ CloseUnwanted \/ ApplyEnds
    \/ \E r \in Routes : ApplyPaused(r) \/ ApplyWanted(r)

Next ==
    \/ Sync \/ Check \/ Refresh
    \/ \E r \in Routes : Users(r)
    \/ Crash \/ Outage \/ Recover
    \/ \E p \in Ports, a \in Addresses : TakePort(p, a) \/ LeavePort(p, a)

\* The proxy is started again and goes on, its ticker ticks, and the database
\* comes back; nothing makes users, failures or other programs move.
Fairness == WF_vars(Sync) /\ WF_vars(Check) /\ WF_vars(Refresh) /\ WF_vars(Recover)

Spec == Init /\ [][Next]_vars
FairSpec == Spec /\ Fairness

-----------------------------------------------------------------------------
(* Properties *)

\* Every variable stays in its range, and a port has one route, so that apply
\* never has two to choose from (GatewayPort's unique index).
TypeOK ==
    /\ rows \in [Routes -> Row \union {NotYet, Gone}]
    /\ \A r, q \in Made(rows) : rows[r].port = rows[q].port => r = q
    /\ moved \in BOOLEAN /\ up \in BOOLEAN /\ kept \in BOOLEAN
    /\ taken \subseteq Ports \X Addresses
    /\ open \in [Ports -> [bind : Addresses, to : To] \union {None}]
    /\ proc \in [pc : {"down", "idle", "load", "save", "restore", "close", "apply"},
                 first : BOOLEAN, rows : [Routes -> Row \union {NotYet, Gone}],
                 todo : SUBSET Routes]
    /\ disk \in [exists : BOOLEAN, rows : [Routes -> Row \union {NotYet, Gone}]]
    /\ steady \subseteq Routes /\ refused \subseteq Ports

\* An open port is always as one published row asked for it, all of it at once:
\* never one route's target behind another's address or allow-list, whatever
\* was deleted, made again on the same port or restored from an old copy
\* (forwarder.go: "the address is the socket").
OpenAsAsked == \A p \in Ports : open[p] # None => <<p, open[p]>> \in asked

\* A port published all along is open once a load was saved and applied: through
\* outages, changes of its target, changes of other routes, and restarts
\* without the database; unless another program had it when it was opened.
SteadyIsOpen ==
    kept /\ ~proc.first => \A r \in steady :
        \/ rows[r].port \in refused
        \/ /\ open[rows[r].port] # None
           /\ open[rows[r].port].bind = bindFor(rows[r].zone)

\* The ports are those of the published routes, each to its target, and every
\* status says what the gateway managed to do; of a route with nowhere to go it
\* says nothing, and its port is closed ("the API reports why").
Settled ==
    /\ \A r \in Made(rows) :
         LET row == rows[r]
         IN  IF r \in Wanted(rows)
             THEN \/ open[row.port] = Listener(row) /\ row.status = "open"
                  \/ /\ open[row.port] = None /\ row.status = "failed"
                     /\ ~CanListen(row.port, bindFor(row.zone))
             ELSE row.published \/ row.status = "paused"
    /\ \A p \in Ports : open[p] # None => \E r \in Wanted(rows) : rows[r].port = p

\* When users, failures and other programs come to rest, so it is for good, and
\* the proxy writes nothing any more: its own writes do not keep it loading
\* ("an update per route every refresh, for ever").
Converges == <>[]Settled /\ <>[][rows' = rows]_vars
=============================================================================
