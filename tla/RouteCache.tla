----------------------------- MODULE RouteCache -----------------------------
(***************************************************************************)
(* The edge proxy's routes: the table it serves from, the loads that       *)
(* replace it when the count of changes moves or the refresh is due, what  *)
(* a request for a hostname adds to it, and the copy kept on disk for a    *)
(* start without the database (packages/proxy/cache/cache.go, saved.go,    *)
(* handler.go, packages/db/edge_version.go).  Every action is one query,   *)
(* one hold of the lock or one file replaced.  Variants are the mistakes   *)
(* their neighbours could have been, as in module Deployment.              *)
(***************************************************************************)
EXTENDS Integers

CONSTANTS
    Names,          \* hostnames, wildcards among them
    Wildcard,       \* Wildcard[n]: the wildcard that covers n, or NoName
    Answers,        \* what a route's targets can be
    Requests,       \* requests served at once
    Budgets         \* the choices of how often the environment may do what: a bound

NoName == "-"
None == "none"
Expenses == {"change", "fallback", "outage", "crash", "ask", "disk"}

ASSUME CacheAssumption ==
    /\ Names # {} /\ NoName \notin Names
    /\ None \notin Answers
    /\ Wildcard \in [Names -> Names \union {NoName}]
    /\ Budgets \subseteq [Expenses -> Nat]

VARIABLES
    db,         \* the database: targets, published, the old edge's, the count
    up,         \* whether it answers
    cache,      \* the Cache: routes, the old edge's hostnames, reached
    loader,     \* the load in progress, and the loop that starts them
    disk,       \* the saved copy
    get,        \* the requests
    budget,     \* what is left of the one chosen
    ever,       \* history: names that were ever published
    steady,     \* history: names routed all along
    kept        \* history: a load was saved and served

history == <<ever, steady, kept>>
vars == <<db, up, cache, loader, disk, get, budget, history>>

-----------------------------------------------------------------------------
(* Data *)

\* A table: what each name answers, None when it is not in it.
Tables == [Names -> Answers \union {None}]
Empty == [n \in Names |-> None]

LoadSteps == {"targets", "routes", "fallback", "save", "serve", "restore"}
GetSteps == {"idle", "exact", "wild", "entries", "insert", "fallback", "unrouted"}

TypeOK ==
    /\ db \in [target : Tables, published : SUBSET Names, old : SUBSET Names,
               version : Nat]
    /\ up \in BOOLEAN
    /\ cache \in [routes : Tables, old : SUBSET Names, reached : BOOLEAN]
    /\ loader \in [pc : {"down", "idle"} \union LoadSteps, first : BOOLEAN,
                   routes : Tables, old : SUBSET Names, seen : Nat \union {-1}]
    /\ disk \in [exists : BOOLEAN, routes : Tables, old : SUBSET Names]
    /\ get \in [Requests -> [pc : GetSteps, host : Names, name : Names,
                             entries : Answers \union {None}, due : BOOLEAN]]
    /\ budget \in [Expenses -> Nat]
    /\ ever \subseteq Names
    /\ steady \subseteq Names
    /\ kept \in BOOLEAN

Spend(what) ==
    /\ budget[what] > 0
    /\ budget' = [budget EXCEPT ![what] = @ - 1]

\* Variant: a paused route is kept, marked as such.
PublishedOrPaused(target, published) ==
    [n \in Names |-> IF n \in published THEN target[n] ELSE "paused"]

\* What a load makes of the tables: a paused route as if it did not exist.
Published(target, published) ==
    [n \in Names |-> IF n \in published THEN target[n] ELSE None]

Routed(d) == {n \in Names : Published(d.target, d.published)[n] # None}

\* A hostname's answer in a table: its own, or its wildcard's.
Lookup(table, n) ==
    IF table[n] # None \/ Wildcard[n] = NoName THEN table[n] ELSE table[Wildcard[n]]

NoRequest == [pc |-> "idle", host |-> CHOOSE n \in Names : TRUE,
              name |-> CHOOSE n \in Names : TRUE, entries |-> None, due |-> FALSE]

NotLoaded == [routes |-> Empty, old |-> {}, reached |-> FALSE]
Down == [pc |-> "down", first |-> TRUE, routes |-> Empty, old |-> {}, seen |-> -1]

Init ==
    /\ db \in [target : Tables, published : SUBSET Names, old : {{}}, version : {0}]
    /\ up \in BOOLEAN
    /\ cache = NotLoaded
    /\ loader = Down
    /\ disk = [exists |-> FALSE, routes |-> Empty, old |-> {}]
    /\ get = [g \in Requests |-> NoRequest]
    /\ budget \in Budgets
    /\ ever = db.published
    /\ steady = Routed(db)
    /\ kept = FALSE

-----------------------------------------------------------------------------
(* The database: writes through GORM, which move the count with them *)

Write(d) ==
    /\ up
    /\ db' = [d EXCEPT !.version = @ + 1]
    /\ ever' = ever \union d.published
    /\ steady' = steady \intersect Routed(d)
    /\ UNCHANGED <<up, cache, loader, disk, get, kept>>

SetTarget(n, a) ==
    /\ Spend("change")
    /\ db.target[n] # a
    /\ Write([db EXCEPT !.target[n] = a])

SetPublished(n) ==
    /\ Spend("change")
    /\ Write([db EXCEPT !.published = IF n \in @ THEN @ \ {n} ELSE @ \union {n}])

\* Set and Clear of the fallback edge.
SetFallback(hosts) ==
    /\ Spend("fallback")
    /\ db.old # hosts
    /\ Write([db EXCEPT !.old = hosts])

Outage ==
    /\ up
    /\ Spend("outage")
    /\ up' = FALSE
    /\ UNCHANGED <<db, cache, loader, disk, get, history>>

Recover ==
    /\ ~up
    /\ up' = TRUE
    /\ UNCHANGED <<db, cache, loader, disk, get, budget, history>>

-----------------------------------------------------------------------------
(* Start, and load *)

Start ==
    /\ loader.pc = "down"
    /\ loader' = [Down EXCEPT !.pc = "targets"]
    /\ UNCHANGED <<db, up, cache, disk, get, budget, history>>

KeepServing == [cache EXCEPT !.reached = FALSE]

\* A query of load that fails ends it: what is served stays, and the first
\* load falls back on the saved copy.
LoadFails ==
    /\ ~up
    /\ loader.pc \in {"targets", "routes", "fallback"}
    /\ cache' = KeepServing
    /\ loader' = [loader EXCEPT !.pc = IF loader.first THEN "restore" ELSE "idle"]
    /\ UNCHANGED <<db, up, disk, get, budget, history>>

\* The targets, then the routes they are of (Preload): two queries.
ReadTargets ==
    /\ up
    /\ loader.pc = "targets"
    /\ loader' = [loader EXCEPT !.pc = "routes", !.routes = db.target]
    /\ UNCHANGED <<db, up, cache, disk, get, budget, history>>

ReadRoutes ==
    /\ up
    /\ loader.pc = "routes"
    /\ loader' = [loader EXCEPT !.pc = "fallback",
                                !.routes = Published(@, db.published)]
    /\ UNCHANGED <<db, up, cache, disk, get, budget, history>>

ReadFallback ==
    /\ up
    /\ loader.pc = "fallback"
    /\ loader' = [loader EXCEPT !.pc = "save", !.old = db.old]
    /\ UNCHANGED <<db, up, cache, disk, get, budget, history>>

\* Variant: what is saved is the table being served.
CopyOfServed == [exists |-> TRUE, routes |-> cache.routes, old |-> cache.old]
Copy == [exists |-> TRUE, routes |-> loader.routes, old |-> loader.old]

\* Saved before it is served, once served a request adds to it; a copy that
\* cannot be written is left as it was.
Save ==
    /\ loader.pc = "save"
    /\ loader' = [loader EXCEPT !.pc = "serve"]
    /\ \/ /\ disk' = Copy
          /\ UNCHANGED budget
       \/ /\ Spend("disk")
          /\ UNCHANGED disk
    /\ UNCHANGED <<db, up, cache, get, history>>

Serve ==
    /\ loader.pc = "serve"
    /\ cache' = [routes |-> loader.routes, old |-> loader.old, reached |-> TRUE]
    /\ loader' = [loader EXCEPT !.pc = "idle", !.first = FALSE]
    /\ kept' = (kept \/ disk.exists)
    /\ UNCHANGED <<db, up, disk, get, budget, ever, steady>>

Restore ==
    /\ loader.pc = "restore"
    /\ cache' = IF disk.exists THEN [cache EXCEPT !.routes = disk.routes, !.old = disk.old]
                ELSE cache
    /\ loader' = [loader EXCEPT !.pc = "idle", !.first = FALSE]
    /\ UNCHANGED <<db, up, disk, get, budget, history>>

\* FollowEdgeVersion: a load when the count moved since the last one began...
Check ==
    /\ loader.pc = "idle"
    /\ up
    /\ db.version # loader.seen
    /\ loader' = [loader EXCEPT !.pc = "targets", !.seen = db.version]
    /\ UNCHANGED <<db, up, cache, disk, get, budget, history>>

\* ... and one every full interval regardless.
Refresh ==
    /\ loader.pc = "idle"
    /\ loader' = [loader EXCEPT !.pc = "targets",
                                !.seen = IF up THEN db.version ELSE @]
    /\ UNCHANGED <<db, up, cache, disk, get, budget, history>>

Crash ==
    /\ loader.pc # "down"
    /\ Spend("crash")
    /\ loader' = Down
    /\ cache' = NotLoaded
    /\ get' = [g \in Requests |-> NoRequest]
    /\ UNCHANGED <<db, up, disk, history>>

-----------------------------------------------------------------------------
(* A request: Get, then FallbackFor when it found nothing *)

Answered(g) == get' = [get EXCEPT ![g] = NoRequest]
Proceed(g, step) == get' = [get EXCEPT ![g].pc = step]

\* The proxy listens once the first load is over.  A hit on the hostname is
\* answered at once; a hit on its wildcard is added to the table first.
Get(g, n) ==
    /\ get[g].pc = "idle"
    /\ ~loader.first
    /\ cache.routes[n] = None
    /\ Spend("ask")
    /\ get' = [get EXCEPT ![g] =
                IF Lookup(cache.routes, n) # None
                THEN [pc |-> "insert", host |-> n, name |-> n,
                      entries |-> Lookup(cache.routes, n), due |-> kept]
                ELSE [pc |-> "exact", host |-> n, name |-> n, entries |-> None, due |-> kept]]
    /\ UNCHANGED <<db, up, cache, loader, disk, history>>

\* loadHostname: the hostname's published route, then its wildcard's, then the
\* targets of the one found; nothing while the last load failed.
LookUpRoute(g) ==
    /\ get[g].pc \in {"exact", "wild"}
    /\ LET n == get[g].host
           found == IF get[g].pc = "exact" THEN n ELSE Wildcard[n]
       IN  \/ /\ get[g].pc = "exact" /\ ~cache.reached
              /\ Proceed(g, "fallback")
           \/ /\ get[g].pc = "exact" => cache.reached
              /\ up /\ found \in db.published
              /\ get' = [get EXCEPT ![g].pc = "entries", ![g].name = found]
           \/ /\ get[g].pc = "exact" => cache.reached
              /\ ~(up /\ found \in db.published)
              /\ Proceed(g, IF get[g].pc = "exact" /\ Wildcard[n] # NoName
                            THEN "wild" ELSE "fallback")
    /\ UNCHANGED <<db, up, cache, loader, disk, budget, history>>

LookUpTargets(g) ==
    /\ get[g].pc = "entries"
    /\ IF up /\ db.target[get[g].name] # None
       THEN get' = [get EXCEPT ![g].pc = "insert",
                               ![g].entries = db.target[get[g].name]]
       ELSE Proceed(g, "fallback")
    /\ UNCHANGED <<db, up, cache, loader, disk, budget, history>>

\* What was found is kept for the next request, whatever was loaded meanwhile.
Insert(g) ==
    /\ get[g].pc = "insert"
    /\ cache' = [cache EXCEPT !.routes[get[g].host] = get[g].entries]
    /\ Answered(g)
    /\ UNCHANGED <<db, up, loader, disk, budget, history>>

FallbackFor(g) ==
    /\ get[g].pc = "fallback"
    /\ IF get[g].host \in cache.old THEN Answered(g) ELSE Proceed(g, "unrouted")
    /\ UNCHANGED <<db, up, cache, loader, disk, budget, history>>

NotFound(g) ==
    /\ get[g].pc = "unrouted"
    /\ Answered(g)
    /\ UNCHANGED <<db, up, cache, loader, disk, budget, history>>

-----------------------------------------------------------------------------

Load ==
    \/ Start \/ LoadFails \/ ReadTargets \/ ReadRoutes \/ ReadFallback
    \/ Save \/ Serve \/ Restore

ServeRequest(g) ==
    LookUpRoute(g) \/ LookUpTargets(g) \/ Insert(g) \/ FallbackFor(g) \/ NotFound(g)

Users ==
    \/ \E n \in Names : SetPublished(n) \/ \E a \in Answers \union {None} : SetTarget(n, a)
    \/ \E hosts \in SUBSET Names : SetFallback(hosts)
    \/ \E g \in Requests, n \in Names : Get(g, n)

Next ==
    \/ Load \/ Check \/ Refresh
    \/ \E g \in Requests : ServeRequest(g)
    \/ Users
    \/ Outage \/ Recover \/ Crash

\* The proxy's own steps go on, a request ends, the ticker ticks and the
\* database comes back; nothing makes users or failures move.
Fairness ==
    /\ WF_vars(Load)
    /\ WF_vars(Check)
    /\ WF_vars(Refresh)
    /\ WF_vars(Recover)
    /\ \A g \in Requests : WF_vars(ServeRequest(g))

Spec == Init /\ [][Next]_vars
FairSpec == Spec /\ Fairness

-----------------------------------------------------------------------------
(* Properties *)

\* A hostname routed all along is never answered as unrouted once a load was
\* saved and served: through outages, restarts without the database and
\* loads that fail half way, a request finds it in the table or below it.
SteadyIsServed ==
    \A g \in Requests : get[g].pc = "unrouted" /\ get[g].due =>
        {get[g].host, Wildcard[get[g].host]} \intersect steady = {}

\* The saved copy is a load's, never what requests added to the table: it has
\* no name that was not itself published, so a proxy started from it forgets
\* what only a wildcard covered.
SavedWasPublished ==
    \A n \in Names : disk.routes[n] # None => n \in ever

\* What a hostname is answered: all of it as the database has it, or nothing
\* in the table that is not (a name that is missing is looked up).
Wanted == Published(db.target, db.published)
Fresh ==
    /\ \A n \in Names : Lookup(cache.routes, n) = Lookup(Wanted, n)
    /\ cache.old = db.old
NothingStale ==
    /\ \A n \in Names : Lookup(cache.routes, n) \in {None, Lookup(Wanted, n)}
    /\ cache.old = db.old

\* When changes, outages and restarts stop, what is served is in the end what
\* the database has, however requests and loads raced: cache.go reloads every
\* refresh interval regardless.
EventuallyFresh == <>[]Fresh

\* edge_version.go: a change takes effect within a second; when the loop has
\* seen the count and is done loading for it, nothing served is from before it.
ChangeTakesEffect ==
    loader.pc = "idle" /\ loader.seen = db.version => NothingStale

=============================================================================
