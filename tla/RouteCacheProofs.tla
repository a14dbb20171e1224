-------------------------- MODULE RouteCacheProofs --------------------------
(***************************************************************************)
(* Theorems of RouteCache, for any hostnames, wildcards, requests and      *)
(* budgets: its types; that the saved copy has only what was published;    *)
(* and that what is routed all along is never answered as unrouted.        *)
(***************************************************************************)
EXTENDS RouteCache, TLAPS

-----------------------------------------------------------------------------
(* Strengthenings *)

\* What is published was; what a load took from it was; so the copy's was.
LoadedWasPublished ==
    loader.pc \in {"fallback", "save"} =>
        \A n \in Names : loader.routes[n] # None => n \in ever

Sources == db.published \subseteq ever /\ LoadedWasPublished /\ SavedWasPublished

\* A table has every name routed all along.
HasSteady(table) == \A n \in steady : table[n] # None

SteadyIsRouted == steady \subseteq Routed(db)
LoadHasSteady ==
    loader.pc \in {"routes", "fallback", "save", "serve"} => HasSteady(loader.routes)
CopyHasSteady == (disk.exists => HasSteady(disk.routes)) /\ (kept => disk.exists)

\* Once a load was kept, whatever the proxy listens with has them.
TableHasSteady == kept /\ ~loader.first => HasSteady(cache.routes)

\* A request found something to insert; one past the table that was due an
\* answer is not for a name routed all along.
RequestsMissed ==
    \A g \in Requests :
        /\ get[g].pc = "insert" => get[g].entries # None
        /\ get[g].pc \notin {"idle", "insert"} /\ get[g].due =>
             {get[g].host, Wildcard[get[g].host]} \intersect steady = {}

Served ==
    SteadyIsRouted /\ LoadHasSteady /\ CopyHasSteady /\ TableHasSteady /\ RequestsMissed

-----------------------------------------------------------------------------
(* Types *)

Databases == [target : Tables, published : SUBSET Names, old : SUBSET Names, version : Nat]
Caches == [routes : Tables, old : SUBSET Names, reached : BOOLEAN]
Loaders == [pc : {"down", "idle"} \union LoadSteps, first : BOOLEAN, routes : Tables,
            old : SUBSET Names, seen : Nat \union {-1}]
Copies == [exists : BOOLEAN, routes : Tables, old : SUBSET Names]
Gets == [pc : GetSteps, host : Names, name : Names, entries : Answers \union {None},
         due : BOOLEAN]

\* TypeOK, of the state it is made of.
LEMMA Types ==
    TypeOK <=>
        /\ db \in Databases /\ up \in BOOLEAN /\ cache \in Caches
        /\ loader \in Loaders /\ disk \in Copies /\ get \in [Requests -> Gets]
        /\ budget \in [Expenses -> Nat]
        /\ ever \subseteq Names /\ steady \subseteq Names /\ kept \in BOOLEAN
BY DEF TypeOK, Databases, Caches, Loaders, Copies, Gets

LEMMA TypesAfter ==
    /\ db' \in Databases /\ up' \in BOOLEAN /\ cache' \in Caches
    /\ loader' \in Loaders /\ disk' \in Copies /\ get' \in [Requests -> Gets]
    /\ budget' \in [Expenses -> Nat]
    /\ ever' \subseteq Names /\ steady' \subseteq Names /\ kept' \in BOOLEAN
    => TypeOK'
BY DEF TypeOK, Databases, Caches, Loaders, Copies, Gets

\* The states things start from, and return to after a crash.
LEMMA FreshTypes ==
    /\ Empty \in Tables /\ NotLoaded \in Caches /\ Down \in Loaders
    /\ NoRequest \in Gets
    /\ [exists |-> FALSE, routes |-> Empty, old |-> {}] \in Copies
<1>1. (CHOOSE n \in Names : TRUE) \in Names
  BY CacheAssumption
<1>2. QED
  BY <1>1 DEF Empty, Tables, NotLoaded, Caches, Down, Loaders, NoRequest, Gets, GetSteps, Copies

\* What is made of a table is a table, and what is looked up in one an answer.
LEMMA TableTypes ==
    /\ \A t \in Tables, p \in SUBSET Names : Published(t, p) \in Tables
    /\ \A t \in Tables, n \in Names : Lookup(t, n) \in Answers \union {None}
BY CacheAssumption DEF Tables, Published, Lookup

LEMMA SpendTypes ==
    ASSUME TypeOK, NEW what \in Expenses, Spend(what)
    PROVE  budget' \in [Expenses -> Nat]
BY DEF TypeOK, Spend

\* A write leaves a database.
LEMMA WriteTypes ==
    ASSUME TypeOK, NEW d \in Databases, Write(d), budget' \in [Expenses -> Nat]
    PROVE  TypeOK'
<1>1. [d EXCEPT !.version = @ + 1] \in Databases
  BY DEF Databases
<1>2. db' \in Databases
  BY <1>1 DEF Write
<1>3. ever' \subseteq Names /\ steady' \subseteq Names
  BY DEF Write, TypeOK, Databases
<1>4. QED
  BY <1>2, <1>3 DEF Write, TypeOK, Databases

LEMMA InitTypeOK == Init => TypeOK
<1>1. SUFFICES ASSUME Init PROVE TypeOK
  OBVIOUS
<1>2. db \in Databases
  BY <1>1 DEF Init, Databases
<1>3. budget \in [Expenses -> Nat]
  BY <1>1, CacheAssumption DEF Init
<1>4. ever \subseteq Names /\ steady \subseteq Names
  BY <1>1, <1>2 DEF Init, Databases, Routed
<1>5. QED
  BY <1>1, <1>2, <1>3, <1>4, FreshTypes, Types DEF Init

\* What users do is a write of a database, or a request.
LEMMA UserWrites ==
    ASSUME TypeOK, Users
    PROVE  \/ \E d \in Databases : Write(d) /\ budget' \in [Expenses -> Nat]
           \/ \E g \in Requests, n \in Names : Get(g, n)
<1>1. db \in Databases
  BY Types
<1>2. ASSUME NEW n \in Names, SetPublished(n)
      PROVE  \E d \in Databases : Write(d) /\ budget' \in [Expenses -> Nat]
  <2>1. [db EXCEPT !.published = IF n \in @ THEN @ \ {n} ELSE @ \union {n}] \in Databases
    BY <1>1 DEF Databases
  <2>2. QED
    BY <1>2, <2>1, SpendTypes DEF SetPublished, Expenses
<1>3. ASSUME NEW n \in Names, NEW a \in Answers \union {None}, SetTarget(n, a)
      PROVE  \E d \in Databases : Write(d) /\ budget' \in [Expenses -> Nat]
  <2>1. [db EXCEPT !.target[n] = a] \in Databases
    BY <1>1 DEF Databases, Tables
  <2>2. QED
    BY <1>3, <2>1, SpendTypes DEF SetTarget, Expenses
<1>4. ASSUME NEW hosts \in SUBSET Names, SetFallback(hosts)
      PROVE  \E d \in Databases : Write(d) /\ budget' \in [Expenses -> Nat]
  <2>1. [db EXCEPT !.old = hosts] \in Databases
    BY <1>1 DEF Databases
  <2>2. QED
    BY <1>4, <2>1, SpendTypes DEF SetFallback, Expenses
<1>5. QED
  BY <1>2, <1>3, <1>4 DEF Users

\* Both keep the types.
LEMMA UsersTypes == ASSUME TypeOK, Users PROVE TypeOK'
<1>1. ASSUME NEW g \in Requests, NEW n \in Names, Get(g, n) PROVE TypeOK'
  <2>1. Lookup(cache.routes, n) \in Answers \union {None}
    BY TableTypes, Types DEF Caches
  <2>2. get' \in [Requests -> Gets]
    BY <1>1, <2>1 DEF Get, TypeOK, Gets, GetSteps
  <2>3. budget' \in [Expenses -> Nat]
    BY <1>1, SpendTypes DEF Get, Expenses
  <2>4. QED
    BY <1>1, <2>2, <2>3, Types, TypesAfter DEF Get, history
<1>2. QED
  BY <1>1, UserWrites, WriteTypes

\* So does a load,
LEMMA LoadTypes == ASSUME TypeOK, Load PROVE TypeOK'
<1>1. db \in Databases /\ cache \in Caches /\ loader \in Loaders /\ disk \in Copies
  BY Types
<1>2. CASE Start
  <2>1. loader' \in Loaders
    BY <1>2, FreshTypes DEF Start, Loaders, LoadSteps
  <2>2. QED
    BY <1>2, <2>1, Types, TypesAfter DEF Start, history
<1>3. CASE LoadFails
  <2>1. loader' \in Loaders
    BY <1>1, <1>3 DEF LoadFails, Loaders, LoadSteps
  <2>2. cache' \in Caches
    BY <1>1, <1>3 DEF LoadFails, KeepServing, Caches
  <2>3. QED
    BY <1>3, <2>1, <2>2, Types, TypesAfter DEF LoadFails, history
<1>4. CASE ReadTargets
  <2>1. loader' \in Loaders
    BY <1>1, <1>4 DEF ReadTargets, Databases, Loaders, LoadSteps
  <2>2. QED
    BY <1>4, <2>1, Types, TypesAfter DEF ReadTargets, history
<1>5. CASE ReadRoutes
  <2>1. Published(loader.routes, db.published) \in Tables
    BY <1>1, TableTypes DEF Databases, Loaders
  <2>2. loader' \in Loaders
    BY <1>1, <1>5, <2>1 DEF ReadRoutes, Loaders, LoadSteps
  <2>3. QED
    BY <1>5, <2>2, Types, TypesAfter DEF ReadRoutes, history
<1>6. CASE ReadFallback
  <2>1. loader' \in Loaders
    BY <1>1, <1>6 DEF ReadFallback, Databases, Loaders, LoadSteps
  <2>2. QED
    BY <1>6, <2>1, Types, TypesAfter DEF ReadFallback, history
<1>7. CASE Save
  <2>1. loader' \in Loaders
    BY <1>1, <1>7 DEF Save, Loaders, LoadSteps
  <2>2. disk' \in Copies
    <3>1. Copy \in Copies
      BY <1>1 DEF Copy, Loaders, Copies
    <3>2. QED
      BY <1>1, <1>7, <3>1 DEF Save
  <2>3. budget' \in [Expenses -> Nat]
    BY <1>7, SpendTypes, Types DEF Save, Expenses
  <2>4. QED
    BY <1>7, <2>1, <2>2, <2>3, Types, TypesAfter DEF Save, history
<1>8. CASE Serve
  <2>1. loader' \in Loaders /\ cache' \in Caches /\ kept' \in BOOLEAN
    BY <1>1, <1>8, Types DEF Serve, Loaders, LoadSteps, Caches, Copies
  <2>2. QED
    BY <1>8, <2>1, Types, TypesAfter DEF Serve
<1>9. CASE Restore
  <2>1. loader' \in Loaders
    BY <1>1, <1>9 DEF Restore, Loaders, LoadSteps
  <2>2. cache' \in Caches
    BY <1>1, <1>9 DEF Restore, Caches, Copies
  <2>3. QED
    BY <1>9, <2>1, <2>2, Types, TypesAfter DEF Restore, history
<1>10. QED
  BY <1>2, <1>3, <1>4, <1>5, <1>6, <1>7, <1>8, <1>9 DEF Load

\* a request being served,
LEMMA RequestTypes == ASSUME TypeOK, NEW g \in Requests, ServeRequest(g) PROVE TypeOK'
<1>1. get \in [Requests -> Gets] /\ db \in Databases /\ cache \in Caches
  BY Types
<1>2. /\ NoRequest \in Gets
      /\ \A step \in GetSteps : [get EXCEPT ![g].pc = step] \in [Requests -> Gets]
  BY <1>1, FreshTypes DEF Gets
<1>3. CASE LookUpRoute(g)
  <2>1. get' \in [Requests -> Gets]
    <3>1. ASSUME NEW n \in db.published,
                 get' = [get EXCEPT ![g].pc = "entries", ![g].name = n]
          PROVE  get' \in [Requests -> Gets]
      <4>1. n \in Names
        BY <1>1 DEF Databases
      <4>2. "entries" \in GetSteps
        BY DEF GetSteps
      <4>3. [[get[g] EXCEPT !.pc = "entries"] EXCEPT !.name = n] \in Gets
        BY <1>1, <4>1, <4>2 DEF Gets
      <4>4. QED
        BY <1>1, <3>1, <4>3
    <3>2. CASE \E step \in {"wild", "fallback"} : Proceed(g, step)
      <4>1. "wild" \in GetSteps /\ "fallback" \in GetSteps
        BY DEF GetSteps
      <4>2. QED
        BY <1>2, <3>2, <4>1 DEF Proceed
    <3>3. QED
      BY <1>3, <3>1, <3>2 DEF LookUpRoute
  <2>2. QED
    BY <1>3, <2>1, Types, TypesAfter DEF LookUpRoute, history
<1>4. CASE LookUpTargets(g)
  <2>1. get' \in [Requests -> Gets]
    <3>1. CASE up /\ db.target[get[g].name] # None
      BY <1>1, <1>4, <3>1 DEF LookUpTargets, Gets, GetSteps, Databases, Tables
    <3>2. CASE ~(up /\ db.target[get[g].name] # None)
      BY <1>2, <1>4, <3>2 DEF LookUpTargets, Proceed, GetSteps
    <3>3. QED
      BY <3>1, <3>2
  <2>2. QED
    BY <1>4, <2>1, Types, TypesAfter DEF LookUpTargets, history
<1>5. CASE Insert(g)
  <2>1. cache' \in Caches
    BY <1>1, <1>5 DEF Insert, Caches, Tables, Gets
  <2>2. get' \in [Requests -> Gets]
    BY <1>1, <1>2, <1>5 DEF Insert, Answered
  <2>3. QED
    BY <1>5, <2>1, <2>2, Types, TypesAfter DEF Insert, history
<1>6. CASE FallbackFor(g)
  <2>1. get' \in [Requests -> Gets]
    BY <1>1, <1>2, <1>6 DEF FallbackFor, Answered, Proceed, GetSteps
  <2>2. QED
    BY <1>6, <2>1, Types, TypesAfter DEF FallbackFor, history
<1>7. CASE NotFound(g)
  <2>1. get' \in [Requests -> Gets]
    BY <1>1, <1>2, <1>7 DEF NotFound, Answered
  <2>2. QED
    BY <1>7, <2>1, Types, TypesAfter DEF NotFound, history
<1>8. QED
  BY <1>3, <1>4, <1>5, <1>6, <1>7 DEF ServeRequest

\* the loop that looks at the count, the database's outages and a crash.
LEMMA AroundTypes ==
    ASSUME TypeOK, Check \/ Refresh \/ Outage \/ Recover \/ Crash
    PROVE  TypeOK'
<1>1. db \in Databases /\ loader \in Loaders
  BY Types
<1>2. CASE Check \/ Refresh
  <2>1. loader' \in Loaders
    BY <1>1, <1>2 DEF Check, Refresh, Databases, Loaders, LoadSteps
  <2>2. QED
    BY <1>2, <2>1, Types, TypesAfter DEF Check, Refresh, history
<1>3. CASE Outage \/ Recover
  <2>1. up' \in BOOLEAN /\ budget' \in [Expenses -> Nat]
    BY <1>3, SpendTypes, Types DEF Outage, Recover, Expenses
  <2>2. QED
    BY <1>3, <2>1, Types, TypesAfter DEF Outage, Recover, history
<1>4. CASE Crash
  <2>1. get' \in [Requests -> Gets] /\ budget' \in [Expenses -> Nat]
    BY <1>4, FreshTypes, SpendTypes DEF Crash, Expenses
  <2>2. QED
    BY <1>4, <2>1, FreshTypes, Types, TypesAfter DEF Crash, history
<1>5. QED
  BY <1>2, <1>3, <1>4

LEMMA NextTypes == ASSUME TypeOK, [Next]_vars PROVE TypeOK'
<1>1. CASE Next
  BY <1>1, LoadTypes, RequestTypes, UsersTypes, AroundTypes DEF Next
<1>2. CASE UNCHANGED vars
  BY <1>2, Types DEF vars, history, TypeOK
<1>3. QED
  BY <1>1, <1>2

\* Every reachable state has its types: the load in progress, the copy on disk
\* and the requests under way, across failed loads and crashes (cache.go).
THEOREM TypeCorrect == Spec => []TypeOK
<1>1. Init => TypeOK
  BY InitTypeOK
<1>2. TypeOK /\ [Next]_vars => TypeOK'
  BY NextTypes
<1>3. QED
  BY <1>1, <1>2, PTL DEF Spec

-----------------------------------------------------------------------------
(* What the saved copy has was published *)

LEMMA SourcesFrame ==
    ASSUME Sources, UNCHANGED <<db, loader, disk, ever>> PROVE Sources'
BY DEF Sources, LoadedWasPublished, SavedWasPublished

\* A load that is not between its second query and the copy carries nothing.
LEMMA SourcesElsewhere ==
    ASSUME Sources, UNCHANGED <<db, disk, ever>>, loader'.pc \notin {"fallback", "save"}
    PROVE  Sources'
BY DEF Sources, LoadedWasPublished, SavedWasPublished

\* A write adds what it publishes to what was ever published.
LEMMA WriteSources ==
    ASSUME TypeOK, Sources, NEW d \in Databases, Write(d) PROVE Sources'
<1>1. db'.published = d.published /\ ever' = ever \union d.published
  BY DEF Write, Databases
<1>2. QED
  BY <1>1 DEF Write, Sources, LoadedWasPublished, SavedWasPublished

LEMMA LoadSources == ASSUME TypeOK, Sources, Load PROVE Sources'
<1>1. db \in Databases /\ loader \in Loaders /\ disk \in Copies
  BY Types
<1>2. CASE Start
  BY <1>2, SourcesElsewhere DEF Start, Down, history
<1>3. CASE LoadFails
  <2>1. loader'.pc \in {"restore", "idle"}
    BY <1>1, <1>3 DEF LoadFails, Loaders
  <2>2. QED
    BY <1>3, <2>1, SourcesElsewhere DEF LoadFails, history
<1>4. CASE ReadTargets
  <2>1. loader'.pc = "routes"
    BY <1>1, <1>4 DEF ReadTargets, Loaders
  <2>2. QED
    BY <1>4, <2>1, SourcesElsewhere DEF ReadTargets, history
<1>5. CASE ReadRoutes
  <2>1. loader'.routes = Published(loader.routes, db.published)
    BY <1>1, <1>5 DEF ReadRoutes, Loaders
  <2>2. \A n \in Names : loader'.routes[n] # None => n \in db.published
    BY <2>1 DEF Published
  <2>3. QED
    BY <1>5, <2>2 DEF ReadRoutes, Sources, LoadedWasPublished, SavedWasPublished, history
<1>6. CASE ReadFallback
  <2>1. loader'.routes = loader.routes
    BY <1>1, <1>6 DEF ReadFallback, Loaders
  <2>2. QED
    BY <1>6, <2>1 DEF ReadFallback, Sources, LoadedWasPublished, SavedWasPublished, history
<1>7. CASE Save
  <2>1. loader'.pc = "serve"
    BY <1>1, <1>7 DEF Save, Loaders
  <2>2. disk' = disk \/ disk'.routes = loader.routes
    BY <1>7 DEF Save, Copy
  <2>3. QED
    BY <1>7, <2>1, <2>2 DEF Save, Sources, LoadedWasPublished, SavedWasPublished, history
<1>8. CASE Serve \/ Restore
  <2>1. loader'.pc = "idle"
    BY <1>1, <1>8 DEF Serve, Restore, Loaders
  <2>2. QED
    BY <1>8, <2>1, SourcesElsewhere DEF Serve, Restore, history
<1>9. QED
  BY <1>2, <1>3, <1>4, <1>5, <1>6, <1>7, <1>8 DEF Load

LEMMA NextSources == ASSUME TypeOK, Sources, [Next]_vars PROVE Sources'
<1>1. db \in Databases /\ loader \in Loaders
  BY Types
<1>2. CASE Users
  BY <1>2, UserWrites, WriteSources, SourcesFrame DEF Get, history
<1>3. CASE \E g \in Requests : ServeRequest(g)
  BY <1>3, SourcesFrame
     DEF ServeRequest, LookUpRoute, LookUpTargets, Insert, FallbackFor, NotFound, history
<1>4. CASE Check \/ Refresh
  <2>1. loader'.pc = "targets"
    BY <1>1, <1>4 DEF Check, Refresh, Loaders
  <2>2. QED
    BY <1>4, <2>1, SourcesElsewhere DEF Check, Refresh, history
<1>5. CASE Outage \/ Recover
  BY <1>5, SourcesFrame DEF Outage, Recover, history
<1>6. CASE Crash
  BY <1>6, SourcesElsewhere DEF Crash, Down, history
<1>7. CASE UNCHANGED vars
  BY <1>7, SourcesFrame DEF vars, history
<1>8. QED
  BY <1>2, <1>3, <1>4, <1>5, <1>6, <1>7, LoadSources DEF Next

LEMMA InitSources == Init => Sources
<1>1. SUFFICES ASSUME Init PROVE Sources
  OBVIOUS
<1>2. loader.pc = "down" /\ \A n \in Names : disk.routes[n] = None
  BY <1>1 DEF Init, Down, Empty
<1>3. QED
  BY <1>1, <1>2 DEF Init, Sources, LoadedWasPublished, SavedWasPublished

\* The saved copy has only names that were published themselves, whatever
\* requests added to the table and whichever load or crash came between
\* (saved.go is written from the load, not from the table).
THEOREM CopyWasPublished == Spec => []SavedWasPublished
<1>1. Init => TypeOK /\ Sources
  BY InitTypeOK, InitSources
<1>2. TypeOK /\ Sources /\ [Next]_vars => (TypeOK /\ Sources)'
  BY NextTypes, NextSources
<1>3. Sources => SavedWasPublished
  BY DEF Sources
<1>4. QED
  BY <1>1, <1>2, <1>3, PTL DEF Spec

-----------------------------------------------------------------------------
(* What is routed all along is served *)

\* What is routed has targets and is published.
LEMMA RoutedHas ==
    ASSUME NEW d, NEW n \in Routed(d)
    PROVE  n \in Names /\ n \in d.published /\ d.target[n] # None
BY DEF Routed, Published

\* The parts of Served that are about the load and what it replaces.
LoadServed == SteadyIsRouted /\ LoadHasSteady /\ CopyHasSteady /\ TableHasSteady

\* With the same load, copy and table, fewer names only help.
LEMMA LoadServedFrame ==
    ASSUME Served, SteadyIsRouted', steady' \subseteq steady,
           UNCHANGED <<loader, disk, cache, kept>>
    PROVE  LoadServed'
BY DEF Served, LoadServed, LoadHasSteady, CopyHasSteady, TableHasSteady, HasSteady

LEMMA RequestsFrame ==
    ASSUME Served, steady' \subseteq steady, UNCHANGED get PROVE RequestsMissed'
BY DEF Served, RequestsMissed

LEMMA WriteServed ==
    ASSUME TypeOK, Served, NEW d \in Databases, Write(d) PROVE Served'
<1>1. db'.published = d.published /\ db'.target = d.target
  BY DEF Write, Databases
<1>2. Routed(db') = Routed(d)
  BY <1>1 DEF Routed, Published
<1>3. SteadyIsRouted' /\ steady' \subseteq steady
  BY <1>2 DEF Write, SteadyIsRouted
<1>4. LoadServed'
  BY <1>3, LoadServedFrame DEF Write
<1>5. RequestsMissed'
  BY <1>3, RequestsFrame DEF Write
<1>6. QED
  BY <1>4, <1>5 DEF LoadServed, Served

\* A request that is asked once a load was kept looks in a table that has what
\* is routed all along.
LEMMA GetServed ==
    ASSUME TypeOK, Served, NEW g \in Requests, NEW n \in Names, Get(g, n)
    PROVE  Served'
<1>1. LoadServed'
  BY LoadServedFrame DEF Get, history, Served, SteadyIsRouted
<1>2. ASSUME kept, Lookup(cache.routes, n) = None
      PROVE  {n, Wildcard[n]} \intersect steady = {}
  <2>1. HasSteady(cache.routes) /\ steady \subseteq Names
    BY <1>2 DEF Get, Served, TableHasSteady, TypeOK
  <2>2. n \notin steady
    BY <2>1 DEF Get, HasSteady
  <2>3. Wildcard[n] \notin steady
    BY <1>2, <2>1, CacheAssumption DEF Get, HasSteady, Lookup
  <2>4. QED
    BY <2>2, <2>3
<1>3. get[g] \in Gets /\ get \in [Requests -> Gets]
  BY Types
<1>4. \A h \in Requests \ {g} : get'[h] = get[h]
  BY <1>3 DEF Get
<1>5. steady' = steady
  BY DEF Get, history
<1>6. get'[g] = IF Lookup(cache.routes, n) # None
                THEN [pc |-> "insert", host |-> n, name |-> n,
                      entries |-> Lookup(cache.routes, n), due |-> kept]
                ELSE [pc |-> "exact", host |-> n, name |-> n, entries |-> None, due |-> kept]
  BY <1>3 DEF Get
<1>7. /\ get'[g].pc = "insert" => get'[g].entries # None
      /\ get'[g].pc \notin {"idle", "insert"} /\ get'[g].due =>
           {get'[g].host, Wildcard[get'[g].host]} \intersect steady = {}
  BY <1>2, <1>6
<1>8. RequestsMissed'
  BY <1>4, <1>5, <1>7 DEF Served, RequestsMissed
<1>9. QED
  BY <1>1, <1>8 DEF LoadServed, Served

\* A load carries them from its first query to the table and the copy.
LEMMA LoadIsServed == ASSUME TypeOK, Served, Load PROVE LoadServed'
<1>1. /\ db \in Databases /\ loader \in Loaders /\ disk \in Copies /\ cache \in Caches
      /\ steady \subseteq Names
  BY Types
<1>2. \A n \in steady : n \in db.published /\ db.target[n] # None
  BY RoutedHas DEF Served, SteadyIsRouted
<1>3. SteadyIsRouted' /\ steady' = steady
  BY DEF Load, Start, LoadFails, ReadTargets, ReadRoutes, ReadFallback, Save, Serve,
         Restore, history, Served, SteadyIsRouted
<1>4. CASE Start
  BY <1>3, <1>4
     DEF Start, Down, history, Served, LoadServed, LoadHasSteady, CopyHasSteady,
         TableHasSteady, HasSteady
<1>5. CASE LoadFails
  <2>1. /\ loader'.pc \in {"restore", "idle"} /\ loader'.first = loader.first
        /\ cache'.routes = cache.routes
    BY <1>1, <1>5 DEF LoadFails, KeepServing, Loaders, Caches
  <2>2. QED
    BY <1>3, <1>5, <2>1
       DEF LoadFails, history, Served, LoadServed, LoadHasSteady, CopyHasSteady,
           TableHasSteady, HasSteady
<1>6. CASE ReadTargets
  <2>1. loader'.routes = db.target /\ loader'.first = loader.first
    BY <1>1, <1>6 DEF ReadTargets, Loaders
  <2>2. QED
    BY <1>2, <1>3, <1>6, <2>1
       DEF ReadTargets, history, Served, LoadServed, LoadHasSteady, CopyHasSteady,
           TableHasSteady, HasSteady
<1>7. CASE ReadRoutes
  <2>1. /\ loader'.routes = Published(loader.routes, db.published)
        /\ loader'.first = loader.first
    BY <1>1, <1>7 DEF ReadRoutes, Loaders
  <2>2. \A n \in steady : loader'.routes[n] = loader.routes[n]
    BY <1>1, <1>2, <2>1 DEF Published
  <2>3. QED
    BY <1>3, <1>7, <2>1, <2>2
       DEF ReadRoutes, history, Served, LoadServed, LoadHasSteady, CopyHasSteady,
           TableHasSteady, HasSteady
<1>8. CASE ReadFallback
  <2>1. loader'.routes = loader.routes /\ loader'.first = loader.first
    BY <1>1, <1>8 DEF ReadFallback, Loaders
  <2>2. QED
    BY <1>3, <1>8, <2>1
       DEF ReadFallback, history, Served, LoadServed, LoadHasSteady, CopyHasSteady,
           TableHasSteady, HasSteady
<1>9. CASE Save
  <2>1. loader'.routes = loader.routes /\ loader'.first = loader.first
    BY <1>1, <1>9 DEF Save, Loaders
  <2>2. disk' = disk \/ (disk'.routes = loader.routes /\ disk'.exists)
    BY <1>9 DEF Save, Copy
  <2>3. QED
    BY <1>3, <1>9, <2>1, <2>2
       DEF Save, history, Served, LoadServed, LoadHasSteady, CopyHasSteady,
           TableHasSteady, HasSteady
<1>10. CASE Serve
  <2>1. loader'.pc = "idle" /\ cache'.routes = loader.routes
    BY <1>1, <1>10 DEF Serve, Loaders
  <2>2. QED
    BY <1>3, <1>10, <2>1
       DEF Serve, Served, LoadServed, LoadHasSteady, CopyHasSteady, TableHasSteady, HasSteady
<1>11. CASE Restore
  <2>1. loader'.pc = "idle" /\ (disk.exists => cache'.routes = disk.routes)
    BY <1>1, <1>11 DEF Restore, Loaders, Caches
  <2>2. QED
    BY <1>3, <1>11, <2>1
       DEF Restore, history, Served, LoadServed, LoadHasSteady, CopyHasSteady,
           TableHasSteady, HasSteady
<1>12. QED
  BY <1>4, <1>5, <1>6, <1>7, <1>8, <1>9, <1>10, <1>11 DEF Load

\* A request that goes on is for the same hostname, and inserts what it found.
LEMMA RequestServed ==
    ASSUME TypeOK, Served, NEW g \in Requests, ServeRequest(g) PROVE Served'
<1>1. get \in [Requests -> Gets] /\ cache \in Caches /\ steady \subseteq Names
  BY Types
<1>2. steady' = steady /\ SteadyIsRouted'
  BY DEF ServeRequest, LookUpRoute, LookUpTargets, Insert, FallbackFor, NotFound, history,
         Served, SteadyIsRouted
<1>3. \A h \in Requests \ {g} : get'[h] = get[h]
  BY <1>1 DEF ServeRequest, LookUpRoute, LookUpTargets, Insert, FallbackFor, NotFound,
              Answered, Proceed
<1>4. \/ get'[g].pc = "idle"
      \/ get'[g].pc = "insert" /\ get'[g].entries # None
      \/ /\ get'[g].pc # "insert" /\ get[g].pc \notin {"idle", "insert"}
         /\ get'[g].host = get[g].host /\ get'[g].due = get[g].due
  <2>1. CASE LookUpRoute(g)
    BY <1>1, <2>1 DEF LookUpRoute, Proceed, Gets
  <2>2. CASE LookUpTargets(g)
    BY <1>1, <2>2 DEF LookUpTargets, Proceed, Gets
  <2>3. CASE Insert(g) \/ NotFound(g)
    BY <1>1, <2>3 DEF Insert, NotFound, Answered, NoRequest
  <2>4. CASE FallbackFor(g)
    BY <1>1, <2>4 DEF FallbackFor, Answered, Proceed, NoRequest, Gets
  <2>5. QED
    BY <2>1, <2>2, <2>3, <2>4 DEF ServeRequest
<1>5. RequestsMissed'
  BY <1>2, <1>3, <1>4 DEF Served, RequestsMissed
<1>6. LoadServed'
  <2>1. CASE Insert(g)
    <3>1. get[g].entries # None /\ get[g].host \in Names
      BY <1>1, <2>1 DEF Insert, Served, RequestsMissed, Gets
    <3>2. cache'.routes = [cache.routes EXCEPT ![get[g].host] = get[g].entries]
      BY <1>1, <2>1 DEF Insert, Caches
    <3>3. \A n \in Names : cache.routes[n] # None => cache'.routes[n] # None
      BY <1>1, <3>1, <3>2 DEF Caches, Tables
    <3>4. QED
      BY <1>1, <1>2, <2>1, <3>3
         DEF Insert, history, Served, LoadServed, LoadHasSteady, CopyHasSteady,
             TableHasSteady, HasSteady
  <2>2. CASE ~Insert(g)
    BY <1>2, <2>2, LoadServedFrame
       DEF ServeRequest, LookUpRoute, LookUpTargets, FallbackFor, NotFound, history
  <2>3. QED
    BY <2>1, <2>2
<1>7. QED
  BY <1>5, <1>6 DEF LoadServed, Served

LEMMA NextServed == ASSUME TypeOK, Served, [Next]_vars PROVE Served'
<1>1. loader \in Loaders
  BY Types
<1>2. CASE Load
  <2>1. RequestsMissed'
    BY <1>2, RequestsFrame
       DEF Load, Start, LoadFails, ReadTargets, ReadRoutes, ReadFallback, Save, Serve,
           Restore, history
  <2>2. QED
    BY <1>2, <2>1, LoadIsServed DEF LoadServed, Served
<1>3. CASE Users
  BY <1>3, UserWrites, WriteServed, GetServed
<1>4. CASE Check \/ Refresh
  <2>1. loader'.pc = "targets" /\ loader'.first = loader.first
    BY <1>1, <1>4 DEF Check, Refresh, Loaders
  <2>2. QED
    BY <1>4, <2>1, RequestsFrame
       DEF Check, Refresh, history, Served, SteadyIsRouted, LoadHasSteady, CopyHasSteady,
           TableHasSteady, HasSteady
<1>5. CASE Outage \/ Recover \/ UNCHANGED vars
  <2>1. SteadyIsRouted' /\ steady' = steady
    BY <1>5 DEF Outage, Recover, vars, history, Served, SteadyIsRouted
  <2>2. QED
    BY <1>5, <2>1, LoadServedFrame, RequestsFrame
       DEF Outage, Recover, vars, history, LoadServed, Served
<1>6. CASE Crash
  <2>1. loader'.first /\ loader'.pc = "down"
    BY <1>6 DEF Crash, Down
  <2>2. \A g \in Requests : get'[g].pc = "idle"
    BY <1>6 DEF Crash, NoRequest
  <2>3. QED
    BY <1>6, <2>1, <2>2
       DEF Crash, history, Served, SteadyIsRouted, LoadHasSteady, CopyHasSteady,
           TableHasSteady, RequestsMissed, HasSteady
<1>7. QED
  BY <1>2, <1>3, <1>4, <1>5, <1>6, RequestServed DEF Next

LEMMA InitServed == Init => Served
<1>1. SUFFICES ASSUME Init PROVE Served
  OBVIOUS
<1>2. loader.pc = "down" /\ ~disk.exists /\ \A g \in Requests : get[g].pc = "idle"
  BY <1>1 DEF Init, Down, NoRequest
<1>3. QED
  BY <1>1, <1>2 DEF Init, Served, SteadyIsRouted, LoadHasSteady, CopyHasSteady,
                    TableHasSteady, RequestsMissed

\* A hostname routed all along is not answered as unrouted once a load was
\* saved and served: not during an outage, nor after a restart without the
\* database, nor while loads and requests race (cache.go, saved.go).
THEOREM SteadyAlwaysServed == Spec => []SteadyIsServed
<1>1. Init => TypeOK /\ Served
  BY InitTypeOK, InitServed
<1>2. TypeOK /\ Served /\ [Next]_vars => (TypeOK /\ Served)'
  BY NextTypes, NextServed
<1>3. Served => SteadyIsServed
  BY DEF Served, RequestsMissed, SteadyIsServed
<1>4. QED
  BY <1>1, <1>2, <1>3, PTL DEF Spec
=============================================================================
