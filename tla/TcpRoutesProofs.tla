-------------------------- MODULE TcpRoutesProofs --------------------------
(***************************************************************************)
(* Theorems of TcpRoutes, for any routes, ports, zones and budgets: its    *)
(* types, with one route for a port; that what an open port does is what   *)
(* one published row asked of it; and that what is published all along     *)
(* stays open.                                                             *)
(***************************************************************************)
EXTENDS TcpRoutes, TLAPS

-----------------------------------------------------------------------------
(* Strengthenings *)

Tables == [Routes -> Row \union {NotYet, Gone}]
OnePerPort(t) == \A r, q \in Made(t) : t[r].port = t[q].port => r = q

\* apply's loops run over routes there were, and open only what has a target.
TodoIsMade ==
    proc.pc = "apply" => \A r \in proc.todo :
        /\ r \in Made(proc.rows)
        /\ proc.rows[r].published => r \in Wanted(proc.rows)

Typed == TypeOK /\ TodoIsMade

\* What is in the database, on its way to being applied, or saved, was asked.
TablesAsked == Asked(rows) \union Asked(proc.rows) \union Asked(disk.rows) \subseteq asked

-----------------------------------------------------------------------------
(* Types *)

\* An address a row binds is one of those the model has.
LEMMA BindType == \A z \in Zones : bindFor(z) \in Addresses
BY DEF Addresses

\* A table of rows not made yet has a type and asks for nothing.
LEMMA EmptyTable ==
    /\ [r \in Routes |-> NotYet] \in Tables
    /\ Made([r \in Routes |-> NotYet]) = {}
    /\ Asked([r \in Routes |-> NotYet]) = {}
BY DEF Tables, Made, Asked, Wanted

\* A row put in a table on a port no other row has.
LEMMA PutRow ==
    ASSUME NEW t \in Tables, OnePerPort(t), NEW r \in Routes, NEW row \in Row,
           \A q \in Made(t) : q # r => t[q].port # row.port
    PROVE  /\ [t EXCEPT ![r] = row] \in Tables
           /\ OnePerPort([t EXCEPT ![r] = row])
BY DEF Tables, OnePerPort, Made

\* A row changed where it is.
LEMMA ChangeRow ==
    ASSUME NEW t \in Tables, OnePerPort(t), NEW r \in Made(t), NEW row \in Row,
           row.port = t[r].port
    PROVE  /\ [t EXCEPT ![r] = row] \in Tables
           /\ OnePerPort([t EXCEPT ![r] = row])
<1>1. r \in Routes /\ \A q \in Made(t) : q # r => t[q].port # row.port
  BY DEF OnePerPort, Made
<1>2. QED
  BY <1>1, PutRow

\* A row that is made is a row.
LEMMA MadeIsRow == ASSUME NEW t \in Tables, NEW r \in Made(t) PROVE r \in Routes /\ t[r] \in Row
BY DEF Tables, Made

\* A table that was written has its types, and the history too.
LEMMA WriteTypes ==
    ASSUME Typed, NEW t \in Tables, OnePerPort(t), Write(t)
    PROVE  rows' \in Tables /\ OnePerPort(rows)' /\ moved' \in BOOLEAN /\ steady' \subseteq Routes
BY DEF Write, Typed, TypeOK, OnePerPort, Made

\* So does one that was changed by a user.
LEMMA ChangeTypes ==
    ASSUME Typed, NEW t \in Tables, OnePerPort(t), Change(t)
    PROVE  Typed'
<1>1. Write(t)
  BY DEF Change
<1>2. QED
  BY <1>1, WriteTypes DEF Change, Typed, TypeOK, TodoIsMade, OnePerPort, Tables

\* Every initial state has the types.
LEMMA InitTyped == Init => Typed
<1>1. SUFFICES ASSUME Init PROVE Typed
  OBVIOUS
<1>2. PICK z \in Zones :
         rows = [r \in Routes |->
                   IF r = CHOOSE q \in Routes : TRUE
                   THEN [port |-> CHOOSE p \in Ports : TRUE, zone |-> z,
                         to |-> CHOOSE t \in To : TRUE, published |-> TRUE,
                         status |-> "pending"]
                   ELSE NotYet]
  BY <1>1 DEF Init
<1>3. (CHOOSE p \in Ports : TRUE) \in Ports /\ (CHOOSE t \in To : TRUE) \in To
  BY TcpAssumption
<1>4. rows \in Tables
  BY <1>2, <1>3 DEF Tables, Row, Statuses
<1>5. OnePerPort(rows)
  BY <1>2 DEF OnePerPort, Made
<1>6. steady \subseteq Routes
  BY <1>1 DEF Init, Wanted, Made
<1>7. QED
  BY <1>1, <1>4, <1>5, <1>6, EmptyTable
  DEF Init, Typed, TypeOK, TodoIsMade, OnePerPort, Tables, Down

\* What a user does keeps the types.
LEMMA UsersTyped ==
    ASSUME Typed, NEW r \in Routes, Users(r)
    PROVE  Typed'
<1>1. rows \in Tables /\ OnePerPort(rows)
  BY DEF Typed, TypeOK, Tables, OnePerPort
<1>2. ASSUME NEW p \in Ports, UpdatePort(r, p) PROVE Typed'
  <2>1. r \in Made(rows) /\ rows[r] \in Row
    BY <1>1, <1>2, MadeIsRow DEF UpdatePort
  <2>2. [rows[r] EXCEPT !.port = p, !.status = "pending"] \in Row
    BY <2>1 DEF Row, Statuses
  <2>3. [rows EXCEPT ![r].port = p, ![r].status = "pending"]
          = [rows EXCEPT ![r] = [rows[r] EXCEPT !.port = p, !.status = "pending"]]
    BY <1>1, <2>1 DEF Tables, Row
  <2>4. Change([rows EXCEPT ![r] = [rows[r] EXCEPT !.port = p, !.status = "pending"]])
    BY <1>2, <2>3 DEF UpdatePort
  <2>5. \A q \in Made(rows) :
          q # r => rows[q].port # [rows[r] EXCEPT !.port = p, !.status = "pending"].port
    BY <1>2, <2>1 DEF UpdatePort, checkPort, Row
  <2>6. QED
    BY <1>1, <2>2, <2>4, <2>5, PutRow, ChangeTypes
<1>3. ASSUME NEW p \in Ports, NEW z \in Zones, NEW to \in To \union {None}, Create(r, p, z, to)
      PROVE Typed'
  <2>1. [port |-> p, zone |-> z, to |-> to, published |-> TRUE, status |-> "pending"] \in Row
    BY DEF Row, Statuses
  <2>2. [port |-> p, zone |-> z, to |-> to, published |-> FALSE, status |-> "paused"] \in Row
    BY DEF Row, Statuses
  <2>3. QED
    BY <1>1, <1>3, <2>1, <2>2, PutRow, ChangeTypes DEF Create, checkPort
<1>4. ASSUME NEW to \in To \union {None},
             UpdateAllowed(r, to) \/ ResolveTarget(r, to) \/ Retarget(r, to)
      PROVE Typed'
  <2>1. r \in Made(rows) /\ rows[r] \in Row
    BY <1>1, <1>4, MadeIsRow DEF UpdateAllowed, ResolveTarget, Retarget
  <2>2. /\ [rows[r] EXCEPT !.to = to] \in Row
        /\ [rows[r] EXCEPT !.to = to, !.status = "pending"] \in Row
        /\ [rows[r] EXCEPT !.to = to].port = rows[r].port
        /\ [rows[r] EXCEPT !.to = to, !.status = "pending"].port = rows[r].port
    BY <2>1 DEF Row, Statuses
  <2>3. /\ [rows EXCEPT ![r].to = to] = [rows EXCEPT ![r] = [rows[r] EXCEPT !.to = to]]
        /\ [rows EXCEPT ![r].to = to, ![r].status = "pending"]
             = [rows EXCEPT ![r] = [rows[r] EXCEPT !.to = to, !.status = "pending"]]
    BY <1>1, <2>1 DEF Tables, Row
  <2>4. CASE Change([rows EXCEPT ![r] = [rows[r] EXCEPT !.to = to]])
    BY <1>1, <2>1, <2>2, <2>4, ChangeRow, ChangeTypes
  <2>5. CASE Change([rows EXCEPT ![r] = [rows[r] EXCEPT !.to = to, !.status = "pending"]])
    BY <1>1, <2>1, <2>2, <2>5, ChangeRow, ChangeTypes
  <2>6. QED
    BY <1>4, <2>3, <2>4, <2>5 DEF UpdateAllowed, ResolveTarget, Retarget
<1>5. ASSUME NEW published \in BOOLEAN, SetPublished(r, published) PROVE Typed'
  <2>1. r \in Made(rows) /\ rows[r] \in Row
    BY <1>1, <1>5, MadeIsRow DEF SetPublished
  <2>2. /\ [rows[r] EXCEPT !.published = published, !.status = "pending"] \in Row
        /\ [rows[r] EXCEPT !.published = published, !.status = "pending"].port = rows[r].port
    BY <2>1 DEF Row, Statuses
  <2>3. [rows EXCEPT ![r].published = published, ![r].status = "pending"]
          = [rows EXCEPT ![r] =
               [rows[r] EXCEPT !.published = published, !.status = "pending"]]
    BY <1>1, <2>1 DEF Tables, Row
  <2>4. Change([rows EXCEPT ![r] =
                  [rows[r] EXCEPT !.published = published, !.status = "pending"]])
    BY <1>5, <2>3 DEF SetPublished
  <2>5. QED
    BY <1>1, <2>1, <2>2, <2>4, ChangeRow, ChangeTypes
<1>6. CASE Delete(r)
  <2>1. [rows EXCEPT ![r] = Gone] \in Tables /\ OnePerPort([rows EXCEPT ![r] = Gone])
    BY <1>1 DEF Tables, OnePerPort, Made
  <2>2. QED
    BY <1>6, <2>1, ChangeTypes DEF Delete
<1>7. QED
  BY <1>2, <1>3, <1>4, <1>5, <1>6 DEF Users

\* A status the proxy writes back keeps the types; so does one it does not.
LEMMA SetStatusTypes ==
    ASSUME Typed, NEW r \in Routes, NEW status \in Statuses, setStatus(r, status)
    PROVE  rows' \in Tables /\ OnePerPort(rows)' /\ moved' \in BOOLEAN /\ steady' \subseteq Routes
<1>1. rows \in Tables /\ OnePerPort(rows)
  BY DEF Typed, TypeOK, Tables, OnePerPort
<1>2. CASE UNCHANGED dbVars
  BY <1>1, <1>2 DEF dbVars, Typed, TypeOK, OnePerPort, Made
<1>3. CASE r \in Made(rows) /\ Write([rows EXCEPT ![r].status = status])
  <2>1. rows[r] \in Row
    BY <1>1, <1>3, MadeIsRow
  <2>2. /\ [rows[r] EXCEPT !.status = status] \in Row
        /\ [rows[r] EXCEPT !.status = status].port = rows[r].port
    BY <2>1 DEF Row
  <2>3. [rows EXCEPT ![r].status = status]
          = [rows EXCEPT ![r] = [rows[r] EXCEPT !.status = status]]
    BY <1>1, <2>1 DEF Tables
  <2>4. QED
    BY <1>1, <1>3, <2>2, <2>3, ChangeRow, WriteTypes
<1>4. QED
  BY <1>2, <1>3 DEF setStatus

\* A listener is of the route that is applied.
LEMMA ListenerTypes ==
    ASSUME Typed, NEW r \in Wanted(proc.rows)
    PROVE  /\ r \in Routes /\ proc.rows[r] \in Row
           /\ Listener(proc.rows[r]) \in [bind : Addresses, to : To]
<1>1. proc.rows \in Tables
  BY DEF Typed, TypeOK, Tables
<1>2. r \in Routes /\ proc.rows[r] \in Row /\ proc.rows[r].to # None
  BY <1>1, MadeIsRow DEF Wanted
<1>3. QED
  BY <1>2, BindType DEF Listener, Row

\* What the route being applied leaves its port with: nothing, or a listener as
\* the route asks for it.
LEMMA ApplyWantedOpens ==
    ASSUME Typed, NEW r \in Routes, ApplyWanted(r)
    PROVE  /\ r \in Wanted(proc.rows)
           /\ \/ open' = [open EXCEPT ![proc.rows[r].port] = Listener(proc.rows[r])]
              \/ open' = [open EXCEPT ![proc.rows[r].port] = None]
           /\ \/ refused' = refused
              \/ refused' = refused \ {proc.rows[r].port}
              \/ refused' = refused \union {proc.rows[r].port}
           /\ \E status \in Statuses : setStatus(r, status)
<1>1. r \in Wanted(proc.rows)
  BY DEF ApplyWanted, Typed, TodoIsMade
<1>2. proc.rows[r] \in Row
  BY <1>1, ListenerTypes
<1>3. proc.rows[r].port \in Ports
  BY <1>2 DEF Row
<1>4. CASE /\ SameSocket(open[proc.rows[r].port], proc.rows[r])
           /\ open' = [open EXCEPT ![proc.rows[r].port].to = proc.rows[r].to]
           /\ setStatus(r, "open")
           /\ UNCHANGED refused
  <2>1. open[proc.rows[r].port] \in [bind : Addresses, to : To]
    BY <1>3, <1>4 DEF SameSocket, Typed, TypeOK
  <2>2. [open[proc.rows[r].port] EXCEPT !.to = proc.rows[r].to] = Listener(proc.rows[r])
    BY <1>4, <2>1 DEF SameSocket, Listener
  <2>3. open' = [open EXCEPT ![proc.rows[r].port] = Listener(proc.rows[r])]
    BY <1>3, <1>4, <2>2 DEF Typed, TypeOK
  <2>4. QED
    BY <1>1, <1>4, <2>3 DEF Statuses
<1>5. CASE ~SameSocket(open[proc.rows[r].port], proc.rows[r])
  BY <1>1, <1>5 DEF ApplyWanted, ListenFailed, Statuses
<1>6. QED
  BY <1>4, <1>5 DEF ApplyWanted

\* What the proxy does keeps the types.
LEMMA SyncTyped == ASSUME Typed, Sync PROVE Typed'
<1>1. rows \in Tables /\ OnePerPort(rows) /\ proc.rows \in Tables /\ disk.rows \in Tables
  BY DEF Typed, TypeOK, Tables, OnePerPort
<1>2. CASE Start \/ Load \/ LoadFails \/ Restore \/ ApplyEnds
  <2>1. UNCHANGED <<dbVars, taken, disk, refused>>
    BY <1>2 DEF Start, Load, LoadFails, Restore, ApplyEnds
  <2>2. proc' \in [pc : {"down", "idle", "load", "save", "restore", "close"},
                   first : BOOLEAN, rows : Tables, todo : SUBSET Routes]
    <3>1. proc \in [pc : {"down", "idle", "load", "save", "restore", "close", "apply"},
                    first : BOOLEAN, rows : Tables, todo : SUBSET Routes]
      BY DEF Typed, TypeOK, Tables
    <3>2. CASE Start
      BY <3>2, EmptyTable DEF Start, Down
    <3>3. CASE Load
      BY <1>1, <3>1, <3>3 DEF Load
    <3>4. CASE LoadFails
      BY <3>1, <3>4 DEF LoadFails
    <3>5. CASE Restore
      BY <1>1, <3>1, <3>5 DEF Restore
    <3>6. CASE ApplyEnds
      BY <3>1, <3>6, EmptyTable DEF ApplyEnds
    <3>7. QED
      BY <1>2, <3>2, <3>3, <3>4, <3>5, <3>6
  <2>3. kept' \in BOOLEAN /\ up' \in BOOLEAN
    BY <1>2 DEF Start, Load, LoadFails, Restore, ApplyEnds, Typed, TypeOK
  <2>4. open' = open
    BY <1>2 DEF Start, Load, LoadFails, KeepOpen, Restore, ApplyEnds
  <2>5. QED
    BY <2>1, <2>2, <2>3, <2>4 DEF dbVars, Typed, TypeOK, TodoIsMade, Tables
<1>3. CASE Save
  <2>1. proc' \in [pc : {"close"}, first : BOOLEAN, rows : Tables, todo : SUBSET Routes]
    BY <1>1, <1>3 DEF Save, Typed, TypeOK, Tables
  <2>2. disk' \in [exists : BOOLEAN, rows : Tables]
    <3>1. [exists |-> TRUE, rows |-> proc.rows] \in [exists : BOOLEAN, rows : Tables]
      BY <1>1
    <3>2. disk \in [exists : BOOLEAN, rows : Tables]
      BY DEF Typed, TypeOK, Tables
    <3>3. QED
      BY <1>3, <3>1, <3>2 DEF Save
  <2>3. QED
    BY <1>3, <2>1, <2>2 DEF Save, dbVars, Typed, TypeOK, TodoIsMade, Tables
<1>4. CASE CloseUnwanted
  <2>1. open' \in [Ports -> [bind : Addresses, to : To] \union {None}]
    BY <1>4 DEF CloseUnwanted, Typed, TypeOK
  <2>2. /\ proc'.rows = proc.rows
        /\ proc' \in [pc : {"apply"}, first : BOOLEAN, rows : Tables, todo : SUBSET Routes]
        /\ \A r \in proc'.todo : /\ r \in Made(proc.rows)
                                /\ proc.rows[r].published => r \in Wanted(proc.rows)
    BY <1>1, <1>4 DEF CloseUnwanted, Typed, TypeOK, Made
  <2>3. QED
    BY <1>4, <2>1, <2>2 DEF CloseUnwanted, dbVars, Typed, TypeOK, TodoIsMade, Tables
<1>5. ASSUME NEW r \in Routes, Applied(r), proc.pc = "apply"
      PROVE  /\ TodoIsMade'
             /\ proc' \in [pc : {"apply"}, first : BOOLEAN, rows : Tables, todo : SUBSET Routes]
  BY <1>1, <1>5 DEF Applied, Typed, TypeOK, TodoIsMade
<1>6. ASSUME NEW r \in Routes, ApplyPaused(r) PROVE Typed'
  <2>1. rows' \in Tables /\ OnePerPort(rows)' /\ moved' \in BOOLEAN /\ steady' \subseteq Routes
    BY <1>6, SetStatusTypes DEF ApplyPaused, Statuses
  <2>2. QED
    BY <1>5, <1>6, <2>1 DEF ApplyPaused, Typed, TypeOK, OnePerPort, Tables
<1>7. ASSUME NEW r \in Routes, ApplyWanted(r) PROVE Typed'
  <2>1. rows' \in Tables /\ OnePerPort(rows)' /\ moved' \in BOOLEAN /\ steady' \subseteq Routes
    BY <1>7, ApplyWantedOpens, SetStatusTypes
  <2>2. /\ proc.rows[r].port \in Ports
        /\ Listener(proc.rows[r]) \in [bind : Addresses, to : To]
    BY <1>7, ApplyWantedOpens, ListenerTypes DEF Row
  <2>3. /\ open' \in [Ports -> [bind : Addresses, to : To] \union {None}]
        /\ refused' \subseteq Ports
    BY <1>7, <2>2, ApplyWantedOpens DEF Typed, TypeOK
  <2>4. QED
    BY <1>5, <1>7, <2>1, <2>3 DEF ApplyWanted, Typed, TypeOK, OnePerPort, Tables
<1>8. QED
  BY <1>2, <1>3, <1>4, <1>6, <1>7 DEF Sync

\* Every step keeps the types.
LEMMA NextTyped == Typed /\ [Next]_vars => Typed'
<1>1. SUFFICES ASSUME Typed, [Next]_vars PROVE Typed'
  OBVIOUS
<1>2. CASE Check \/ Refresh
  BY <1>1, <1>2 DEF Check, Refresh, history, Typed, TypeOK, TodoIsMade
<1>3. CASE Crash
  BY <1>1, <1>3, EmptyTable DEF Crash, Down, Typed, TypeOK, TodoIsMade, Tables
<1>4. CASE Outage \/ Recover
  BY <1>1, <1>4 DEF Outage, Recover, dbVars, Typed, TypeOK, TodoIsMade
<1>5. ASSUME NEW p \in Ports, NEW a \in Addresses, TakePort(p, a) \/ LeavePort(p, a)
      PROVE  Typed'
  BY <1>1, <1>5 DEF TakePort, LeavePort, dbVars, Typed, TypeOK, TodoIsMade
<1>6. CASE UNCHANGED vars
  BY <1>1, <1>6 DEF vars, dbVars, history, Typed, TypeOK, TodoIsMade
<1>7. QED
  BY <1>1, <1>2, <1>3, <1>4, <1>5, <1>6, UsersTyped, SyncTyped DEF Next

LEMMA TypedAlways == Spec => []Typed
BY InitTyped, NextTyped, PTL DEF Spec

\* Every variable stays in its range, and a port has one route (checkPort, and
\* GatewayPort's unique index), whatever is moved, paused, deleted or restored.
THEOREM TypeCorrect == Spec => []TypeOK
<1>1. Typed => TypeOK
  BY DEF Typed
<1>2. QED
  BY <1>1, TypedAlways, PTL

-----------------------------------------------------------------------------
(* What ports are open as *)

\* A table that asked no more than was asked, and an edge that opened no more.
OnlyAsked == TablesAsked /\ OpenAsAsked

\* A write adds what it asks to what was asked.
LEMMA WriteAsks ==
    ASSUME TablesAsked, UNCHANGED dbVars \/ \E t : Write(t)
    PROVE  Asked(rows)' \subseteq asked' /\ asked \subseteq asked'
BY DEF Write, dbVars, TablesAsked, Asked, Wanted, Made

\* An edge left alone, or with ports closed, is still open as asked.
LEMMA StaysAsked ==
    ASSUME OpenAsAsked, asked \subseteq asked',
           \A p \in Ports : open'[p] \in {open[p], None}
    PROVE  OpenAsAsked'
BY DEF OpenAsAsked

\* What a user does is asked, and leaves the proxy alone.
LEMMA UsersAsk ==
    ASSUME NEW r \in Routes, Users(r)
    PROVE  (\E t : Write(t)) /\ UNCHANGED <<open, proc, disk>>
BY DEF Users, UpdatePort, Create, UpdateAllowed, ResolveTarget, Retarget, SetPublished,
       Delete, Change

\* A route that is applied opens its port as it asked.
LEMMA ApplyKeepsAsked ==
    ASSUME Typed, OnlyAsked, NEW r \in Routes, ApplyPaused(r) \/ ApplyWanted(r)
    PROVE  OnlyAsked'
<1>1. UNCHANGED dbVars \/ \E t : Write(t)
  BY DEF ApplyPaused, ApplyWanted, ListenFailed, setStatus
<1>2. Asked(rows)' \subseteq asked' /\ asked \subseteq asked'
  BY <1>1, WriteAsks DEF OnlyAsked
<1>3. proc'.rows = proc.rows /\ disk' = disk
  BY DEF ApplyPaused, ApplyWanted, Applied, Typed, TypeOK
<1>4. TablesAsked'
  BY <1>2, <1>3 DEF OnlyAsked, TablesAsked, Asked, Wanted, Made
<1>5. CASE ApplyPaused(r)
  BY <1>2, <1>4, <1>5, StaysAsked DEF ApplyPaused, OnlyAsked
<1>6. CASE ApplyWanted(r)
  <2>1. r \in Wanted(proc.rows) /\ proc.rows[r].port \in Ports
    BY <1>6, ApplyWantedOpens, ListenerTypes DEF Row
  <2>2. <<proc.rows[r].port, Listener(proc.rows[r])>> \in asked
    BY <2>1 DEF OnlyAsked, TablesAsked, Asked
  <2>3. \A p \in Ports : \/ open'[p] \in {open[p], None}
                          \/ <<p, open'[p]>> \in asked
    BY <1>6, <2>1, <2>2, ApplyWantedOpens DEF Typed, TypeOK
  <2>4. QED
    BY <1>2, <1>4, <2>3 DEF OnlyAsked, OpenAsAsked
<1>7. QED
  BY <1>5, <1>6

\* An open port is always as one published row asked for it, all of it at once
\* (forwarder.apply: another address is another socket, another target is not).
THEOREM PortsAreAsAsked == Spec => []OpenAsAsked
<1>1. Init => OnlyAsked
  <2>1. SUFFICES ASSUME Init PROVE OnlyAsked
    OBVIOUS
  <2>2. TablesAsked
    BY <2>1, EmptyTable DEF Init, TablesAsked, Down
  <2>3. OpenAsAsked
    BY <2>1 DEF Init, OpenAsAsked
  <2>4. QED
    BY <2>2, <2>3 DEF OnlyAsked
<1>2. Typed /\ OnlyAsked /\ [Next]_vars => OnlyAsked'
  <2>1. SUFFICES ASSUME Typed, OnlyAsked, [Next]_vars PROVE OnlyAsked'
    OBVIOUS
  \* Only what is loaded, saved or restored moves from one table to another.
  <2>2. ASSUME UNCHANGED <<rows, asked>>,
               proc'.rows \in {rows, proc.rows, disk.rows, [r \in Routes |-> NotYet]},
               disk'.rows \in {disk.rows, proc.rows},
               \A p \in Ports : open'[p] \in {open[p], None}
        PROVE  OnlyAsked'
    <3>1. TablesAsked'
      BY <2>1, <2>2, EmptyTable DEF OnlyAsked, TablesAsked
    <3>2. QED
      BY <2>1, <2>2, <3>1, StaysAsked DEF OnlyAsked
  <2>3. ASSUME NEW r \in Routes, Users(r) PROVE OnlyAsked'
    <3>1. (\E t : Write(t)) /\ UNCHANGED <<open, proc, disk>>
      BY <2>3, UsersAsk
    <3>2. Asked(rows)' \subseteq asked' /\ asked \subseteq asked'
      BY <2>1, <3>1, WriteAsks DEF OnlyAsked
    <3>3. TablesAsked'
      BY <2>1, <3>1, <3>2 DEF OnlyAsked, TablesAsked, Asked, Wanted, Made
    <3>4. QED
      BY <2>1, <3>1, <3>2, <3>3, StaysAsked DEF OnlyAsked
  <2>4. CASE Start \/ Load \/ LoadFails \/ Restore \/ ApplyEnds
    BY <2>1, <2>2, <2>4
    DEF Start, Load, LoadFails, KeepOpen, Restore, ApplyEnds, Down, dbVars, Typed, TypeOK
  <2>5. CASE Save \/ CloseUnwanted
    <3>1. UNCHANGED <<rows, asked>> /\ proc'.rows = proc.rows
      BY <2>1, <2>5 DEF Save, CloseUnwanted, dbVars, Typed, TypeOK
    <3>2. disk'.rows \in {disk.rows, proc.rows}
      BY <2>5 DEF Save, CloseUnwanted
    <3>3. \A p \in Ports : open'[p] \in {open[p], None}
      BY <2>5 DEF Save, CloseUnwanted
    <3>4. QED
      BY <2>2, <3>1, <3>2, <3>3
  <2>6. CASE Check \/ Refresh \/ Crash \/ Outage \/ Recover
    BY <2>1, <2>2, <2>6
    DEF Check, Refresh, Crash, Outage, Recover, Down, dbVars, history, Typed, TypeOK
  <2>7. ASSUME NEW p \in Ports, NEW a \in Addresses, TakePort(p, a) \/ LeavePort(p, a)
        PROVE  OnlyAsked'
    BY <2>2, <2>7 DEF TakePort, LeavePort, dbVars
  <2>8. CASE UNCHANGED vars
    BY <2>2, <2>8 DEF vars, dbVars, history
  <2>9. QED
    BY <2>1, <2>3, <2>4, <2>5, <2>6, <2>7, <2>8, ApplyKeepsAsked DEF Next, Sync
<1>3. QED
  BY <1>1, <1>2, TypedAlways, PTL DEF Spec, OnlyAsked

-----------------------------------------------------------------------------
(* What is published all along is open *)

\* A table has a route as the database has it, but for its target.
Like(t, r) ==
    r \in Wanted(t) /\ t[r].port = rows[r].port /\ t[r].zone = rows[r].zone

\* A load takes the steady routes from the database to the listeners, and the
\* copy takes them to a start without it.
Carried ==
    /\ steady \subseteq Wanted(rows)
    /\ proc.pc \in {"save", "close", "apply"} => \A r \in steady : Like(proc.rows, r)
    /\ disk.exists => \A r \in steady : Like(disk.rows, r)
    /\ kept => disk.exists
    /\ OnePerPort(proc.rows) /\ OnePerPort(disk.rows)

Fine(r) ==
    \/ rows[r].port \in refused
    \/ /\ open[rows[r].port] # None
       /\ open[rows[r].port].bind = bindFor(rows[r].zone)

\* Within apply, those it has come to are open, whatever was open before.
Opened == proc.pc = "apply" => \A r \in steady \ proc.todo : Fine(r)

StillOpen == Carried /\ Opened /\ SteadyIsOpen

\* A steady route is where it was, and one of those that were.
StaySteady ==
    \A r \in steady' : /\ r \in steady /\ r \in Wanted(rows)'
                       /\ rows'[r].port = rows[r].port /\ rows'[r].zone = rows[r].zone

LEMMA WritesStaySteady ==
    ASSUME Carried, UNCHANGED <<rows, steady>> \/ \E t : Write(t)
    PROVE  StaySteady
BY DEF Carried, StaySteady, Write

\* What does not move the load or the copy leaves them with the steady routes.
LEMMA CarriedFrame ==
    ASSUME Carried, StaySteady, UNCHANGED <<disk, kept>>, proc'.rows = proc.rows,
           proc'.pc = proc.pc \/ proc'.pc \notin {"save", "close", "apply"}
    PROVE  Carried'
BY DEF Carried, StaySteady, Like, Wanted, Made, OnePerPort

\* What does not move the listeners leaves them open.
LEMMA FineFrame ==
    ASSUME StaySteady, UNCHANGED <<open, refused>>, NEW r \in steady', Fine(r)
    PROVE  Fine(r)'
BY DEF StaySteady, Fine

LEMMA OpenFrame ==
    ASSUME StillOpen, StaySteady, UNCHANGED <<open, refused, kept>>,
           proc'.pc = "apply" => proc.pc = "apply" /\ proc'.todo = proc.todo,
           kept /\ ~proc'.first => ~proc.first
    PROVE  Opened' /\ SteadyIsOpen'
<1>1. \A r \in steady' : r \in steady /\ (Fine(r) => Fine(r)')
  BY FineFrame DEF StaySteady
<1>2. SteadyIsOpen <=> (kept /\ ~proc.first => \A r \in steady : Fine(r))
  BY DEF SteadyIsOpen, Fine
<1>3. SteadyIsOpen' <=> (kept' /\ ~proc'.first => \A r \in steady' : Fine(r)')
  BY DEF SteadyIsOpen, Fine
<1>4. QED
  BY <1>1, <1>2, <1>3 DEF StillOpen, Opened

\* A listener is one: not the None of a closed port.
LEMMA ListenerIsOne == \A l \in [bind : Addresses, to : To] : l # None
<1>1. Addresses \subseteq {"mesh", "loopback", "address", "every"}
  BY DEF Addresses, bindFor
<1>2. QED
  BY <1>1, TcpAssumption

\* Two steady routes are on two ports of what is applied.
LEMMA ApplyStillOpen ==
    ASSUME Typed, StillOpen, NEW r \in Routes, ApplyPaused(r) \/ ApplyWanted(r)
    PROVE  StillOpen'
<1>1. UNCHANGED <<rows, steady>> \/ \E t : Write(t)
  BY DEF ApplyPaused, ApplyWanted, ListenFailed, setStatus, dbVars
<1>2. StaySteady
  BY <1>1, WritesStaySteady DEF StillOpen
<1>3. /\ proc'.pc = "apply" /\ proc.pc = "apply" /\ proc'.rows = proc.rows
      /\ proc'.first = proc.first /\ proc'.todo = proc.todo \ {r} /\ r \in proc.todo
      /\ UNCHANGED <<disk, kept>>
  BY DEF ApplyPaused, ApplyWanted, Applied, Typed, TypeOK
<1>4. Carried'
  BY <1>2, <1>3, CarriedFrame DEF StillOpen
<1>5. \A q \in steady : q \in Wanted(proc.rows) /\ proc.rows[q].port = rows[q].port
                        /\ proc.rows[q].zone = rows[q].zone
  BY <1>3 DEF StillOpen, Carried, Like
<1>6. \A q \in steady' : (q # r => (Fine(q) => Fine(q)')) /\ (q = r => Fine(q)')
  <2>1. CASE ApplyPaused(r)
    <3>1. \A q \in steady : q # r
      BY <1>5, <2>1 DEF ApplyPaused, Wanted
    <3>2. UNCHANGED <<open, refused>>
      BY <2>1 DEF ApplyPaused
    <3>3. QED
      BY <1>2, <3>1, <3>2, FineFrame DEF StaySteady
  <2>2. CASE ApplyWanted(r)
    <3> DEFINE p == proc.rows[r].port
    <3>1. r \in Wanted(proc.rows) /\ r \in Made(proc.rows) /\ proc.rows[r] \in Row
      BY <2>2, ApplyWantedOpens, ListenerTypes DEF Wanted
    <3>2. p \in Ports /\ open \in [Ports -> [bind : Addresses, to : To] \union {None}]
      BY <3>1 DEF Row, Typed, TypeOK
    <3>3. /\ \A s \in Ports \ {p} : open'[s] = open[s]
          /\ refused' \ {p} = refused \ {p}
      BY <2>2, <3>2 DEF ApplyWanted
    <3>4. p \in refused' \/ (open'[p] # None /\ open'[p].bind = bindFor(proc.rows[r].zone))
      <4>1. \A l \in [bind : Addresses, to : To] : l # None
        BY ListenerIsOne
      <4>2. Listener(proc.rows[r]) # None
        BY <3>1, <4>1, ListenerTypes
      <4>3. CASE SameSocket(open[p], proc.rows[r])
        <5>1. open[p] \in [bind : Addresses, to : To]
          BY <3>2, <4>3 DEF SameSocket
        <5>2. open'[p] = [open[p] EXCEPT !.to = proc.rows[r].to]
          BY <2>2, <3>2, <4>3 DEF ApplyWanted
        <5>3. open'[p] = Listener(proc.rows[r])
          BY <4>3, <5>1, <5>2 DEF SameSocket, Listener
        <5>4. QED
          BY <4>2, <5>3 DEF Listener
      <4>4. CASE ~SameSocket(open[p], proc.rows[r])
        <5>1. open'[p] = Listener(proc.rows[r]) \/ p \in refused'
          BY <2>2, <3>2, <4>4 DEF ApplyWanted
        <5>2. QED
          BY <4>2, <5>1 DEF Listener
      <4>5. QED
        BY <4>3, <4>4
    <3>5. ASSUME NEW q \in steady', q # r, Fine(q) PROVE Fine(q)'
      <4>1. rows[q].port # p /\ rows[q].port \in Ports
        BY <1>2, <1>5, <3>1, <3>5 DEF StaySteady, StillOpen, Carried, OnePerPort, Wanted,
           Typed, TypeOK, Made, Row
      <4>2. QED
        BY <1>2, <3>3, <3>5, <4>1 DEF Fine, StaySteady
    <3>6. ASSUME r \in steady' PROVE Fine(r)'
      BY <1>2, <1>5, <3>4, <3>6 DEF Fine, StaySteady
    <3>7. QED
      BY <3>5, <3>6
  <2>3. QED
    BY <2>1, <2>2
<1>7. Opened' /\ SteadyIsOpen'
  <2>1. SteadyIsOpen <=> (kept /\ ~proc.first => \A q \in steady : Fine(q))
    BY DEF SteadyIsOpen, Fine
  <2>2. SteadyIsOpen' <=> (kept' /\ ~proc'.first => \A q \in steady' : Fine(q)')
    BY DEF SteadyIsOpen, Fine
  <2>3. QED
    BY <1>2, <1>3, <1>6, <2>1, <2>2 DEF StillOpen, Opened, StaySteady
<1>8. QED
  BY <1>4, <1>7 DEF StillOpen

\* What a load reads, and what is saved or restored, has the steady routes.
LEMMA LoadStillOpen ==
    ASSUME Typed, StillOpen, Start \/ Load \/ LoadFails \/ Save \/ Restore \/ ApplyEnds
    PROVE  StillOpen'
<1>1. UNCHANGED <<rows, steady, open, refused>> /\ StaySteady
  BY WritesStaySteady
  DEF Start, Load, LoadFails, KeepOpen, Save, Restore, ApplyEnds, dbVars, StillOpen
<1>2. CASE Start \/ LoadFails
  <2>1. /\ proc'.pc \in {"load", "restore", "idle"}
        /\ proc'.first = proc.first \/ proc'.first
        /\ OnePerPort(proc'.rows)
    BY <1>2, EmptyTable DEF Start, Down, LoadFails, Typed, TypeOK, StillOpen, Carried, OnePerPort
  <2>2. Carried'
    BY <1>1, <1>2, <2>1 DEF Start, LoadFails, StillOpen, Carried, Like
  <2>3. Opened' /\ SteadyIsOpen'
    BY <1>1, <1>2, <2>1, OpenFrame DEF Start, LoadFails, dbVars
  <2>4. QED
    BY <2>2, <2>3 DEF StillOpen
<1>3. CASE Load
  <2>1. proc'.pc = "save" /\ proc'.rows = rows /\ proc'.first = proc.first
    BY <1>3 DEF Load, Typed, TypeOK
  <2>2. OnePerPort(rows) /\ \A r \in steady : Like(rows, r)
    BY DEF StillOpen, Carried, Like, Typed, TypeOK, OnePerPort
  <2>3. Carried'
    BY <1>1, <1>3, <2>1, <2>2 DEF Load, StillOpen, Carried, Like
  <2>4. Opened' /\ SteadyIsOpen'
    BY <1>1, <1>3, <2>1, OpenFrame DEF Load, dbVars
  <2>5. QED
    BY <2>3, <2>4 DEF StillOpen
<1>4. CASE Save
  <2>1. proc'.pc = "close" /\ proc'.rows = proc.rows /\ proc'.first = proc.first
    BY <1>4 DEF Save, Typed, TypeOK
  <2>2. disk' = disk \/ (disk'.exists /\ disk'.rows = proc.rows)
    BY <1>4 DEF Save
  <2>3. Carried'
    BY <1>1, <1>4, <2>1, <2>2 DEF Save, StillOpen, Carried, Like
  <2>4. Opened' /\ SteadyIsOpen'
    BY <1>1, <1>4, <2>1, OpenFrame DEF Save, dbVars
  <2>5. QED
    BY <2>3, <2>4 DEF StillOpen
<1>5. CASE Restore
  <2>1. \/ disk.exists /\ proc'.pc = "close" /\ proc'.rows = disk.rows /\ proc'.first = proc.first
        \/ ~disk.exists /\ proc'.pc = "idle" /\ proc'.rows = proc.rows
    BY <1>5 DEF Restore, Typed, TypeOK
  <2>2. Carried'
    BY <1>1, <1>5, <2>1 DEF Restore, StillOpen, Carried, Like
  <2>3. Opened' /\ SteadyIsOpen'
    BY <1>1, <1>5, <2>1, OpenFrame DEF Restore, dbVars, StillOpen, Carried
  <2>4. QED
    BY <2>2, <2>3 DEF StillOpen
<1>6. CASE ApplyEnds
  <2>1. proc'.pc = "idle" /\ proc'.rows = [r \in Routes |-> NotYet]
    BY <1>6 DEF ApplyEnds, Typed, TypeOK
  <2>2. OnePerPort(proc'.rows)
    BY <2>1, EmptyTable DEF OnePerPort
  <2>3. Carried'
    BY <1>1, <1>6, <2>1, <2>2 DEF ApplyEnds, StillOpen, Carried, Like
  <2>4. \A r \in steady : Fine(r)
    BY <1>6 DEF ApplyEnds, StillOpen, Opened
  <2>5. SteadyIsOpen'
    BY <1>1, <2>4 DEF SteadyIsOpen, Fine
  <2>6. QED
    BY <2>1, <2>3, <2>5 DEF StillOpen, Opened
<1>7. QED
  BY <1>2, <1>3, <1>4, <1>5, <1>6

\* Closing what is not wanted closes no steady port, and all of them are to do.
LEMMA CloseStillOpen == ASSUME Typed, StillOpen, CloseUnwanted PROVE StillOpen'
<1>1. UNCHANGED <<rows, steady, refused>> /\ StaySteady
  BY WritesStaySteady DEF CloseUnwanted, dbVars, StillOpen
<1>2. /\ proc.pc = "close" /\ proc'.pc = "apply" /\ proc'.rows = proc.rows
      /\ proc'.first = proc.first
      /\ proc'.todo = {r \in Made(proc.rows) :
                         proc.rows[r].published => r \in Wanted(proc.rows)}
  BY DEF CloseUnwanted, Typed, TypeOK
<1>3. \A r \in steady : r \in Wanted(proc.rows) /\ proc.rows[r].port = rows[r].port
  BY <1>2 DEF StillOpen, Carried, Like
<1>4. Carried'
  BY <1>1, <1>2 DEF CloseUnwanted, StillOpen, Carried, Like
<1>5. Opened'
  BY <1>1, <1>2, <1>3 DEF Opened, Wanted
<1>6. \A r \in steady : rows[r].port \in Ports
  BY DEF StillOpen, Carried, Wanted, Made, Typed, TypeOK, Row
<1>7. \A r \in steady : open'[rows[r].port] = open[rows[r].port]
  BY <1>3, <1>6 DEF CloseUnwanted
<1>8. SteadyIsOpen'
  BY <1>1, <1>2, <1>7 DEF CloseUnwanted, StillOpen, SteadyIsOpen
<1>9. QED
  BY <1>4, <1>5, <1>8 DEF StillOpen

\* A port published all along on one port and zone is open once a load was saved
\* and applied, through outages, retargets, changes of other routes and restarts
\* without the database (sync, restore), unless it could not be listened on.
THEOREM SteadyStaysOpen == Spec => []SteadyIsOpen
<1>1. Init => StillOpen
  <2>1. SUFFICES ASSUME Init PROVE StillOpen
    OBVIOUS
  <2>2. OnePerPort(proc.rows) /\ OnePerPort(disk.rows)
    BY <2>1, EmptyTable DEF Init, Down, OnePerPort
  <2>3. QED
    BY <2>1, <2>2 DEF Init, Down, StillOpen, Carried, Opened, SteadyIsOpen
<1>2. Typed /\ StillOpen /\ [Next]_vars => StillOpen'
  <2>1. SUFFICES ASSUME Typed, StillOpen, [Next]_vars PROVE StillOpen'
    OBVIOUS
  \* What leaves the listeners, the copy and the load's table alone.
  <2>2. ASSUME UNCHANGED <<rows, steady>> \/ \E t : Write(t),
               UNCHANGED <<open, refused, disk, kept>>,
               proc'.rows = proc.rows, proc'.first = proc.first,
               proc' = proc \/ proc'.pc = "load"
        PROVE  StillOpen'
    <3>1. StaySteady
      BY <2>1, <2>2, WritesStaySteady DEF StillOpen
    <3>2. Carried'
      BY <2>1, <2>2, <3>1, CarriedFrame DEF StillOpen
    <3>3. Opened' /\ SteadyIsOpen'
      BY <2>1, <2>2, <3>1, OpenFrame
    <3>4. QED
      BY <3>2, <3>3 DEF StillOpen
  <2>3. ASSUME NEW r \in Routes, Users(r) PROVE StillOpen'
    <3>1. (\E t : Write(t)) /\ UNCHANGED <<open, proc, disk>>
      BY <2>3, UsersAsk
    <3>2. UNCHANGED <<refused, kept>>
      BY <2>3 DEF Users, UpdatePort, Create, UpdateAllowed, ResolveTarget, Retarget,
                  SetPublished, Delete, Change
    <3>3. QED
      BY <2>2, <3>1, <3>2
  <2>4. CASE Check \/ Refresh
    BY <2>1, <2>2, <2>4 DEF Check, Refresh, history, Typed, TypeOK
  <2>5. CASE Outage \/ Recover \/ UNCHANGED vars
    BY <2>2, <2>5 DEF Outage, Recover, vars, dbVars, history
  <2>6. ASSUME NEW p \in Ports, NEW a \in Addresses, TakePort(p, a) \/ LeavePort(p, a)
        PROVE  StillOpen'
    BY <2>2, <2>6 DEF TakePort, LeavePort, dbVars
  <2>7. CASE Crash
    <3>1. OnePerPort(proc'.rows) /\ proc'.pc = "down" /\ proc'.first
      BY <2>7, EmptyTable DEF Crash, Down, OnePerPort
    <3>2. QED
      BY <2>1, <2>7, <3>1 DEF Crash, StillOpen, Carried, Like, Opened, SteadyIsOpen
  <2>8. QED
    BY <2>1, <2>3, <2>4, <2>5, <2>6, <2>7, ApplyStillOpen, LoadStillOpen, CloseStillOpen
    DEF Next, Sync
<1>3. StillOpen => SteadyIsOpen
  BY DEF StillOpen
<1>4. QED
  BY <1>1, <1>2, <1>3, TypedAlways, PTL DEF Spec
=============================================================================
