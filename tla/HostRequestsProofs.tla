------------------------- MODULE HostRequestsProofs -------------------------
(***************************************************************************)
(* Theorems of HostRequests, for any number of requests, handlers, domain  *)
(* changes, failed publishes, restarts, builds and stages: its types; that *)
(* nothing left for the agent is run twice or lost unsaid; and that a      *)
(* domain set whose publish was reported done gets into service.           *)
(***************************************************************************)
EXTENDS HostRequests, TLAPS

-----------------------------------------------------------------------------
(* Strengthenings *)

\* A request that was left has a type, and one that waits was not run yet.
KindsKnown == \A i \in 1 .. asked : kind[i] \in Types
WaitingIsFresh ==
    \A i \in Ids : i \in inbox \/ i > asked => ran[i] = 0 /\ status[i] = None

\* What the agent has taken was left for it, under its type, and no longer waits;
\* until its status is written it was not run either.
TakenWasLeft ==
    \A t \in Types : running[t] # None =>
        /\ running[t] \in 1 .. asked /\ running[t] \notin inbox
        /\ kind[running[t]] = t
TakenIsFresh ==
    \A t \in Types :
        running[t] # None /\ status[running[t]] # "running"
            => status[running[t]] = None /\ ran[running[t]] = 0

Known == TypeOK /\ KindsKnown /\ WaitingIsFresh /\ TakenWasLeft /\ TakenIsFresh

\* An apply that runs has read a set no older than the one in service.
ServedGrows == Started(Apply) => applying >= served

\* An apply asked for waits, runs with what had been left when it was asked for,
\* has put that in service, or was lost.
ApplyBrings(j) ==
    \/ j \in inbox
    \/ running[Apply] = j /\ (Started(Apply) => applying >= brings[j])
    \/ status[j] = "succeeded" /\ served >= brings[j]
    \/ j \in cut
ApplysBring == \A j \in 1 .. asked : kind[j] = Apply => ApplyBrings(j)

\* A publish that was reported done asked for an apply after it left its set.
PromiseIsAsked ==
    promised = 0 \/ \E j \in 1 .. asked : kind[j] = Apply /\ brings[j] >= promised

Delivery == ServedGrows /\ ApplysBring /\ PromiseIsAsked

-----------------------------------------------------------------------------
(* Types *)

\* What every request left so far has is as it was.
SameRequests == UNCHANGED <<asked, kind, inbox, brings>>

LEMMA InitKnown == Init => Known
<1>1. ASSUME Init PROVE TypeOK
  <2>1. left \in Seq(0 .. MaxDomains) /\ Len(left) = 0
    BY <1>1 DEF Init
  <2>2. QED
    BY <1>1, <2>1, BoundsAssumption DEF Init, TypeOK, Ids, Types, Resting
<1>2. Init => KindsKnown /\ WaitingIsFresh /\ TakenWasLeft /\ TakenIsFresh
  BY BoundsAssumption
  DEF Init, KindsKnown, WaitingIsFresh, TakenWasLeft, TakenIsFresh, Ids, Types
<1>3. QED
  BY <1>1, <1>2 DEF Known

\* A request that was left is one of those the bound allows.
LEMMA LeftAreIds ==
    ASSUME Known
    PROVE  /\ asked \in Nat /\ 1 .. asked \subseteq Ids /\ Ids \subseteq Nat
           /\ None \notin Ids /\ Len(left) \in Nat
<1>1. asked \in 0 .. MaxRequests /\ MaxRequests \in Nat /\ None \notin Nat
  BY BoundsAssumption DEF Known, TypeOK
<1>2. Len(left) \in Nat
  BY DEF Known, TypeOK
<1>3. QED
  BY <1>1, <1>2 DEF Ids

\* A request is left under a number that was free.
LEMMA QueueKnown ==
    ASSUME Known, NEW t \in Types, Queue(t), UNCHANGED <<running, status, ran, left>>
    PROVE  /\ asked' \in 0 .. MaxRequests
           /\ kind' \in [Ids -> Types \cup {None}]
           /\ inbox' \subseteq 1 .. asked'
           /\ brings' \in [Ids -> 0 .. Len(left)]
           /\ KindsKnown' /\ WaitingIsFresh' /\ TakenWasLeft' /\ TakenIsFresh'
<1>0. /\ asked \in Nat /\ 1 .. asked \subseteq Ids /\ Ids \subseteq Nat
      /\ None \notin Ids /\ Len(left) \in Nat
  BY LeftAreIds
<1>1. asked + 1 \in Ids /\ asked' = asked + 1
  BY <1>0, BoundsAssumption DEF Queue, Ids
<1>2. /\ kind' = [kind EXCEPT ![asked + 1] = t]
      /\ inbox' = inbox \cup {asked + 1}
  BY DEF Queue
<1>3. kind' \in [Ids -> Types \cup {None}] /\ inbox' \subseteq 1 .. asked'
  BY <1>0, <1>1, <1>2 DEF Known, TypeOK
<1>4. asked' \in 0 .. MaxRequests
  BY <1>0, <1>1, BoundsAssumption DEF Ids
<1>5. brings' \in [Ids -> 0 .. Len(left)]
  <2>1. (IF t = Apply THEN Len(left) ELSE 0) \in 0 .. Len(left)
    BY <1>0
  <2>2. brings \in [Ids -> 0 .. Len(left)]
    BY DEF Known, TypeOK
  <2>3. QED
    BY <2>1, <2>2 DEF Queue
<1>6. \A i \in 1 .. asked : kind'[i] = kind[i]
  BY <1>0, <1>1, <1>2 DEF Known, TypeOK
<1>7. kind'[asked + 1] = t
  BY <1>1, <1>2 DEF Known, TypeOK
<1>8. KindsKnown'
  BY <1>0, <1>1, <1>6, <1>7 DEF KindsKnown, Known
<1>9. WaitingIsFresh'
  BY <1>0, <1>1, <1>2 DEF WaitingIsFresh, Known
<1>10. TakenWasLeft' /\ TakenIsFresh'
  BY <1>0, <1>1, <1>2, <1>6 DEF TakenWasLeft, TakenIsFresh, Known
<1>11. QED
  BY <1>3, <1>4, <1>5, <1>8, <1>9, <1>10

\* The requests are as they were: so is what is known of them.
LEMMA RequestsKnown ==
    ASSUME Known, SameRequests, UNCHANGED <<running, status, ran>>
    PROVE  KindsKnown' /\ WaitingIsFresh' /\ TakenWasLeft' /\ TakenIsFresh'
BY DEF Known, SameRequests, KindsKnown, WaitingIsFresh, TakenWasLeft, TakenIsFresh

\* What the API does keeps the types.
LEMMA ApiKeepsKnown ==
    ASSUME Known,
           \/ \E t \in Stages : RequestStage(t)
           \/ \E h \in Handlers : ChangeDomain(h) \/ ReadDomains(h) \/ LeaveDesired(h)
                                  \/ AskToApply(h) \/ PublishFails(h)
           \/ ApiRestarts
           \/ CheckBuilds \/ AskForGC
           \/ \E b \in Builds : BuildStep(b)
    PROVE  Known'
<1> USE DEF agentVars, setVars, edgeVars, gcVars, reqVars
<1>0. TypeOK /\ MaxFailures \in Nat /\ MaxDomains \in Nat /\ Len(left) \in Nat
  BY BoundsAssumption DEF Known, TypeOK
<1>1. ASSUME NEW t \in Stages, RequestStage(t) PROVE Known'
  <2>1. Queue(t) /\ t \in Types
    BY <1>1 DEF RequestStage, Types
  <2>2. QED
    BY <1>1, <2>1, QueueKnown DEF RequestStage, Known, TypeOK
<1>2. ASSUME NEW h \in Handlers, ChangeDomain(h) PROVE Known'
  <2>1. domains' \in 0 .. MaxDomains
    BY <1>0, <1>2 DEF ChangeDomain, TypeOK
  <2>2. QED
    BY <1>0, <1>2, <2>1, RequestsKnown DEF ChangeDomain, Known, TypeOK, SameRequests
<1>3. ASSUME NEW h \in Handlers, ReadDomains(h) PROVE Known'
  BY <1>0, <1>3, RequestsKnown DEF ReadDomains, Known, TypeOK, SameRequests
<1>4. ASSUME NEW h \in Handlers, LeaveDesired(h) PROVE Known'
  <2>1. left \in Seq(0 .. MaxDomains) /\ publishers[h].set \in 0 .. MaxDomains
    BY <1>0 DEF TypeOK
  <2>2. left' \in Seq(0 .. MaxDomains) /\ Len(left') = Len(left) + 1
    BY <1>4, <2>1 DEF LeaveDesired
  <2>3. 0 .. Len(left) \subseteq 0 .. Len(left') /\ Len(left) + 1 \in 0 .. Len(left')
    BY <1>0, <2>2
  <2>4. publishers' \in [Handlers -> [pc : {"idle", "read", "write", "queue"},
                                      set : 0 .. MaxDomains, no : 0 .. Len(left')]]
    <3>1. publishers \in [Handlers -> [pc : {"idle", "read", "write", "queue"},
                                       set : 0 .. MaxDomains, no : 0 .. Len(left)]]
      BY <1>0 DEF TypeOK
    <3>2. publishers' = [publishers EXCEPT ![h] =
                           [pc |-> "queue", set |-> 0, no |-> Len(left) + 1]]
      BY <1>4 DEF LeaveDesired
    <3>3. 0 \in 0 .. MaxDomains
      BY <1>0
    <3>4. QED
      BY <2>3, <3>1, <3>2, <3>3
  <2>5. brings' \in [Ids -> 0 .. Len(left')]
    BY <1>0, <1>4, <2>3 DEF LeaveDesired, TypeOK
  <2>6. {applying', served', promised'} \subseteq 0 .. Len(left')
    BY <1>0, <1>4, <2>3 DEF LeaveDesired, TypeOK
  <2>7. TypeOK'
    BY <1>0, <1>4, <2>2, <2>4, <2>5, <2>6 DEF LeaveDesired, TypeOK
  <2>8. QED
    BY <1>4, <2>7, RequestsKnown DEF LeaveDesired, Known, SameRequests
<1>5. ASSUME NEW h \in Handlers, AskToApply(h) PROVE Known'
  <2>1. publishers' \in [Handlers -> [pc : {"idle", "read", "write", "queue"},
                                      set : 0 .. MaxDomains, no : 0 .. Len(left)]]
    BY <1>0, <1>5 DEF AskToApply, Resting, TypeOK
  <2>2. CASE reporting
    <3>1. promised' \in 0 .. Len(left)
      BY <1>0, <1>5, <2>2 DEF AskToApply, Later, TypeOK
    <3>2. QED
      BY <1>0, <1>5, <2>1, <2>2, <3>1, QueueKnown DEF AskToApply, Types, Known, TypeOK
  <2>3. CASE ~reporting
    BY <1>0, <1>5, <2>1, <2>3, RequestsKnown
    DEF AskToApply, NothingQueued, Known, TypeOK, SameRequests
  <2>4. QED
    BY <2>2, <2>3
<1>6. ASSUME NEW h \in Handlers, PublishFails(h) PROVE Known'
  BY <1>0, <1>6, RequestsKnown DEF PublishFails, Resting, Known, TypeOK, SameRequests
<1>7. CASE ApiRestarts
  BY <1>0, <1>7, RequestsKnown DEF ApiRestarts, Resting, Known, TypeOK, SameRequests
<1>8. CASE CheckBuilds
  BY <1>0, <1>8, RequestsKnown DEF CheckBuilds, Known, TypeOK, SameRequests
<1>9. CASE AskForGC
  BY <1>9, QueueKnown DEF AskForGC, Types, Known, TypeOK
<1>10. ASSUME NEW b \in Builds, BuildStep(b) PROVE Known'
  BY <1>0, <1>10, RequestsKnown DEF BuildStep, Known, TypeOK, SameRequests
<1>11. QED
  BY <1>1, <1>2, <1>3, <1>4, <1>5, <1>6, <1>7, <1>8, <1>9, <1>10

\* What is known of what the agent takes, starts and ends.
LEMMA TakeKnown == ASSUME Known, NEW i \in Ids, Take(i) PROVE Known'
<1>1. TypeOK /\ i \in 1 .. asked /\ kind[i] \in Types /\ running[kind[i]] = None
  BY DEF Take, Known, TypeOK, KindsKnown
<1>2. /\ running' = [running EXCEPT ![kind[i]] = i] /\ inbox' = inbox \ {i}
      /\ UNCHANGED <<asked, kind, status, ran, cut, brings, agentVars, edgeVars, gcVars>>
  BY DEF Take
<1>3. TypeOK'
  BY <1>1, <1>2 DEF TypeOK, agentVars, edgeVars, setVars, gcVars
<1>4. \A t \in Types : running'[t] = IF t = kind[i] THEN i ELSE running[t]
  BY <1>1, <1>2 DEF TypeOK
<1>5. KindsKnown' /\ WaitingIsFresh'
  BY <1>2 DEF Known, KindsKnown, WaitingIsFresh
<1>6. TakenWasLeft'
  BY <1>1, <1>2, <1>4 DEF Known, TakenWasLeft
<1>7. TakenIsFresh'
  <2>1. ran[i] = 0 /\ status[i] = None
    BY DEF Take, Known, WaitingIsFresh
  <2>2. QED
    BY <1>2, <1>4, <2>1 DEF Known, TakenIsFresh
<1>8. QED
  BY <1>3, <1>5, <1>6, <1>7 DEF Known

\* No two types have the same request, and none waits.
LEMMA TakenApart ==
    ASSUME Known, NEW t \in Types, running[t] # None
    PROVE  /\ running[t] \in Ids /\ running[t] \in 1 .. asked
           /\ running[t] \notin inbox /\ kind[running[t]] = t
           /\ \A u \in Types : u # t => running[u] # running[t]
BY LeftAreIds DEF Known, TakenWasLeft

LEMMA StartKnown == ASSUME Known, NEW t \in Types, Start(t) PROVE Known'
<1>0. asked \in Nat /\ Len(left) \in Nat
  BY LeftAreIds
<1>1. /\ running[t] \in Ids /\ running[t] \in 1 .. asked
      /\ running[t] \notin inbox /\ kind[running[t]] = t
      /\ \A u \in Types : u # t => running[u] # running[t]
  BY TakenApart DEF Start
<1>2. /\ status' = [status EXCEPT ![running[t]] = "running"]
      /\ ran' = [ran EXCEPT ![running[t]] = @ + 1]
      /\ applying' \in {applying, Len(left)}
      /\ UNCHANGED <<asked, kind, inbox, running, cut, brings, agentVars, domains, left,
                     served, publishers, failures, promised, gcVars>>
  BY DEF Start
<1>3. ran' \in [Ids -> Nat] /\ status' \in [Ids -> {None, "running", "succeeded", "failed"}]
  BY <1>1, <1>2 DEF Known, TypeOK
<1>4. applying' \in 0 .. Len(left)
  BY <1>0, <1>2 DEF Known, TypeOK
<1>5. TypeOK'
  BY <1>2, <1>3, <1>4 DEF Known, TypeOK, agentVars, gcVars
<1>6. \A i \in Ids : i # running[t] => ran'[i] = ran[i] /\ status'[i] = status[i]
  BY <1>1, <1>2 DEF Known, TypeOK
<1>7. KindsKnown' /\ TakenWasLeft'
  BY <1>2 DEF Known, KindsKnown, TakenWasLeft
<1>8. WaitingIsFresh'
  BY <1>0, <1>1, <1>2, <1>6 DEF Known, WaitingIsFresh
<1>9. TakenIsFresh'
  <2>1. SUFFICES ASSUME NEW u \in Types, running[u] # None, status'[running[u]] # "running"
                 PROVE  status'[running[u]] = None /\ ran'[running[u]] = 0
    BY <1>2 DEF TakenIsFresh
  <2>2. status'[running[t]] = "running"
    BY <1>1, <1>2 DEF Known, TypeOK
  <2>3. "running" # None
    BY BoundsAssumption
  <2>4. QED
    BY <1>1, <1>2, <1>6, <2>1, <2>2, <2>3 DEF Known, TypeOK, TakenIsFresh
<1>10. QED
  BY <1>5, <1>7, <1>8, <1>9 DEF Known

\* What the end of a request leaves, for itself and for the others.
EndedApart(t, outcome) ==
    /\ Started(t)
    /\ running[t] \in Ids /\ running[t] \in 1 .. asked
    /\ running[t] \notin inbox /\ kind[running[t]] = t
    /\ running' = [running EXCEPT ![t] = None]
    /\ status' = [status EXCEPT ![running[t]] = outcome]
    /\ \A u \in Types : running'[u] = IF u = t THEN None ELSE running[u]
    /\ \A u \in Types : u # t => running[u] # running[t]
    /\ \A i \in Ids : status'[i] = IF i = running[t] THEN outcome ELSE status[i]
    /\ UNCHANGED <<asked, kind, inbox, ran, brings, agentVars, domains, left,
                   publishers, failures, promised, gcVars>>
    /\ served' \in {served, applying}
    /\ applying' \in {0, applying}
    /\ t # Apply => served' = served /\ applying' = applying
    /\ t = Apply /\ outcome = "succeeded" => served' = applying
    /\ cut \subseteq cut' /\ cut' \subseteq cut \cup {running[t]}
    /\ outcome = "failed" => running[t] \in cut'

LEMMA FinishApart ==
    ASSUME Known, NEW t \in Types, Finish(t)
    PROVE  \E outcome \in {"succeeded", "failed"} : EndedApart(t, outcome)
<1>1. PICK outcome \in {"succeeded", "failed"} :
        Ends(t, outcome) /\ running' = [running EXCEPT ![t] = None]
  BY DEF Finish
<1>2. /\ running[t] \in Ids /\ running[t] \in 1 .. asked
      /\ running[t] \notin inbox /\ kind[running[t]] = t
      /\ \A u \in Types : u # t => running[u] # running[t]
  BY <1>1, TakenApart DEF Ends, Started
<1>3. \A i \in Ids : status'[i] = IF i = running[t] THEN outcome ELSE status[i]
  BY <1>1, <1>2 DEF Ends, Known, TypeOK
<1>4. \A u \in Types : running'[u] = IF u = t THEN None ELSE running[u]
  BY <1>1 DEF Known, TypeOK
<1>5. EndedApart(t, outcome)
  BY <1>1, <1>2, <1>3, <1>4 DEF Ends, EndedApart
<1>6. QED
  BY <1>5

LEMMA FinishKnown == ASSUME Known, NEW t \in Types, Finish(t) PROVE Known'
<1>1. PICK outcome \in {"succeeded", "failed"} : EndedApart(t, outcome)
  BY FinishApart
<1>2. /\ running[t] \in Ids /\ running[t] \in 1 .. asked
      /\ running[t] \notin inbox /\ kind[running[t]] = t
      /\ \A u \in Types : running'[u] = IF u = t THEN None ELSE running[u]
      /\ \A u \in Types : u # t => running[u] # running[t]
      /\ \A i \in Ids : status'[i] = IF i = running[t] THEN outcome ELSE status[i]
      /\ UNCHANGED <<asked, kind, inbox, ran, brings, agentVars, domains, left,
                     publishers, failures, promised, gcVars>>
      /\ served' \in {served, applying} /\ applying' \in {0, applying}
      /\ cut' \subseteq cut \cup {running[t]}
  BY <1>1 DEF EndedApart
<1>3. asked \in Nat /\ Len(left) \in Nat
  BY LeftAreIds
<1>4. status' = [status EXCEPT ![running[t]] = outcome]
  BY <1>1 DEF EndedApart
<1>5. TypeOK'
  <2>1. running' \in [Types -> Ids \cup {None}]
    BY <1>1 DEF EndedApart, Known, TypeOK
  <2>2. status' \in [Ids -> {None, "running", "succeeded", "failed"}]
    BY <1>2, <1>4 DEF Known, TypeOK
  <2>3. {applying', served', promised'} \subseteq 0 .. Len(left')
    BY <1>2, <1>3 DEF Known, TypeOK
  <2>4. cut' \subseteq Ids
    BY <1>2 DEF Known, TypeOK
  <2>5. QED
    BY <1>2, <2>1, <2>2, <2>3, <2>4 DEF Known, TypeOK, agentVars, gcVars
<1>6. KindsKnown' /\ TakenWasLeft'
  BY <1>2 DEF Known, KindsKnown, TakenWasLeft
<1>7. WaitingIsFresh'
  BY <1>2, <1>3 DEF Known, WaitingIsFresh
<1>8. TakenIsFresh'
  BY <1>2, LeftAreIds DEF Known, TakenIsFresh, TakenWasLeft
<1>9. QED
  BY <1>5, <1>6, <1>7, <1>8 DEF Known

LEMMA AgentKnown ==
    ASSUME Known, AgentStops \/ AgentStarts \/ ReportGoesStale
    PROVE  Known'
<1>1. CASE AgentStops
  <2>1. /\ running' = [t \in Types |-> None] /\ restarts < MaxRestarts
        /\ restarts' = restarts + 1 /\ agent' = FALSE /\ applying' = 0
        /\ cut' = cut \cup {running[t] : t \in {u \in Types : running[u] # None}}
        /\ served' \in {served, applying}
        /\ UNCHANGED <<asked, kind, inbox, status, ran, brings, reporting, domains, left,
                       publishers, failures, promised, gcVars>>
    BY <1>1 DEF AgentStops
  <2>2. cut' \subseteq Ids
    BY <2>1 DEF Known, TypeOK
  <2>3. restarts' \in 0 .. MaxRestarts
    BY <2>1, BoundsAssumption DEF Known, TypeOK
  <2>4. {applying', served', promised'} \subseteq 0 .. Len(left')
    BY <2>1, LeftAreIds DEF Known, TypeOK
  <2>5. running' \in [Types -> Ids \cup {None}]
    BY <2>1
  <2>6. TypeOK'
    BY <2>1, <2>2, <2>3, <2>4, <2>5 DEF Known, TypeOK, gcVars
  <2>7. KindsKnown' /\ WaitingIsFresh' /\ TakenWasLeft' /\ TakenIsFresh'
    BY <2>1 DEF Known, KindsKnown, WaitingIsFresh, TakenWasLeft, TakenIsFresh
  <2>8. QED
    BY <2>6, <2>7 DEF Known
<1>2. CASE AgentStarts
  <2>1. SameRequests /\ UNCHANGED <<running, status, ran>> /\ TypeOK'
    BY <1>2 DEF AgentStarts, reqVars, edgeVars, setVars, gcVars, SameRequests, Known, TypeOK
  <2>2. QED
    BY <2>1, RequestsKnown DEF Known
<1>3. CASE ReportGoesStale
  <2>1. SameRequests /\ UNCHANGED <<running, status, ran>> /\ TypeOK'
    BY <1>3
    DEF ReportGoesStale, reqVars, edgeVars, setVars, gcVars, SameRequests, Known, TypeOK
  <2>2. QED
    BY <2>1, RequestsKnown DEF Known
<1>4. QED
  BY <1>1, <1>2, <1>3

\* Every step keeps the types.
LEMMA NextKeepsKnown == Known /\ [Next]_vars => Known'
<1>1. SUFFICES ASSUME Known, [Next]_vars PROVE Known'
  OBVIOUS
<1>2. CASE Next
  BY <1>1, <1>2, ApiKeepsKnown, TakeKnown, StartKnown, FinishKnown, AgentKnown DEF Next
<1>3. CASE UNCHANGED vars
  <2>1. SameRequests /\ UNCHANGED <<running, status, ran>> /\ TypeOK'
    BY <1>1, <1>3
    DEF vars, reqVars, agentVars, edgeVars, setVars, gcVars, SameRequests, Known, TypeOK
  <2>2. QED
    BY <1>1, <2>1, RequestsKnown DEF Known
<1>4. QED
  BY <1>1, <1>2, <1>3

LEMMA KnownAlways == Spec => []Known
BY InitKnown, NextKeepsKnown, PTL DEF Spec

\* Every variable stays in its range (cmd/host_requests.go, host_requests.go).
THEOREM TypeCorrect == Spec => []TypeOK
<1>1. Known => TypeOK
  BY DEF Known
<1>2. QED
  BY <1>1, KnownAlways, PTL

-----------------------------------------------------------------------------
(* What was left for the agent *)

\* A request is run at most once, however often the agent goes and comes back:
\* its file is removed from the inbox before it is run (requestRunner.check).
THEOREM NoneRunTwice == Spec => []RunOnce
<1>1. Init => RunOnce
  BY DEF Init, RunOnce
<1>2. Known /\ RunOnce /\ [Next]_vars => RunOnce'
  <2>1. SUFFICES ASSUME Known, RunOnce, [Next]_vars PROVE RunOnce'
    OBVIOUS
  <2>2. ASSUME NEW t \in Types, Start(t) PROVE RunOnce'
    <3>1. running[t] \in Ids
      BY <2>1, <2>2, TakenApart DEF Start
    <3>2. ran[running[t]] = 0
      BY <2>1, <2>2 DEF Start, Started, Known, TakenIsFresh
    <3>3. ran' = [ran EXCEPT ![running[t]] = 1]
      BY <2>2, <3>2 DEF Start
    <3>4. QED
      BY <2>1, <3>1, <3>3 DEF RunOnce, Known, TypeOK
  <2>3. CASE UNCHANGED ran
    BY <2>1, <2>3 DEF RunOnce
  <2>4. UNCHANGED ran \/ \E t \in Types : Start(t)
    BY <2>1
    DEF Next, RequestStage, ChangeDomain, ReadDomains, LeaveDesired, AskToApply,
        PublishFails, ApiRestarts, CheckBuilds, AskForGC, BuildStep, Take, Finish, Ends,
        AgentStops, AgentStarts, ReportGoesStale, vars, reqVars
  <2>5. QED
    BY <2>2, <2>3, <2>4
<1>3. QED
  BY <1>1, <1>2, KnownAlways, PTL DEF Spec

\* Where a request may be.
Accounted(i) ==
    \/ i \in inbox
    \/ running[kind[i]] = i
    \/ status[i] \in {"succeeded", "failed"}
    \/ i \in cut

\* A request that was there before one is queued is where it was.
LEMMA QueueAccounts ==
    ASSUME Known, NothingElseLost, NEW t \in Types, Queue(t),
           UNCHANGED <<running, status, cut>>
    PROVE  NothingElseLost'
<1>1. asked' = asked + 1 /\ asked \in Nat /\ asked + 1 \in Ids
  BY BoundsAssumption DEF Queue, Known, TypeOK, Ids
<1>2. SUFFICES ASSUME NEW i \in 1 .. asked + 1 PROVE Accounted(i)'
  BY <1>1 DEF NothingElseLost, Accounted
<1>3. CASE i = asked + 1
  BY <1>3 DEF Queue, Accounted
<1>4. CASE i # asked + 1
  <2>1. i \in 1 .. asked /\ kind'[i] = kind[i]
    BY <1>1, <1>4 DEF Queue, Known, TypeOK, Ids
  <2>2. QED
    BY <2>1 DEF NothingElseLost, Accounted, Queue
<1>5. QED
  BY <1>3, <1>4

\* The steps that neither leave a request, nor take, start or end one.
LEMMA OtherSteps ==
    ASSUME Known, [Next]_vars
    PROVE  \/ SameRequests /\ UNCHANGED <<running, status, cut>>
           \/ \E t \in Types : Queue(t) /\ UNCHANGED <<running, status, cut>>
           \/ \E i \in Ids : Take(i)
           \/ \E t \in Types : Start(t) \/ Finish(t)
           \/ AgentStops
BY DEF Next, RequestStage, ChangeDomain, ReadDomains, LeaveDesired, AskToApply,
       NothingQueued, PublishFails, ApiRestarts, CheckBuilds, AskForGC, BuildStep,
       AgentStarts, ReportGoesStale, vars, reqVars, Types, SameRequests

\* Nothing is lost but with the agent that had taken it: a request left in the
\* inbox waits there, is run, or has its answer (requestRunner.check, run).
THEOREM OnlyLostWithTheAgent == Spec => []NothingElseLost
<1>1. Init => NothingElseLost
  BY DEF Init, NothingElseLost
<1>2. Known /\ NothingElseLost /\ [Next]_vars => NothingElseLost'
  <2>1. SUFFICES ASSUME Known, NothingElseLost, [Next]_vars PROVE NothingElseLost'
    OBVIOUS
  <2>2. CASE SameRequests /\ UNCHANGED <<running, status, cut>>
    BY <2>1, <2>2 DEF NothingElseLost, SameRequests
  <2>3. CASE \E t \in Types : Queue(t) /\ UNCHANGED <<running, status, cut>>
    BY <2>1, <2>3, QueueAccounts
  <2>a. \A j \in 1 .. asked : j \in Ids /\ kind[j] \in Types /\ Accounted(j)
    BY <2>1, LeftAreIds DEF Known, KindsKnown, NothingElseLost, Accounted
  <2>4. ASSUME NEW i \in Ids, Take(i) PROVE NothingElseLost'
    <3>1. SUFFICES ASSUME NEW j \in 1 .. asked PROVE Accounted(j)'
      BY <2>4 DEF Take, NothingElseLost, Accounted
    <3>2. kind[i] \in Types /\ kind[j] \in Types /\ j \in Ids /\ Accounted(j)
      BY <2>1, <2>4, <2>a DEF Take, Known, TypeOK, KindsKnown
    <3>3. \A u \in Types : running'[u] = IF u = kind[i] THEN i ELSE running[u]
      BY <2>1, <2>4, <3>2 DEF Take, Known, TypeOK
    <3>4. running[kind[i]] = None /\ None \notin Ids
      BY <2>1, <2>4, LeftAreIds DEF Take
    <3>5. QED
      BY <2>4, <3>2, <3>3, <3>4 DEF Take, Accounted
  <2>5. ASSUME NEW t \in Types, Start(t) PROVE NothingElseLost'
    <3>1. SUFFICES ASSUME NEW j \in 1 .. asked PROVE Accounted(j)'
      BY <2>5 DEF Start, NothingElseLost, Accounted
    <3>2. /\ j \in Ids /\ Accounted(j) /\ running[t] \in Ids
          /\ running[t] \in 1 .. asked /\ kind[running[t]] = t
      BY <2>1, <2>5, <2>a, TakenApart DEF Start
    <3>3. CASE j = running[t]
      BY <2>5, <3>2, <3>3 DEF Start, Accounted
    <3>4. CASE j # running[t]
      <4>1. status'[j] = status[j]
        BY <2>1, <2>5, <3>2, <3>4 DEF Start, Known, TypeOK
      <4>2. QED
        BY <2>5, <3>2, <4>1 DEF Start, Accounted
    <3>5. QED
      BY <3>3, <3>4
  <2>6. ASSUME NEW t \in Types, Finish(t) PROVE NothingElseLost'
    <3>1. PICK outcome \in {"succeeded", "failed"} : EndedApart(t, outcome)
      BY <2>1, <2>6, FinishApart
    <3>2. SUFFICES ASSUME NEW j \in 1 .. asked PROVE Accounted(j)'
      BY <3>1 DEF EndedApart, NothingElseLost, Accounted
    <3>3. j \in Ids /\ kind[j] \in Types /\ Accounted(j)
      BY <2>a
    <3>4. QED
      BY <3>1, <3>3 DEF EndedApart, Accounted
  <2>7. CASE AgentStops
    <3>1. SUFFICES ASSUME NEW j \in 1 .. asked PROVE Accounted(j)'
      BY <2>7 DEF AgentStops, NothingElseLost, Accounted
    <3>2. j \in Nat /\ kind[j] \in Types /\ Accounted(j)
      BY <2>1, <2>a, LeftAreIds
    <3>3. running[kind[j]] = j => j \in cut'
      BY <2>7, <3>2, BoundsAssumption DEF AgentStops
    <3>4. QED
      BY <2>7, <3>2, <3>3 DEF AgentStops, Accounted
  <2>8. QED
    BY <2>1, <2>2, <2>3, <2>4, <2>5, <2>6, <2>7, OtherSteps
<1>3. QED
  BY <1>1, <1>2, KnownAlways, PTL DEF Spec

-----------------------------------------------------------------------------
(* What a publish promised *)

\* Steps that leave the running apply and what is in service as they were, and at
\* most leave a request or a set.
LEMMA OthersDeliver ==
    ASSUME Known, Delivery,
           UNCHANGED <<running, status, cut, applying, served>>,
           \/ SameRequests /\ promised' = promised
           \/ \E t \in Types :
                /\ Queue(t) /\ left' = left
                /\ \/ promised' = promised
                   \/ t = Apply /\ promised' \in 0 .. Len(left)
    PROVE  Delivery'
<1>0. /\ asked \in Nat /\ 1 .. asked \subseteq Ids /\ None \notin Ids
      /\ Len(left) \in Nat
  BY LeftAreIds
<1>1. ServedGrows'
  BY DEF Delivery, ServedGrows, Started
<1>2. CASE SameRequests /\ promised' = promised
  BY <1>1, <1>2
  DEF Delivery, ApplysBring, ApplyBrings, PromiseIsAsked, SameRequests, Started
<1>3. ASSUME NEW t \in Types, Queue(t), left' = left,
             promised' = promised \/ (t = Apply /\ promised' \in 0 .. Len(left))
      PROVE  Delivery'
  <2>1. asked' = asked + 1 /\ asked + 1 \in Ids
    BY <1>0, <1>3, BoundsAssumption DEF Queue, Ids
  <2>2. /\ \A j \in 1 .. asked : kind'[j] = kind[j] /\ brings'[j] = brings[j]
        /\ kind'[asked + 1] = t
        /\ t = Apply => brings'[asked + 1] = Len(left)
    BY <1>0, <1>3, <2>1 DEF Queue, Known, TypeOK
  <2>3. inbox' = inbox \cup {asked + 1}
    BY <1>3 DEF Queue
  <2>4. ApplysBring'
    <3>1. SUFFICES ASSUME NEW j \in 1 .. asked + 1, kind'[j] = Apply
                   PROVE  ApplyBrings(j)'
      BY <2>1 DEF ApplysBring
    <3>2. CASE j = asked + 1
      BY <2>3, <3>2 DEF ApplyBrings
    <3>3. CASE j # asked + 1
      <4>1. j \in 1 .. asked /\ kind[j] = Apply
        BY <1>0, <2>2, <3>1, <3>3
      <4>2. ApplyBrings(j)
        BY <4>1 DEF Delivery, ApplysBring
      <4>3. QED
        BY <2>2, <2>3, <4>1, <4>2 DEF ApplyBrings, Started
    <3>4. QED
      BY <3>2, <3>3
  <2>5. PromiseIsAsked'
    <3>1. 1 .. asked \subseteq 1 .. asked' /\ asked + 1 \in 1 .. asked'
      BY <1>0, <2>1
    <3>2. CASE promised' = promised
      BY <2>2, <3>1, <3>2 DEF Delivery, PromiseIsAsked
    <3>3. CASE t = Apply /\ promised' \in 0 .. Len(left)
      <4>1. brings'[asked + 1] >= promised' /\ kind'[asked + 1] = Apply
        BY <1>0, <2>2, <3>3
      <4>2. QED
        BY <3>1, <4>1 DEF PromiseIsAsked
    <3>4. QED
      BY <1>3, <3>2, <3>3
  <2>6. QED
    BY <1>1, <2>4, <2>5 DEF Delivery
<1>4. QED
  BY <1>2, <1>3

\* What the API does is one of these.
LEMMA ApiDelivers ==
    ASSUME Known, Delivery,
           \/ \E t \in Stages : RequestStage(t)
           \/ \E h \in Handlers : ChangeDomain(h) \/ ReadDomains(h) \/ LeaveDesired(h)
                                  \/ AskToApply(h) \/ PublishFails(h)
           \/ ApiRestarts \/ CheckBuilds \/ AskForGC
           \/ \E b \in Builds : BuildStep(b)
           \/ AgentStarts \/ ReportGoesStale \/ UNCHANGED vars
    PROVE  Delivery'
<1> USE DEF reqVars, agentVars, setVars, edgeVars, gcVars, SameRequests
<1>1. ASSUME NEW h \in Handlers, AskToApply(h) PROVE Delivery'
  <2>1. UNCHANGED <<running, status, cut, applying, served, left>>
    BY <1>1 DEF AskToApply
  <2>2. CASE reporting
    <3>1. promised' \in 0 .. Len(left)
      <4>1. publishers[h].no \in 0 .. Len(left) /\ promised \in 0 .. Len(left)
        BY DEF Known, TypeOK
      <4>2. QED
        BY <1>1, <2>2, <4>1 DEF AskToApply, Later
    <3>2. Queue(Apply) /\ Apply \in Types
      BY <1>1, <2>2 DEF AskToApply, Types
    <3>3. QED
      BY <2>1, <3>1, <3>2, OthersDeliver
  <2>3. CASE ~reporting
    BY <1>1, <2>1, <2>3, OthersDeliver DEF AskToApply, NothingQueued
  <2>4. QED
    BY <2>2, <2>3
<1>2. ASSUME NEW t \in Stages, RequestStage(t) PROVE Delivery'
  BY <1>2, OthersDeliver DEF RequestStage, Types
<1>3. CASE AskForGC
  BY <1>3, OthersDeliver DEF AskForGC, Types
<1>4. ASSUME NEW h \in Handlers,
             ChangeDomain(h) \/ ReadDomains(h) \/ LeaveDesired(h) \/ PublishFails(h)
      PROVE  Delivery'
  BY <1>4, OthersDeliver DEF ChangeDomain, ReadDomains, LeaveDesired, PublishFails
<1>5. CASE \/ ApiRestarts \/ CheckBuilds \/ (\E b \in Builds : BuildStep(b))
           \/ AgentStarts \/ ReportGoesStale \/ UNCHANGED vars
  BY <1>5, OthersDeliver
  DEF ApiRestarts, CheckBuilds, BuildStep, AgentStarts, ReportGoesStale, vars
<1>6. QED
  BY <1>1, <1>2, <1>3, <1>4, <1>5

LEMMA TakeDelivers == ASSUME Known, Delivery, NEW i \in Ids, Take(i) PROVE Delivery'
<1>1. /\ kind[i] \in Types /\ running[kind[i]] = None /\ None \notin Ids
      /\ i \in inbox /\ 1 .. asked \subseteq Ids
  BY LeftAreIds DEF Take, Known, TypeOK, KindsKnown
<1>2. \A u \in Types : running'[u] = IF u = kind[i] THEN i ELSE running[u]
  BY <1>1 DEF Take, Known, TypeOK
<1>3. UNCHANGED <<asked, kind, status, cut, brings, applying, served, promised>>
  BY DEF Take, edgeVars, setVars
<1>4. inbox' = inbox \ {i}
  BY DEF Take
<1>5. Apply \in Types
  BY DEF Types
\* What has just been taken was not started.
<1>6. status[i] # "running"
  BY <1>1, BoundsAssumption DEF Known, WaitingIsFresh
<1>7. kind[i] = Apply => ~Started(Apply)'
  BY <1>2, <1>3, <1>5, <1>6 DEF Started
<1>8. kind[i] # Apply => running'[Apply] = running[Apply] /\ Started(Apply)' = Started(Apply)
  BY <1>2, <1>3, <1>5 DEF Started
<1>9. ServedGrows'
  BY <1>3, <1>7, <1>8 DEF Delivery, ServedGrows
<1>10. ApplysBring'
  <2>1. SUFFICES ASSUME NEW j \in 1 .. asked, kind[j] = Apply PROVE ApplyBrings(j)'
    BY <1>3 DEF ApplysBring
  <2>2. ApplyBrings(j) /\ j \in Ids
    BY <1>1, <2>1 DEF Delivery, ApplysBring
  <2>3. CASE kind[i] = Apply
    BY <1>1, <1>2, <1>3, <1>4, <1>5, <1>7, <2>2, <2>3 DEF ApplyBrings
  <2>4. CASE kind[i] # Apply
    BY <1>3, <1>4, <1>8, <2>1, <2>2, <2>4 DEF ApplyBrings
  <2>5. QED
    BY <2>3, <2>4
<1>11. PromiseIsAsked'
  BY <1>3 DEF Delivery, PromiseIsAsked
<1>12. QED
  BY <1>9, <1>10, <1>11 DEF Delivery

LEMMA StartDelivers == ASSUME Known, Delivery, NEW t \in Types, Start(t) PROVE Delivery'
<1>1. /\ running[t] \in Ids /\ running[t] \in 1 .. asked
      /\ running[t] \notin inbox /\ kind[running[t]] = t
      /\ \A u \in Types : u # t => running[u] # running[t]
  BY TakenApart DEF Start
<1>2. UNCHANGED <<asked, kind, inbox, running, cut, brings, served, promised>>
  BY DEF Start
<1>3. /\ \A i \in Ids : status'[i] = IF i = running[t] THEN "running" ELSE status[i]
      /\ status[running[t]] = None /\ None \notin {"succeeded", "failed"}
      /\ Apply \in Types /\ 1 .. asked \subseteq Ids
      /\ Len(left) \in Nat
  BY <1>1, LeftAreIds, BoundsAssumption
  DEF Start, Started, Known, TypeOK, TakenIsFresh, Types
<1>4. /\ served \in 0 .. Len(left) /\ applying \in 0 .. Len(left)
      /\ \A j \in 1 .. asked : brings[j] \in 0 .. Len(left)
  BY <1>3 DEF Known, TypeOK
<1>5. CASE t = Apply
  <2>1. applying' = Len(left)
    BY <1>5 DEF Start
  <2>2. ServedGrows'
    BY <1>2, <1>3, <1>4, <2>1 DEF ServedGrows
  <2>3. ApplysBring'
    <3>1. SUFFICES ASSUME NEW j \in 1 .. asked, kind[j] = Apply PROVE ApplyBrings(j)'
      BY <1>2 DEF ApplysBring
    <3>2. ApplyBrings(j) /\ brings[j] \in 0 .. Len(left) /\ j \in Ids
      BY <1>3, <1>4, <3>1 DEF Delivery, ApplysBring
    <3>3. CASE j = running[Apply]
      BY <1>2, <1>3, <2>1, <3>2, <3>3 DEF ApplyBrings
    <3>4. CASE j # running[Apply]
      BY <1>2, <1>3, <1>5, <3>2, <3>4 DEF ApplyBrings
    <3>5. QED
      BY <3>3, <3>4
  <2>4. QED
    BY <1>2, <2>2, <2>3 DEF Delivery, PromiseIsAsked
<1>6. CASE t # Apply
  <2>1. applying' = applying
    BY <1>6 DEF Start
  <2>2. Started(Apply)' = Started(Apply)
    <3>1. CASE running[Apply] = None
      BY <1>2, <3>1 DEF Started
    <3>2. CASE running[Apply] # None
      BY <1>1, <1>2, <1>3, <1>6, <3>2, TakenApart DEF Started
    <3>3. QED
      BY <3>1, <3>2
  <2>3. ServedGrows'
    BY <1>2, <2>1, <2>2 DEF Delivery, ServedGrows
  <2>4. ApplysBring'
    <3>1. SUFFICES ASSUME NEW j \in 1 .. asked, kind[j] = Apply PROVE ApplyBrings(j)'
      BY <1>2 DEF ApplysBring
    <3>2. ApplyBrings(j) /\ j \in Ids /\ j # running[t]
      BY <1>1, <1>3, <1>6, <3>1 DEF Delivery, ApplysBring
    <3>3. QED
      BY <1>2, <1>3, <2>1, <2>2, <3>2 DEF ApplyBrings
  <2>5. QED
    BY <1>2, <2>3, <2>4 DEF Delivery, PromiseIsAsked
<1>7. QED
  BY <1>5, <1>6

LEMMA FinishDelivers == ASSUME Known, Delivery, NEW t \in Types, Finish(t) PROVE Delivery'
<1>1. PICK outcome \in {"succeeded", "failed"} : EndedApart(t, outcome)
  BY FinishApart
<1>2. /\ UNCHANGED <<asked, kind, inbox, brings, promised>>
      /\ Apply \in Types /\ 1 .. asked \subseteq Ids /\ None \notin Ids
  BY <1>1, LeftAreIds DEF EndedApart, Types
<1>3. served \in Nat /\ applying \in Nat /\ \A j \in Ids : brings[j] \in Nat
  BY DEF Known, TypeOK
<1>4. CASE t = Apply
  <2>1. ~Started(Apply)' /\ served' >= served /\ Started(Apply)
    BY <1>1, <1>2, <1>3, <1>4 DEF EndedApart, Started, Delivery, ServedGrows
  <2>2. ASSUME NEW j \in 1 .. asked, kind[j] = Apply PROVE ApplyBrings(j)'
    <3>1. ApplyBrings(j) /\ j \in Ids
      BY <1>2, <2>2 DEF Delivery, ApplysBring
    <3>2. CASE j = running[Apply]
      BY <1>1, <1>2, <1>3, <1>4, <2>1, <3>1, <3>2, BoundsAssumption
      DEF EndedApart, ApplyBrings, Started
    <3>3. CASE j # running[Apply]
      <4>1. status'[j] = status[j] /\ inbox' = inbox /\ cut \subseteq cut'
        BY <1>1, <1>4, <3>1, <3>3 DEF EndedApart
      <4>2. QED
        BY <1>2, <1>3, <2>1, <3>1, <3>3, <4>1, <1>1 DEF ApplyBrings, EndedApart
    <3>4. QED
      BY <3>2, <3>3
  <2>3. QED
    BY <1>2, <2>1, <2>2 DEF Delivery, ServedGrows, ApplysBring, PromiseIsAsked
<1>5. CASE t # Apply
  <2>1. running'[Apply] = running[Apply] /\ served' = served /\ applying' = applying
    BY <1>1, <1>2, <1>5 DEF EndedApart
  <2>2. Started(Apply)' = Started(Apply)
    <3>1. CASE running[Apply] = None
      BY <2>1, <3>1 DEF Started
    <3>2. CASE running[Apply] # None
      BY <1>1, <1>2, <1>5, <2>1, <3>2, TakenApart DEF Started, EndedApart
    <3>3. QED
      BY <3>1, <3>2
  <2>3. ASSUME NEW j \in 1 .. asked, kind[j] = Apply PROVE ApplyBrings(j)'
    <3>1. ApplyBrings(j) /\ j \in Ids /\ j # running[t]
      BY <1>1, <1>2, <1>5, <2>3 DEF Delivery, ApplysBring, EndedApart
    <3>2. status'[j] = status[j] /\ cut \subseteq cut'
      BY <1>1, <3>1 DEF EndedApart
    <3>3. QED
      BY <1>2, <2>1, <2>2, <3>1, <3>2 DEF ApplyBrings
  <2>4. QED
    BY <1>2, <2>1, <2>2, <2>3 DEF Delivery, ServedGrows, ApplysBring, PromiseIsAsked
<1>6. QED
  BY <1>4, <1>5

LEMMA StopDelivers == ASSUME Known, Delivery, AgentStops PROVE Delivery'
<1>1. /\ running' = [t \in Types |-> None] /\ applying' = 0
      /\ cut' = cut \cup {running[t] : t \in {u \in Types : running[u] # None}}
      /\ served' \in {served} \cup (IF Started(Apply) THEN {applying} ELSE {})
      /\ UNCHANGED <<asked, kind, inbox, status, brings, promised>>
      /\ Apply \in Types /\ 1 .. asked \subseteq Ids /\ None \notin Ids
  BY LeftAreIds DEF AgentStops, Types
<1>2. served \in Nat /\ applying \in Nat /\ \A j \in Ids : brings[j] \in Nat
  BY DEF Known, TypeOK
<1>3. ~Started(Apply)' /\ served' >= served /\ served' \in Nat
  BY <1>1, <1>2 DEF Started, Delivery, ServedGrows
<1>4. ASSUME NEW j \in 1 .. asked, kind[j] = Apply PROVE ApplyBrings(j)'
  <2>1. ApplyBrings(j) /\ j \in Ids
    BY <1>1, <1>4 DEF Delivery, ApplysBring
  <2>2. running[Apply] = j => j \in cut'
    BY <1>1, <2>1
  <2>3. QED
    BY <1>1, <1>2, <1>3, <2>1, <2>2 DEF ApplyBrings
<1>5. QED
  BY <1>1, <1>3, <1>4 DEF Delivery, ServedGrows, ApplysBring, PromiseIsAsked

\* A domain set whose publish was reported done gets into service, or a later one
\* does, unless the applies asked for it failed or went with the agent: for any
\* number of handlers publishing at once, failed publishes and restarts
\* (PublishEdge, domainApply, requestRunner).
THEOREM PublishedGetsServed == Spec => []PublishedIsServed
<1>1. Init => Delivery
  BY DEF Init, Delivery, ServedGrows, ApplysBring, PromiseIsAsked, Started, Types
<1>2. Known /\ Delivery /\ [Next]_vars => Delivery'
  BY ApiDelivers, TakeDelivers, StartDelivers, FinishDelivers, StopDelivers DEF Next
<1>3. Known /\ Delivery => PublishedIsServed
  <2>1. SUFFICES ASSUME Known, Delivery, promised # 0 PROVE PublishedIsServed
    BY DEF PublishedIsServed, Known, TypeOK
  <2>2. PICK j \in 1 .. asked : kind[j] = Apply /\ brings[j] >= promised
    BY <2>1 DEF Delivery, PromiseIsAsked
  <2>3. ApplyBrings(j) /\ j \in Ids /\ None \notin Ids
    BY <2>1, <2>2, LeftAreIds DEF Delivery, ApplysBring
  <2>4. served \in Nat /\ applying \in Nat /\ promised \in Nat /\ brings[j] \in Nat
    BY <2>1, <2>3 DEF Known, TypeOK
  <2>5. QED
    BY <2>2, <2>3, <2>4 DEF ApplyBrings, PublishedIsServed
<1>4. QED
  BY <1>1, <1>2, <1>3, KnownAlways, PTL DEF Spec
=============================================================================
