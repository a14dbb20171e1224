-------------------------- MODULE HostUpgradeProofs --------------------------
(***************************************************************************)
(* What HostUpgrade keeps for any number of requests, callers, channels,   *)
(* services, files, releases, faults, crashes and switches: its types;     *)
(* that no request the API accepted is written over by another; what an    *)
(* upgrade that ended left behind, when no other was changing the host,    *)
(* which none is where every upgrade takes the lock; and that the edge      *)
(* serves what is on disk, or somebody was told that it does not.          *)
(***************************************************************************)
EXTENDS HostUpgrade, TLAPS

\* What every step needs to know of the constants.
LEMMA Bounds ==
    /\ MaxRelease \in Nat /\ MaxDomains \in Nat /\ MaxRequests \in Nat
    /\ MaxFaults \in Nat /\ ".env" \in Files /\ "compose" \in Files
    /\ "compose" # ".env" /\ "caddy" \in Services /\ None \notin Channels
    /\ None \notin Release
BY BoundsAssumption DEF Files, Release

LEMMA IdleIsOne == Idle \in Run
<1>1. 0 \in Release
  BY Bounds DEF Release
<1>2. [s \in Services |-> None] \in [Services -> Image \cup {None}]
  OBVIOUS
<1>3. QED
  BY <1>1, <1>2 DEF Run, Idle

LEMMA TypeInit == Init => TypeOK
<1> SUFFICES ASSUME Init PROVE TypeOK
  OBVIOUS
<1>1. 0 \in Release /\ 0 \in 0 .. MaxDomains /\ 0 \in 0 .. MaxRequests
  BY Bounds DEF Release
<1>2. edge \in Edge
  BY <1>1 DEF Init, Edge
<1>3. RunsOK
  BY IdleIsOne DEF Init, RunsOK, Idle
<1>4. disk \in Configs /\ up \in [Services -> Container]
  <2>1. PICK c \in Channels :
          /\ disk = [f \in Files |-> IF f = ".env" THEN c ELSE 0]
          /\ up = [s \in Services |-> [channel |-> c, image |-> 0, conf |-> 0]]
    BY DEF Init
  <2>2. QED
    BY <1>1, <2>1 DEF Configs, Holds, Container
<1>5. /\ latest \in [Channels -> Release]
      /\ registry \in [Channels -> [Services -> Release]]
      /\ tags \in [Channels -> [Services -> Release]]
      /\ backup \in [Files -> Release \cup Channels \cup {None}]
      /\ \A f \in Files : backup[f] \in Holds(f) \cup {None}
  BY <1>1 DEF Init
<1>6. QED
  BY <1>1, <1>2, <1>3, <1>4, <1>5 DEF Init, TypeOK

(***************************************************************************)
(* Types.                                                                  *)
(***************************************************************************)
Points == Beating \cup {"idle", "lock", "take", "announce"}
Outcomes == {None, "unchanged", "putback", "rolledback", "stuck", "unhealthy",
             "upgraded"}
Early == {"idle", "lock", "take"}

\* A run goes on, one fails, one ends, and one changes in some other way.
LEMMA RunChanges ==
    ASSUME RunsOK, NEW r \in Runners, NEW x \in Run,
           x.pc \notin Early => x.channel \in Channels,
           runs' = [runs EXCEPT ![r] = x]
    PROVE  RunsOK'
BY DEF RunsOK, Early

LEMMA RunEnds ==
    ASSUME RunsOK, NEW r \in Runners, runs' = [runs EXCEPT ![r] = Idle]
    PROVE  RunsOK'
BY IdleIsOne, RunChanges DEF Idle, Early

LEMMA GoToType ==
    ASSUME RunsOK, NEW r \in Runners, NEW pc \in Points, GoTo(r, pc),
           runs[r].pc \notin Early \/ pc \in Early
    PROVE  RunsOK'
<1>1. [runs[r] EXCEPT !.pc = pc] \in Run
  BY DEF RunsOK, Run, Points
<1>2. runs' = [runs EXCEPT ![r] = [runs[r] EXCEPT !.pc = pc]]
  BY DEF GoTo
<1>3. /\ [runs[r] EXCEPT !.pc = pc].pc = pc
      /\ [runs[r] EXCEPT !.pc = pc].channel = runs[r].channel
  BY DEF RunsOK, Run
<1>4. QED
  BY <1>1, <1>2, <1>3, RunChanges DEF RunsOK, Early

LEMMA FailsType ==
    ASSUME RunsOK, faults \in Nat, NEW r \in Runners, NEW pc \in Points,
           NEW outcome \in Outcomes, Fails(r, pc, outcome), runs[r].pc \notin Early
    PROVE  RunsOK' /\ faults' \in Nat
<1> DEFINE x == [runs[r] EXCEPT !.pc = pc, !.outcome = outcome]
<1>1. x \in Run /\ x.channel = runs[r].channel
  BY DEF RunsOK, Run, Points, Outcomes
<1>2. runs' = [runs EXCEPT ![r] = x]
  BY DEF Fails
<1>3. runs[r].channel \in Channels
  BY DEF RunsOK, Early
<1>4. RunsOK'
  BY <1>1, <1>2, <1>3, RunChanges
<1>5. faults' \in Nat
  BY DEF Fails
<1>6. QED
  BY <1>4, <1>5

\* A step of the API, the switch or the agent.
LEMMA TypeOfRequests ==
    ASSUME TypeOK, mutex # None => asked < MaxRequests,
           \/ \E c \in Callers : CheckRequest(c) \/ WriteRequest(c)
           \/ GoStale \/ StopUpdater \/ DiscardPending \/ StartUpdater
           \/ AgentStarts \/ Launch
    PROVE  TypeOK'
<1> USE DEF published, budgets, vars, switchVars, stackVars, edgeVars, domainVars, reqVars
<1>a. RunsOK /\ UNCHANGED runs => RunsOK'
  BY DEF RunsOK
<1>1. ASSUME NEW c \in Callers, CheckRequest(c)
      PROVE  TypeOK'
  BY <1>a, <1>1 DEF TypeOK, CheckRequest
<1>2. ASSUME NEW c \in Callers, WriteRequest(c)
      PROVE  TypeOK'
  <2>1. asked' \in 0 .. MaxRequests /\ request' \in 1 .. asked'
    BY <1>2, Bounds, BoundsAssumption DEF TypeOK, WriteRequest
  <2>2. (taken \cup discarded)' \subseteq (1 .. asked)'
    BY <1>2 DEF TypeOK, WriteRequest
  <2>3. QED
    BY <1>a, <1>2, <2>1, <2>2 DEF TypeOK, WriteRequest
<1>3. ASSUME GoStale PROVE TypeOK'
  BY <1>a, <1>3 DEF TypeOK, GoStale
<1>4. ASSUME StopUpdater PROVE TypeOK'
  <2>1. stops' \in Nat
    BY <1>4 DEF TypeOK, StopUpdater
  <2>2. marker' \in BOOLEAN /\ stopping' \in BOOLEAN
    BY <1>4 DEF StopUpdater
  <2>3. UNCHANGED <<published, cli, agent, reqVars, status, stale, lock, runs,
                    stackVars, edgeVars, domainVars, budgets>>
    BY <1>4 DEF StopUpdater
  <2>4. QED
    BY <1>a, <2>1, <2>2, <2>3 DEF TypeOK
<1>5. ASSUME DiscardPending PROVE TypeOK'
  <2>1. (taken \cup discarded)' \subseteq (1 .. asked)'
    BY <1>5 DEF TypeOK, DiscardPending
  <2>2. stopping' \in BOOLEAN /\ request' = None
    BY <1>5 DEF DiscardPending
  <2>3. UNCHANGED <<published, cli, marker, stops, agent, mutex, asked, taken,
                    status, stale, lock, runs, stackVars, edgeVars,
                    domainVars, budgets>>
    BY <1>5 DEF DiscardPending
  <2>4. QED
    BY <1>a, <2>1, <2>2, <2>3 DEF TypeOK
<1>6. ASSUME StartUpdater PROVE TypeOK'
  BY <1>a, <1>6, Bounds DEF TypeOK, StartUpdater, RestartAgent
<1>7. ASSUME AgentStarts PROVE TypeOK'
  BY <1>a, <1>7 DEF TypeOK, AgentStarts
<1>8. ASSUME Launch PROVE TypeOK'
  <2>1. [Idle EXCEPT !.pc = "lock"] \in Run /\ [Idle EXCEPT !.pc = "lock"].pc \in Early
    BY IdleIsOne DEF Run, Early
  <2>2. RunsOK'
    BY <1>8, <2>1, RunChanges DEF TypeOK, Launch
  <2>3. QED
    BY <1>8, <2>2 DEF TypeOK, Launch
<1>9. QED
  BY <1>1, <1>2, <1>3, <1>4, <1>5, <1>6, <1>7, <1>8

\* The steps of runUpgrade.
LEMMA TypeOfRun ==
    ASSUME TypeOK, NEW r \in Runners,
           \/ TakeLock(r) \/ TakeRequest(r) \/ Announce(r) \/ UpdateCLI(r)
           \/ WaitHealthy(r) \/ EndRun(r) \/ RunByHand(r) \/ KillRun(r)
    PROVE  TypeOK'
<1> USE DEF published, budgets, vars, switchVars, stackVars, edgeVars, domainVars, reqVars
<1>0. runs[r] \in Run /\ RunsOK
  BY DEF TypeOK, RunsOK
<1>1. ASSUME TakeLock(r) PROVE TypeOK'
  <2>1. lock' \in Runners \cup {None}
    BY <1>1 DEF TypeOK, TakeLock
  <2>2. RunsOK'
    BY <1>0, <1>1, GoToType, RunEnds DEF TakeLock, Points, Early
  <2>3. QED
    BY <1>1, <2>1, <2>2 DEF TypeOK, TakeLock
<1>2. ASSUME TakeRequest(r) PROVE TypeOK'
  <2>1. request \in Ids \cup {None}
    BY Bounds DEF TypeOK, Ids
  <2>2. CASE r = "unit" /\ request = None
    <3>1. RunsOK'
      BY <1>0, <1>2, <2>2, RunEnds DEF TakeRequest
    <3>2. QED
      BY <1>2, <2>2, <3>1 DEF TypeOK, TakeRequest, Unlocked
  <2>3. CASE ~(r = "unit" /\ request = None)
    <3>1. PICK c \in Channels :
            runs' = [runs EXCEPT ![r] = [@ EXCEPT
                     !.pc = "announce", !.channel = c,
                     !.id = IF r = "unit" THEN request ELSE 0]]
      BY <1>2, <2>3 DEF TakeRequest
    <3> DEFINE x == [runs[r] EXCEPT !.pc = "announce", !.channel = c,
                                    !.id = IF r = "unit" THEN request ELSE 0]
    <3>2. x \in Run /\ x.channel = c
      BY <1>0, <2>1 DEF Run
    <3>3. runs' = [runs EXCEPT ![r] = x]
      BY <3>1
    <3>4. RunsOK'
      BY <1>0, <3>2, <3>3, RunChanges
    <3>5. taken' \cup discarded' \subseteq 1 .. asked /\ request' = None /\ lock' = lock
      BY <1>2, <2>3 DEF TypeOK, TakeRequest
    <3>6. UNCHANGED <<published, cli, switchVars, agent, mutex, asked, status,
                      stale, stackVars, edgeVars, domainVars, budgets>>
      BY <1>2 DEF TakeRequest
    <3>7. QED
      BY <3>4, <3>5, <3>6 DEF TypeOK
  <2>4. QED
    BY <2>2, <2>3
<1>3. ASSUME Announce(r) PROVE TypeOK'
  <2>1. RunsOK'
    BY <1>0, <1>3, GoToType DEF Announce, Points, Beating, Early
  <2>2. status' \in [id : Ids \cup {0, None},
                     state : {None, "running", "succeeded", "failed"}]
    BY <1>0, <1>3 DEF Announce, Run
  <2>3. QED
    BY <1>3, <2>1, <2>2 DEF TypeOK, Announce
<1>4. ASSUME UpdateCLI(r) PROVE TypeOK'
  <2>1. RunsOK' /\ faults' \in Nat
    BY <1>0, <1>4, GoToType, FailsType
    DEF TypeOK, UpdateCLI, Points, Outcomes, Beating, Early
  <2>2. cli' \in Release
    <3>1. runs[r].channel \in Channels
      BY <1>0, <1>4 DEF UpdateCLI, RunsOK
    <3>2. QED
      BY <1>4, <3>1 DEF TypeOK, UpdateCLI
  <2>3. QED
    BY <1>4, <2>1, <2>2 DEF TypeOK, UpdateCLI
<1>5. ASSUME WaitHealthy(r) PROVE TypeOK'
  <2>1. RunsOK' /\ faults' \in Nat
    BY <1>0, <1>5, GoToType, FailsType
    DEF TypeOK, WaitHealthy, Points, Outcomes, Beating, Early
  <2>2. QED
    BY <1>5, <2>1 DEF TypeOK, WaitHealthy
<1>6. ASSUME EndRun(r) PROVE TypeOK'
  <2>1. lock' \in Runners \cup {None} /\ RunsOK'
    BY <1>0, <1>6, RunEnds DEF TypeOK, EndRun, Unlocked
  <2>2. /\ status' \in [id : Ids \cup {0, None},
                        state : {None, "running", "succeeded", "failed"}]
        /\ stale' \in BOOLEAN
    <3>1. CASE r = "direct"
      BY <1>6, <3>1 DEF TypeOK, EndRun
    <3>2. CASE r # "direct"
      <4>1. /\ status' = [id |-> runs[r].id, state |->
                  IF runs[r].outcome = "upgraded" THEN "succeeded" ELSE "failed"]
            /\ stale' = FALSE
        BY <1>6, <3>2 DEF EndRun
      <4>2. runs[r].id \in Ids \cup {0, None}
        BY <1>0 DEF Run
      <4>3. QED
        BY <4>1, <4>2
    <3>3. QED
      BY <3>1, <3>2
  <2>3. QED
    BY <1>6, <2>1, <2>2 DEF TypeOK, EndRun
<1>7. ASSUME RunByHand(r) PROVE TypeOK'
  <2>1. RunsOK'
    <3>1. CASE r = "hand"
      <4>1. [Idle EXCEPT !.pc = "lock"] \in Run /\ [Idle EXCEPT !.pc = "lock"].pc \in Early
        BY IdleIsOne DEF Run, Early
      <4>2. QED
        BY <1>0, <1>7, <3>1, <4>1, RunChanges DEF RunByHand
    <3>2. CASE r # "hand"
      <4>1. PICK c \in Channels : runs' = [runs EXCEPT ![r] =
                                     [Idle EXCEPT !.pc = "prepare", !.channel = c]]
        BY <1>7, <3>2 DEF RunByHand
      <4>2. /\ [Idle EXCEPT !.pc = "prepare", !.channel = c] \in Run
            /\ [Idle EXCEPT !.pc = "prepare", !.channel = c].channel = c
        BY IdleIsOne DEF Run, Beating
      <4>3. QED
        BY <1>0, <4>1, <4>2, RunChanges
    <3>3. QED
      BY <3>1, <3>2
  <2>2. byHand' \in Nat
    <3>1. byHand \in Nat /\ byHand' = byHand + 1
      BY <1>7 DEF TypeOK, RunByHand
    <3>2. QED
      BY <3>1
  <2>3. UNCHANGED <<published, cli, switchVars, agent, reqVars, status, stale, lock,
                    stackVars, edgeVars, domainVars, faults, crashes>>
    BY <1>7 DEF RunByHand
  <2>4. QED
    BY <2>1, <2>2, <2>3 DEF TypeOK
<1>8. ASSUME KillRun(r) PROVE TypeOK'
  <2>1. lock' \in Runners \cup {None} /\ RunsOK'
    BY <1>0, <1>8, RunEnds DEF TypeOK, KillRun, Unlocked
  <2>2. QED
    BY <1>8, <2>1 DEF TypeOK, KillRun
<1>9. QED
  BY <1>1, <1>2, <1>3, <1>4, <1>5, <1>6, <1>7, <1>8

(***************************************************************************)
(* The host: what puts it back, what makes its containers, its edge.       *)
(***************************************************************************)
LEMMA RestoredType == TypeOK => \A F : Restored(F) \in Configs
<1> SUFFICES ASSUME TypeOK, NEW F PROVE Restored(F) \in Configs
  OBVIOUS
<1>1. \A f \in Files : disk[f] \in Holds(f) /\ backup[f] \in Holds(f) \cup {None}
  BY DEF TypeOK, Configs
<1>2. \A f \in Files : Holds(f) \subseteq Release \cup Channels
  BY DEF Holds
<1>3. \A f \in Files : Restored(F)[f] \in Holds(f)
  BY <1>1 DEF Restored
<1>4. QED
  BY <1>2, <1>3 DEF Restored, Configs

LEMMA DiskTypes ==
    TypeOK => disk[".env"] \in Channels /\ \A f \in Shipped : disk[f] \in Release
<1> SUFFICES ASSUME TypeOK
             PROVE  disk[".env"] \in Channels /\ \A f \in Shipped : disk[f] \in Release
  OBVIOUS
<1>1. \A f \in Files : disk[f] \in Holds(f)
  BY DEF TypeOK, Configs
<1>2. Holds(".env") = Channels /\ \A f \in Shipped : f \in Files /\ Holds(f) = Release
  BY BoundsAssumption DEF Holds, Files
<1>3. QED
  BY <1>1, <1>2, Bounds

LEMMA RecreatedType ==
    ASSUME TypeOK, NEW t \in [Channels -> [Services -> Release]]
    PROVE  \A S : Recreated(t, S) \in [Services -> Container]
<1>1. disk[".env"] \in Channels /\ disk["compose"] \in Release
  BY DiskTypes, BoundsAssumption
<1>2. \A s \in Services : t[disk[".env"]][s] \in Release /\ up[s] \in Container
  BY <1>1 DEF TypeOK
<1>3. QED
  BY <1>1, <1>2 DEF Recreated, Container

LEMMA EdgeTypes ==
    ASSUME TypeOK
    PROVE  /\ PreviousEdge \in Edge
           /\ \A a, b \in Edge : Mixed(a, b) \subseteq Edge
BY DEF TypeOK, PreviousEdge, Mixed, Edge

LEMMA InstallType ==
    ASSUME TypeOK, NEW rendered \in Edge, Install(rendered) \/ InstallFails(rendered)
    PROVE  edge' \in Edge /\ edgeBackup' \in Edge \cup {None}
<1>1. Mixed(edge, rendered) \subseteq Edge
  BY EdgeTypes DEF TypeOK
<1>2. QED
  BY <1>1 DEF TypeOK, Install, InstallFails

LEMMA ReportsType ==
    ASSUME NEW now \in BOOLEAN, Reports(now) PROVE told' \in BOOLEAN
BY DEF Reports

LEMMA CrossingType ==
    ASSUME RunsOK, NEW r \in Runners, NEW mine \in Run,
           mine.pc \notin Early => mine.channel \in Channels,
           runs' = Crossing(r, mine)
    PROVE  RunsOK'
<1>1. \A q \in Runners \ {r} :
        /\ [runs[q] EXCEPT !.crossed = @ \/ Busy(q)] \in Run
        /\ [runs[q] EXCEPT !.crossed = @ \/ Busy(q)].pc = runs[q].pc
        /\ [runs[q] EXCEPT !.crossed = @ \/ Busy(q)].channel = runs[q].channel
  BY DEF RunsOK, Run
<1>2. QED
  BY <1>1 DEF RunsOK, Crossing, Early

LEMMA PutsBackType ==
    ASSUME TypeOK, NEW r \in Runners, NEW pc \in Points, PutsBack(r, pc),
           runs[r].pc \notin Early
    PROVE  disk' \in Configs /\ RunsOK' /\ faults' \in Nat
<1>1. disk' \in Configs
  BY RestoredType DEF PutsBack
<1>2. CASE GoTo(r, pc) /\ UNCHANGED faults
  BY <1>1, <1>2, GoToType DEF TypeOK
<1>3. CASE Fails(r, pc, "stuck")
  BY <1>1, <1>3, FailsType DEF TypeOK, Outcomes
<1>4. QED
  BY <1>2, <1>3 DEF PutsBack

LEMMA ContainersType ==
    ASSUME TypeOK, NEW R, NewContainers(R)
    PROVE  mutex' \in Callers \cup {None} /\ served' \in Edge
BY DEF TypeOK, NewContainers

\* The steps of serverUpgrade.
LEMMA TypeOfUpgrade ==
    ASSUME TypeOK, NEW r \in Runners,
           \/ Prepare(r) \/ Pull(r) \/ PutBack(r)
           \/ (\E f \in Shipped : InstallFile(r, f)) \/ InstallEnds(r)
           \/ GenerateEdge(r) \/ Restart(r) \/ RecreateEdge(r) \/ Verify(r)
           \/ UndoEdge(r) \/ UndoFiles(r) \/ UndoStack(r)
    PROVE  TypeOK'
<1> USE DEF published, budgets, vars, switchVars, stackVars, edgeVars, domainVars, reqVars
<1>0. runs[r] \in Run /\ RunsOK /\ faults \in Nat
  BY DEF TypeOK, RunsOK
<1>a. /\ disk[".env"] \in Channels /\ \A f \in Shipped : disk[f] \in Release
      /\ tags \in [Channels -> [Services -> Release]]
  BY DiskTypes DEF TypeOK
<1>b. ASSUME runs[r].pc \in Beating PROVE runs[r].channel \in Channels /\ runs[r].pc \notin Early
  BY <1>0, <1>b DEF RunsOK, Beating, Early
<1>1. ASSUME Prepare(r) PROVE TypeOK'
  <2>0. UNCHANGED <<published, cli, switchVars, agent, reqVars, status, stale, lock,
                    tags, up, edgeVars, domainVars, crashes, byHand>>
    BY <1>1 DEF Prepare
  <2>1. runs[r].channel \in Channels /\ runs[r].pc \notin Early
    BY <1>1, <1>b DEF Prepare, Beating
  <2>2. CASE Fails(r, "end", "unchanged") /\ UNCHANGED <<disk, backup>>
    <3>1. RunsOK' /\ faults' \in Nat
      BY <1>0, <2>1, <2>2, FailsType DEF Points, Outcomes, Beating
    <3>2. QED
      BY <2>0, <2>2, <3>1 DEF TypeOK
  <2>3. CASE /\ faults' = faults + 1
             /\ backup' = [f \in Files |-> None]
             /\ runs' = Crossing(r, [runs[r] EXCEPT !.pc = "end", !.outcome = "unchanged"])
             /\ UNCHANGED disk
    <3> DEFINE x == [runs[r] EXCEPT !.pc = "end", !.outcome = "unchanged"]
    <3>1. x \in Run /\ x.channel = runs[r].channel
      BY <1>0 DEF Run, Beating
    <3>2. RunsOK'
      BY <1>0, <2>1, <2>3, <3>1, CrossingType
    <3>a. faults' \in Nat
      BY <1>0, <2>3
    <3>3. /\ backup' \in [Files -> Release \cup Channels \cup {None}]
          /\ \A f \in Files : backup'[f] \in Holds(f) \cup {None}
      BY <2>3
    <3>4. QED
      BY <2>0, <2>3, <3>2, <3>3, <3>a DEF TypeOK
  <2>4. ASSUME NEW recorded \in SUBSET Services,
               NEW env \in {disk[".env"], runs[r].channel},
               faults' = faults + (IF recorded = Services THEN 0 ELSE 1)
                                + (IF env = runs[r].channel THEN 0 ELSE 1),
               disk' = [disk EXCEPT ![".env"] = env],
               backup' = [f \in Files |-> IF f = ".env" THEN disk[f] ELSE None],
               runs' = Crossing(r, [runs[r] EXCEPT
                 !.pc = "pull", !.target = latest[runs[r].channel],
                 !.saved = {".env"},
                 !.images = [s \in Services |-> IF s \notin recorded THEN None
                     ELSE [channel |-> up[s].channel, image |-> up[s].image]],
                 !.before = [disk |-> disk, up |-> up, edge |-> edge,
                             offered |-> registry[env]],
                 !.crossed = \E q \in Runners \ {r} : runs[q].pc \in Changing])
        PROVE  TypeOK'
    <3> DEFINE images == [s \in Services |-> IF s \notin recorded THEN None
                     ELSE [channel |-> up[s].channel, image |-> up[s].image]]
               before == [disk |-> disk, up |-> up, edge |-> edge,
                          offered |-> registry[env]]
               met == \E q \in Runners \ {r} : runs[q].pc \in Changing
               x == [runs[r] EXCEPT !.pc = "pull", !.target = latest[runs[r].channel],
                       !.saved = {".env"}, !.images = images, !.before = before,
                       !.crossed = met]
    <3>1. env \in Channels /\ latest[runs[r].channel] \in Release
      BY <1>a, <2>1, <2>4 DEF TypeOK
    <3>2. images \in [Services -> Image \cup {None}]
      <4>1. \A s \in Services : up[s] \in Container
        BY DEF TypeOK
      <4>2. QED
        BY <4>1 DEF Image, Container
    <3>3. before \in Hosts
      BY <3>1 DEF TypeOK, Hosts
    <3>4. met \in BOOLEAN
      OBVIOUS
    <3> HIDE DEF images, before, met
    <3>5. x \in Run /\ x.channel = runs[r].channel
      BY <1>0, <3>1, <3>2, <3>3, <3>4, Bounds DEF Run, Beating
    <3>6. RunsOK'
      <4>1. runs' = Crossing(r, x)
        BY <2>4 DEF images, before, met
      <4>2. QED
        BY <1>0, <2>1, <3>5, <4>1, CrossingType
    <3>7. faults' \in Nat
      BY <1>0, <2>4
    <3>8. disk' \in Configs
      BY <2>4, <3>1, Bounds DEF TypeOK, Configs, Holds
    <3>9. /\ backup' \in [Files -> Release \cup Channels \cup {None}]
          /\ \A f \in Files : backup'[f] \in Holds(f) \cup {None}
      BY <1>a, <2>4 DEF Holds
    <3>10. QED
      BY <2>0, <3>6, <3>7, <3>8, <3>9 DEF TypeOK
  <2>5. QED
    BY <1>1, <2>2, <2>3, <2>4 DEF Prepare
<1>2. ASSUME Pull(r) PROVE TypeOK'
  <2>1. RunsOK' /\ faults' \in Nat
    <3>1. runs[r].pc \notin Early
      BY <1>2 DEF Pull, Early
    <3>2. QED
      BY <1>0, <1>2, <3>1, GoToType, FailsType DEF Pull, Points, Outcomes, Beating
  <2>2. \A S : Pulled(S) \in [Channels -> [Services -> Release]]
    <3>1. \A s \in Services : registry[disk[".env"]][s] \in Release
      BY <1>a DEF TypeOK
    <3>2. QED
      BY <1>a, <3>1 DEF Pulled
  <2>3. QED
    BY <1>2, <2>1, <2>2 DEF TypeOK, Pull
<1>3. ASSUME PutBack(r) \/ UndoFiles(r) PROVE TypeOK'
  <2>1. disk' \in Configs /\ RunsOK' /\ faults' \in Nat
    BY <1>3, PutsBackType DEF PutBack, UndoFiles, Points, Beating, Early
  <2>2. UNCHANGED <<published, cli, switchVars, agent, reqVars, status, stale, lock,
                    backup, tags, up, edgeVars, domainVars, crashes, byHand>>
    BY <1>3 DEF PutBack, UndoFiles
  <2>3. QED
    BY <2>1, <2>2 DEF TypeOK
<1>4. ASSUME NEW f \in Shipped, InstallFile(r, f) PROVE TypeOK'
  <2>1. f \in Files /\ Holds(f) = Release /\ runs[r].target \in Release
    BY <1>0, BoundsAssumption DEF Files, Run, Holds
  <2>2. RunsOK'
    <3> DEFINE x == [runs[r] EXCEPT !.saved = @ \cup {f}]
    <3>1. x \in Run /\ x.pc = runs[r].pc /\ x.channel = runs[r].channel
      BY <1>0, <2>1 DEF Run
    <3>2. runs' = [runs EXCEPT ![r] = x]
      BY <1>4 DEF InstallFile
    <3>3. QED
      BY <1>0, <3>1, <3>2, RunChanges DEF RunsOK, Early
  <2>3. disk' \in Configs
    BY <1>4, <2>1 DEF TypeOK, InstallFile, Configs
  <2>4. /\ backup' \in [Files -> Release \cup Channels \cup {None}]
        /\ \A g \in Files : backup'[g] \in Holds(g) \cup {None}
    BY <1>4, <1>a, <2>1 DEF TypeOK, InstallFile
  <2>5. UNCHANGED <<published, cli, switchVars, agent, reqVars, status, stale, lock,
                    tags, up, edgeVars, domainVars, budgets>>
    BY <1>4 DEF InstallFile
  <2>6. QED
    BY <2>2, <2>3, <2>4, <2>5 DEF TypeOK
<1>5. ASSUME InstallEnds(r) PROVE TypeOK'
  <2>1. RunsOK' /\ faults' \in Nat
    <3>1. runs[r].pc \notin Early
      BY <1>5 DEF InstallEnds, Early
    <3>2. QED
      BY <1>0, <1>5, <3>1, GoToType, FailsType DEF InstallEnds, Points, Outcomes, Beating
  <2>2. QED
    BY <1>5, <2>1 DEF TypeOK, InstallEnds
<1>6. ASSUME GenerateEdge(r) PROVE TypeOK'
  <2> DEFINE rendered == [template |-> cli, domains |-> installed]
  <2>1. rendered \in Edge
    BY DEF TypeOK, Edge
  <2>2. edge' \in Edge /\ edgeBackup' \in Edge \cup {None} /\ told' \in BOOLEAN
    BY <1>6, <2>1, InstallType, ReportsType DEF GenerateEdge
  <2>3. runs[r].pc \notin Early /\ runs[r].channel \in Channels
    BY <1>6, <1>b DEF GenerateEdge, Beating
  <2>4. RunsOK' /\ faults' \in Nat
    <3>1. CASE /\ runs' = [runs EXCEPT ![r].pc = "restart",
                                       ![r].edged = (edge # rendered)]
               /\ UNCHANGED faults
      <4> DEFINE x == [runs[r] EXCEPT !.pc = "restart", !.edged = (edge # rendered)]
      <4>1. x \in Run /\ x.channel = runs[r].channel
        BY <1>0 DEF Run, Beating
      <4>2. runs' = [runs EXCEPT ![r] = x]
        BY <3>1
      <4>3. QED
        BY <1>0, <2>3, <3>1, <4>1, <4>2, RunChanges
    <3>2. CASE Fails(r, "undoedge", "rolledback")
      BY <1>0, <2>3, <3>2, FailsType DEF Points, Outcomes, Beating
    <3>3. QED
      BY <1>6, <3>1, <3>2 DEF GenerateEdge
  <2>5. UNCHANGED <<published, cli, switchVars, agent, reqVars, status, stale, lock,
                    stackVars, served, domainVars, crashes, byHand>>
    BY <1>6 DEF GenerateEdge
  <2>6. QED
    BY <2>2, <2>4, <2>5 DEF TypeOK
<1>7. ASSUME Restart(r) PROVE TypeOK'
  <2>1. PICK S \in SUBSET Services : \E R \in SUBSET S :
          /\ up' = Recreated(tags, S) /\ NewContainers(R)
          /\ \/ GoTo(r, "recreate") /\ UNCHANGED faults
             \/ Fails(r, "undoedge", "rolledback")
    BY <1>7 DEF Restart
  <2>2. RunsOK' /\ faults' \in Nat
    <3>1. runs[r].pc \notin Early
      BY <1>7 DEF Restart, Early
    <3>2. QED
      BY <1>0, <2>1, <3>1, GoToType, FailsType DEF Points, Outcomes, Beating
  <2>3. up' \in [Services -> Container]
    BY <1>a, <2>1, RecreatedType
  <2>4. mutex' \in Callers \cup {None} /\ served' \in Edge /\ told' \in BOOLEAN
    BY <1>7, <2>1, ContainersType, ReportsType DEF Restart
  <2>5. UNCHANGED <<published, cli, switchVars, agent, request, asked, taken,
                    discarded, status, stale, lock, disk, backup, tags, edge,
                    edgeBackup, domainVars, crashes, byHand>>
    BY <1>7 DEF Restart
  <2>6. QED
    BY <2>2, <2>3, <2>4, <2>5 DEF TypeOK
<1>8. ASSUME RecreateEdge(r) PROVE TypeOK'
  <2>1. RunsOK' /\ faults' \in Nat
    <3>1. runs[r].pc \notin Early
      BY <1>8 DEF RecreateEdge, Early
    <3>2. QED
      BY <1>0, <1>8, <3>1, GoToType, FailsType DEF RecreateEdge, Points, Outcomes, Beating
  <2>2. up' \in [Services -> Container]
    <3>1. Recreated(tags, {"caddy"}) \in [Services -> Container]
      BY <1>a, RecreatedType
    <3>2. QED
      BY <1>8, <3>1 DEF RecreateEdge, TypeOK
  <2>3. served' \in Edge /\ told' \in BOOLEAN
    BY <1>8, ReportsType DEF RecreateEdge, TypeOK
  <2>4. UNCHANGED <<published, cli, switchVars, agent, reqVars, status, stale, lock,
                    disk, backup, tags, edge, edgeBackup, domainVars, crashes, byHand>>
    BY <1>8 DEF RecreateEdge
  <2>5. QED
    BY <2>1, <2>2, <2>3, <2>4 DEF TypeOK
<1>9. ASSUME Verify(r) PROVE TypeOK'
  <2>1. runs[r].pc \notin Early /\ runs[r].channel \in Channels
    BY <1>9, <1>b DEF Verify, Beating
  <2>2. RunsOK' /\ faults' \in Nat
    <3>1. ASSUME NEW pc \in {"end", "health"}, UNCHANGED faults,
                 runs' = [runs EXCEPT ![r].pc = pc, ![r].outcome = "upgraded"]
          PROVE  RunsOK' /\ faults' \in Nat
      <4> DEFINE x == [runs[r] EXCEPT !.pc = pc, !.outcome = "upgraded"]
      <4>1. x \in Run /\ x.channel = runs[r].channel
        BY <1>0 DEF Run, Beating
      <4>2. runs' = [runs EXCEPT ![r] = x]
        BY <3>1
      <4>3. QED
        BY <1>0, <2>1, <3>1, <4>1, <4>2, RunChanges
    <3>2. CASE Fails(r, "undoedge", "rolledback")
      BY <1>0, <2>1, <3>2, FailsType DEF Points, Outcomes, Beating
    <3>3. QED
      BY <1>9, <3>1, <3>2 DEF Verify
  <2>3. /\ agent' \in BOOLEAN /\ cut' \in BOOLEAN
        /\ apply' \in [pc : {"idle", "written", "served"}, set : 0 .. MaxDomains]
    <3>1. CASE UNCHANGED <<agent, apply, cut>>
      BY <3>1 DEF TypeOK
    <3>2. CASE RestartAgent
      <4>1. agent' = TRUE /\ apply' = [pc |-> "idle", set |-> 0]
        BY <3>2 DEF RestartAgent
      <4>2. cut' \in BOOLEAN
        BY <3>2 DEF TypeOK, RestartAgent
      <4>3. QED
        BY <4>1, <4>2, Bounds
    <3>3. QED
      BY <1>9, <3>1, <3>2 DEF Verify
  <2>4. UNCHANGED <<published, cli, switchVars, reqVars, status, stale, lock,
                    stackVars, edgeVars, domains, installed, crashes, byHand>>
    BY <1>9 DEF Verify
  <2>5. QED
    BY <2>2, <2>3, <2>4 DEF TypeOK
<1>10. ASSUME UndoEdge(r) PROVE TypeOK'
  <2>1. RunsOK' /\ faults' \in Nat /\ edge' \in Edge /\ told' \in BOOLEAN
    <3>1. RunsOK'
      BY <1>0, <1>10, GoToType DEF UndoEdge, Points, Beating, Early
    <3>2. edge' \in Edge /\ told' \in BOOLEAN
      BY <1>10, EdgeTypes, ReportsType DEF UndoEdge, TypeOK
    <3>3. faults' \in Nat
      BY <1>0, <1>10 DEF UndoEdge
    <3>4. QED
      BY <3>1, <3>2, <3>3
  <2>2. UNCHANGED <<published, cli, switchVars, agent, reqVars, status, stale, lock,
                    stackVars, edgeBackup, served, domainVars, crashes, byHand>>
    BY <1>10 DEF UndoEdge
  <2>3. QED
    BY <2>1, <2>2 DEF TypeOK
<1>11. ASSUME UndoStack(r) PROVE TypeOK'
  <2>1. \A T : Retagged(r, T) \in [Channels -> [Services -> Release]]
    <3>1. \A s \in Services : runs[r].images[s] \in Image \cup {None}
      BY <1>0 DEF Run
    <3>2. \A s \in Services : runs[r].images[s] # None => runs[r].images[s].image \in Release
      BY <3>1 DEF Image
    <3>3. QED
      BY <1>a, <3>2 DEF Retagged
  <2>2. \E S, T : /\ tags' = Retagged(r, T) /\ up' = Recreated(tags', S)
                  /\ NewContainers(S)
    BY <1>11 DEF UndoStack
  <2>3. tags' \in [Channels -> [Services -> Release]] /\ up' \in [Services -> Container]
    BY <2>1, <2>2, RecreatedType
  <2>4. mutex' \in Callers \cup {None} /\ served' \in Edge /\ told' \in BOOLEAN
    BY <1>11, <2>2, ContainersType, ReportsType DEF UndoStack
  <2>5. RunsOK' /\ faults' \in Nat
    <3>1. runs[r].pc \notin Early
      BY <1>11 DEF UndoStack, Early
    <3>2. QED
      BY <1>0, <1>11, <3>1, GoToType, FailsType DEF UndoStack, Points, Outcomes, Beating
  <2>6. UNCHANGED <<published, cli, switchVars, agent, request, asked, taken,
                    discarded, status, stale, lock, disk, backup, edge,
                    edgeBackup, domainVars, crashes, byHand>>
    BY <1>11 DEF UndoStack
  <2>7. QED
    BY <2>3, <2>4, <2>5, <2>6 DEF TypeOK
<1>12. QED
  BY <1>1, <1>2, <1>3, <1>4, <1>5, <1>6, <1>7, <1>8, <1>9, <1>10, <1>11

\* The agent's steps, and what happens from outside.
LEMMA TypeOfWorld ==
    ASSUME TypeOK,
           \/ ChangeDomains \/ ApplyDomains \/ ReloadEdge \/ RecordInstalled
           \/ (\E c \in Channels : Publish(c) \/ \E s \in Services : PublishImage(c, s))
           \/ Reboot
    PROVE  TypeOK'
<1> USE DEF published, budgets, vars, switchVars, stackVars, edgeVars, domainVars, reqVars
<1>0. RunsOK /\ UNCHANGED runs => RunsOK'
  BY DEF RunsOK
<1>a. RunsOK /\ faults \in Nat
  BY DEF TypeOK
<1>1. ASSUME ChangeDomains PROVE TypeOK'
  <2>1. domains' \in 0 .. MaxDomains
    BY <1>1, Bounds DEF TypeOK, ChangeDomains
  <2>2. QED
    BY <1>0, <1>1, <2>1 DEF TypeOK, ChangeDomains
<1>2. ASSUME ApplyDomains PROVE TypeOK'
  <2>1. [template |-> cli, domains |-> domains] \in Edge
    BY DEF TypeOK, Edge
  <2>2. edge' \in Edge /\ edgeBackup' \in Edge \cup {None} /\ told' \in BOOLEAN
    BY <1>2, <2>1, InstallType, ReportsType DEF ApplyDomains
  <2>3. apply' \in [pc : {"idle", "written", "served"}, set : 0 .. MaxDomains]
    <3> DEFINE rendered == [template |-> cli, domains |-> domains]
    <3>1. \/ apply' = apply
          \/ apply' = [pc |-> IF edge = rendered THEN "served" ELSE "written",
                       set |-> domains]
      BY <1>2 DEF ApplyDomains
    <3> HIDE DEF rendered
    <3>2. QED
      BY <3>1 DEF TypeOK
  <2>4. RunsOK' /\ faults' \in Nat
    <3>1. runs' = runs /\ faults' \in {faults, faults + 1}
      BY <1>2 DEF ApplyDomains
    <3>2. QED
      BY <1>0, <1>a, <3>1
  <2>5. UNCHANGED <<published, cli, switchVars, agent, reqVars, status, stale, lock,
                    stackVars, served, domains, installed, cut, crashes, byHand>>
    BY <1>2 DEF ApplyDomains
  <2>6. QED
    BY <2>2, <2>3, <2>4, <2>5 DEF TypeOK
<1>3. ASSUME ReloadEdge PROVE TypeOK'
  <2>1. edge' \in Edge /\ served' \in Edge /\ told' \in BOOLEAN
    <3>1. edge \in Edge /\ served \in Edge /\ PreviousEdge \in Edge
      BY EdgeTypes DEF TypeOK
    <3>2. Mixed(edge, PreviousEdge) \subseteq Edge
      BY <3>1, EdgeTypes
    <3>3. edge' \in Edge
      BY <1>3, <3>1, <3>2 DEF ReloadEdge
    <3>4. served' \in {served, edge'} /\ told' \in BOOLEAN
      BY <1>3, ReportsType DEF ReloadEdge
    <3>5. QED
      BY <3>1, <3>3, <3>4
  <2>2. apply' \in [pc : {"idle", "written", "served"}, set : 0 .. MaxDomains]
    BY <1>3 DEF TypeOK, ReloadEdge
  <2>3. RunsOK' /\ faults' \in Nat
    BY <1>0, <1>a, <1>3 DEF ReloadEdge
  <2>4. UNCHANGED <<published, cli, switchVars, agent, reqVars, status, stale, lock,
                    stackVars, edgeBackup, domains, installed, cut, crashes, byHand>>
    BY <1>3 DEF ReloadEdge
  <2>5. QED
    BY <2>1, <2>2, <2>3, <2>4 DEF TypeOK
<1>4. ASSUME RecordInstalled PROVE TypeOK'
  BY <1>0, <1>4, Bounds DEF TypeOK, RecordInstalled
<1>5. ASSUME NEW c \in Channels, Publish(c) PROVE TypeOK'
  <2>1. latest' \in [Channels -> Release]
    BY <1>5, Bounds DEF TypeOK, Publish, Release
  <2>2. QED
    BY <1>0, <1>5, <2>1 DEF TypeOK, Publish
<1>6. ASSUME NEW c \in Channels, NEW s \in Services, PublishImage(c, s) PROVE TypeOK'
  <2>1. registry' \in [Channels -> [Services -> Release]]
    <3>1. registry[c][s] + 1 \in Release
      BY <1>6, Bounds DEF TypeOK, PublishImage, Release
    <3>2. QED
      BY <1>6, <3>1 DEF TypeOK, PublishImage
  <2>2. pushes' \in Nat
    BY <1>6 DEF TypeOK, PublishImage
  <2>3. UNCHANGED <<latest, cli, switchVars, agent, reqVars, status, stale, lock,
                    runs, stackVars, edgeVars, domainVars, budgets>>
    BY <1>6 DEF PublishImage
  <2>4. QED
    BY <1>0, <2>1, <2>2, <2>3 DEF TypeOK
<1>7. ASSUME Reboot PROVE TypeOK'
  <2>1. RunsOK' /\ crashes' \in Nat
    BY <1>7, IdleIsOne DEF TypeOK, Reboot, RunsOK, Idle
  <2>2. apply' \in [pc : {"idle", "written", "served"}, set : 0 .. MaxDomains]
    BY <1>7, Bounds DEF Reboot
  <2>3. /\ agent' \in BOOLEAN /\ stopping' \in BOOLEAN
        /\ mutex' = None /\ lock' = None /\ served' = edge /\ told' = FALSE
    BY <1>7 DEF Reboot
  <2>4. UNCHANGED <<published, cli, marker, stops, request, asked, taken, discarded,
                    status, stale, stackVars, edge, edgeBackup, domains,
                    installed, cut, faults, byHand>>
    BY <1>7 DEF Reboot
  <2>5. QED
    BY <2>1, <2>2, <2>3, <2>4 DEF TypeOK
<1>8. QED
  BY <1>1, <1>2, <1>3, <1>4, <1>5, <1>6, <1>7

(***************************************************************************)
(* Requests.                                                               *)
(***************************************************************************)
\* A handler that has checked and not yet written finds the inbox as it was:
\* nobody else writes to it.
Checked == mutex # None => request = None /\ asked < MaxRequests

Safe == TypeOK /\ Checked /\ NoneOverwritten

LEMMA SafeInit == Init => Safe
<1> SUFFICES ASSUME Init PROVE Safe
  OBVIOUS
<1>1. TypeOK
  BY TypeInit
<1>2. Checked /\ NoneOverwritten
  BY DEF Init, Checked, NoneOverwritten
<1>3. QED
  BY <1>1, <1>2 DEF Safe

LEMMA SafeStep == Safe /\ [Next]_vars => Safe'
<1> SUFFICES ASSUME Safe, [Next]_vars PROVE Safe'
  OBVIOUS
<1> USE DEF published, budgets, switchVars, stackVars, edgeVars, domainVars, reqVars
<1>1. TypeOK /\ Checked /\ NoneOverwritten
  BY DEF Safe
<1>2. TypeOK'
  <2>1. CASE UNCHANGED vars
    BY <1>1, <2>1 DEF vars, TypeOK, RunsOK
  <2>2. CASE Next
    BY <1>1, <2>2, TypeOfRequests, TypeOfRun, TypeOfUpgrade, TypeOfWorld
    DEF Next, RunStep, Checked
  <2>3. QED
    BY <2>1, <2>2
<1>3. ASSUME mutex' \in {mutex, None}, request' \in {request, None},
             asked' = asked, taken \subseteq taken', discarded \subseteq discarded',
             request' = None => request \in {None} \cup taken' \cup discarded'
      PROVE  Checked' /\ NoneOverwritten'
  <2>1. Checked'
    BY <1>1, <1>3 DEF Checked
  <2>2. NoneOverwritten'
    <3>1. None \notin 1 .. asked
      BY BoundsAssumption
    <3>2. QED
      BY <1>1, <1>3, <3>1 DEF NoneOverwritten
  <2>3. QED
    BY <2>1, <2>2
<1>4. ASSUME UNCHANGED reqVars PROVE Checked' /\ NoneOverwritten'
  BY <1>1, <1>4 DEF Checked, NoneOverwritten
<1>5. ASSUME NEW c \in Callers, CheckRequest(c) PROVE Checked' /\ NoneOverwritten'
  BY <1>1, <1>5 DEF CheckRequest, Checked, NoneOverwritten
<1>6. ASSUME NEW c \in Callers, WriteRequest(c) PROVE Checked' /\ NoneOverwritten'
  <2>1. request = None /\ mutex' = None
    BY <1>1, <1>6, BoundsAssumption DEF WriteRequest, Checked
  <2>2. 1 .. asked \subseteq taken \cup discarded
    BY <1>1, <2>1, BoundsAssumption DEF NoneOverwritten
  <2>3. 1 .. asked + 1 = 1 .. asked \cup {asked + 1}
    BY <1>1 DEF TypeOK
  <2>4. QED
    BY <1>6, <2>1, <2>2, <2>3 DEF WriteRequest, Checked, NoneOverwritten
<1>7. ASSUME DiscardPending PROVE Checked' /\ NoneOverwritten'
  BY <1>3, <1>7 DEF DiscardPending
<1>8. ASSUME NEW r \in Runners, TakeRequest(r) PROVE Checked' /\ NoneOverwritten'
  BY <1>3, <1>8 DEF TakeRequest
<1>9. ASSUME NEW r \in Runners, Restart(r) \/ UndoStack(r)
      PROVE  Checked' /\ NoneOverwritten'
  BY <1>3, <1>9 DEF Restart, UndoStack, NewContainers
<1>10. ASSUME Reboot PROVE Checked' /\ NoneOverwritten'
  BY <1>3, <1>10 DEF Reboot
<1>11. ASSUME Next PROVE Checked' /\ NoneOverwritten'
  <2>1. ASSUME \/ GoStale \/ StopUpdater \/ StartUpdater \/ AgentStarts \/ Launch
               \/ ChangeDomains \/ ApplyDomains \/ ReloadEdge \/ RecordInstalled
               \/ \E c \in Channels : Publish(c) \/ \E s \in Services : PublishImage(c, s)
        PROVE  UNCHANGED reqVars
    BY <2>1 DEF GoStale, StopUpdater, StartUpdater, AgentStarts, Launch,
         ChangeDomains, ApplyDomains, ReloadEdge, RecordInstalled, Publish, PublishImage
  <2>2. ASSUME NEW r \in Runners,
               \/ RunByHand(r) \/ KillRun(r) \/ TakeLock(r) \/ Announce(r)
               \/ UpdateCLI(r) \/ Prepare(r) \/ Pull(r) \/ PutBack(r)
               \/ (\E f \in Shipped : InstallFile(r, f)) \/ InstallEnds(r)
               \/ GenerateEdge(r) \/ RecreateEdge(r) \/ Verify(r)
               \/ UndoEdge(r) \/ UndoFiles(r) \/ WaitHealthy(r) \/ EndRun(r)
        PROVE  UNCHANGED reqVars
    BY <2>2 DEF RunByHand, KillRun, TakeLock, Announce, UpdateCLI, Prepare, Pull,
         PutBack, InstallFile, InstallEnds, GenerateEdge, RecreateEdge, Verify,
         UndoEdge, UndoFiles, WaitHealthy, EndRun
  <2>3. QED
    <3>1. CASE \E c \in Callers : CheckRequest(c) \/ WriteRequest(c)
      BY <1>5, <1>6, <3>1
    <3>2. CASE \E r \in Runners : RunByHand(r) \/ RunStep(r) \/ KillRun(r)
      BY <1>4, <1>8, <1>9, <2>2, <3>2 DEF RunStep
    <3>3. QED
      BY <1>4, <1>7, <1>10, <1>11, <2>1, <3>1, <3>2 DEF Next
<1>12. QED
  BY <1>2, <1>4, <1>11 DEF vars, Safe

\* Every state is of its type: of the host, the runs, the requests and the
\* edge, through failures and reboots (upgrade.go, updater.go, server_upgrade.go).
THEOREM TypeCorrect == Spec => []TypeOK
<1>1. Safe => TypeOK
  BY DEF Safe
<1>2. QED
  BY <1>1, SafeInit, SafeStep, PTL DEF Spec

\* RequestUpgrade writes over no request that waits (upgrade.go), whoever asks
\* at once and wherever the API's container or the machine goes down.
THEOREM NoRequestOverwritten == Spec => []NoneOverwritten
<1>1. Safe => NoneOverwritten
  BY DEF Safe
<1>2. QED
  BY <1>1, SafeInit, SafeStep, PTL DEF Spec

(***************************************************************************)
(* What an upgrade leaves behind, when no other was changing the host.     *)
(***************************************************************************)
\* A run that another is changing the host beside has it noted.
Met == \A q \in Runners : \A r \in Runners \ {q} :
           Busy(q) /\ runs[r].pc \in Changing => runs[q].crossed

\* The outcome is written with the step that decides it.
Decided(r) ==
    LET pc == runs[r].pc  outcome == runs[r].outcome IN
    /\ pc \in {"idle", "lock", "take", "announce", "cli", "prepare", "pull",
               "install", "edge", "restart", "recreate", "verify"} => outcome = None
    /\ pc \in {"undoedge", "undo"} => outcome = "rolledback"
    /\ pc = "retag" => outcome \in {"rolledback", "stuck"}
    /\ pc = "putback" => outcome = "putback"
    /\ pc = "health" => outcome = "upgraded"

\* On the way forward: what has been replaced is of the run's release, or of
\* what its channel offered since.
Forward(r) ==
    LET pc == runs[r].pc  v == runs[r].target  c == disk[".env"]
        b == runs[r].before  ended == runs[r].outcome = "upgraded" IN
    /\ pc \in {"pull", "install"} => \A f \in runs[r].saved \ {".env"} : disk[f] = v
    /\ pc \in {"edge", "restart", "recreate", "verify"} \/ ended =>
         \A f \in Shipped : disk[f] = v
    /\ pc = "pull" => \A s \in Services : registry[c][s] >= b.offered[s]
    /\ pc \in {"install", "edge", "restart", "recreate", "verify"} \/ ended =>
         \A s \in Services : tags[c][s] >= b.offered[s]
    /\ pc \in {"recreate", "verify"} \/ ended =>
         \A s \in Services : up[s] = [channel |-> c, image |-> tags[c][s], conf |-> v]

\* On the way back: what was there is in the backup, or still in place; and
\* what was recorded is what ran.
Backward(r) ==
    LET pc == runs[r].pc  b == runs[r].before IN
    /\ pc \in Changing =>
         /\ b \in Hosts
         /\ \A s \in Services : runs[r].images[s] \in
              {None, [channel |-> b.up[s].channel, image |-> b.up[s].image]}
    /\ pc \in Changing \ {"retag"} => \A f \in Files :
         (IF f \in runs[r].saved THEN backup[f] ELSE disk[f]) = b.disk[f]
    /\ pc \in {"pull", "putback", "install", "edge", "restart"} => up = b.up
    /\ pc = "retag" /\ runs[r].outcome = "rolledback" => disk = b.disk

\* FailureRestores, of one run.
Restores(r) ==
    runs[r].pc = "end" =>
        LET b == runs[r].before IN
        /\ runs[r].outcome = "putback" => disk = b.disk /\ up = b.up
        /\ runs[r].outcome = "rolledback" =>
             /\ disk = b.disk
             /\ \A s \in Services :
                  /\ up[s].conf = b.disk["compose"]
                  /\ up[s].channel = b.disk[".env"]
                  /\ runs[r].images[s] # None /\ b.up[s].channel = b.disk[".env"]
                       => up[s].image = b.up[s].image

Kept(r) == Forward(r) /\ Backward(r) /\ Restores(r)

Turns == Met /\ \A r \in Runners : Decided(r) /\ (~runs[r].crossed => Kept(r))

\* A run that does not change the host, and claims nothing of it, keeps all.
LEMMA RestingKept ==
    ASSUME NEW r \in Runners, ~Busy(r)
    PROVE  Kept(r)
<1>1. runs[r].pc \notin Changing /\ runs[r].outcome \notin {"putback", "rolledback", "upgraded"}
  BY DEF Busy
<1>2. QED
  BY <1>1 DEF Kept, Forward, Backward, Restores, Changing

\* The registry only grows.
Grows == \A c \in Channels : \A s \in Services : registry'[c][s] >= registry[c][s]

\* Steps that leave the host's files, images and containers alone.
LEMMA StackKept ==
    ASSUME TypeOK, TypeOK', Grows, NEW r \in Runners, Kept(r), UNCHANGED stackVars,
           runs'[r] = runs[r]
    PROVE  Kept(r)'
<1>1. Backward(r)' /\ Restores(r)'
  BY DEF Kept, Backward, Restores, stackVars
<1>2. Forward(r)'
  <2> USE DEF stackVars
  <2>1. CASE runs[r].pc = "pull"
    <3>1. disk[".env"] \in Channels /\ runs[r].before \in Hosts
      BY <2>1, DiskTypes DEF Kept, Backward, Changing
    <3>2. \A s \in Services : /\ runs[r].before.offered[s] \in Int
                              /\ registry[disk[".env"]][s] \in Int
                              /\ registry'[disk[".env"]][s] \in Int
      <4>1. Release \subseteq Int
        BY DEF Release
      <4>2. runs[r].before.offered \in [Services -> Release]
        BY <3>1 DEF Hosts
      <4>3. registry[disk[".env"]] \in [Services -> Release]
        BY <3>1 DEF TypeOK
      <4>4. registry'[disk[".env"]] \in [Services -> Release]
        BY <3>1 DEF TypeOK
      <4>5. QED
        BY <4>1, <4>2, <4>3, <4>4
    <3>3. \A s \in Services : registry[disk[".env"]][s] >= runs[r].before.offered[s]
      BY <2>1 DEF Kept, Forward
    <3>4. \A s \in Services : registry'[disk[".env"]][s] >= runs[r].before.offered[s]
      BY <3>1, <3>2, <3>3 DEF Grows
    <3>5. QED
      BY <2>1, <3>4 DEF Kept, Forward
  <2>2. CASE runs[r].pc # "pull"
    BY <2>2 DEF Kept, Forward
  <2>3. QED
    BY <2>1, <2>2
<1>3. QED
  BY <1>1, <1>2 DEF Kept

LEMMA QuietTurns ==
    ASSUME TypeOK, TypeOK', Grows, Turns, UNCHANGED stackVars,
           \A q \in Runners :
               \/ runs'[q] = runs[q]
               \/ (~Busy(q) /\ Decided(q))'
               \/ runs[q].pc = "health" /\ runs'[q] = [runs[q] EXCEPT !.pc = "end"]
    PROVE  Turns'
<1>0. ASSUME NEW q \in Runners, runs[q].pc = "health",
             runs'[q] = [runs[q] EXCEPT !.pc = "end"]
      PROVE  /\ runs'[q].pc = "end" /\ runs'[q].outcome = "upgraded"
             /\ runs[q].outcome = "upgraded" /\ runs'[q].target = runs[q].target
             /\ runs'[q].before = runs[q].before /\ runs'[q].crossed = runs[q].crossed
  BY <1>0 DEF TypeOK, RunsOK, Run, Turns, Decided
<1>1. ASSUME NEW q \in Runners
      PROVE  Decided(q)' /\ (~runs'[q].crossed => Kept(q)')
  <2>1. CASE runs'[q] = runs[q]
    BY <2>1, StackKept DEF Turns, Decided
  <2>2. CASE (~Busy(q) /\ Decided(q))'
    BY <2>2, RestingKept DEF Kept, Forward, Backward, Restores, Changing, Busy
  <2>3. CASE runs[q].pc = "health" /\ runs'[q] = [runs[q] EXCEPT !.pc = "end"]
    <3>1. Decided(q)' /\ Backward(q)' /\ Restores(q)'
      BY <1>0, <2>3 DEF Decided, Backward, Restores, Changing
    <3>2. ~runs[q].crossed => Forward(q)
      BY DEF Turns, Kept
    <3>3. ~runs'[q].crossed => Forward(q)'
      BY <1>0, <2>3, <3>2 DEF Forward, stackVars
    <3>4. QED
      BY <3>1, <3>3 DEF Kept
  <2>4. QED
    BY <1>1, <2>1, <2>2, <2>3
<1>2. Met'
  <2>1. SUFFICES ASSUME NEW q \in Runners, NEW r \in Runners \ {q},
                        Busy(q)', runs'[r].pc \in Changing
                 PROVE  runs'[q].crossed
    BY DEF Met
  <2>2. runs'[r] = runs[r]
    BY <1>0, <2>1 DEF Busy, Changing
  <2>3. Busy(q) /\ runs'[q].crossed = runs[q].crossed
    BY <1>0, <2>1 DEF Busy
  <2>4. QED
    BY <2>1, <2>2, <2>3 DEF Turns, Met
<1>3. QED
  BY <1>1, <1>2 DEF Turns

\* A step of a run that changes the host: the others are not, or have it noted.
LEMMA OwnTurns ==
    ASSUME TypeOK, Turns, NEW r \in Runners, runs[r].pc \in Changing,
           \A q \in Runners \ {r} : runs'[q] = runs[q],
           runs'[r].crossed = runs[r].crossed, Decided(r)',
           ~runs[r].crossed => Kept(r)'
    PROVE  Turns'
<1>1. ASSUME NEW q \in Runners \ {r}
      PROVE  Decided(q)' /\ (~runs'[q].crossed => Kept(q)')
  <2>1. Decided(q)' /\ runs'[q] = runs[q]
    BY DEF Turns, Decided
  <2>2. Busy(q) => runs[q].crossed
    BY DEF Turns, Met
  <2>3. ~Busy(q) => Kept(q)'
    BY <2>1 DEF Busy, Kept, Forward, Backward, Restores, Changing
  <2>4. QED
    BY <2>1, <2>2, <2>3
<1>2. Met'
  <2>1. SUFFICES ASSUME NEW q \in Runners, NEW p \in Runners \ {q},
                        Busy(q)', runs'[p].pc \in Changing
                 PROVE  runs'[q].crossed
    BY DEF Met
  <2>2. CASE q = r
    BY <2>1, <2>2 DEF Turns, Met, Busy
  <2>3. CASE q # r
    BY <2>1, <2>3 DEF Turns, Met, Busy
  <2>4. QED
    BY <2>2, <2>3
<1>3. QED
  BY <1>1, <1>2 DEF Turns

LEMMA TurnsInit == Init => Turns
<1> SUFFICES ASSUME Init PROVE Turns
  OBVIOUS
<1>1. \A r \in Runners : runs[r].pc = "idle" /\ runs[r].outcome = None
  BY DEF Init, Idle
<1>2. \A r \in Runners : ~Busy(r) /\ Decided(r)
  BY <1>1, BoundsAssumption DEF Busy, Changing, Decided
<1>3. QED
  BY <1>2, RestingKept DEF Turns, Met

\* A step of runUpgrade, or the end of a run: the host is left alone.
LEMMA TurnsOfRun ==
    ASSUME TypeOK, TypeOK', Grows, Turns, NEW r \in Runners,
           \/ TakeLock(r) \/ TakeRequest(r) \/ Announce(r) \/ UpdateCLI(r)
           \/ WaitHealthy(r) \/ EndRun(r) \/ RunByHand(r) \/ KillRun(r)
    PROVE  Turns'
<1> USE DEF published, budgets, stackVars, edgeVars, domainVars, reqVars, switchVars
<1>a. runs[r] \in Run /\ runs \in [Runners -> Run] /\ Decided(r)
  BY DEF TypeOK, RunsOK, Turns
<1>b. UNCHANGED stackVars
  BY DEF TakeLock, TakeRequest, Announce, UpdateCLI, WaitHealthy, EndRun,
       RunByHand, KillRun
<1>c. ASSUME \A q \in Runners \ {r} : runs'[q] = runs[q], (~Busy(r) /\ Decided(r))'
      PROVE  Turns'
  BY <1>b, <1>c, QuietTurns
<1>1. ASSUME NEW x, runs' = [runs EXCEPT ![r] = x], x.outcome = None,
             x.pc \in {"idle", "lock", "take", "announce", "cli", "prepare"}
      PROVE  Turns'
  <2>1. runs'[r] = x /\ \A q \in Runners \ {r} : runs'[q] = runs[q]
    BY <1>a, <1>1
  <2>2. (~Busy(r) /\ Decided(r))'
    BY <1>1, <2>1, BoundsAssumption DEF Busy, Changing, Decided
  <2>3. QED
    BY <1>c, <2>1, <2>2
<1>2. ASSUME \/ runs' = [runs EXCEPT ![r] = Idle]
             \/ runs' = [runs EXCEPT ![r] = [Idle EXCEPT !.pc = "lock"]]
      PROVE  Turns'
  <2>1. Idle.pc = "idle" /\ Idle.outcome = None
        /\ [Idle EXCEPT !.pc = "lock"].pc = "lock"
        /\ [Idle EXCEPT !.pc = "lock"].outcome = None
    BY DEF Idle
  <2>2. QED
    BY <1>1, <1>2, <2>1
<1>3. ASSUME NEW pc \in {"take", "cli", "prepare"}, GoTo(r, pc), runs[r].outcome = None
      PROVE  Turns'
  <2>1. /\ [runs[r] EXCEPT !.pc = pc].pc = pc
        /\ [runs[r] EXCEPT !.pc = pc].outcome = None
    BY <1>a, <1>3 DEF Run
  <2>2. runs' = [runs EXCEPT ![r] = [runs[r] EXCEPT !.pc = pc]]
    BY <1>3 DEF GoTo
  <2>3. QED
    BY <1>1, <2>1, <2>2
<1>4. ASSUME NEW outcome \in {"unchanged", "unhealthy"}, Fails(r, "end", outcome)
      PROVE  Turns'
  <2>1. /\ runs'[r].pc = "end" /\ runs'[r].outcome = outcome
        /\ \A q \in Runners \ {r} : runs'[q] = runs[q]
    BY <1>a, <1>4 DEF Fails, Run
  <2>2. QED
    BY <1>c, <2>1 DEF Busy, Changing, Decided
<1>5. ASSUME TakeLock(r) PROVE Turns'
  BY <1>a, <1>2, <1>3, <1>5 DEF TakeLock, Decided
<1>6. ASSUME EndRun(r) \/ KillRun(r) PROVE Turns'
  BY <1>2, <1>6 DEF EndRun, KillRun
<1>7. ASSUME RunByHand(r) PROVE Turns'
  <2>1. CASE r = "hand"
    BY <1>2, <1>7, <2>1 DEF RunByHand
  <2>2. CASE r # "hand"
    <3>1. PICK c \in Channels : runs' = [runs EXCEPT ![r] =
                                   [Idle EXCEPT !.pc = "prepare", !.channel = c]]
      BY <1>7, <2>2 DEF RunByHand
    <3>2. /\ [Idle EXCEPT !.pc = "prepare", !.channel = c].pc = "prepare"
          /\ [Idle EXCEPT !.pc = "prepare", !.channel = c].outcome = None
      BY DEF Idle
    <3>3. QED
      BY <1>1, <3>1, <3>2
  <2>3. QED
    BY <2>1, <2>2
<1>8. ASSUME TakeRequest(r) PROVE Turns'
  <2>1. CASE runs' = [runs EXCEPT ![r] = Idle]
    BY <1>2, <2>1
  <2>2. ASSUME NEW c \in Channels, runs' = [runs EXCEPT ![r] = [@ EXCEPT
                     !.pc = "announce", !.channel = c,
                     !.id = IF r = "unit" THEN request ELSE 0]]
        PROVE  Turns'
    <3> DEFINE x == [runs[r] EXCEPT !.pc = "announce", !.channel = c,
                                    !.id = IF r = "unit" THEN request ELSE 0]
    <3>1. runs' = [runs EXCEPT ![r] = x]
      BY <2>2
    <3>2. x.pc = "announce" /\ x.outcome = None
      BY <1>a, <1>8 DEF TakeRequest, Decided, Run
    <3>3. QED
      BY <1>1, <3>1, <3>2
  <2>3. QED
    BY <1>8, <2>1, <2>2 DEF TakeRequest
<1>9. ASSUME Announce(r) \/ UpdateCLI(r) PROVE Turns'
  BY <1>a, <1>3, <1>4, <1>9 DEF Announce, UpdateCLI, Decided
<1>10. ASSUME WaitHealthy(r) PROVE Turns'
  <2>1. CASE GoTo(r, "end")
    <3>1. /\ runs[r].pc = "health" /\ runs'[r] = [runs[r] EXCEPT !.pc = "end"]
          /\ \A q \in Runners \ {r} : runs'[q] = runs[q]
      BY <1>a, <1>10, <2>1 DEF WaitHealthy, GoTo
    <3>2. QED
      BY <1>b, <3>1, QuietTurns
  <2>2. QED
    BY <1>4, <1>10, <2>1 DEF WaitHealthy
<1>11. QED
  BY <1>5, <1>6, <1>7, <1>8, <1>9, <1>10


\* What a step makes of its run: where it goes on, and what it fails with.
LEMMA AfterGoTo ==
    ASSUME runs \in [Runners -> Run], NEW r \in Runners, NEW pc, GoTo(r, pc)
    PROVE  /\ runs'[r].pc = pc /\ \A q \in Runners \ {r} : runs'[q] = runs[q]
           /\ runs'[r].target = runs[r].target /\ runs'[r].saved = runs[r].saved
           /\ runs'[r].images = runs[r].images /\ runs'[r].outcome = runs[r].outcome
           /\ runs'[r].before = runs[r].before /\ runs'[r].crossed = runs[r].crossed
BY DEF GoTo, Run

LEMMA AfterFails ==
    ASSUME runs \in [Runners -> Run], NEW r \in Runners, NEW pc, NEW outcome,
           Fails(r, pc, outcome)
    PROVE  /\ runs'[r].pc = pc /\ \A q \in Runners \ {r} : runs'[q] = runs[q]
           /\ runs'[r].target = runs[r].target /\ runs'[r].saved = runs[r].saved
           /\ runs'[r].images = runs[r].images /\ runs'[r].outcome = outcome
           /\ runs'[r].before = runs[r].before /\ runs'[r].crossed = runs[r].crossed
BY DEF Fails, Run

\* The saved files put back are those the run found.
LEMMA RestoredIsBefore ==
    ASSUME TypeOK, NEW r \in Runners, Backward(r),
           runs[r].pc \in Changing \ {"retag"}
    PROVE  Restored(runs[r].saved) = runs[r].before.disk
<1>1. runs[r].before.disk \in Configs
  BY DEF Backward, Hosts
<1>2. \A f \in Files : runs[r].before.disk[f] \in Release \cup Channels
  BY <1>1 DEF Configs
<1>3. None \notin Release \cup Channels
  BY Bounds
<1>4. \A f \in Files : Restored(runs[r].saved)[f] = runs[r].before.disk[f]
  BY <1>2, <1>3 DEF Backward, Restored
<1>5. QED
  BY <1>1, <1>4 DEF Restored, Configs

\* A run sets out to change the host: those that were have it noted.
LEMMA CrossingTurns ==
    ASSUME TypeOK, Turns, NEW r \in Runners, NEW mine \in Run,
           runs' = Crossing(r, mine), Decided(r)', ~mine.crossed => Kept(r)',
           Busy(r)' /\ (\E q \in Runners \ {r} : runs[q].pc \in Changing)
             => mine.crossed
    PROVE  Turns'
<1>1. runs'[r] = mine
  BY DEF Crossing
<1>2. ASSUME NEW q \in Runners \ {r}
      PROVE  /\ runs'[q].pc = runs[q].pc /\ runs'[q].outcome = runs[q].outcome
             /\ runs'[q].crossed = (runs[q].crossed \/ Busy(q))
  BY <1>2 DEF Crossing, TypeOK, RunsOK, Run
<1>3. ASSUME NEW q \in Runners
      PROVE  Decided(q)' /\ (~runs'[q].crossed => Kept(q)')
  <2>1. CASE q = r
    BY <1>1, <2>1
  <2>2. CASE q # r
    <3>1. Decided(q)'
      BY <1>2, <2>2 DEF Turns, Decided
    <3>2. Busy(q)' = Busy(q)
      BY <1>2, <2>2 DEF Busy
    <3>3. ~Busy(q) => Kept(q)'
      BY <3>2 DEF Busy, Kept, Forward, Backward, Restores, Changing
    <3>4. QED
      BY <1>2, <2>2, <3>1, <3>3
  <2>3. QED
    BY <2>1, <2>2
<1>4. Met'
  <2>1. SUFFICES ASSUME NEW q \in Runners, NEW p \in Runners \ {q},
                        Busy(q)', runs'[p].pc \in Changing
                 PROVE  runs'[q].crossed
    BY DEF Met
  <2>2. CASE q = r
    BY <1>1, <1>2, <2>1, <2>2
  <2>3. CASE q # r
    BY <1>2, <2>1, <2>3 DEF Busy
  <2>4. QED
    BY <2>2, <2>3
<1>5. QED
  BY <1>3, <1>4 DEF Turns

LEMMA TurnsPrepare ==
    ASSUME TypeOK, TypeOK', Grows, Turns, NEW r \in Runners, Prepare(r)
    PROVE  Turns'
<1> USE DEF published
<1>a. /\ runs[r] \in Run /\ runs \in [Runners -> Run] /\ Decided(r)
      /\ runs[r].pc = "prepare" /\ runs[r].outcome = None /\ runs[r].channel \in Channels
      /\ UNCHANGED <<tags, up, registry>>
  BY DEF TypeOK, RunsOK, Turns, Decided, Prepare
<1>1. CASE Fails(r, "end", "unchanged") /\ UNCHANGED <<disk, backup>>
  <2>1. /\ runs'[r].pc = "end" /\ runs'[r].outcome = "unchanged"
        /\ \A q \in Runners \ {r} : runs'[q] = runs[q]
    BY <1>a, <1>1, AfterFails
  <2>2. (~Busy(r) /\ Decided(r))'
    BY <2>1 DEF Busy, Changing, Decided
  <2>3. QED
    BY <1>a, <1>1, <2>1, <2>2, QuietTurns DEF stackVars
<1>2. CASE runs' = Crossing(r, [runs[r] EXCEPT !.pc = "end", !.outcome = "unchanged"])
  <2> DEFINE mine == [runs[r] EXCEPT !.pc = "end", !.outcome = "unchanged"]
  <2>1. mine \in Run /\ mine.pc = "end" /\ mine.outcome = "unchanged"
    BY <1>a DEF Run, Beating
  <2>2. runs'[r] = mine
    BY <1>2 DEF Crossing
  <2>3. ~Busy(r)' /\ Decided(r)'
    BY <2>1, <2>2 DEF Busy, Changing, Decided
  <2>4. Kept(r)'
    BY <2>3 DEF Busy, Kept, Forward, Backward, Restores, Changing
  <2>5. QED
    BY <1>2, <2>1, <2>3, <2>4, CrossingTurns
<1>3. ASSUME NEW recorded \in SUBSET Services,
             NEW env \in {disk[".env"], runs[r].channel},
             disk' = [disk EXCEPT ![".env"] = env],
             backup' = [f \in Files |-> IF f = ".env" THEN disk[f] ELSE None],
             runs' = Crossing(r, [runs[r] EXCEPT
                 !.pc = "pull", !.target = latest[runs[r].channel],
                 !.saved = {".env"},
                 !.images = [s \in Services |-> IF s \notin recorded THEN None
                     ELSE [channel |-> up[s].channel, image |-> up[s].image]],
                 !.before = [disk |-> disk, up |-> up, edge |-> edge,
                             offered |-> registry[env]],
                 !.crossed = \E q \in Runners \ {r} : runs[q].pc \in Changing])
      PROVE  Turns'
  <2> DEFINE images == [s \in Services |-> IF s \notin recorded THEN None
                     ELSE [channel |-> up[s].channel, image |-> up[s].image]]
             found == [disk |-> disk, up |-> up, edge |-> edge,
                       offered |-> registry[env]]
             crossed == \E q \in Runners \ {r} : runs[q].pc \in Changing
             mine == [runs[r] EXCEPT
                 !.pc = "pull", !.target = latest[runs[r].channel],
                 !.saved = {".env"}, !.images = images, !.before = found,
                 !.crossed = crossed]
  <2>1. env \in Channels /\ latest[runs[r].channel] \in Release
    BY <1>a, DiskTypes DEF TypeOK
  <2>2. found \in Hosts
    <3>1. registry[env] \in [Services -> Release]
      BY <2>1 DEF TypeOK
    <3>2. QED
      BY <3>1 DEF TypeOK, Hosts
  <2>3. \A s \in Services : images[s] \in
           {None, [channel |-> up[s].channel, image |-> up[s].image]}
    OBVIOUS
  <2>4. images \in [Services -> Image \cup {None}]
    <3>1. \A s \in Services : [channel |-> up[s].channel, image |-> up[s].image] \in Image
      BY DEF TypeOK, Container, Image
    <3>2. QED
      BY <2>3, <3>1
  <2>5. /\ mine.pc = "pull" /\ mine.saved = {".env"} /\ mine.images = images
        /\ mine.before = found /\ mine.crossed = crossed /\ mine.outcome = None
    <3> HIDE DEF images, found, crossed
    <3>1. QED
      BY <1>a DEF Run
  <2>6. mine \in Run
    <3> HIDE DEF images, found
    <3>1. QED
      BY <1>a, <2>1, <2>2, <2>4, Bounds DEF Run, Beating
  <2>7. runs' = Crossing(r, mine) /\ runs'[r] = mine
    BY <1>3 DEF Crossing
  <2> HIDE DEF mine
  <2>8. Decided(r)'
    BY <2>5, <2>7 DEF Decided
  <2>9. disk'[".env"] = env /\ \A f \in Files \ {".env"} : disk'[f] = disk[f]
    BY <1>3, Bounds DEF TypeOK, Configs
  <2>10. Forward(r)'
    <3>1. \A s \in Services : registry'[env][s] >= registry[env][s]
      BY <2>1 DEF Grows
    <3>2. QED
      BY <2>5, <2>7, <2>9, <3>1, BoundsAssumption DEF Forward
  <2>11. Backward(r)'
    <3>1. \A s \in Services : images[s] \in
            {None, [channel |-> found.up[s].channel, image |-> found.up[s].image]}
      BY <2>3
    <3>2. \A f \in Files :
            (IF f \in {".env"} THEN backup'[f] ELSE disk'[f]) = found.disk[f]
      BY <1>3, <2>9
    <3>3. up' = found.up
      BY <1>a
    <3> HIDE DEF images, found
    <3>4. QED
      BY <2>2, <2>5, <2>7, <3>1, <3>2, <3>3 DEF Backward, Changing
  <2>12. Restores(r)'
    BY <2>5, <2>7 DEF Restores
  <2>13. QED
    BY <2>5, <2>6, <2>7, <2>8, <2>10, <2>11, <2>12, CrossingTurns DEF Kept
<1>4. QED
  BY <1>1, <1>2, <1>3 DEF Prepare

\* The way forward: a step fails, or the run goes on.
LEMMA TurnsForward ==
    ASSUME TypeOK, TypeOK', Turns, NEW r \in Runners,
           \/ Pull(r) \/ (\E f \in Shipped : InstallFile(r, f)) \/ InstallEnds(r)
           \/ GenerateEdge(r) \/ Restart(r) \/ RecreateEdge(r) \/ Verify(r)
    PROVE  Turns'
<1> USE DEF published, budgets, stackVars, edgeVars, domainVars, reqVars, switchVars
<1>a. /\ runs[r] \in Run /\ runs \in [Runners -> Run] /\ Decided(r)
      /\ ~runs[r].crossed => Forward(r) /\ Backward(r)
  BY DEF TypeOK, RunsOK, Turns, Kept
<1>b. None \notin {"upgraded", "putback", "rolledback"}
  BY BoundsAssumption
<1>c. runs[r].pc \in Changing
  BY DEF Pull, InstallFile, InstallEnds, GenerateEdge, Restart, RecreateEdge,
     Verify, Changing
<1>d. disk[".env"] \in Channels /\ (\A s \in Services : tags[disk[".env"]][s] \in Release)
  BY DiskTypes DEF TypeOK
<1>e. UNCHANGED registry
  BY DEF Pull, InstallFile, InstallEnds, GenerateEdge, Restart, RecreateEdge, Verify
<1>1. ASSUME runs[r].pc \in {"install", "edge", "restart", "recreate", "verify"},
             UNCHANGED <<disk, backup>>, Fails(r, "undoedge", "rolledback")
      PROVE  Turns'
  <2>1. Decided(r)' /\ Restores(r)' /\ Forward(r)'
    BY <1>a, <1>1, AfterFails DEF Decided, Restores, Forward
  <2>2. ~runs[r].crossed => Backward(r)'
    BY <1>a, <1>1, AfterFails DEF Backward, Changing
  <2>3. /\ runs'[r].crossed = runs[r].crossed
        /\ \A q \in Runners \ {r} : runs'[q] = runs[q]
    BY <1>a, <1>1, AfterFails
  <2>4. QED
    BY <1>c, <2>1, <2>2, <2>3, OwnTurns DEF Kept
<1>2. ASSUME Pull(r) PROVE Turns'
  <2>1. runs[r].pc = "pull" /\ UNCHANGED <<disk, backup, up>>
    BY <1>2 DEF Pull
  <2>2. CASE tags' = Pulled(Services) /\ GoTo(r, "install")
    <3>1. Decided(r)' /\ Restores(r)'
      BY <1>a, <2>1, <2>2, AfterGoTo DEF Decided, Restores
    <3>2. tags'[disk[".env"]] = [s \in Services |-> registry[disk[".env"]][s]]
      BY <1>d, <2>2 DEF Pulled, TypeOK
    <3>3. ~runs[r].crossed => Forward(r)'
      BY <1>a, <1>b, <2>1, <2>2, <3>1, <3>2, AfterGoTo DEF Forward, Decided
    <3>4. ~runs[r].crossed => Backward(r)'
      BY <1>a, <2>1, <2>2, AfterGoTo DEF Backward, Changing
    <3>5. QED
      BY <1>a, <1>c, <2>2, <3>1, <3>3, <3>4, AfterGoTo, OwnTurns DEF Kept
  <2>3. CASE Fails(r, "putback", "putback")
    <3>1. Decided(r)' /\ Restores(r)' /\ Forward(r)'
      BY <1>a, <2>3, AfterFails DEF Decided, Restores, Forward
    <3>2. ~runs[r].crossed => Backward(r)'
      BY <1>a, <2>1, <2>3, AfterFails DEF Backward, Changing
    <3>3. QED
      BY <1>a, <1>c, <2>3, <3>1, <3>2, AfterFails, OwnTurns DEF Kept
  <2>4. QED
    BY <1>2, <2>2, <2>3 DEF Pull
<1>3. ASSUME NEW f \in Shipped, InstallFile(r, f) PROVE Turns'
  <2>1. /\ runs[r].pc = "install" /\ UNCHANGED <<tags, up>>
        /\ f \notin runs[r].saved /\ f \in Files /\ f # ".env"
    BY <1>3, BoundsAssumption DEF InstallFile, Files
  <2>2. /\ runs'[r].pc = "install" /\ runs'[r].target = runs[r].target
        /\ runs'[r].saved = runs[r].saved \cup {f}
        /\ runs'[r].images = runs[r].images /\ runs'[r].before = runs[r].before
        /\ runs'[r].outcome = runs[r].outcome /\ runs'[r].crossed = runs[r].crossed
        /\ \A q \in Runners \ {r} : runs'[q] = runs[q]
    BY <1>a, <1>3, <2>1 DEF InstallFile, Run
  <2>3. /\ disk' = [disk EXCEPT ![f] = runs[r].target]
        /\ backup' = [backup EXCEPT ![f] = disk[f]]
    BY <1>3 DEF InstallFile
  <2>4. Decided(r)' /\ Restores(r)'
    BY <1>a, <2>1, <2>2 DEF Decided, Restores
  <2>5. /\ disk'[f] = runs[r].target /\ \A g \in Files \ {f} : disk'[g] = disk[g]
        /\ disk'[".env"] = disk[".env"]
    BY <2>1, <2>3, Bounds DEF TypeOK, Configs
  <2>6. ~runs[r].crossed => Forward(r)'
    <3>1. runs[r].saved \subseteq Files
      BY <1>a DEF Run
    <3>2. QED
      BY <1>a, <1>b, <2>1, <2>2, <2>4, <2>5, <3>1 DEF Forward, Decided
  <2>7. ~runs[r].crossed => Backward(r)'
    <3>1. \A g \in Files : backup'[g] = IF g = f THEN disk[f] ELSE backup[g]
      BY <2>3 DEF TypeOK
    <3>2. QED
      BY <1>a, <2>1, <2>2, <2>5, <3>1 DEF Backward, Changing
  <2>8. QED
    BY <1>c, <2>2, <2>4, <2>6, <2>7, OwnTurns DEF Kept
<1>4. ASSUME InstallEnds(r) PROVE Turns'
  <2>1. runs[r].pc = "install" /\ UNCHANGED stackVars
    BY <1>4 DEF InstallEnds
  <2>2. CASE runs[r].saved = Files /\ GoTo(r, "edge")
    <3>1. Decided(r)' /\ Restores(r)'
      BY <1>a, <2>1, <2>2, AfterGoTo DEF Decided, Restores
    <3>2. ~runs[r].crossed => Forward(r)'
      <4>1. Shipped = Files \ {".env"}
        BY BoundsAssumption DEF Files
      <4>2. QED
        BY <1>a, <1>b, <2>1, <2>2, <3>1, <4>1, AfterGoTo DEF Forward, Decided
    <3>3. ~runs[r].crossed => Backward(r)'
      BY <1>a, <2>1, <2>2, AfterGoTo DEF Backward, Changing
    <3>4. QED
      BY <1>a, <1>c, <2>2, <3>1, <3>2, <3>3, AfterGoTo, OwnTurns DEF Kept
  <2>3. QED
    BY <1>1, <1>4, <2>1, <2>2 DEF InstallEnds
<1>5. ASSUME GenerateEdge(r) PROVE Turns'
  <2>1. runs[r].pc = "edge" /\ UNCHANGED stackVars
    BY <1>5 DEF GenerateEdge
  <2>2. ASSUME NEW b, runs' = [runs EXCEPT ![r].pc = "restart", ![r].edged = b]
        PROVE  Turns'
    <3>1. /\ runs'[r].pc = "restart" /\ runs'[r].target = runs[r].target
          /\ runs'[r].saved = runs[r].saved /\ runs'[r].images = runs[r].images
          /\ runs'[r].before = runs[r].before /\ runs'[r].outcome = runs[r].outcome
          /\ runs'[r].crossed = runs[r].crossed
          /\ \A q \in Runners \ {r} : runs'[q] = runs[q]
      BY <1>a, <2>2 DEF Run
    <3>2. Decided(r)' /\ Restores(r)'
      BY <1>a, <2>1, <3>1 DEF Decided, Restores
    <3>3. ~runs[r].crossed => Forward(r)' /\ Backward(r)'
      BY <1>a, <1>b, <2>1, <3>1, <3>2 DEF Forward, Backward, Changing, Decided
    <3>4. QED
      BY <1>c, <3>1, <3>2, <3>3, OwnTurns DEF Kept
  <2>3. QED
    BY <1>1, <1>5, <2>1, <2>2 DEF GenerateEdge
<1>6. ASSUME Restart(r) PROVE Turns'
  <2>1. runs[r].pc = "restart" /\ UNCHANGED <<disk, backup, tags>>
    BY <1>6 DEF Restart
  <2>2. CASE up' = Recreated(tags, Services) /\ GoTo(r, "recreate")
    <3>1. Decided(r)' /\ Restores(r)'
      BY <1>a, <2>1, <2>2, AfterGoTo DEF Decided, Restores
    <3>2. ~runs[r].crossed => Forward(r)'
      BY <1>a, <1>b, <2>1, <2>2, <3>1, BoundsAssumption, AfterGoTo
      DEF Forward, Decided, Recreated
    <3>3. ~runs[r].crossed => Backward(r)'
      BY <1>a, <2>1, <2>2, AfterGoTo DEF Backward, Changing
    <3>4. QED
      BY <1>a, <1>c, <2>2, <3>1, <3>2, <3>3, AfterGoTo, OwnTurns DEF Kept
  <2>3. QED
    BY <1>1, <1>6, <2>1, <2>2 DEF Restart
<1>7. ASSUME RecreateEdge(r) PROVE Turns'
  <2>1. runs[r].pc = "recreate" /\ UNCHANGED <<disk, backup, tags>>
    BY <1>7 DEF RecreateEdge
  <2>2. CASE GoTo(r, "verify") /\ up' \in {up, Recreated(tags, {"caddy"})}
    <3>1. Decided(r)' /\ Restores(r)'
      BY <1>a, <2>1, <2>2, AfterGoTo DEF Decided, Restores
    <3>2. ~runs[r].crossed => Forward(r)'
      <4>1. SUFFICES ASSUME ~runs[r].crossed PROVE Forward(r)'
        OBVIOUS
      <4>2. up' = up
        <5>1. disk["compose"] = runs[r].target
          BY <1>a, <2>1, <4>1, BoundsAssumption DEF Forward
        <5>2. \A s \in Services : Recreated(tags, {"caddy"})[s] = up[s]
          BY <1>a, <2>1, <4>1, <5>1 DEF Forward, Recreated
        <5>3. up \in [Services -> Container] /\ Recreated(tags, {"caddy"}) \in [Services -> Container]
          BY RecreatedType DEF TypeOK
        <5>4. QED
          BY <2>2, <5>2, <5>3
      <4>3. QED
        BY <1>a, <1>b, <2>1, <2>2, <3>1, <4>1, <4>2, AfterGoTo DEF Forward, Decided
    <3>3. ~runs[r].crossed => Backward(r)'
      BY <1>a, <2>1, <2>2, AfterGoTo DEF Backward, Changing
    <3>4. QED
      BY <1>a, <1>c, <2>2, <3>1, <3>2, <3>3, AfterGoTo, OwnTurns DEF Kept
  <2>3. QED
    BY <1>1, <1>7, <2>1, <2>2 DEF RecreateEdge
<1>8. ASSUME Verify(r) PROVE Turns'
  <2>1. runs[r].pc = "verify" /\ UNCHANGED stackVars
    BY <1>8 DEF Verify
  <2>2. ASSUME NEW pc \in {"health", "end"},
               runs' = [runs EXCEPT ![r].pc = pc, ![r].outcome = "upgraded"]
        PROVE  Turns'
    <3>1. /\ runs'[r].pc = pc /\ runs'[r].target = runs[r].target
          /\ runs'[r].before = runs[r].before
          /\ runs'[r].outcome = "upgraded" /\ runs'[r].crossed = runs[r].crossed
          /\ \A q \in Runners \ {r} : runs'[q] = runs[q]
      BY <1>a, <2>2 DEF Run
    <3>2. Decided(r)' /\ Restores(r)' /\ Backward(r)'
      BY <3>1 DEF Decided, Restores, Backward, Changing
    <3>3. ~runs[r].crossed => Forward(r)'
      BY <1>a, <2>1, <3>1 DEF Forward
    <3>4. QED
      BY <1>c, <3>1, <3>2, <3>3, OwnTurns DEF Kept
  <2>3. QED
    BY <1>1, <1>8, <2>1, <2>2 DEF Verify
<1>9. QED
  BY <1>2, <1>3, <1>4, <1>5, <1>6, <1>7, <1>8

\* The way back.
LEMMA TurnsBackward ==
    ASSUME TypeOK, TypeOK', Turns, NEW r \in Runners,
           PutBack(r) \/ UndoEdge(r) \/ UndoFiles(r) \/ UndoStack(r)
    PROVE  Turns'
<1> USE DEF published, budgets, stackVars, edgeVars, domainVars, reqVars, switchVars
<1>a. /\ runs[r] \in Run /\ runs \in [Runners -> Run] /\ Decided(r)
      /\ ~runs[r].crossed => Forward(r) /\ Backward(r)
  BY DEF TypeOK, RunsOK, Turns, Kept
<1>b. runs[r].pc \in Changing
  BY DEF PutBack, UndoEdge, UndoFiles, UndoStack, Changing
<1>1. ASSUME PutBack(r) PROVE Turns'
  <2>1. runs[r].pc = "putback" /\ UNCHANGED <<tags, up>>
    BY <1>1 DEF PutBack
  <2>2. CASE disk' = Restored(runs[r].saved) /\ GoTo(r, "end")
    <3>1. Decided(r)' /\ Forward(r)' /\ Backward(r)'
      BY <1>a, <2>1, <2>2, AfterGoTo DEF Decided, Forward, Backward, Changing
    <3>2. ~runs[r].crossed => Restores(r)'
      BY <1>a, <2>1, <2>2, RestoredIsBefore, AfterGoTo
      DEF Restores, Decided, Backward, Changing
    <3>3. QED
      BY <1>a, <1>b, <2>2, <3>1, <3>2, AfterGoTo, OwnTurns DEF Kept
  <2>3. CASE Fails(r, "end", "stuck")
    <3>1. Decided(r)' /\ Forward(r)' /\ Backward(r)' /\ Restores(r)'
      BY <1>a, <2>1, <2>3, AfterFails DEF Decided, Forward, Backward, Changing, Restores
    <3>2. QED
      BY <1>a, <1>b, <2>3, <3>1, AfterFails, OwnTurns DEF Kept
  <2>4. QED
    BY <1>1, <2>2, <2>3 DEF PutBack, PutsBack
<1>2. ASSUME UndoEdge(r) PROVE Turns'
  <2>1. runs[r].pc = "undoedge" /\ UNCHANGED stackVars /\ GoTo(r, "undo")
    BY <1>2 DEF UndoEdge
  <2>2. Decided(r)' /\ Forward(r)' /\ Restores(r)'
    BY <1>a, <2>1, AfterGoTo DEF Decided, Forward, Restores
  <2>3. ~runs[r].crossed => Backward(r)'
    BY <1>a, <2>1, AfterGoTo DEF Backward, Changing
  <2>4. QED
    BY <1>a, <1>b, <2>1, <2>2, <2>3, AfterGoTo, OwnTurns DEF Kept
<1>3. ASSUME UndoFiles(r) PROVE Turns'
  <2>1. runs[r].pc = "undo"
    BY <1>3 DEF UndoFiles
  <2>2. CASE disk' = Restored(runs[r].saved) /\ GoTo(r, "retag")
    <3>1. Decided(r)' /\ Forward(r)' /\ Restores(r)'
      BY <1>a, <2>1, <2>2, AfterGoTo DEF Decided, Forward, Restores
    <3>2. ~runs[r].crossed => Backward(r)'
      BY <1>a, <2>1, <2>2, RestoredIsBefore, AfterGoTo DEF Backward, Changing
    <3>3. QED
      BY <1>a, <1>b, <2>2, <3>1, <3>2, AfterGoTo, OwnTurns DEF Kept
  <2>3. CASE Fails(r, "retag", "stuck")
    <3>1. Decided(r)' /\ Forward(r)' /\ Restores(r)'
      BY <1>a, <2>1, <2>3, AfterFails DEF Decided, Forward, Restores
    <3>2. ~runs[r].crossed => Backward(r)'
      BY <1>a, <2>1, <2>3, AfterFails DEF Backward, Changing
    <3>3. QED
      BY <1>a, <1>b, <2>3, <3>1, <3>2, AfterFails, OwnTurns DEF Kept
  <2>4. QED
    BY <1>3, <2>2, <2>3 DEF UndoFiles, PutsBack
<1>4. ASSUME UndoStack(r) PROVE Turns'
  <2>1. runs[r].pc = "retag" /\ UNCHANGED disk
    BY <1>4 DEF UndoStack
  <2>2. CASE tags' = Retagged(r, Services) /\ up' = Recreated(tags', Services) /\ GoTo(r, "end")
    <3>1. Decided(r)' /\ Forward(r)' /\ Backward(r)'
      BY <1>a, <2>1, <2>2, AfterGoTo DEF Decided, Forward, Backward, Changing
    <3>2. ~runs[r].crossed => Restores(r)'
      <4> DEFINE b == runs[r].before
      <4>1. SUFFICES ASSUME ~runs[r].crossed, runs[r].outcome = "rolledback"
                     PROVE  /\ disk' = b.disk
                            /\ \A s \in Services :
                                 /\ up'[s].conf = b.disk["compose"]
                                 /\ up'[s].channel = b.disk[".env"]
                                 /\ runs[r].images[s] # None
                                      /\ b.up[s].channel = b.disk[".env"]
                                      => up'[s].image = b.up[s].image
        BY <1>a, <2>1, <2>2, AfterGoTo DEF Restores, Decided
      <4>2. disk = b.disk /\ disk' = disk
        BY <1>a, <2>1, <4>1 DEF Backward
      <4>3. disk[".env"] \in Channels
        BY DiskTypes
      <4>4. ASSUME NEW s \in Services
            PROVE  /\ up'[s].conf = disk["compose"] /\ up'[s].channel = disk[".env"]
                   /\ up'[s].image = tags'[disk[".env"]][s]
        BY <2>1, <2>2 DEF Recreated
      <4>5. ASSUME NEW s \in Services, runs[r].images[s] # None,
                   b.up[s].channel = b.disk[".env"]
            PROVE  tags'[disk[".env"]][s] = b.up[s].image
        <5>1. runs[r].images[s] = [channel |-> b.up[s].channel, image |-> b.up[s].image]
          BY <1>a, <1>b, <4>1, <4>5 DEF Backward
        <5>2. QED
          BY <2>2, <4>2, <4>3, <4>5, <5>1 DEF Retagged
      <4>6. ASSUME NEW s \in Services
            PROVE  /\ up'[s].conf = b.disk["compose"]
                   /\ up'[s].channel = b.disk[".env"]
                   /\ runs[r].images[s] # None /\ b.up[s].channel = b.disk[".env"]
                        => up'[s].image = b.up[s].image
        BY <4>2, <4>4, <4>5
      <4>7. QED
        BY <4>2, <4>6
    <3>3. QED
      BY <1>a, <1>b, <2>2, <3>1, <3>2, AfterGoTo, OwnTurns DEF Kept
  <2>3. CASE Fails(r, "end", "stuck")
    <3>1. Decided(r)' /\ Forward(r)' /\ Backward(r)' /\ Restores(r)'
      BY <1>a, <2>1, <2>3, AfterFails DEF Decided, Forward, Backward, Changing, Restores
    <3>2. QED
      BY <1>a, <1>b, <2>3, <3>1, AfterFails, OwnTurns DEF Kept
  <2>4. QED
    BY <1>4, <2>2, <2>3 DEF UndoStack
<1>5. QED
  BY <1>1, <1>2, <1>3, <1>4

LEMMA StepGrows == ASSUME TypeOK, [Next]_vars PROVE Grows
<1> USE DEF published, budgets, stackVars, edgeVars, domainVars, reqVars, switchVars
<1>a. \A c \in Channels : \A s \in Services : registry[c][s] \in Int
  <2>1. Release \subseteq Int
    BY DEF Release
  <2>2. QED
    BY <2>1 DEF TypeOK
<1>1. ASSUME UNCHANGED registry PROVE Grows
  BY <1>a, <1>1 DEF Grows
<1>2. ASSUME NEW c \in Channels, NEW s \in Services, PublishImage(c, s) PROVE Grows
  <2>1. registry' = [registry EXCEPT ![c][s] = @ + 1]
    BY <1>2 DEF PublishImage
  <2>2. ASSUME NEW d \in Channels, NEW t \in Services
        PROVE  registry'[d][t] >= registry[d][t]
    <3>1. registry[d] \in [Services -> Release] /\ registry \in [Channels -> [Services -> Release]]
      BY DEF TypeOK
    <3>2. registry'[d][t] = (IF d = c /\ t = s THEN registry[d][t] + 1 ELSE registry[d][t])
      BY <2>1, <3>1
    <3>3. QED
      BY <1>a, <3>2
  <2>3. QED
    BY <2>2 DEF Grows
<1>3. ASSUME NEW c \in Callers, CheckRequest(c) \/ WriteRequest(c)
      PROVE  UNCHANGED registry
  BY <1>3 DEF CheckRequest, WriteRequest
<1>4. ASSUME \/ GoStale \/ StopUpdater \/ DiscardPending \/ StartUpdater
             \/ AgentStarts \/ Launch \/ ChangeDomains \/ ApplyDomains \/ ReloadEdge
             \/ RecordInstalled \/ Reboot \/ \E c \in Channels : Publish(c)
      PROVE  UNCHANGED registry
  BY <1>4 DEF GoStale, StopUpdater, DiscardPending, StartUpdater, AgentStarts, Launch,
       ChangeDomains, ApplyDomains, ReloadEdge, RecordInstalled, Reboot, Publish
<1>5. ASSUME NEW r \in Runners, RunByHand(r) \/ RunStep(r) \/ KillRun(r)
      PROVE  UNCHANGED registry
  BY <1>5 DEF RunByHand, RunStep, KillRun, TakeLock, TakeRequest, Announce, UpdateCLI,
       Prepare, Pull, PutBack, InstallFile, InstallEnds, GenerateEdge, Restart,
       RecreateEdge, Verify, UndoEdge, UndoFiles, UndoStack, WaitHealthy, EndRun
<1>6. QED
  BY <1>1, <1>2, <1>3, <1>4, <1>5 DEF Next, vars

LEMMA TurnsStep ==
    ASSUME TypeOK, TypeOK', Turns, [Next]_vars
    PROVE  Turns'
<1> USE DEF published, budgets, stackVars, edgeVars, domainVars, reqVars, switchVars
<1>a. Grows
  BY StepGrows
<1>1. ASSUME UNCHANGED <<runs, stackVars>> PROVE Turns'
  BY <1>a, <1>1, QuietTurns
<1>2. ASSUME NEW c \in Callers, CheckRequest(c) \/ WriteRequest(c)
      PROVE  UNCHANGED <<runs, stackVars>>
  BY <1>2 DEF CheckRequest, WriteRequest
<1>3. ASSUME \/ GoStale \/ StopUpdater \/ DiscardPending \/ StartUpdater
             \/ AgentStarts \/ ChangeDomains \/ ApplyDomains \/ ReloadEdge
             \/ RecordInstalled
             \/ \E c \in Channels : Publish(c) \/ \E s \in Services : PublishImage(c, s)
      PROVE  UNCHANGED <<runs, stackVars>>
  BY <1>3 DEF GoStale, StopUpdater, DiscardPending, StartUpdater, AgentStarts,
       ChangeDomains, ApplyDomains, ReloadEdge, RecordInstalled, Publish, PublishImage
<1>4. ASSUME Launch PROVE Turns'
  <2>1. /\ "unit" \in Runners /\ UNCHANGED stackVars
        /\ runs' = [runs EXCEPT !["unit"] = [Idle EXCEPT !.pc = "lock"]]
    BY <1>4 DEF Launch
  <2>2. /\ runs'["unit"].pc = "lock" /\ runs'["unit"].outcome = None
        /\ \A q \in Runners \ {"unit"} : runs'[q] = runs[q]
    BY <2>1 DEF TypeOK, RunsOK, Idle
  <2>3. (~Busy("unit") /\ Decided("unit"))'
    BY <2>2, BoundsAssumption DEF Busy, Changing, Decided
  <2>4. QED
    BY <1>a, <2>1, <2>2, <2>3, QuietTurns
<1>5. ASSUME Reboot PROVE Turns'
  <2>1. UNCHANGED stackVars /\ \A q \in Runners : runs'[q] = Idle
    BY <1>5 DEF Reboot
  <2>2. \A q \in Runners : runs'[q].pc = "idle" /\ runs'[q].outcome = None
    BY <2>1 DEF Idle
  <2>3. \A q \in Runners : (~Busy(q) /\ Decided(q))'
    BY <2>2, BoundsAssumption DEF Busy, Changing, Decided
  <2>4. QED
    BY <1>a, <2>1, <2>3, QuietTurns
<1>6. ASSUME NEW r \in Runners, RunByHand(r) \/ RunStep(r) \/ KillRun(r)
      PROVE  Turns'
  BY <1>a, <1>6, TurnsOfRun, TurnsPrepare, TurnsForward, TurnsBackward DEF RunStep
<1>7. QED
  BY <1>1, <1>2, <1>3, <1>4, <1>5, <1>6 DEF Next, vars

LEMMA TurnsAlways == Spec => [](Safe /\ Turns)
<1>1. Safe /\ Turns /\ [Next]_vars => (Safe /\ Turns)'
  BY SafeStep, TurnsStep DEF Safe
<1>2. Init => Safe /\ Turns
  BY SafeInit, TurnsInit
<1>3. QED
  BY <1>1, <1>2, PTL DEF Spec

\* An upgrade that says it succeeded, and that no other crossed, left every file
\* of its release and every container on it and on its channel's images, none
\* older than was offered when it began (server_upgrade.go); whatever one cut
\* short before it left behind, and whatever is published meanwhile.
THEOREM SuccessIsWhole == Spec => []SucceededIsWhole
<1>1. Safe /\ Turns => SucceededIsWhole
  BY DEF Turns, Kept, Forward, SucceededIsWhole
<1>2. QED
  BY <1>1, TurnsAlways, PTL

\* One that says it put the host back, and that no other crossed, did so: files
\* and containers as they were, or those that can be (server_upgrade.go,
\* putBackBeforeRestart and rollBack).
THEOREM FailurePutsBack == Spec => []FailureRestores
<1>1. Safe /\ Turns => FailureRestores
  BY DEF Turns, Kept, Restores, FailureRestores
<1>2. QED
  BY <1>1, TurnsAlways, PTL

\* The lock is held by the run that is past it.
Alone == \A r \in Runners :
           /\ runs[r].pc \notin {"idle", "lock"} => lock = r
           /\ ~runs[r].crossed

LEMMA AloneStep ==
    ASSUME "direct" \notin Runners, TypeOK, TypeOK', Turns, Alone, [Next]_vars
    PROVE  Alone'
<1> USE DEF published, budgets, stackVars, edgeVars, domainVars, reqVars, switchVars
<1>a. runs \in [Runners -> Run] /\ None \notin Runners
  BY BoundsAssumption DEF TypeOK, RunsOK
<1>1. ASSUME UNCHANGED <<lock, runs>> PROVE Alone'
  BY <1>1 DEF Alone
<1>2. ASSUME NEW r \in Runners, \A q \in Runners \ {r} : runs'[q] = runs[q],
             runs[r].pc \notin {"idle", "lock"}, ~runs'[r].crossed,
             \/ lock' = lock
             \/ runs'[r].pc = "idle" /\ Unlocked(r)
      PROVE  Alone'
  BY <1>a, <1>2 DEF Alone, Unlocked
<1>3. ASSUME NEW r \in Runners, NEW x, runs' = [runs EXCEPT ![r] = x], lock' = lock,
             x.pc = "idle" \/ x.pc = "lock", ~x.crossed
      PROVE  Alone'
  BY <1>a, <1>3 DEF Alone
<1>b. /\ Idle.pc = "idle" /\ ~Idle.crossed
      /\ [Idle EXCEPT !.pc = "lock"].pc = "lock" /\ ~[Idle EXCEPT !.pc = "lock"].crossed
  BY DEF Idle
<1>4. ASSUME NEW c \in Callers, CheckRequest(c) \/ WriteRequest(c)
      PROVE  UNCHANGED <<lock, runs>>
  BY <1>4 DEF CheckRequest, WriteRequest
<1>5. ASSUME \/ GoStale \/ StopUpdater \/ DiscardPending \/ StartUpdater
             \/ AgentStarts \/ ChangeDomains \/ ApplyDomains \/ ReloadEdge
             \/ RecordInstalled
             \/ \E c \in Channels : Publish(c) \/ \E s \in Services : PublishImage(c, s)
      PROVE  UNCHANGED <<lock, runs>>
  BY <1>5 DEF GoStale, StopUpdater, DiscardPending, StartUpdater, AgentStarts,
       ChangeDomains, ApplyDomains, ReloadEdge, RecordInstalled, Publish, PublishImage
<1>6. ASSUME Launch PROVE Alone'
  BY <1>b, <1>3, <1>6 DEF Launch
<1>7. ASSUME Reboot PROVE Alone'
  BY <1>b, <1>7 DEF Reboot, Alone
<1>8. ASSUME NEW r \in Runners, RunByHand(r) PROVE Alone'
  <2>1. r = "hand"
    BY <1>8, BoundsAssumption DEF RunByHand
  <2>2. QED
    BY <1>b, <1>3, <1>8, <2>1 DEF RunByHand
<1>9. ASSUME NEW r \in Runners, TakeLock(r) PROVE Alone'
  <2>1. CASE lock = None
    <3>1. runs'[r].pc = "take" /\ lock' = r /\ ~runs'[r].crossed
          /\ \A q \in Runners \ {r} : runs'[q] = runs[q]
      BY <1>a, <1>9, <2>1, AfterGoTo DEF TakeLock, Alone
    <3>2. QED
      BY <1>a, <2>1, <3>1 DEF Alone
  <2>2. CASE lock # None
    BY <1>b, <1>3, <1>9, <2>2 DEF TakeLock
  <2>3. QED
    BY <2>1, <2>2
<1>10. ASSUME NEW r \in Runners, KillRun(r) PROVE Alone'
  <2>1. CASE runs[r].pc = "lock" /\ lock # r
    BY <1>b, <1>3, <1>10, <2>1 DEF KillRun, Unlocked
  <2>2. CASE ~(runs[r].pc = "lock" /\ lock # r)
    BY <1>a, <1>b, <1>10, <2>2 DEF KillRun, Unlocked, Alone
  <2>3. QED
    BY <2>1, <2>2
<1>11. ASSUME NEW r \in Runners, TakeRequest(r) PROVE Alone'
  <2>1. runs[r].pc = "take" /\ ~runs[r].crossed
    BY <1>11 DEF TakeRequest, Alone
  <2>2. CASE runs' = [runs EXCEPT ![r] = Idle] /\ Unlocked(r)
    BY <1>a, <1>b, <1>2, <2>1, <2>2
  <2>3. CASE \E c \in Channels :
                 runs' = [runs EXCEPT ![r] = [@ EXCEPT
                     !.pc = "announce", !.channel = c,
                     !.id = IF r = "unit" THEN request ELSE 0]]
             /\ UNCHANGED lock
    <3>1. \A q \in Runners \ {r} : runs'[q] = runs[q]
      BY <1>a, <2>3
    <3>2. ~runs'[r].crossed
      BY <1>a, <2>1, <2>3 DEF Run
    <3>3. QED
      BY <1>2, <2>1, <2>3, <3>1, <3>2
  <2>4. QED
    BY <1>11, <2>2, <2>3 DEF TakeRequest
<1>12. ASSUME NEW r \in Runners, EndRun(r) PROVE Alone'
  BY <1>a, <1>b, <1>2, <1>12 DEF EndRun
<1>13. ASSUME NEW r \in Runners, NEW mine, runs' = Crossing(r, mine), lock' = lock,
             runs[r].pc = "prepare",
             mine.crossed => \E q \in Runners \ {r} : runs[q].pc \in Changing
      PROVE  Alone'
  <2>1. \A q \in Runners \ {r} : runs[q].pc \in {"idle", "lock"}
    BY <1>13 DEF Alone
  <2>2. \A q \in Runners \ {r} : ~Busy(q) /\ runs[q].pc \notin Changing
    BY <2>1, BoundsAssumption DEF Busy, Changing, Turns, Decided
  <2>3. \A q \in Runners \ {r} : runs'[q] = [runs[q] EXCEPT !.crossed = @ \/ Busy(q)]
    BY <1>13 DEF Crossing
  <2>4. \A q \in Runners \ {r} : ~runs'[q].crossed /\ runs'[q].pc = runs[q].pc
    BY <1>a, <2>2, <2>3 DEF Run, Alone
  <2>5. runs'[r] = mine /\ ~mine.crossed
    BY <1>13, <2>2 DEF Crossing
  <2>6. QED
    BY <1>13, <2>1, <2>4, <2>5 DEF Alone
<1>14. ASSUME NEW r \in Runners, Prepare(r) PROVE Alone'
  <2>1. runs[r] \in Run /\ runs[r].pc = "prepare" /\ lock' = lock /\ ~runs[r].crossed
    BY <1>a, <1>14 DEF Prepare, Alone
  <2>2. CASE Fails(r, "end", "unchanged")
    BY <1>a, <1>2, <2>1, <2>2, AfterFails
  <2>3. CASE runs' = Crossing(r, [runs[r] EXCEPT !.pc = "end", !.outcome = "unchanged"])
    <3>1. [runs[r] EXCEPT !.pc = "end", !.outcome = "unchanged"].crossed = runs[r].crossed
      BY <2>1 DEF Run
    <3>2. QED
      BY <1>13, <2>1, <2>3, <3>1
  <2>4. ASSUME NEW recorded \in SUBSET Services,
               NEW env \in {disk[".env"], runs[r].channel},
               runs' = Crossing(r, [runs[r] EXCEPT
                 !.pc = "pull", !.target = latest[runs[r].channel],
                 !.saved = {".env"},
                 !.images = [s \in Services |-> IF s \notin recorded THEN None
                     ELSE [channel |-> up[s].channel, image |-> up[s].image]],
                 !.before = [disk |-> disk, up |-> up, edge |-> edge,
                             offered |-> registry[env]],
                 !.crossed = \E q \in Runners \ {r} : runs[q].pc \in Changing])
        PROVE  Alone'
    <3> DEFINE crossed == \E q \in Runners \ {r} : runs[q].pc \in Changing
               images == [s \in Services |-> IF s \notin recorded THEN None
                     ELSE [channel |-> up[s].channel, image |-> up[s].image]]
               found == [disk |-> disk, up |-> up, edge |-> edge,
                         offered |-> registry[env]]
               mine == [runs[r] EXCEPT
                 !.pc = "pull", !.target = latest[runs[r].channel],
                 !.saved = {".env"}, !.images = images, !.before = found,
                 !.crossed = crossed]
    <3>1. mine.crossed = crossed
      <4> HIDE DEF crossed, images, found
      <4>1. QED
        BY <2>1 DEF Run
    <3>2. runs' = Crossing(r, mine)
      BY <2>4
    <3> HIDE DEF mine
    <3>3. QED
      BY <1>13, <2>1, <3>1, <3>2
  <2>5. QED
    BY <1>14, <2>2, <2>3, <2>4 DEF Prepare
<1>15. ASSUME NEW r \in Runners, NEW pc, GoTo(r, pc), lock' = lock,
             runs[r].pc \notin {"idle", "lock"}
       PROVE  Alone'
  BY <1>a, <1>2, <1>15, AfterGoTo DEF Alone
<1>16. ASSUME NEW r \in Runners, NEW pc, NEW outcome, Fails(r, pc, outcome),
             lock' = lock, runs[r].pc \notin {"idle", "lock"}
       PROVE  Alone'
  BY <1>a, <1>2, <1>16, AfterFails DEF Alone
<1>17. ASSUME NEW r \in Runners,
              (\E f \in Shipped : InstallFile(r, f)) \/ GenerateEdge(r) \/ Verify(r)
       PROVE  Alone'
  <2>1. runs[r].pc \notin {"idle", "lock"} /\ lock' = lock /\ runs[r] \in Run
    BY <1>a, <1>17 DEF InstallFile, GenerateEdge, Verify
  <2>2. CASE Fails(r, "undoedge", "rolledback")
    BY <1>16, <2>1, <2>2
  <2>3. ASSUME NEW f, runs' = [runs EXCEPT ![r].saved = @ \cup {f}] PROVE Alone'
    <3>1. runs'[r].crossed = runs[r].crossed /\ \A q \in Runners \ {r} : runs'[q] = runs[q]
      BY <1>a, <2>1, <2>3 DEF Run
    <3>2. QED
      BY <1>2, <2>1, <3>1 DEF Alone
  <2>4. ASSUME NEW edged, runs' = [runs EXCEPT ![r].pc = "restart", ![r].edged = edged]
        PROVE  Alone'
    <3>1. runs'[r].crossed = runs[r].crossed /\ \A q \in Runners \ {r} : runs'[q] = runs[q]
      BY <1>a, <2>1, <2>4 DEF Run
    <3>2. QED
      BY <1>2, <2>1, <3>1 DEF Alone
  <2>5. ASSUME NEW pc, runs' = [runs EXCEPT ![r].pc = pc, ![r].outcome = "upgraded"]
        PROVE  Alone'
    <3>1. runs'[r].crossed = runs[r].crossed /\ \A q \in Runners \ {r} : runs'[q] = runs[q]
      BY <1>a, <2>1, <2>5 DEF Run
    <3>2. QED
      BY <1>2, <2>1, <3>1 DEF Alone
  <2>6. QED
    BY <1>17, <2>2, <2>3, <2>4, <2>5 DEF InstallFile, GenerateEdge, Verify
<1>18. ASSUME NEW r \in Runners,
              \/ Announce(r) \/ UpdateCLI(r) \/ Pull(r) \/ PutBack(r)
              \/ InstallEnds(r) \/ Restart(r) \/ RecreateEdge(r)
              \/ UndoEdge(r) \/ UndoFiles(r) \/ UndoStack(r) \/ WaitHealthy(r)
       PROVE  Alone'
  <2>1. runs[r].pc \notin {"idle", "lock"} /\ lock' = lock
    BY <1>18 DEF Announce, UpdateCLI, Pull, PutBack, InstallEnds, Restart,
         RecreateEdge, UndoEdge, UndoFiles, UndoStack, WaitHealthy
  <2>2. \/ \E pc \in Points : GoTo(r, pc)
        \/ \E pc \in Points, outcome \in Outcomes : Fails(r, pc, outcome)
    BY <1>18 DEF Announce, UpdateCLI, Pull, PutBack, InstallEnds, Restart,
         RecreateEdge, UndoEdge, UndoFiles, UndoStack, WaitHealthy, PutsBack,
         Points, Beating, Outcomes
  <2>3. QED
    BY <1>15, <1>16, <2>1, <2>2
<1>19. QED
  BY <1>1, <1>4, <1>5, <1>6, <1>7, <1>8, <1>9, <1>10, <1>11, <1>12, <1>14, <1>17,
     <1>18 DEF Next, RunStep, vars

\* Where every upgrade takes the lock (lockUpgrade, updater.go), none is ever
\* crossed by another; only `server-upgrade` at a terminal, which takes none, can be.
THEOREM LockedNeverCross ==
    ASSUME "direct" \notin Runners
    PROVE  Spec => [](\A r \in Runners : ~runs[r].crossed)
<1>1. Init => Safe /\ Turns /\ Alone
  BY SafeInit, TurnsInit DEF Init, Idle, Alone
<1>2. Safe /\ Turns /\ Alone /\ [Next]_vars => (Safe /\ Turns /\ Alone)'
  BY SafeStep, TurnsStep, AloneStep DEF Safe
<1>3. Alone => \A r \in Runners : ~runs[r].crossed
  BY DEF Alone
<1>4. QED
  BY <1>1, <1>2, <1>3, PTL DEF Spec

(***************************************************************************)
(* The edge, which an upgrade and an apply both write to.                  *)
(***************************************************************************)
\* A run that has changed the edge and not had it loaded, or is to put back
\* what was there.
Owes(r) ==
    \/ runs[r].pc \in {"restart", "recreate"} /\ runs[r].edged
    \/ runs[r].pc \in {"undoedge", "undo", "retag"}

\* What Caddy has not loaded somebody is about to have it load, or has said that
\* he could not, unless he was cut off.
Loading ==
    crashes = 0 /\ ~cut =>
        \/ served = edge \/ told
        \/ apply.pc = "written" \/ \E r \in Runners : Owes(r)

\* A step that loads the edge, or leaves it alone and keeps what was said of it.
LoadsOrKeeps ==
    served' = edge' \/ (UNCHANGED <<edge, served>> /\ (told => told'))

\* Nobody is kept from it by a step of somebody else.
LEMMA LoadingFrame ==
    ASSUME Loading, LoadsOrKeeps, UNCHANGED crashes, cut' = FALSE => cut = FALSE,
           cut \in BOOLEAN, cut' \in BOOLEAN,
           apply'.pc = apply.pc \/ apply.pc # "written" \/ cut',
           \A r \in Runners : Owes(r) => Owes(r)'
    PROVE  Loading'
BY DEF Loading, LoadsOrKeeps

\* A report of nothing new keeps what was said before.
LEMMA ReportsKeeps ==
    ASSUME Reports(FALSE), UNCHANGED edge, served' \in {served, edge}
    PROVE  LoadsOrKeeps
BY DEF Reports, LoadsOrKeeps

LEMMA LoadingOfRuns ==
    ASSUME TypeOK, TypeOK', Loading, NEW r \in Runners,
           RunByHand(r) \/ RunStep(r) \/ KillRun(r)
    PROVE  Loading'
<1> USE DEF published, budgets, stackVars, edgeVars, domainVars, reqVars, switchVars
<1>a. /\ runs[r] \in Run /\ runs \in [Runners -> Run]
      /\ cut \in BOOLEAN /\ cut' \in BOOLEAN /\ crashes \in Nat
  BY DEF TypeOK, RunsOK
<1>b. ASSUME LoadsOrKeeps, UNCHANGED <<crashes, cut, apply>>, ~Owes(r) \/ Owes(r)',
             \A q \in Runners \ {r} : Owes(q) => Owes(q)'
      PROVE  Loading'
  BY <1>a, <1>b, LoadingFrame
<1>c. ASSUME \A q \in Runners \ {r} : runs'[q] = runs[q]
      PROVE  \A q \in Runners \ {r} : Owes(q) => Owes(q)'
  BY <1>c DEF Owes
<1>1. ASSUME \/ RunByHand(r) \/ TakeLock(r) \/ TakeRequest(r) \/ Announce(r)
             \/ UpdateCLI(r) \/ WaitHealthy(r) \/ EndRun(r)
             \/ Pull(r) \/ PutBack(r) \/ (\E f \in Shipped : InstallFile(r, f))
             \/ InstallEnds(r)
      PROVE  Loading'
  <2>1. /\ runs[r].pc \notin {"restart", "recreate", "undoedge", "undo", "retag"}
        /\ UNCHANGED <<edge, served, told, crashes, cut, apply>>
    BY <1>1 DEF RunByHand, TakeLock, TakeRequest, Announce, UpdateCLI, WaitHealthy,
         EndRun, Pull, PutBack, InstallFile, InstallEnds
  <2>2. \A q \in Runners \ {r} : runs'[q] = runs[q]
    BY <1>a, <1>1 DEF RunByHand, TakeLock, TakeRequest, Announce, UpdateCLI,
         WaitHealthy, EndRun, Pull, PutBack, PutsBack, InstallFile, InstallEnds,
         GoTo, Fails
  <2>3. QED
    BY <1>b, <1>c, <2>1, <2>2 DEF Owes, LoadsOrKeeps
<1>2. ASSUME KillRun(r) PROVE Loading'
  BY <1>a, <1>2 DEF KillRun, Loading
<1>3. ASSUME NEW outcome, Fails(r, "undoedge", outcome)
      PROVE  Loading'
  BY <1>a, <1>3, AfterFails DEF Loading, Owes
<1>4. ASSUME GenerateEdge(r) PROVE Loading'
  <2>1. /\ runs[r].pc = "edge" /\ UNCHANGED <<served, crashes, cut, apply>>
        /\ Reports(FALSE)
    BY <1>4 DEF GenerateEdge
  <2>2. ASSUME NEW rendered, edge' = rendered,
               runs' = [runs EXCEPT ![r].pc = "restart",
                                    ![r].edged = (edge # rendered)]
        PROVE  Loading'
    <3>1. /\ runs'[r].pc = "restart" /\ runs'[r].edged = (edge # rendered)
          /\ \A q \in Runners \ {r} : runs'[q] = runs[q]
      BY <1>a, <2>2 DEF Run
    <3>2. CASE edge # rendered
      BY <3>1, <3>2 DEF Loading, Owes
    <3>3. CASE edge = rendered
      BY <1>b, <1>c, <2>1, <2>2, <3>1, <3>3, ReportsKeeps DEF Owes
    <3>4. QED
      BY <3>2, <3>3
  <2>3. QED
    BY <1>3, <1>4, <2>2 DEF GenerateEdge, Install
<1>5. ASSUME Restart(r) PROVE Loading'
  <2>1. CASE GoTo(r, "recreate")
    <3>1. /\ runs'[r].pc = "recreate" /\ runs'[r].edged = runs[r].edged
          /\ runs[r].pc = "restart"
      BY <1>a, <1>5, <2>1 DEF Restart, GoTo, Run
    <3>2. served' \in {served, edge} /\ UNCHANGED <<edge, crashes, cut, apply>>
          /\ Reports(FALSE)
      BY <1>5 DEF Restart, NewContainers
    <3>3. QED
      BY <1>a, <1>b, <1>c, <2>1, <3>1, <3>2, AfterGoTo, ReportsKeeps DEF Owes
  <2>2. QED
    BY <1>3, <1>5, <2>1 DEF Restart
<1>6. ASSUME RecreateEdge(r) PROVE Loading'
  <2>1. CASE GoTo(r, "verify") /\ served' = (IF runs[r].edged THEN edge ELSE served)
    <3>1. /\ runs[r].pc = "recreate" /\ UNCHANGED <<edge, crashes, cut, apply>>
          /\ Reports(FALSE) /\ \A q \in Runners \ {r} : runs'[q] = runs[q]
      BY <1>a, <1>6, <2>1, AfterGoTo DEF RecreateEdge
    <3>2. CASE runs[r].edged
      BY <2>1, <3>1, <3>2 DEF Loading
    <3>3. CASE ~runs[r].edged
      BY <1>b, <1>c, <2>1, <3>1, <3>3, ReportsKeeps DEF Owes
    <3>4. QED
      BY <3>2, <3>3
  <2>2. QED
    BY <1>3, <1>6, <2>1 DEF RecreateEdge
<1>7. ASSUME Verify(r) PROVE Loading'
  <2>1. CASE RestartAgent
    <3>1. \E pc, outcome : runs' = [runs EXCEPT ![r].pc = pc, ![r].outcome = outcome]
      BY <1>7 DEF Verify, Fails
    <3>2. /\ runs[r].pc = "verify" /\ UNCHANGED <<edge, served, told, crashes>>
          /\ \A q \in Runners \ {r} : runs'[q] = runs[q]
      BY <1>a, <1>7, <3>1 DEF Verify
    <3>3. (cut' = FALSE => cut = FALSE) /\ (apply.pc # "written" \/ cut')
      BY <1>a, <2>1 DEF RestartAgent
    <3>4. \A q \in Runners : Owes(q) => Owes(q)'
      BY <3>2 DEF Owes
    <3>5. QED
      BY <1>a, <3>2, <3>3, <3>4, LoadingFrame DEF LoadsOrKeeps
  <2>2. QED
    BY <1>3, <1>7, <2>1 DEF Verify
<1>8. ASSUME UndoEdge(r) \/ UndoFiles(r) PROVE Loading'
  <2>1. runs'[r].pc \in {"undo", "retag"}
    BY <1>a, <1>8, AfterGoTo, AfterFails DEF UndoEdge, UndoFiles, PutsBack
  <2>2. QED
    BY <2>1 DEF Loading, Owes
<1>9. ASSUME UndoStack(r) PROVE Loading'
  BY <1>9 DEF UndoStack, Reports, Loading
<1>10. ASSUME Prepare(r) PROVE Loading'
  <2>1. /\ runs[r].pc = "prepare" /\ UNCHANGED <<edge, served, told, crashes, cut, apply>>
    BY <1>10 DEF Prepare
  <2>2. ASSUME NEW mine, runs' = Crossing(r, mine) PROVE Loading'
    <3>1. ASSUME NEW q \in Runners \ {r}
          PROVE  runs'[q].pc = runs[q].pc /\ runs'[q].edged = runs[q].edged
      BY <1>a, <2>2 DEF Crossing, Run
    <3>2. QED
      BY <1>b, <2>1, <3>1 DEF Owes, LoadsOrKeeps
  <2>3. CASE Fails(r, "end", "unchanged")
    BY <1>a, <1>b, <1>c, <2>1, <2>3, AfterFails DEF Owes, LoadsOrKeeps
  <2>4. QED
    BY <1>10, <2>2, <2>3 DEF Prepare
<1>11. QED
  BY <1>1, <1>2, <1>4, <1>5, <1>6, <1>7, <1>8, <1>9, <1>10 DEF RunStep

LEMMA LoadingStep ==
    ASSUME TypeOK, TypeOK', Loading, [Next]_vars
    PROVE  Loading'
<1> USE DEF published, budgets, stackVars, edgeVars, domainVars, reqVars, switchVars
<1>a. cut \in BOOLEAN /\ cut' \in BOOLEAN /\ crashes \in Nat
  BY DEF TypeOK
<1>1. ASSUME UNCHANGED <<edge, served, told, crashes, cut, apply, runs>>
      PROVE  Loading'
  BY <1>1 DEF Loading, Owes
<1>2. ASSUME NEW c \in Callers, CheckRequest(c) \/ WriteRequest(c)
      PROVE  Loading'
  BY <1>1, <1>2 DEF CheckRequest, WriteRequest
<1>3. ASSUME \/ GoStale \/ StopUpdater \/ DiscardPending \/ AgentStarts
             \/ ChangeDomains
             \/ \E c \in Channels : Publish(c) \/ \E s \in Services : PublishImage(c, s)
      PROVE  Loading'
  BY <1>1, <1>3 DEF GoStale, StopUpdater, DiscardPending, AgentStarts,
       ChangeDomains, Publish, PublishImage
<1>4. ASSUME StartUpdater PROVE Loading'
  <2>1. UNCHANGED <<edge, served, told, crashes, runs>>
    BY <1>4 DEF StartUpdater
  <2>2. (cut' = FALSE => cut = FALSE) /\ (apply.pc # "written" \/ cut')
    BY <1>a, <1>4 DEF StartUpdater, RestartAgent
  <2>3. QED
    BY <1>a, <2>1, <2>2, LoadingFrame DEF Owes, LoadsOrKeeps
<1>5. ASSUME Launch PROVE Loading'
  <2>1. /\ \A q \in Runners \ {"unit"} : runs'[q] = runs[q]
        /\ runs["unit"].pc = "idle"
        /\ UNCHANGED <<edge, served, told, crashes, cut, apply>>
    BY <1>5 DEF Launch, TypeOK, RunsOK
  <2>2. QED
    BY <1>a, <2>1, LoadingFrame DEF Owes, LoadsOrKeeps
<1>6. ASSUME ApplyDomains PROVE Loading'
  <2>1. UNCHANGED <<served, crashes, cut, runs>> /\ apply.pc # "written"
    BY <1>6 DEF ApplyDomains
  <2>2. \/ edge' = edge /\ Reports(FALSE)
        \/ apply'.pc = "written"
        \/ Reports(TRUE)
    <3> DEFINE rendered == [template |-> cli, domains |-> domains]
    <3>1. ASSUME Install(rendered), Reports(FALSE),
                 apply' = [pc |-> IF edge = rendered THEN "served" ELSE "written",
                           set |-> domains]
          PROVE  (edge' = edge /\ Reports(FALSE)) \/ apply'.pc = "written"
      BY <3>1 DEF Install
    <3> HIDE DEF rendered
    <3>2. \/ Install(rendered) /\ Reports(FALSE)
             /\ apply' = [pc |-> IF edge = rendered THEN "served" ELSE "written",
                          set |-> domains]
          \/ Reports(TRUE)
      BY <1>6 DEF ApplyDomains, rendered
    <3>3. QED
      BY <3>1, <3>2
  <2>3. CASE edge' = edge /\ Reports(FALSE)
    BY <2>1, <2>3 DEF Loading, Owes, Reports
  <2>4. CASE apply'.pc = "written"
    BY <2>4 DEF Loading
  <2>5. CASE Reports(TRUE)
    BY <2>5 DEF Loading, Reports
  <2>6. QED
    BY <2>2, <2>3, <2>4, <2>5
<1>7. ASSUME ReloadEdge PROVE Loading'
  BY <1>7 DEF ReloadEdge, Reports, Loading
<1>8. ASSUME RecordInstalled PROVE Loading'
  BY <1>8 DEF RecordInstalled, Loading, Owes
<1>9. ASSUME Reboot PROVE Loading'
  BY <1>a, <1>9 DEF Reboot, Loading
<1>10. QED
  BY <1>1, <1>2, <1>3, <1>4, <1>5, <1>6, <1>7, <1>8, <1>9, LoadingOfRuns DEF Next, vars

\* Between upgrades and applies Caddy has loaded what is on disk, or one of them
\* said that it failed to, unless a machine or a process went in the middle of
\* one (server_upgrade.go, domain.go): also when an apply comes in the middle of
\* an upgrade.
THEOREM EdgeIsServed == Spec => []ServedIsOnDisk
<1>1. Safe /\ Loading /\ [Next]_vars => (Safe /\ Loading)'
  BY SafeStep, LoadingStep DEF Safe
<1>2. Init => Safe /\ Loading
  BY SafeInit DEF Init, Loading
<1>3. Loading => ServedIsOnDisk
  BY DEF Loading, Owes, ServedIsOnDisk, Changing
<1>4. QED
  BY <1>1, <1>2, <1>3, PTL DEF Spec
=============================================================================
