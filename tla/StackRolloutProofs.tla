------------------------ MODULE StackRolloutProofs --------------------------
(***************************************************************************)
(* Proofs about StackRollout: type correctness, the cap on builds, the     *)
(* record of a run that ended, and that the rollout implements StackOrder. *)
(***************************************************************************)
EXTENDS StackRollout, FiniteSetTheorems, WellFoundedInduction, TLAPS

-----------------------------------------------------------------------------
(* The layers *)

LEMMA LeastNatural ==
    ASSUME NEW T \in SUBSET Nat, T # {}
    PROVE  \E n \in T : \A m \in T : n <= m
<1>1. \E n \in T : \A m \in T : ~ (<<m, n>> \in OpToRel(<, Nat))
  BY NatLessThanWellFounded, WFMin
<1>2. \A m, n \in Nat : <<m, n>> \in OpToRel(<, Nat) <=> m < n
  BY DEF OpToRel
<1>3. \E n \in T : \A m \in T : ~ (m < n)
  BY <1>1, <1>2, Zenon
<1> QED  BY <1>3

LEMMA MaxOfFinite ==
    ASSUME NEW S \in SUBSET Int, IsFiniteSet(S), S # {}
    PROVE  Max(S) \in S /\ \A x \in S : x <= Max(S)
<1> DEFINE HasMax(U) == \E x \in U : \A y \in U : x >= y
           Bad == {n \in Nat : \E U \in SUBSET Int :
                      IsFiniteSet(U) /\ U # {} /\ Cardinality(U) = n /\ ~ HasMax(U)}
<1>1. Bad = {}
  <2> SUFFICES ASSUME Bad # {}  PROVE FALSE
    OBVIOUS
  <2>1. PICK n \in Bad : \A m \in Bad : n <= m
    BY LeastNatural
  <2>2. PICK U \in SUBSET Int : IsFiniteSet(U) /\ U # {} /\ Cardinality(U) = n /\ ~ HasMax(U)
    OBVIOUS
  <2>3. PICK x \in U : TRUE
    BY <2>2
  <2> DEFINE V == U \ {x}
  <2>4. IsFiniteSet(V) /\ Cardinality(V) = n - 1
    BY <2>2, FS_RemoveElement
  <2>5. n - 1 \in Nat
    BY <2>4, FS_CardinalityType
  <2>6. CASE V = {}
    <3>1. U = {x}
      BY <2>6
    <3> QED  BY <2>2, <3>1
  <2>7. CASE V # {}
    <3>1. n - 1 \notin Bad
      BY <2>1, <2>5
    <3>2. HasMax(V)
      BY <3>1, <2>4, <2>5, <2>7
    <3>3. PICK y \in V : \A z \in V : y >= z
      BY <3>2
    <3>4. \A z \in U : z = x \/ y >= z
      BY <3>3
    <3>5. CASE x >= y
      <4>1. \A z \in U : x >= z
        BY <3>3, <3>4, <3>5
      <4> QED  BY <2>2, <4>1
    <3>6. CASE ~(x >= y)
      <4>1. \A z \in U : y >= z
        BY <3>3, <3>4, <3>6
      <4> QED  BY <2>2, <4>1
    <3> QED  BY <3>5, <3>6
  <2> QED  BY <2>6, <2>7
<1>2. Cardinality(S) \in Nat
  BY FS_CardinalityType
<1>3. HasMax(S)
  BY <1>1, <1>2
<1>4. PICK m : m \in S /\ \A y \in S : m >= y
  BY <1>3
<1>5. Max(S) \in S /\ \A y \in S : Max(S) >= y
  BY <1>4 DEF Max
<1> QED  BY <1>5

LEMMA MinOfTwo ==
    ASSUME NEW a \in Nat, NEW b \in Nat
    PROVE  Min({a, b}) \in Nat /\ Min({a, b}) <= a /\ Min({a, b}) <= b
<1>1. \E m \in {a, b} : \A y \in {a, b} : m =< y
  OBVIOUS
<1>2. Min({a, b}) \in {a, b} /\ \A y \in {a, b} : Min({a, b}) =< y
  BY <1>1 DEF Min
<1> QED  BY <1>2

\* What a service's layer is, given the layers of what it depends on.
After(f, s) == IF DependsOn[s] = {} THEN 0 ELSE 1 + Max({f[t] : t \in DependsOn[s]})

LEMMA AfterAbove ==
    ASSUME NEW f, NEW s \in Services, \A t \in DependsOn[s] : f[t] \in Nat
    PROVE  After(f, s) \in Nat /\ \A t \in DependsOn[s] : f[t] < After(f, s)
<1> DEFINE below == {f[t] : t \in DependsOn[s]}
<1>1. DependsOn[s] \in SUBSET Services /\ IsFiniteSet(Services)
  BY RolloutAssumption
<1>2. IsFiniteSet(DependsOn[s])
  BY <1>1, FS_Subset
<1> DEFINE g == [t \in DependsOn[s] |-> f[t]]
<1>3. g \in Surjection(DependsOn[s], below)
  BY DEF Surjection
<1>4. IsFiniteSet(below)
  BY <1>2, <1>3, FS_Surjection
<1>5. below \in SUBSET Int
  OBVIOUS
<1>6. CASE DependsOn[s] = {}
  BY <1>6 DEF After
<1>7. CASE DependsOn[s] # {}
  <2>1. below # {}
    BY <1>7
  <2>2. Max(below) \in below /\ \A x \in below : x <= Max(below)
    BY <1>4, <1>5, <2>1, MaxOfFinite
  <2>3. Max(below) \in Nat
    BY <2>2
  <2>4. After(f, s) = 1 + Max(below)
    BY <1>7 DEF After
  <2>5. \A t \in DependsOn[s] : f[t] \in below
    OBVIOUS
  <2> HIDE DEF below
  <2>6. \A t \in DependsOn[s] : f[t] \in Nat /\ f[t] <= Max(below)
    BY <2>2, <2>5
  <2> QED  BY <2>3, <2>4, <2>6
<1> QED  BY <1>6, <1>7

LEMMA AfterSame ==
    ASSUME NEW f, NEW g, NEW s \in Services, \A t \in DependsOn[s] : f[t] = g[t]
    PROVE  After(f, s) = After(g, s)
<1>1. {f[t] : t \in DependsOn[s]} = {g[t] : t \in DependsOn[s]}
  OBVIOUS
<1> QED  BY <1>1 DEF After

LEMMA LayeringExists == \E f \in [Services -> Nat] : \A s \in Services : f[s] = After(f, s)
<1>1. PICK rank \in [Services -> 0 .. Cardinality(Services)] :
        \A s \in Services : \A t \in DependsOn[s] : rank[t] < rank[s]
  BY NoCycle
<1>2. DependsOn \in [Services -> SUBSET Services] /\ Cardinality(Services) \in Nat
  BY RolloutAssumption, FS_CardinalityType
<1> DEFINE UpTo(n) == \E f \in [Services -> Nat] :
                         \A s \in Services : rank[s] < n => f[s] = After(f, s)
           Bad == {n \in Nat : ~ UpTo(n)}
<1>3. Bad = {}
  <2> SUFFICES ASSUME Bad # {}  PROVE FALSE
    OBVIOUS
  <2>1. PICK n \in Bad : \A m \in Bad : n <= m
    BY LeastNatural
  <2>2. n # 0
    <3>1. [s \in Services |-> 0] \in [Services -> Nat]
      OBVIOUS
    <3>2. \A s \in Services : ~ (rank[s] < 0)
      BY <1>2
    <3>3. UpTo(0)
      BY <3>1, <3>2
    <3> QED  BY <3>3
  <2>3. n - 1 \in Nat /\ n - 1 \notin Bad
    BY <2>1, <2>2
  <2>4. PICK f \in [Services -> Nat] : \A s \in Services : rank[s] < n - 1 => f[s] = After(f, s)
    BY <2>3
  <2> DEFINE g == [s \in Services |-> IF rank[s] = n - 1 THEN After(f, s) ELSE f[s]]
  <2>5. \A s \in Services : After(f, s) \in Nat
    BY <1>2, AfterAbove
  <2>6. g \in [Services -> Nat]
    BY <2>5
  <2>7. ASSUME NEW s \in Services, rank[s] < n  PROVE g[s] = After(g, s)
    <3>1. \A t \in DependsOn[s] : t \in Services /\ rank[t] < n - 1
      BY <1>1, <1>2, <2>7
    <3>2. \A t \in DependsOn[s] : g[t] = f[t]
      BY <1>2, <3>1
    <3>3. After(g, s) = After(f, s)
      BY <3>2, AfterSame
    <3>4. rank[s] = n - 1 \/ rank[s] < n - 1
      BY <1>1, <1>2, <2>7
    <3>5. g[s] = After(f, s)
      BY <2>4, <3>4
    <3> QED  BY <3>3, <3>5
  <2>8. UpTo(n)
    BY <2>6, <2>7
  <2> QED  BY <2>8
<1>4. Cardinality(Services) + 1 \in Nat
  BY <1>2
<1>5. UpTo(Cardinality(Services) + 1)
  BY <1>3, <1>4
<1>6. \A s \in Services : rank[s] < Cardinality(Services) + 1
  BY <1>2
<1> QED  BY <1>5, <1>6

LEMMA LayerIsAfter ==
    /\ Layer \in [Services -> Nat]
    /\ \A s \in Services : Layer[s] = After(Layer, s)
<1>1. \E f : f = [s \in Services |-> IF DependsOn[s] = {} THEN 0
                                     ELSE 1 + Max({f[t] : t \in DependsOn[s]})]
  <2>1. PICK f \in [Services -> Nat] : \A s \in Services : f[s] = After(f, s)
    BY LayeringExists
  <2>2. f = [s \in Services |-> IF DependsOn[s] = {} THEN 0
                                ELSE 1 + Max({f[t] : t \in DependsOn[s]})]
    BY <2>1 DEF After
  <2> QED  BY <2>2
<1>2. Layer = [s \in Services |-> IF DependsOn[s] = {} THEN 0
                                  ELSE 1 + Max({Layer[t] : t \in DependsOn[s]})]
  BY <1>1, Zenon DEF Layer
<1>3. \A s \in Services : Layer[s] = After(Layer, s)
  BY <1>2 DEF After
<1>4. PICK rank \in [Services -> 0 .. Cardinality(Services)] :
        \A s \in Services : \A t \in DependsOn[s] : rank[t] < rank[s]
  BY NoCycle
<1>5. DependsOn \in [Services -> SUBSET Services] /\ Cardinality(Services) \in Nat
  BY RolloutAssumption, FS_CardinalityType
<1> DEFINE Bad == {n \in Nat : \E s \in Services : rank[s] = n /\ Layer[s] \notin Nat}
<1>6. Bad = {}
  <2> SUFFICES ASSUME Bad # {}  PROVE FALSE
    OBVIOUS
  <2>1. PICK n \in Bad : \A m \in Bad : n <= m
    BY LeastNatural
  <2>2. PICK s \in Services : rank[s] = n /\ Layer[s] \notin Nat
    OBVIOUS
  <2>3. ASSUME NEW t \in DependsOn[s]  PROVE Layer[t] \in Nat
    <3>1. t \in Services /\ rank[t] \in Nat /\ rank[t] < n
      BY <1>4, <1>5, <2>2
    <3>2. rank[t] \notin Bad
      BY <2>1, <3>1
    <3> QED  BY <3>1, <3>2
  <2>4. Layer[s] \in Nat
    BY <1>3, <2>3, AfterAbove
  <2> QED  BY <2>2, <2>4
<1>7. \A s \in Services : Layer[s] \in Nat
  BY <1>4, <1>5, <1>6
<1>8. Layer \in [Services -> Nat]
  <2>1. DOMAIN Layer = Services /\ Layer = [s \in Services |-> Layer[s]]
    BY <1>2, Zenon
  <2> QED  BY <1>7, <2>1
<1> QED  BY <1>3, <1>8

\* serviceLayers puts each service after everything it depends on.
LEMMA LayerAfter ==
    /\ Layer \in [Services -> Nat]
    /\ \A s \in Services : \A t \in DependsOn[s] : t \in Services /\ Layer[t] < Layer[s]
<1>1. DependsOn \in [Services -> SUBSET Services]
  BY RolloutAssumption
<1> QED  BY <1>1, LayerIsAfter, AfterAbove

-----------------------------------------------------------------------------
(* The inductive invariants *)

\* The follower is in a layer or between two; a step that has not started; one
\* that is over.
Live == {"trigger", "record", "queue", "wait"}
Idle == {"waiting", "not_started"}
Over == {"succeeded", "failed", "not_started"}

\* A step that has not started has no deployment, and one that has names a
\* deployment of its own service.
StepsTell(d, steps) ==
    \A s \in Services :
        /\ steps[s].status \in Idle => steps[s].dep = NoDep
        /\ steps[s].dep # NoDep => /\ d[steps[s].dep].svc = s
                                   /\ d[steps[s].dep].status # "none"

\* What is under way is all of the last layer that started.
InOrder(d, steps) ==
    \A s, t \in Services :
        /\ Layer[s] < Layer[t]
        /\ steps[t].status \notin Idle
        /\ steps[s].dep # NoDep
        => d[steps[s].dep].status \notin Unfinished

\* Where a follower is in the layers: what it has yet to start of this one is
\* waiting, nothing of a later one has started, previous is what this one made
\* and what the earlier ones made has ended.
InPlace(d, p) ==
    /\ \A s \in p.todo \union p.queued : Layer[s] = p.next - 1 /\ p.steps[s].status = "waiting"
    /\ \A s \in Services : Layer[s] >= p.next => p.steps[s].status \in Idle
    /\ p.previous = {p.steps[s].dep : s \in InLayer(p.next - 1)} \ {NoDep}
    /\ \A s \in Services : Layer[s] < p.next - 1 /\ p.steps[s].dep # NoDep =>
          d[p.steps[s].dep].status \notin Unfinished

Book ==
    /\ proc.pc = "none" => proc = NotRunning
    /\ proc.pc # "none" => run.status = "running"
    /\ run.status = "none" => run.steps = Waiting
    /\ proc.todo # {} => proc.pc = "trigger"
    /\ proc.todo \cap proc.queued = {}
    /\ StepsTell(dep, proc.steps) /\ StepsTell(dep, run.steps)
    /\ InOrder(dep, proc.steps) /\ InOrder(dep, run.steps)
    /\ proc.pc \in Live => InPlace(dep, proc)

\* With no crash between a row and the save of its step, every deployment is in
\* the steps.
Recorded ==
    /\ run.status = "none" => \A i \in DepIds : dep[i].status = "none"
    /\ \A i \in DepIds : dep[i].status # "none" => Steps[dep[i].svc].dep = i
    /\ proc.pc \notin {"none", "trigger"} =>
          \A s \in Services : proc.steps[s].dep = run.steps[s].dep

\* The builds going on and those about to start fit under the cap.
BuildingNow == {i \in DepIds : dep[i].status = "building"}
UnderCap ==
    proc.pc = "trigger" /\ proc.max > 0 /\ proc.todo \cap Builds # {} =>
        Cardinality(BuildingNow) + Cardinality(proc.todo \cap Builds) <= proc.max

\* A step that is over says how its deployment ended.
StepsAgree(d, steps) ==
    \A s \in Services :
        /\ steps[s].status = "started" => steps[s].dep # NoDep
        /\ steps[s].status = "succeeded" => steps[s].dep # NoDep /\ d[steps[s].dep].status = "success"
        /\ steps[s].status = "failed" /\ steps[s].dep # NoDep => d[steps[s].dep].status = "failed"

\* No layer is left before all of it is over, by the run or by its record.
NothingSkipped ==
    /\ proc.pc \in Live =>
        \A s \in Services :
            /\ Layer[s] < proc.next - 1 => proc.steps[s].status \in Over
            /\ Layer[s] = proc.next - 1 /\ proc.steps[s].status = "waiting" =>
                  s \in proc.todo \union proc.queued
    /\ proc.pc \in {"save", "close"} => \A s \in Services : proc.steps[s].status \in Over
    /\ proc.pc = "close" => run.steps = proc.steps
    /\ proc.pc = "wait" => proc.queued = {}
    /\ run.status \in Ended => \A s \in Services : run.steps[s].status \in Over
    /\ \A s, t \in Services : run.steps[t].status \notin Idle =>
          /\ Layer[s] < Layer[t] => run.steps[s].status \in Over
          /\ Layer[s] = Layer[t] /\ cap = 0 => run.steps[s].status # "waiting"
    /\ proc.pc # "none" => proc.max = cap
    /\ proc.max = 0 => proc.queued = {}

RecordAgrees ==
    /\ \A i \in DepIds : dep[i].status # "deleted"
    /\ StepsAgree(dep, proc.steps) /\ StepsAgree(dep, run.steps)
    /\ NothingSkipped

\* What starts has everything it depends on up, and what is held back is held
\* back for something.
DepsUp(d, steps, s) ==
    \A t \in DependsOn[s] : steps[t].dep # NoDep /\ d[steps[t].dep].status = "success"
TwoLayers == \A s \in Services : \A t \in DependsOn[s] : DependsOn[t] = {}

HeldForAReason ==
    /\ proc.pc \in Live =>
        /\ \A s \in proc.todo \union proc.queued : DepsUp(dep, proc.steps, s)
        /\ \A s \in proc.blocked : proc.steps[s].status \in {"failed", "not_started"}
        /\ \A s \in Services : proc.steps[s].status = "not_started" =>
              s \in proc.blocked \/ TwoLayers
    /\ \A s \in Services : proc.steps[s].status = "not_started" => DependsOn[s] # {}
    /\ \A s \in Services : run.steps[s].status = "not_started" => DependsOn[s] # {}
    /\ \A s, t \in Services :
          /\ Layer[s] = Layer[t]
          /\ run.steps[s].status = "waiting"
          /\ run.steps[t].status \notin Idle
          => DepsUp(dep, run.steps, s)
    /\ proc.pc \notin {"none", "trigger"} =>
          \A s \in Services : proc.steps[s].dep = NoDep => proc.steps[s] = run.steps[s]

-----------------------------------------------------------------------------
(* The operators of the model *)

USE DEF NoDep

LEMMA StartNowFits ==
    ASSUME NEW layer \in SUBSET Services, NEW max \in Nat, NEW now \in StartNow(layer, max)
    PROVE  /\ now \in SUBSET layer
           /\ max > 0 => Cardinality(now \cap Builds) <= max
           /\ max = 0 => now = layer
<1>1. CASE max = 0
  BY <1>1 DEF StartNow
<1>2. CASE max # 0
  <2>1. PICK q \in SUBSET (layer \cap Builds) :
            /\ now = layer \ q
            /\ Cardinality((layer \cap Builds) \ q) = Min({max, Cardinality(layer \cap Builds)})
    BY <1>2 DEF StartNow
  <2>2. now \cap Builds = (layer \cap Builds) \ q
    BY <2>1
  <2>3. IsFiniteSet(layer \cap Builds)
    BY RolloutAssumption, FS_Subset
  <2>4. Cardinality(layer \cap Builds) \in Nat
    BY <2>3, FS_CardinalityType
  <2>5. Min({max, Cardinality(layer \cap Builds)}) <= max
    BY <2>4, MinOfTwo
  <2> QED  BY <1>2, <2>1, <2>2, <2>5
<1> QED  BY <1>1, <1>2

\* The layer a resumed run is in: the last one with a step that started.
LEMMA CurrentIsLast ==
    ASSUME NEW steps \in RolloutSteps
    PROVE  /\ Current(steps) + 1 \in Nat /\ Current(steps) \in Int
           /\ \A s \in Services : steps[s].status \notin Idle => Layer[s] <= Current(steps)
           /\ Current(steps) = -1 \/
                 \E s \in Services : steps[s].status \notin Idle /\ Layer[s] = Current(steps)
<1> DEFINE active == {t \in Services : steps[t].status \notin {"waiting", "not_started"}}
           layers == {Layer[s] : s \in active}
           all == {-1} \union layers
<1>1. IsFiniteSet(active)
  BY RolloutAssumption, FS_Subset
<1>2. [s \in active |-> Layer[s]] \in Surjection(active, layers)
  BY DEF Surjection
<1>3. IsFiniteSet(layers)
  BY <1>1, <1>2, FS_Surjection
<1>4. IsFiniteSet(all)
  BY <1>3, FS_Singleton, FS_Union
<1>5. \A s \in Services : Layer[s] \in Nat
  BY LayerAfter
<1>6. all \in SUBSET Int /\ all # {}
  BY <1>5
<1>7. Max(all) \in all /\ \A x \in all : x <= Max(all)
  BY <1>4, <1>6, MaxOfFinite
<1>8. Current(steps) = Max(all)
  BY DEF Current
<1>9. \A s \in Services : steps[s].status \notin Idle => Layer[s] \in all
  BY DEF Idle
<1>10. Max(all) = -1 \/ \E s \in Services : steps[s].status \notin Idle /\ Layer[s] = Max(all)
  BY <1>7 DEF Idle
<1>11. Max(all) \in Int /\ Max(all) + 1 \in Nat
  BY <1>5, <1>10
<1> HIDE DEF all
<1> QED  BY <1>7, <1>8, <1>9, <1>10, <1>11

LEMMA LastLayerIsLast ==
    LastLayer \in Int /\ \A s \in Services : Layer[s] <= LastLayer
<1> DEFINE layers == {Layer[s] : s \in Services}
<1>1. [s \in Services |-> Layer[s]] \in Surjection(Services, layers)
  BY DEF Surjection
<1>2. IsFiniteSet(layers) /\ layers # {}
  BY <1>1, RolloutAssumption, FS_Surjection
<1>3. layers \in SUBSET Int
  BY LayerAfter
<1>4. Max(layers) \in layers /\ \A x \in layers : x <= Max(layers)
  BY <1>2, <1>3, MaxOfFinite
<1>5. LastLayer = Max(layers)
  BY DEF LastLayer
<1>6. \A s \in Services : Layer[s] \in layers
  OBVIOUS
<1>7. Max(layers) \in Int
  BY <1>3, <1>4
<1> HIDE DEF layers
<1> QED  BY <1>4, <1>5, <1>6, <1>7

-----------------------------------------------------------------------------
(* Type correctness *)

FollowerType ==
    [pc : Points, ret : {"record", "queue"}, steps : RolloutSteps,
     todo : SUBSET Services, previous : SUBSET DepIds,
     queued : SUBSET Services, next : Nat, blocked : SUBSET Services,
     max : Nat, errors : BOOLEAN]

LEMMA WaitingType == Waiting \in RolloutSteps /\ NotRunning \in FollowerType
  BY DEF Waiting, NotRunning, RolloutSteps, StepStatus, FollowerType, Points

LEMMA OutcomeType ==
    ASSUME TypeOK
    PROVE  /\ Outcome \in RolloutSteps
           /\ \A s \in Services :
                /\ Outcome[s].dep = proc.steps[s].dep
                /\ \/ proc.steps[s].dep \notin proc.previous /\ Outcome[s] = proc.steps[s]
                   \/ dep[proc.steps[s].dep].status \notin {"success", "failed"}
                         /\ Outcome[s] = proc.steps[s]
                   \/ /\ proc.steps[s].dep \in proc.previous
                      /\ dep[proc.steps[s].dep].status = "success"
                      /\ Outcome[s].status = "succeeded"
                   \/ /\ proc.steps[s].dep \in proc.previous
                      /\ dep[proc.steps[s].dep].status = "failed"
                      /\ Outcome[s].status = "failed"
<1>1. proc.steps \in [Services -> [status : StepStatus, dep : DepIds \union {NoDep}]]
  BY DEF TypeOK, RolloutSteps
<1>2. ASSUME NEW s \in Services
      PROVE  /\ Outcome[s] \in [status : StepStatus, dep : DepIds \union {NoDep}]
             /\ Outcome[s].dep = proc.steps[s].dep
             /\ \/ proc.steps[s].dep \notin proc.previous /\ Outcome[s] = proc.steps[s]
                \/ dep[proc.steps[s].dep].status \notin {"success", "failed"}
                      /\ Outcome[s] = proc.steps[s]
                \/ /\ proc.steps[s].dep \in proc.previous
                   /\ dep[proc.steps[s].dep].status = "success"
                   /\ Outcome[s].status = "succeeded"
                \/ /\ proc.steps[s].dep \in proc.previous
                   /\ dep[proc.steps[s].dep].status = "failed"
                   /\ Outcome[s].status = "failed"
  <2>1. Outcome[s] = LET i == proc.steps[s].dep
        IN  IF i \notin proc.previous \/ dep[i].status \notin {"success", "failed"}
            THEN proc.steps[s]
            ELSE [proc.steps[s] EXCEPT !.status = IF dep[i].status = "success"
                                                 THEN "succeeded" ELSE "failed"]
    BY DEF Outcome
  <2> QED  BY <1>1, <1>2, <2>1 DEF StepStatus
<1>3. Outcome = [s \in Services |-> Outcome[s]]
  BY DEF Outcome
<1> QED  BY <1>2, <1>3 DEF RolloutSteps

LEMMA StopRestType ==
    ASSUME NEW steps \in RolloutSteps
    PROVE  StopRest(steps) \in RolloutSteps
  BY DEF StopRest, RolloutSteps, StepStatus

LEMMA SpendType ==
    ASSUME budget \in [Expenses -> Nat], NEW b \in Expenses, Spend(b)
    PROVE  /\ budget' \in [Expenses -> Nat]
           /\ budget[b] > 0
           /\ \A x \in Expenses : budget'[x] <= budget[x]
  BY DEF Spend

LEMMA TypeInit == Init => TypeOK
<1> SUFFICES ASSUME Init PROVE TypeOK
  OBVIOUS
<1>1. (CHOOSE s \in Services : TRUE) \in Services
  BY RolloutAssumption
<1>2. dep \in [DepIds -> [svc : Services, status : DepStatus \union NoRecord]]
  BY <1>1 DEF Init, DepStatus, NoRecord
<1> QED  BY <1>2, WaitingType, RolloutAssumption DEF Init, TypeOK, FollowerType

LEMMA TypeFollower == TypeOK /\ Follower => TypeOK'
<1> SUFFICES ASSUME TypeOK, Follower PROVE TypeOK'
  OBVIOUS
<1> USE DEF FollowerType
<1>1. /\ dep \in [DepIds -> [svc : Services, status : DepStatus \union NoRecord]]
      /\ cap \in Caps
      /\ run \in [status : {"none", "running"} \union Ended, steps : RolloutSteps, errors : BOOLEAN]
      /\ proc \in FollowerType
      /\ budget \in [Expenses -> Nat]
  BY DEF TypeOK
<1>2. ASSUME NEW s \in Services, TriggerOne(s)  PROVE TypeOK'
  <2>1. CASE \E i \in DepIds :
            /\ dep[i].status = "none"
            /\ \A j \in DepIds : j < i => dep[j].status # "none"
            /\ dep' = [dep EXCEPT ![i] = [svc |-> s, status |-> IF s \in Builds
                                                     THEN "building" ELSE "deploying"]]
            /\ proc' = [proc EXCEPT !.todo = @ \ {s},
                                    !.previous = @ \union {i},
                                    !.steps[s] = [status |-> "started", dep |-> i]]
    <3>1. PICK i \in DepIds :
            /\ dep' = [dep EXCEPT ![i] = [svc |-> s, status |-> IF s \in Builds
                                                     THEN "building" ELSE "deploying"]]
            /\ proc' = [proc EXCEPT !.todo = @ \ {s},
                                    !.previous = @ \union {i},
                                    !.steps[s] = [status |-> "started", dep |-> i]]
      BY <2>1
    <3>2. dep' \in [DepIds -> [svc : Services, status : DepStatus \union NoRecord]]
      BY <1>1, <3>1 DEF DepStatus, Unfinished
    <3>3. [proc.steps EXCEPT ![s] = [status |-> "started", dep |-> i]] \in RolloutSteps
      BY <1>1 DEF RolloutSteps, StepStatus
    <3>4. proc' \in FollowerType
      BY <1>1, <3>1, <3>3
    <3> QED  BY <1>1, <1>2, <3>2, <3>4 DEF TypeOK, TriggerOne
  <2>2. CASE /\ proc' = [proc EXCEPT !.todo = @ \ {s},
                                  !.steps[s].status = "failed",
                                  !.errors = @ \/ proc.ret = "record"]
             /\ UNCHANGED dep
    <3>1. [proc.steps EXCEPT ![s].status = "failed"] \in RolloutSteps
      BY <1>1 DEF RolloutSteps, StepStatus
    <3>2. (proc.errors \/ proc.ret = "record") \in BOOLEAN
      OBVIOUS
    <3>3. proc' \in FollowerType
      BY <1>1, <2>2, <3>1, <3>2
    <3> QED  BY <1>1, <1>2, <2>2, <3>3 DEF TypeOK, TriggerOne
  <2> QED  BY <1>2, <2>1, <2>2 DEF TriggerOne
<1>3. CASE SaveLayer
  BY <1>1, <1>3 DEF TypeOK, SaveLayer, Points
<1>4. CASE recordResult
  BY <1>1, <1>4 DEF TypeOK, recordResult, Points
<1>5. CASE startQueuedBuilds
  <2>1. PICK q \in SUBSET proc.queued :
            \/ proc' = [proc EXCEPT !.pc = "wait"]
            \/ proc' = [proc EXCEPT !.pc = "trigger", !.todo = q, !.queued = @ \ q]
            \/ proc' = [proc EXCEPT !.pc = "wait", !.queued = {}]
    BY <1>5 DEF startQueuedBuilds
  <2>2. q \in SUBSET Services /\ proc.queued \ q \in SUBSET Services
    BY <1>1
  <2>3. CASE proc' = [proc EXCEPT !.pc = "wait"]
    BY <1>1, <1>5, <2>3 DEF TypeOK, startQueuedBuilds, Points
  <2>4. CASE proc' = [proc EXCEPT !.pc = "trigger", !.todo = q, !.queued = @ \ q]
    BY <1>1, <1>5, <2>2, <2>4 DEF TypeOK, startQueuedBuilds, Points
  <2>5. CASE proc' = [proc EXCEPT !.pc = "wait", !.queued = {}]
    BY <1>1, <1>5, <2>5 DEF TypeOK, startQueuedBuilds, Points
  <2> QED  BY <2>1, <2>3, <2>4, <2>5
<1>6. CASE NextLayer
  <2> DEFINE blocked == proc.blocked \union FailedNames(Outcome)
             layer == StillWaiting(Outcome, InLayer(proc.next))
             held == HeldBack(layer, blocked)
             steps == [s \in Services |-> IF s \in held
                                          THEN [Outcome[s] EXCEPT !.status = "not_started"]
                                          ELSE Outcome[s]]
  <2>1. PICK now \in StartNow(layer \ held, proc.max) :
            proc' = [proc EXCEPT
                !.pc = "trigger", !.ret = "queue", !.previous = {}, !.next = @ + 1,
                !.todo = now, !.queued = (layer \ held) \ now,
                !.blocked = blocked \union held, !.steps = steps]
    BY <1>6 DEF NextLayer
  <2>2. /\ layer \in SUBSET Services /\ layer \ held \in SUBSET Services
        /\ blocked \in SUBSET Services /\ held \in SUBSET Services
        /\ proc.max \in Nat /\ proc.next + 1 \in Nat
    BY <1>1 DEF StillWaiting, InLayer, FailedNames, HeldBack
  <2>3. now \in SUBSET Services /\ (layer \ held) \ now \in SUBSET Services
        /\ blocked \union held \in SUBSET Services
    <3> HIDE DEF blocked, layer, held, steps
    <3>1. now \in SUBSET (layer \ held)
      BY <2>2, StartNowFits
    <3> QED  BY <2>2, <3>1
  <2>4. steps \in RolloutSteps
    BY OutcomeType DEF RolloutSteps, StepStatus
  <2> HIDE DEF blocked, layer, held, steps
  <2>5. proc' \in FollowerType
    BY <1>1, <2>1, <2>2, <2>3, <2>4 DEF Points
  <2> QED  BY <1>1, <1>6, <2>5 DEF TypeOK, NextLayer
<1>7. CASE LayersDone
  BY <1>1, <1>7, OutcomeType DEF TypeOK, LayersDone, Points
<1>8. CASE WaitTimesOut
  BY <1>1, <1>8, OutcomeType, StopRestType DEF TypeOK, WaitTimesOut, Points
<1>9. CASE FinishSave
  BY <1>1, <1>9 DEF TypeOK, FinishSave, Points
<1>10. CASE finishRun
  BY <1>1, <1>10, WaitingType DEF TypeOK, finishRun, Verdict, Ended
<1> QED  BY <1>2, <1>3, <1>4, <1>5, <1>6, <1>7, <1>8, <1>9, <1>10 DEF Follower

LEMMA TypeStep == TypeOK /\ [Next]_vars => TypeOK'
<1> SUFFICES ASSUME TypeOK, [Next]_vars PROVE TypeOK'
  OBVIOUS
<1> USE DEF FollowerType
<1>1. /\ dep \in [DepIds -> [svc : Services, status : DepStatus \union NoRecord]]
      /\ cap \in Caps
      /\ run \in [status : {"none", "running"} \union Ended, steps : RolloutSteps, errors : BOOLEAN]
      /\ proc \in FollowerType
      /\ budget \in [Expenses -> Nat]
  BY DEF TypeOK
<1>2. CASE Apply
  <2>1. PICK now \in StartNow(InLayer(0), cap), e \in BOOLEAN :
        proc' = [proc EXCEPT !.pc = "trigger", !.ret = "record", !.todo = now,
                             !.queued = InLayer(0) \ now, !.next = 1, !.max = cap,
                             !.errors = e]
    BY <1>2 DEF Apply
  <2>2. InLayer(0) \in SUBSET Services /\ cap \in Nat
    BY <1>1, RolloutAssumption DEF InLayer
  <2>3. now \in SUBSET Services
    BY <2>2, StartNowFits
  <2>4. proc' \in FollowerType
    BY <1>1, <2>1, <2>2, <2>3 DEF Points
  <2> QED  BY <1>1, <1>2, <2>4 DEF TypeOK, Apply
<1>3. CASE Follower
  BY <1>3, TypeFollower
<1>4. CASE Crash
  <2>1. (IF proc.pc = "trigger" THEN "midcrash" ELSE "crash") \in Expenses
    BY DEF Expenses
  <2>2. budget' \in [Expenses -> Nat]
    BY <1>1, <1>4, <2>1, SpendType DEF Crash
  <2> QED  BY <1>1, <1>4, <2>2, WaitingType DEF TypeOK, Crash
<1>5. CASE resumeRun
  <2> DEFINE current == Current(run.steps)
             here == {s \in Services : Layer[s] = current}
  <2>1. current + 1 \in Nat
    BY <1>1, CurrentIsLast
  <2>2. {run.steps[s].dep : s \in here} \ {NoDep} \in SUBSET DepIds
    BY <1>1 DEF RolloutSteps
  <2>3. StillWaiting(run.steps, here) \in SUBSET Services
    BY DEF StillWaiting
  <2>4. cap \in Nat
    BY <1>1, RolloutAssumption
  <2>5. proc' = [NotRunning EXCEPT
            !.pc = "queue", !.steps = run.steps,
            !.previous = {run.steps[s].dep : s \in here} \ {NoDep},
            !.queued = StillWaiting(run.steps, here),
            !.next = current + 1,
            !.max = cap,
            !.errors = run.errors]
    BY <1>5 DEF resumeRun
  <2> HIDE DEF current, here
  <2>6. proc' \in FollowerType
    BY <1>1, <2>1, <2>2, <2>3, <2>4, <2>5, WaitingType DEF Points
  <2> QED  BY <1>1, <1>5, <2>6 DEF TypeOK, resumeRun
<1>6. CASE ResumeGone
  <2>1. budget' \in [Expenses -> Nat]
    BY <1>1, <1>6, SpendType DEF ResumeGone, Expenses
  <2>2. proc' \in FollowerType
    BY <1>1, <1>6, StopRestType, WaitingType DEF ResumeGone, Points
  <2> QED  BY <1>1, <1>6, <2>1, <2>2 DEF TypeOK, ResumeGone
<1>7. CASE SetCap
  <2>1. budget' \in [Expenses -> Nat]
    BY <1>1, <1>7, SpendType DEF SetCap, Expenses
  <2> QED  BY <1>1, <1>7, <2>1 DEF TypeOK, SetCap
<1>8. ASSUME NEW i \in DepIds, DeployStep(i)  PROVE TypeOK'
  <2>1. dep' \in [DepIds -> [svc : Services, status : DepStatus \union NoRecord]]
    BY <1>1, <1>8 DEF DeployStep, DepStatus, Unfinished
  <2> QED  BY <1>1, <1>8, <2>1 DEF TypeOK, DeployStep
<1>9. ASSUME NEW i \in DepIds, DeleteRecord(i)  PROVE TypeOK'
  <2>1. dep' \in [DepIds -> [svc : Services, status : DepStatus \union NoRecord]]
    BY <1>1, <1>9 DEF DeleteRecord, NoRecord
  <2>2. budget' \in [Expenses -> Nat]
    BY <1>1, <1>9, SpendType DEF DeleteRecord, Expenses
  <2> QED  BY <1>1, <1>9, <2>1, <2>2 DEF TypeOK, DeleteRecord
<1>10. CASE UNCHANGED vars
  BY <1>1, <1>10 DEF TypeOK, vars
<1> QED  BY <1>2, <1>3, <1>4, <1>5, <1>6, <1>7, <1>8, <1>9, <1>10 DEF Next, Resume

\* Every step keeps the state within its types: the steps a restart reads back,
\* the layer it puts itself in and the places it counts are ones the program has.
THEOREM TypeCorrect == Spec => []TypeOK
  BY TypeInit, TypeStep, PTL DEF Spec

-----------------------------------------------------------------------------
(* Where the run is *)

Deps == [DepIds -> [svc : Services, status : DepStatus \union NoRecord]]

LEMMA Typed ==
    ASSUME TypeOK
    PROVE  /\ dep \in Deps /\ cap \in Nat /\ run.steps \in RolloutSteps
           /\ proc \in FollowerType /\ proc.steps \in RolloutSteps
           /\ run \in [status : {"none", "running"} \union Ended, steps : RolloutSteps,
                       errors : BOOLEAN]
  BY RolloutAssumption DEF TypeOK, Deps, FollowerType

\* What a deployment can become.
Goes(d, e) ==
    \A i \in DepIds : d[i].status # "none" =>
        /\ e[i].svc = d[i].svc /\ e[i].status # "none"
        /\ d[i].status \notin Unfinished => e[i].status \notin Unfinished

LEMMA StepGoes ==
    ASSUME TypeOK, [Next]_vars
    PROVE  Goes(dep, dep') /\ dep' \in Deps
<1>1. dep \in Deps /\ dep' \in Deps
  BY TypeStep DEF TypeOK, Deps
<1>2. ASSUME NEW s \in Services, TriggerOne(s)  PROVE Goes(dep, dep')
  BY <1>1, <1>2 DEF TriggerOne, Goes, Deps
<1>3. ASSUME NEW i \in DepIds, DeployStep(i)  PROVE Goes(dep, dep')
  BY <1>1, <1>3 DEF DeployStep, Goes, Deps, Unfinished
<1>4. ASSUME NEW i \in DepIds, DeleteRecord(i)  PROVE Goes(dep, dep')
  BY <1>1, <1>4 DEF DeleteRecord, Goes, Deps, Unfinished
<1>5. dep' = dep => Goes(dep, dep')
  BY DEF Goes
<1> QED  BY <1>1, <1>2, <1>3, <1>4, <1>5
         DEF Next, Follower, Resume, Apply, SaveLayer, recordResult, startQueuedBuilds, NextLayer,
             LayersDone, WaitTimesOut, FinishSave, finishRun, Crash, resumeRun, ResumeGone,
             SetCap, vars

LEMMA GoesKeeps ==
    ASSUME NEW d \in Deps, NEW e \in Deps, Goes(d, e), NEW steps \in RolloutSteps,
           StepsTell(d, steps)
    PROVE  /\ StepsTell(e, steps)
           /\ InOrder(d, steps) => InOrder(e, steps)
           /\ \A p \in FollowerType : p.steps = steps /\ InPlace(d, p) => InPlace(e, p)
<1>1. \A s \in Services : steps[s].dep # NoDep =>
        /\ steps[s].dep \in DepIds
        /\ d[steps[s].dep].svc = s /\ d[steps[s].dep].status # "none"
  BY DEF StepsTell, RolloutSteps
<1>2. \A s \in Services : steps[s].dep # NoDep =>
        /\ e[steps[s].dep].svc = s /\ e[steps[s].dep].status # "none"
        /\ d[steps[s].dep].status \notin Unfinished => e[steps[s].dep].status \notin Unfinished
  BY <1>1 DEF Goes
<1>3. StepsTell(e, steps)
  BY <1>2 DEF StepsTell
<1>4. InOrder(d, steps) => InOrder(e, steps)
  BY <1>2 DEF InOrder
<1>5. \A p \in FollowerType : p.steps = steps /\ InPlace(d, p) => InPlace(e, p)
  BY <1>2 DEF InPlace
<1> QED  BY <1>3, <1>4, <1>5

\* Steps that differ only in how what started went, and in why what did not
\* start did not.
SameShape(st, tt) ==
    \A s \in Services : tt[s].dep = st[s].dep /\ (tt[s].status \in Idle <=> st[s].status \in Idle)

LEMMA ShapeKeeps ==
    ASSUME NEW d, NEW st, NEW tt, SameShape(st, tt), StepsTell(d, st), InOrder(d, st)
    PROVE  StepsTell(d, tt) /\ InOrder(d, tt)
  BY DEF SameShape, StepsTell, InOrder

LEMMA OutcomeShape ==
    ASSUME TypeOK, StepsTell(dep, proc.steps)
    PROVE  SameShape(proc.steps, Outcome) /\ SameShape(proc.steps, StopRest(Outcome))
<1>1. proc.previous \in SUBSET DepIds
  BY Typed DEF FollowerType
<1>2. NoDep \notin DepIds
  BY DEF DepIds
<1>3. ASSUME NEW s \in Services
      PROVE  Outcome[s].dep = proc.steps[s].dep
             /\ (Outcome[s].status \in Idle <=> proc.steps[s].status \in Idle)
  BY <1>1, <1>2, OutcomeType DEF StepsTell, Idle
<1>4. Outcome \in RolloutSteps
  BY OutcomeType
<1>5. ASSUME NEW s \in Services
      PROVE  StopRest(Outcome)[s].dep = Outcome[s].dep
             /\ (StopRest(Outcome)[s].status \in Idle <=> Outcome[s].status \in Idle)
  BY <1>4 DEF StopRest, Idle, RolloutSteps
<1> QED  BY <1>3, <1>5 DEF SameShape

LEMMA StopShape ==
    ASSUME NEW steps \in RolloutSteps
    PROVE  SameShape(steps, StopRest(steps))
  BY DEF StopRest, Idle, RolloutSteps, SameShape

LEMMA WaitingHolds ==
    ASSUME NEW d
    PROVE  StepsTell(d, Waiting) /\ InOrder(d, Waiting)
  BY DEF Waiting, StepsTell, InOrder, Idle

\* What a follower's trigger does to the fields the invariants read.
LEMMA TriggerDoes ==
    ASSUME TypeOK, NEW s \in Services, TriggerOne(s)
    PROVE  /\ proc.pc = "trigger" /\ s \in proc.todo
           /\ proc'.pc = "trigger" /\ proc'.todo = proc.todo \ {s}
           /\ proc'.queued = proc.queued /\ proc'.next = proc.next
           /\ proc'.max = proc.max /\ proc'.blocked = proc.blocked
           /\ run' = run /\ cap' = cap /\ budget' = budget
           /\ \/ \E i \in DepIds :
                    /\ dep[i].status = "none"
                    /\ dep' = [dep EXCEPT ![i] = [svc |-> s, status |-> IF s \in Builds
                                                             THEN "building" ELSE "deploying"]]
                    /\ proc'.previous = proc.previous \union {i}
                    /\ proc'.steps = [proc.steps EXCEPT ![s] = [status |-> "started", dep |-> i]]
              \/ /\ dep' = dep /\ proc'.previous = proc.previous
                 /\ proc'.steps = [proc.steps EXCEPT ![s].status = "failed"]
<1>1. proc \in FollowerType
  BY Typed
<1>2. CASE \E i \in DepIds :
            /\ dep[i].status = "none"
            /\ \A j \in DepIds : j < i => dep[j].status # "none"
            /\ dep' = [dep EXCEPT ![i] = [svc |-> s, status |-> IF s \in Builds
                                                     THEN "building" ELSE "deploying"]]
            /\ proc' = [proc EXCEPT !.todo = @ \ {s},
                                    !.previous = @ \union {i},
                                    !.steps[s] = [status |-> "started", dep |-> i]]
  <2>1. PICK i \in DepIds :
            /\ dep[i].status = "none"
            /\ dep' = [dep EXCEPT ![i] = [svc |-> s, status |-> IF s \in Builds
                                                     THEN "building" ELSE "deploying"]]
            /\ proc' = [proc EXCEPT !.todo = @ \ {s},
                                    !.previous = @ \union {i},
                                    !.steps[s] = [status |-> "started", dep |-> i]]
    BY <1>2
  <2>2. /\ proc'.pc = proc.pc /\ proc'.todo = proc.todo \ {s}
        /\ proc'.queued = proc.queued /\ proc'.next = proc.next
        /\ proc'.max = proc.max /\ proc'.blocked = proc.blocked
        /\ proc'.previous = proc.previous \union {i}
        /\ proc'.steps = [proc.steps EXCEPT ![s] = [status |-> "started", dep |-> i]]
    BY <1>1, <2>1 DEF FollowerType
  <2> QED  BY <2>1, <2>2 DEF TriggerOne
<1>3. CASE /\ proc' = [proc EXCEPT !.todo = @ \ {s},
                                  !.steps[s].status = "failed",
                                  !.errors = @ \/ proc.ret = "record"]
           /\ UNCHANGED dep
  <2>1. /\ proc'.pc = proc.pc /\ proc'.todo = proc.todo \ {s}
        /\ proc'.queued = proc.queued /\ proc'.next = proc.next
        /\ proc'.max = proc.max /\ proc'.blocked = proc.blocked
        /\ proc'.previous = proc.previous
        /\ proc'.steps = [proc.steps EXCEPT ![s].status = "failed"]
    BY <1>1, <1>3 DEF FollowerType
  <2> QED  BY <1>3, <2>1 DEF TriggerOne
<1> QED  BY <1>2, <1>3 DEF TriggerOne

\* The layer after proc.next - 1, what of it is held back and the steps then.
Blocked == proc.blocked \union FailedNames(Outcome)
Fresh == StillWaiting(Outcome, InLayer(proc.next))
Held == HeldBack(Fresh, Blocked)
NextSteps == [s \in Services |-> IF s \in Held THEN [Outcome[s] EXCEPT !.status = "not_started"]
                                 ELSE Outcome[s]]

LEMMA NextLayerDoes ==
    ASSUME TypeOK, NextLayer
    PROVE  /\ proc.pc = "wait" /\ proc'.pc = "trigger"
           /\ proc'.todo \union proc'.queued = Fresh \ Held
           /\ proc'.todo \cap proc'.queued = {}
           /\ proc'.next = proc.next + 1 /\ proc'.max = proc.max
           /\ proc'.previous = {} /\ proc'.blocked = Blocked \union Held
           /\ proc'.steps = NextSteps
           /\ proc'.max > 0 => Cardinality(proc'.todo \cap Builds) <= proc'.max
           /\ proc'.max = 0 => proc'.queued = {}
           /\ run' = run /\ cap' = cap /\ budget' = budget /\ dep' = dep
           /\ PreviousEnded
<1>1. proc \in FollowerType
  BY Typed
<1>2. PICK now \in StartNow(Fresh \ Held, proc.max) :
            proc' = [proc EXCEPT
                !.pc = "trigger", !.ret = "queue", !.previous = {}, !.next = @ + 1,
                !.todo = now, !.queued = (Fresh \ Held) \ now,
                !.blocked = Blocked \union Held,
                !.steps = NextSteps]
  BY DEF NextLayer, Fresh, Held, Blocked, NextSteps
<1>3. Fresh \ Held \in SUBSET Services /\ proc.max \in Nat
  BY <1>1 DEF Fresh, StillWaiting, InLayer, FollowerType
<1> HIDE DEF Fresh, Held, Blocked, NextSteps
<1>4. /\ now \in SUBSET (Fresh \ Held)
      /\ proc.max > 0 => Cardinality(now \cap Builds) <= proc.max
      /\ proc.max = 0 => now = Fresh \ Held
  BY <1>3, StartNowFits
<1>5. /\ proc'.pc = "trigger" /\ proc'.todo = now /\ proc'.queued = (Fresh \ Held) \ now
      /\ proc'.next = proc.next + 1 /\ proc'.max = proc.max
      /\ proc'.previous = {} /\ proc'.blocked = Blocked \union Held
      /\ proc'.steps = NextSteps
  BY <1>1, <1>2 DEF FollowerType
<1>6. proc'.todo \union proc'.queued = Fresh \ Held /\ proc'.todo \cap proc'.queued = {}
  BY <1>4, <1>5
<1>7. proc.pc = "wait" /\ PreviousEnded
      /\ run' = run /\ cap' = cap /\ budget' = budget /\ dep' = dep
  BY DEF NextLayer
<1>8. proc'.max = 0 => proc'.queued = {}
  BY <1>4, <1>5
<1>9. proc'.max > 0 => Cardinality(proc'.todo \cap Builds) <= proc'.max
  BY <1>4, <1>5
<1> QED  BY <1>5, <1>6, <1>7, <1>8, <1>9

LEMMA NextStepsShape ==
    ASSUME TypeOK, StepsTell(dep, proc.steps)
    PROVE  /\ SameShape(proc.steps, NextSteps) /\ NextSteps \in RolloutSteps
           /\ Fresh \in SUBSET InLayer(proc.next)
           /\ \A s \in Fresh : proc.steps[s].status = "waiting" /\ Outcome[s] = proc.steps[s]
           /\ \A s \in Services \ Held : NextSteps[s] = Outcome[s]
           /\ \A s \in Held : s \in Fresh /\ NextSteps[s].status = "not_started"
<1>1. Outcome \in RolloutSteps /\ SameShape(proc.steps, Outcome)
  BY OutcomeType, OutcomeShape
<1>2. Fresh \in SUBSET InLayer(proc.next) /\ \A s \in Fresh : s \in Services /\ Outcome[s].status = "waiting"
  BY DEF Fresh, StillWaiting, InLayer
<1>3. \A s \in Services : Outcome[s].status = "waiting" => Outcome[s] = proc.steps[s]
  BY OutcomeType
<1>4. Held \in SUBSET Fresh
  BY DEF Held, HeldBack
<1>5. \A s \in Services \ Held : NextSteps[s] = Outcome[s]
  BY DEF NextSteps
<1>6. \A s \in Held : NextSteps[s] = [Outcome[s] EXCEPT !.status = "not_started"]
  BY <1>2, <1>4 DEF NextSteps
<1>7. \A s \in Held : NextSteps[s].status = "not_started" /\ NextSteps[s].dep = Outcome[s].dep
  <2>1. ASSUME NEW s \in Held
        PROVE  NextSteps[s].status = "not_started" /\ NextSteps[s].dep = Outcome[s].dep
    <3>1. Outcome[s] \in [status : StepStatus, dep : DepIds \union {NoDep}]
      BY <1>1, <1>2, <1>4 DEF RolloutSteps
    <3>2. NextSteps[s] = [Outcome[s] EXCEPT !.status = "not_started"]
      BY <1>6
    <3> QED  BY <3>1, <3>2
  <2> QED  BY <2>1
<1>8. SameShape(proc.steps, NextSteps)
  BY <1>1, <1>2, <1>4, <1>5, <1>7 DEF SameShape, Idle
<1>9. NextSteps \in RolloutSteps
  BY <1>1 DEF NextSteps, RolloutSteps, StepStatus
<1> QED  BY <1>2, <1>3, <1>4, <1>5, <1>7, <1>8, <1>9

LEMMA ApplyDoes ==
    ASSUME TypeOK, Book, Apply
    PROVE  /\ run.status = "none" /\ proc = NotRunning /\ run.steps = Waiting
           /\ run'.status = "running" /\ run'.steps = Waiting /\ proc'.steps = Waiting
           /\ proc'.pc = "trigger" /\ proc'.next = 1 /\ proc'.previous = {} /\ proc'.blocked = {}
           /\ proc'.todo \union proc'.queued = InLayer(0)
           /\ proc'.todo \cap proc'.queued = {}
           /\ proc'.max = cap
           /\ proc'.max > 0 => Cardinality(proc'.todo \cap Builds) <= proc'.max
           /\ proc'.max = 0 => proc'.queued = {}
           /\ cap' = cap /\ budget' = budget /\ dep' = dep
<1>1. run.status = "none" /\ proc = NotRunning /\ run.steps = Waiting
  BY DEF Apply, Book
<1>2. PICK now \in StartNow(InLayer(0), cap), e \in BOOLEAN :
        proc' = [proc EXCEPT !.pc = "trigger", !.ret = "record", !.todo = now,
                             !.queued = InLayer(0) \ now, !.next = 1, !.max = cap,
                             !.errors = e]
  BY DEF Apply
<1>3. cap \in Nat /\ InLayer(0) \in SUBSET Services
  BY Typed DEF InLayer
<1>4. /\ now \in SUBSET InLayer(0)
      /\ cap > 0 => Cardinality(now \cap Builds) <= cap
      /\ cap = 0 => now = InLayer(0)
  BY <1>3, StartNowFits
<1>5. /\ proc'.pc = "trigger" /\ proc'.todo = now /\ proc'.queued = InLayer(0) \ now
      /\ proc'.next = 1 /\ proc'.max = cap /\ proc'.previous = {} /\ proc'.blocked = {}
      /\ proc'.steps = Waiting
  BY <1>1, <1>2 DEF NotRunning
<1>6. run'.status = "running" /\ run'.steps = run.steps
  BY Typed DEF Apply
<1>7. proc'.todo \union proc'.queued = InLayer(0) /\ proc'.todo \cap proc'.queued = {}
  BY <1>4, <1>5
<1>8. (proc'.max > 0 => Cardinality(proc'.todo \cap Builds) <= proc'.max)
      /\ (proc'.max = 0 => proc'.queued = {})
  BY <1>4, <1>5
<1> QED  BY <1>1, <1>5, <1>6, <1>7, <1>8 DEF Apply

LEMMA resumeDoes ==
    ASSUME TypeOK, resumeRun
    PROVE  /\ proc.pc = "none" /\ run.status = "running"
           /\ proc'.pc = "queue" /\ proc'.steps = run.steps
           /\ proc'.next = Current(run.steps) + 1 /\ proc'.todo = {} /\ proc'.blocked = {}
           /\ proc'.queued = StillWaiting(run.steps, InLayer(Current(run.steps)))
           /\ proc'.previous = {run.steps[s].dep : s \in InLayer(Current(run.steps))} \ {NoDep}
           /\ proc'.max = cap
           /\ run' = run /\ cap' = cap /\ budget' = budget /\ dep' = dep
  BY DEF resumeRun, NotRunning, InLayer

LEMMA startQueuedDoes ==
    ASSUME TypeOK, startQueuedBuilds
    PROVE  /\ proc.pc = "queue" /\ proc'.steps = proc.steps /\ proc'.next = proc.next
           /\ proc'.previous = proc.previous /\ proc'.blocked = proc.blocked
           /\ proc'.max = proc.max
           /\ run' = run /\ cap' = cap /\ budget' = budget /\ dep' = dep
           /\ \/ proc.queued = {} /\ proc'.pc = "wait" /\ proc'.queued = {} /\ proc'.todo = proc.todo
              \/ /\ proc'.pc = "trigger" /\ proc.queued # {} /\ proc.max > Building
                 /\ \E q \in SUBSET proc.queued :
                      /\ Cardinality(q) = Min({proc.max - Building, Cardinality(proc.queued)})
                      /\ proc'.todo = q /\ proc'.queued = proc.queued \ q
              \/ /\ proc'.pc = "wait" /\ proc'.queued = {} /\ proc'.todo = proc.todo
                 /\ proc.queued # {} /\ ("queue" \in Slow \/ proc.max = 0)
<1>1. proc \in FollowerType
  BY Typed
<1>2. CASE proc.queued = {} /\ proc' = [proc EXCEPT !.pc = "wait"]
  BY <1>1, <1>2 DEF startQueuedBuilds, FollowerType
<1>3. CASE /\ proc.queued # {} /\ proc.max > Building
           /\ \E q \in SUBSET proc.queued :
                /\ Cardinality(q) = Min({proc.max - Building, Cardinality(proc.queued)})
                /\ proc' = [proc EXCEPT !.pc = "trigger", !.todo = q, !.queued = @ \ q]
  <2>1. PICK q \in SUBSET proc.queued :
                /\ Cardinality(q) = Min({proc.max - Building, Cardinality(proc.queued)})
                /\ proc' = [proc EXCEPT !.pc = "trigger", !.todo = q, !.queued = @ \ q]
    BY <1>3
  <2>2. /\ proc'.pc = "trigger" /\ proc'.todo = q /\ proc'.queued = proc.queued \ q
        /\ proc'.steps = proc.steps /\ proc'.next = proc.next
        /\ proc'.previous = proc.previous /\ proc'.blocked = proc.blocked
        /\ proc'.max = proc.max
    BY <1>1, <2>1 DEF FollowerType
  <2> QED  BY <1>3, <2>1, <2>2 DEF startQueuedBuilds
<1>4. CASE /\ proc.queued # {} /\ proc.max <= Building
           /\ "queue" \in Slow \/ proc.max = 0
           /\ proc' = [proc EXCEPT !.pc = "wait", !.queued = {}]
  BY <1>1, <1>4 DEF startQueuedBuilds, FollowerType
<1> QED  BY <1>2, <1>3, <1>4 DEF startQueuedBuilds

LEMMA SaveLayerDoes ==
    ASSUME TypeOK, SaveLayer
    PROVE  /\ proc.pc = "trigger" /\ proc.todo = {}
           /\ proc'.pc \in {"record", "queue"} /\ proc'.todo = {} /\ proc'.queued = proc.queued
           /\ proc'.steps = proc.steps /\ proc'.next = proc.next
           /\ proc'.previous = proc.previous /\ proc'.blocked = proc.blocked /\ proc'.max = proc.max
           /\ run'.status = run.status /\ run'.steps = proc.steps
           /\ cap' = cap /\ budget' = budget /\ dep' = dep
<1>1. proc \in FollowerType /\ run \in [status : {"none", "running"} \union Ended,
                                        steps : RolloutSteps, errors : BOOLEAN]
  BY Typed
<1> QED  BY <1>1 DEF SaveLayer, FollowerType

LEMMA recordDoes ==
    ASSUME TypeOK, recordResult
    PROVE  /\ proc.pc = "record" /\ proc'.pc = "queue"
           /\ proc'.todo = proc.todo /\ proc'.queued = proc.queued
           /\ proc'.steps = proc.steps /\ proc'.next = proc.next
           /\ proc'.previous = proc.previous /\ proc'.blocked = proc.blocked /\ proc'.max = proc.max
           /\ run'.status = run.status /\ run'.steps = run.steps
           /\ cap' = cap /\ budget' = budget /\ dep' = dep
<1>1. proc \in FollowerType /\ run \in [status : {"none", "running"} \union Ended,
                                        steps : RolloutSteps, errors : BOOLEAN]
  BY Typed
<1> QED  BY <1>1 DEF recordResult, FollowerType

\* The follower has nothing more to start: what is left is to say how it went.
LEMMA SaveDoes ==
    ASSUME TypeOK, StepsTell(dep, proc.steps), StepsTell(dep, run.steps),
           LayersDone \/ WaitTimesOut \/ ResumeGone,
           proc.pc = "none" => proc = NotRunning
    PROVE  /\ proc'.pc = "save" /\ proc'.todo = proc.todo /\ proc'.queued = proc.queued
           /\ proc.pc = "none" => run.status = "running"
           /\ proc'.steps \in RolloutSteps
           /\ \/ SameShape(proc.steps, proc'.steps) /\ proc.pc = "wait"
              \/ SameShape(run.steps, proc'.steps) /\ proc.pc = "none"
           /\ run' = run /\ cap' = cap /\ dep' = dep
<1>1. proc \in FollowerType /\ run.steps \in RolloutSteps
  BY Typed
<1>2. CASE LayersDone
  <2>1. proc'.pc = "save" /\ proc'.todo = proc.todo /\ proc'.queued = proc.queued
        /\ proc'.steps = Outcome
    BY <1>1, <1>2 DEF LayersDone, FollowerType
  <2> QED  BY <1>2, <2>1, OutcomeShape, OutcomeType DEF LayersDone
<1>3. CASE WaitTimesOut
  <2>1. proc'.pc = "save" /\ proc'.todo = proc.todo /\ proc'.queued = proc.queued
        /\ proc'.steps = StopRest(Outcome)
    BY <1>1, <1>3 DEF WaitTimesOut, FollowerType
  <2> QED  BY <1>3, <2>1, OutcomeShape, OutcomeType, StopRestType DEF WaitTimesOut
<1>4. CASE ResumeGone
  <2>1. proc'.pc = "save" /\ proc'.todo = {} /\ proc'.queued = {}
        /\ proc'.steps = StopRest(run.steps)
    BY <1>4 DEF ResumeGone, NotRunning
  <2>2. proc.todo = {} /\ proc.queued = {}
    BY <1>4 DEF ResumeGone, NotRunning
  <2> QED  BY <1>1, <1>4, <2>1, <2>2, StopShape, StopRestType DEF ResumeGone
<1> QED  BY <1>2, <1>3, <1>4

LEMMA FinishDoes ==
    ASSUME TypeOK, FinishSave
    PROVE  /\ proc.pc = "save" /\ proc'.pc = "close"
           /\ proc'.todo = proc.todo /\ proc'.queued = proc.queued /\ proc'.steps = proc.steps
           /\ proc'.max = proc.max
           /\ run'.status = run.status /\ run'.steps = proc.steps
           /\ cap' = cap /\ budget' = budget /\ dep' = dep
<1>1. proc \in FollowerType /\ run \in [status : {"none", "running"} \union Ended,
                                        steps : RolloutSteps, errors : BOOLEAN]
  BY Typed
<1> QED  BY <1>1 DEF FinishSave, FollowerType

LEMMA CloseDoes ==
    ASSUME TypeOK, finishRun
    PROVE  /\ proc.pc = "close" /\ proc' = NotRunning
           /\ run'.status = Verdict(proc.steps, proc.errors) /\ run'.status \in Ended
           /\ run'.steps = run.steps
           /\ cap' = cap /\ budget' = budget /\ dep' = dep
<1>1. run \in [status : {"none", "running"} \union Ended, steps : RolloutSteps, errors : BOOLEAN]
  BY Typed
<1>2. run'.status = Verdict(proc.steps, proc.errors) /\ run'.steps = run.steps
  BY <1>1 DEF finishRun
<1>3. Verdict(proc.steps, proc.errors) \in Ended
  BY DEF Verdict, Ended
<1> QED  BY <1>2, <1>3 DEF finishRun

LEMMA BookInit == Init => Book
<1> SUFFICES ASSUME Init PROVE Book
  OBVIOUS
<1>1. proc = NotRunning /\ run.status = "none" /\ run.steps = Waiting
  BY DEF Init
<1>2. proc.pc = "none" /\ proc.todo = {} /\ proc.queued = {} /\ proc.steps = Waiting
  BY <1>1 DEF NotRunning
<1> QED  BY <1>1, <1>2, WaitingHolds DEF Book, Live

\* Book, one deployment table later.
LEMMA BookGoes ==
    ASSUME TypeOK, Book, [Next]_vars
    PROVE  /\ StepsTell(dep', proc.steps) /\ StepsTell(dep', run.steps)
           /\ InOrder(dep', proc.steps) /\ InOrder(dep', run.steps)
           /\ proc.pc \in Live => InPlace(dep', proc)
<1>1. dep \in Deps /\ dep' \in Deps /\ Goes(dep, dep')
  BY Typed, StepGoes
<1>2. proc \in FollowerType /\ proc.steps \in RolloutSteps /\ run.steps \in RolloutSteps
  BY Typed
<1> QED  BY <1>1, <1>2, GoesKeeps DEF Book

LEMMA BookTrigger ==
    ASSUME TypeOK, Book, NEW s \in Services, TriggerOne(s)
    PROVE  Book'
<1>1. [Next]_vars
  BY DEF Next, Follower
<1> DEFINE d == dep'
           st == proc.steps
           tt == proc'.steps
<1>2. /\ d \in Deps /\ dep \in Deps /\ st \in RolloutSteps /\ tt \in RolloutSteps /\ proc \in FollowerType
      /\ StepsTell(d, st) /\ StepsTell(d, run.steps)
      /\ InOrder(d, st) /\ InOrder(d, run.steps) /\ InPlace(d, proc)
  BY <1>1, Typed, StepGoes, TypeStep, BookGoes, TriggerDoes DEF TypeOK, Live, FollowerType
<1>3. /\ s \in proc.todo /\ s \notin proc.queued /\ st[s].status = "waiting" /\ st[s].dep = NoDep
      /\ Layer[s] = proc.next - 1
  BY <1>2, TriggerDoes DEF Book, InPlace, StepsTell, Idle
<1>4. \A t \in Services : Layer[t] \in Nat
  BY LayerAfter
<1>5. \A t \in Services \ {s} : tt[t] = st[t]
  BY <1>2, TriggerDoes DEF RolloutSteps
<1>6. /\ tt[s].status \in {"started", "failed"} /\ tt[s].status \notin Idle
      /\ tt[s].dep # NoDep => /\ tt[s].dep \in DepIds
                              /\ d[tt[s].dep].svc = s /\ d[tt[s].dep].status # "none"
      /\ proc'.previous = proc.previous \union ({tt[s].dep} \ {NoDep})
  <2>1. CASE \E i \in DepIds :
                /\ dep[i].status = "none"
                /\ dep' = [dep EXCEPT ![i] = [svc |-> s, status |-> IF s \in Builds
                                                         THEN "building" ELSE "deploying"]]
                /\ proc'.previous = proc.previous \union {i}
                /\ proc'.steps = [proc.steps EXCEPT ![s] = [status |-> "started", dep |-> i]]
    <3>1. PICK i \in DepIds :
                /\ d = [dep EXCEPT ![i] = [svc |-> s, status |-> IF s \in Builds
                                                         THEN "building" ELSE "deploying"]]
                /\ proc'.previous = proc.previous \union {i}
                /\ tt = [st EXCEPT ![s] = [status |-> "started", dep |-> i]]
      BY <2>1
    <3>2. tt[s] = [status |-> "started", dep |-> i]
      BY <1>2, <3>1 DEF RolloutSteps
    <3>3. d[i].svc = s /\ d[i].status # "none"
      BY <1>2, <3>1 DEF Deps
    <3>4. i # NoDep
      BY DEF DepIds
    <3> QED  BY <3>1, <3>2, <3>3, <3>4 DEF Idle
  <2>2. CASE /\ dep' = dep /\ proc'.previous = proc.previous
             /\ proc'.steps = [proc.steps EXCEPT ![s].status = "failed"]
    <3>1. st[s] \in [status : StepStatus, dep : DepIds \union {NoDep}]
      BY <1>2 DEF RolloutSteps
    <3>2. tt[s] = [st[s] EXCEPT !.status = "failed"]
      BY <1>2, <2>2 DEF RolloutSteps
    <3>3. tt[s].status = "failed" /\ tt[s].dep = NoDep
      BY <1>3, <3>1, <3>2
    <3> QED  BY <2>2, <3>3 DEF Idle
  <2> QED  BY <2>1, <2>2, TriggerDoes
<1>7. StepsTell(d, tt)
  BY <1>2, <1>5, <1>6 DEF StepsTell
<1>8. InOrder(d, tt)
  <2> SUFFICES ASSUME NEW a \in Services, NEW b \in Services, Layer[a] < Layer[b],
                      tt[b].status \notin Idle, tt[a].dep # NoDep
               PROVE  d[tt[a].dep].status \notin Unfinished
    BY DEF InOrder
  <2>1. CASE b = s
    BY <1>2, <1>3, <1>4, <1>5, <2>1 DEF InPlace
  <2>2. CASE a = s
    <3>1. b # s /\ Layer[b] >= proc.next
      BY <1>2, <1>3, <1>4, <2>2 DEF FollowerType
    <3> QED  BY <1>2, <1>5, <3>1 DEF InPlace
  <2>3. CASE a # s /\ b # s
    BY <1>2, <1>5, <2>3 DEF InOrder
  <2> QED  BY <2>1, <2>2, <2>3
<1>9. InPlace(d, proc')
  <2>1. proc'.next = proc.next /\ proc'.todo = proc.todo \ {s} /\ proc'.queued = proc.queued
    BY TriggerDoes
  <2>2. \A t \in proc'.todo \union proc'.queued :
            Layer[t] = proc'.next - 1 /\ tt[t].status = "waiting"
    BY <1>2, <1>3, <1>5, <2>1 DEF InPlace, FollowerType
  <2>3. \A t \in Services : Layer[t] >= proc'.next => t # s
    BY <1>2, <1>3, <2>1 DEF FollowerType
  <2>4. \A t \in Services : Layer[t] >= proc'.next => tt[t].status \in Idle
    BY <1>2, <1>5, <2>1, <2>3 DEF InPlace
  <2>5. proc'.previous = {tt[t].dep : t \in InLayer(proc'.next - 1)} \ {NoDep}
    <3>1. s \in InLayer(proc'.next - 1) /\ \A t \in InLayer(proc'.next - 1) : t \in Services
      BY <1>3, <2>1 DEF InLayer
    <3>2. proc.previous = {st[t].dep : t \in InLayer(proc'.next - 1)} \ {NoDep}
      BY <1>2, <2>1 DEF InPlace
    <3> QED  BY <1>3, <1>5, <1>6, <3>1, <3>2
  <2>6. \A t \in Services : Layer[t] < proc'.next - 1 /\ tt[t].dep # NoDep =>
            d[tt[t].dep].status \notin Unfinished
    BY <1>2, <1>3, <1>4, <1>5, <2>1 DEF InPlace, FollowerType
  <2> QED  BY <2>2, <2>4, <2>5, <2>6 DEF InPlace
<1>10. /\ proc'.pc = "trigger" /\ run' = run
       /\ proc'.todo \cap proc'.queued = {} /\ proc.pc = "trigger"
  BY TriggerDoes DEF Book
<1> QED  BY <1>2, <1>7, <1>8, <1>9, <1>10 DEF Book

LEMMA BookNextLayer ==
    ASSUME TypeOK, Book, NextLayer
    PROVE  Book'
<1>1. /\ proc \in FollowerType /\ dep' = dep /\ run' = run
      /\ proc.pc = "wait" /\ proc'.pc = "trigger" /\ proc'.steps = NextSteps
      /\ proc'.next = proc.next + 1 /\ proc'.previous = {}
      /\ proc'.todo \union proc'.queued = Fresh \ Held
      /\ proc'.todo \cap proc'.queued = {}
  BY Typed, NextLayerDoes
<1>2. /\ StepsTell(dep, proc.steps) /\ InOrder(dep, proc.steps) /\ InPlace(dep, proc)
  BY <1>1 DEF Book, Live
<1>3. StepsTell(dep, NextSteps) /\ InOrder(dep, NextSteps) /\ SameShape(proc.steps, NextSteps)
  BY <1>2, NextStepsShape, ShapeKeeps
<1>4. \A s \in Services : Layer[s] \in Nat
  BY LayerAfter
<1>5. InPlace(dep, proc')
  <2>1. \A s \in Fresh \ Held : Layer[s] = proc.next /\ NextSteps[s].status = "waiting"
    BY <1>2, NextStepsShape DEF InLayer
  <2>2. \A s \in Services : Layer[s] >= proc.next => NextSteps[s].status \in Idle /\ NextSteps[s].dep = NoDep
    BY <1>2, <1>3 DEF InPlace, SameShape, StepsTell
  <2>3. {NextSteps[s].dep : s \in InLayer(proc.next)} \ {NoDep} = {}
    BY <1>1, <1>4, <2>2 DEF InLayer, FollowerType
  <2>4. ASSUME NEW s \in Services, Layer[s] < proc.next, NextSteps[s].dep # NoDep
        PROVE  dep[NextSteps[s].dep].status \notin Unfinished
    <3>1. NextSteps[s].dep = proc.steps[s].dep
      BY <1>3 DEF SameShape
    <3>2. CASE Layer[s] < proc.next - 1
      BY <1>2, <2>4, <3>1, <3>2 DEF InPlace
    <3>3. CASE Layer[s] = proc.next - 1
      <4>1. proc.steps[s].dep \in proc.previous
        BY <1>2, <2>4, <3>1, <3>3 DEF InPlace, InLayer
      <4> QED  BY <3>1, <4>1, NextLayerDoes DEF PreviousEnded, Unfinished
    <3> QED  BY <1>1, <1>4, <2>4, <3>2, <3>3 DEF FollowerType
  <2>5. proc'.next - 1 = proc.next
    BY <1>1 DEF FollowerType
  <2>6. \A s \in Services : Layer[s] >= proc'.next => Layer[s] >= proc.next
    BY <1>1, <1>4 DEF FollowerType
  <2>7. \A s \in proc'.todo \union proc'.queued :
            Layer[s] = proc'.next - 1 /\ proc'.steps[s].status = "waiting"
    BY <1>1, <2>1, <2>5
  <2>8. \A s \in Services : Layer[s] >= proc'.next => proc'.steps[s].status \in Idle
    BY <1>1, <2>2, <2>6
  <2>9. proc'.previous = {proc'.steps[s].dep : s \in InLayer(proc'.next - 1)} \ {NoDep}
    BY <1>1, <2>3, <2>5
  <2>10. \A s \in Services : Layer[s] < proc'.next - 1 /\ proc'.steps[s].dep # NoDep =>
            dep[proc'.steps[s].dep].status \notin Unfinished
    BY <1>1, <2>4, <2>5
  <2> QED  BY <2>7, <2>8, <2>9, <2>10 DEF InPlace
<1> QED  BY <1>1, <1>3, <1>5 DEF Book

LEMMA BookApply ==
    ASSUME TypeOK, Book, Apply
    PROVE  Book'
<1>1. StepsTell(dep', Waiting) /\ InOrder(dep', Waiting)
  BY WaitingHolds
<1>2. \A s \in Services : Waiting[s].status = "waiting" /\ Waiting[s].dep = NoDep
  BY DEF Waiting
<1>3. InPlace(dep', proc')
  BY <1>2, ApplyDoes DEF InPlace, InLayer, Idle
<1> QED  BY <1>1, <1>3, ApplyDoes DEF Book

LEMMA BookResume ==
    ASSUME TypeOK, Book, resumeRun
    PROVE  Book'
<1> DEFINE current == Current(run.steps)
<1>1. /\ run.steps \in RolloutSteps
      /\ StepsTell(dep, run.steps) /\ InOrder(dep, run.steps)
  BY Typed DEF Book
<1>2. /\ current \in Int /\ current + 1 - 1 = current
      /\ \A s \in Services : run.steps[s].status \notin Idle => Layer[s] <= current
      /\ current = -1 \/ \E s \in Services : run.steps[s].status \notin Idle /\ Layer[s] = current
  BY <1>1, CurrentIsLast
<1>3. \A s \in Services : Layer[s] \in Nat
  BY LayerAfter
<1>4. InPlace(dep', proc')
  <2>1. /\ proc'.steps = run.steps /\ proc'.next = current + 1 /\ proc'.todo = {}
        /\ proc'.queued = StillWaiting(run.steps, InLayer(current))
        /\ proc'.previous = {run.steps[s].dep : s \in InLayer(current)} \ {NoDep}
        /\ dep' = dep
    BY resumeDoes
  <2> HIDE DEF current
  <2>2. \A s \in proc'.queued : Layer[s] = current /\ run.steps[s].status = "waiting"
    BY <2>1 DEF StillWaiting, InLayer
  <2>3. \A s \in Services : Layer[s] >= current + 1 => run.steps[s].status \in Idle
    BY <1>2, <1>3
  <2>4. ASSUME NEW s \in Services, Layer[s] < current, run.steps[s].dep # NoDep
        PROVE  dep[run.steps[s].dep].status \notin Unfinished
    <3>1. PICK t \in Services : run.steps[t].status \notin Idle /\ Layer[t] = current
      BY <1>2, <1>3, <2>4
    <3> QED  BY <1>1, <2>4, <3>1 DEF InOrder
  <2> QED  BY <1>2, <2>1, <2>2, <2>3, <2>4 DEF InPlace
<1> QED  BY <1>1, <1>4, resumeDoes DEF Book

LEMMA BookFollower ==
    ASSUME TypeOK, Book,
           SaveLayer \/ recordResult \/ startQueuedBuilds \/ FinishSave \/ finishRun
    PROVE  Book'
<1>1. /\ StepsTell(dep, proc.steps) /\ StepsTell(dep, run.steps)
      /\ InOrder(dep, proc.steps) /\ InOrder(dep, run.steps)
      /\ proc.pc \in Live => InPlace(dep, proc)
  BY DEF Book
<1>2. CASE SaveLayer
  <2>1. InPlace(dep', proc')
    BY <1>1, <1>2, SaveLayerDoes DEF InPlace, Live
  <2> QED  BY <1>1, <1>2, <2>1, SaveLayerDoes DEF Book
<1>3. CASE recordResult
  <2>1. InPlace(dep', proc')
    BY <1>1, <1>3, recordDoes DEF InPlace, Live
  <2> QED  BY <1>1, <1>3, <2>1, recordDoes DEF Book
<1>4. CASE startQueuedBuilds
  <2>1. proc.todo = {} /\ proc.pc = "queue" /\ proc.pc # "trigger" /\ run.status = "running"
    BY <1>4, startQueuedDoes DEF Book
  <2>2. proc'.todo \cap proc'.queued = {} /\ proc'.todo \union proc'.queued \in SUBSET proc.queued
    BY <1>4, <2>1, startQueuedDoes
  <2>3. InPlace(dep', proc')
    BY <1>1, <1>4, <2>1, <2>2, startQueuedDoes DEF InPlace, Live
  <2>4. proc'.pc # "none" /\ (proc'.todo # {} => proc'.pc = "trigger")
    BY <1>4, <2>1, startQueuedDoes
  <2>5. dep' = dep /\ run' = run /\ proc'.steps = proc.steps
    BY <1>4, startQueuedDoes
  <2> QED  BY <1>1, <2>1, <2>2, <2>3, <2>4, <2>5 DEF Book
<1>5. CASE FinishSave
  <2>1. proc'.pc = "close" /\ proc'.pc \notin Live /\ proc'.pc # "none" /\ run.status = "running"
    BY <1>5, FinishDoes DEF Live, Book
  <2>2. proc.todo = {} /\ proc.todo \cap proc.queued = {}
    BY <1>5, FinishDoes DEF Book
  <2> QED  BY <1>1, <1>5, <2>1, <2>2, FinishDoes DEF Book
<1>6. CASE finishRun
  <2>1. proc'.pc = "none" /\ proc'.todo = {} /\ proc'.queued = {} /\ proc'.steps = Waiting
        /\ proc'.pc \notin Live
    BY <1>6, CloseDoes DEF NotRunning, Live
  <2>2. run'.status # "none" /\ run'.steps = run.steps /\ dep' = dep /\ proc' = NotRunning
    BY <1>6, CloseDoes DEF Ended
  <2> QED  BY <1>1, <2>1, <2>2, WaitingHolds DEF Book
<1> QED  BY <1>2, <1>3, <1>4, <1>5, <1>6

LEMMA BookSave ==
    ASSUME TypeOK, Book, LayersDone \/ WaitTimesOut \/ ResumeGone
    PROVE  Book'
<1>1. /\ StepsTell(dep, proc.steps) /\ StepsTell(dep, run.steps)
      /\ InOrder(dep, proc.steps) /\ InOrder(dep, run.steps)
      /\ proc.pc = "none" => proc = NotRunning
  BY DEF Book
<1>2. StepsTell(dep, proc'.steps) /\ InOrder(dep, proc'.steps)
  BY <1>1, SaveDoes, ShapeKeeps
<1>3. proc'.pc = "save" /\ proc'.todo = proc.todo /\ proc'.queued = proc.queued
      /\ proc.pc # "trigger" /\ run' = run /\ dep' = dep
  BY <1>1, SaveDoes
<1>4. proc.todo = {} /\ run.status = "running"
  BY <1>1, <1>3, SaveDoes DEF Book
<1> QED  BY <1>1, <1>2, <1>3, <1>4 DEF Book, Live

LEMMA BookCrash ==
    ASSUME TypeOK, Book, Crash
    PROVE  Book'
<1>1. proc' = NotRunning /\ proc'.pc = "none" /\ proc'.todo = {} /\ proc'.queued = {}
      /\ proc'.steps = Waiting /\ run' = run /\ dep' = dep
  BY DEF Crash, NotRunning
<1> QED  BY <1>1, WaitingHolds DEF Book, Live

LEMMA BookOthers ==
    ASSUME TypeOK, Book, [Next]_vars, UNCHANGED <<run, proc>>
    PROVE  Book'
  BY BookGoes DEF Book

LEMMA BookStep == TypeOK /\ Book /\ [Next]_vars => Book'
<1> SUFFICES ASSUME TypeOK, Book, [Next]_vars PROVE Book'
  OBVIOUS
<1>1. CASE Apply
  BY <1>1, BookApply
<1>2. CASE Follower
  BY <1>2, BookTrigger, BookFollower, BookNextLayer, BookSave DEF Follower
<1>3. CASE Crash
  BY <1>3, BookCrash
<1>4. CASE Resume
  BY <1>4, BookResume, BookSave DEF Resume
<1>5. CASE SetCap \/ (\E i \in DepIds : DeployStep(i) \/ DeleteRecord(i)) \/ UNCHANGED vars
  <2>1. UNCHANGED <<run, proc>>
    BY <1>5 DEF SetCap, DeployStep, DeleteRecord, vars
  <2> QED  BY <2>1, BookOthers
<1> QED  BY <1>1, <1>2, <1>3, <1>4, <1>5 DEF Next

\* The follower is where its steps and the run's record say it is, whatever
\* restarts, deletions and waits there are.
LEMMA InBook == Spec => [](TypeOK /\ Book)
<1>1. Init => TypeOK /\ Book
  BY TypeInit, BookInit
<1>2. TypeOK /\ Book /\ [Next]_vars => (TypeOK /\ Book)'
  BY TypeStep, BookStep
<1> QED  BY <1>1, <1>2, PTL DEF Spec

-----------------------------------------------------------------------------
(* With no restart between a deployment's row and the save of its step *)

\* What is not to happen does not: its budget stays empty.
LEMMA NeverSpent ==
    ASSUME TypeOK, [Next]_vars, NEW b \in Expenses, budget[b] = 0
    PROVE  /\ budget'[b] = 0 /\ ~ Spend(b)
           /\ b = "midcrash" => ~ (Crash /\ proc.pc = "trigger")
           /\ b = "crash" => ~ (Crash /\ proc.pc # "trigger")
           /\ b = "delete" => \A i \in DepIds : ~ DeleteRecord(i)
           /\ b = "setCap" => ~ SetCap
           /\ b = "gone" => ~ ResumeGone
<1>1. budget \in [Expenses -> Nat] /\ budget' \in [Expenses -> Nat]
  BY TypeStep DEF TypeOK
<1>2. ~ Spend(b)
  BY <1>1 DEF Spend
<1>3. \A x \in Expenses : Spend(x) => budget'[b] = 0
  BY <1>1, SpendType
<1>4. budget'[b] = 0
  <2>1. Crash => budget'[b] = 0
    BY <1>3 DEF Crash, Expenses
  <2>2. ResumeGone => budget'[b] = 0
    BY <1>3 DEF ResumeGone, Expenses
  <2>3. SetCap => budget'[b] = 0
    BY <1>3 DEF SetCap, Expenses
  <2>4. \A i \in DepIds : DeleteRecord(i) => budget'[b] = 0
    BY <1>3 DEF DeleteRecord, Expenses
  <2> QED  BY <2>1, <2>2, <2>3, <2>4
           DEF Next, Follower, Resume, Apply, SaveLayer, recordResult, startQueuedBuilds, NextLayer,
               LayersDone, WaitTimesOut, FinishSave, finishRun, resumeRun, TriggerOne, DeployStep,
               vars
<1> QED  BY <1>2, <1>4 DEF Crash, ResumeGone, SetCap, DeleteRecord

LEMMA OnlyTriggerMakes ==
    ASSUME TypeOK, [Next]_vars
    PROVE  \/ \E s \in Services : TriggerOne(s)
           \/ \A i \in DepIds : /\ dep'[i].svc = dep[i].svc
                                /\ dep'[i].status # "none" <=> dep[i].status # "none"
                                /\ dep'[i].status = "building" => dep[i].status = "building"
<1>1. dep \in Deps
  BY Typed
<1>2. ASSUME NEW j \in DepIds, DeployStep(j)
      PROVE  \A i \in DepIds : /\ dep'[i].svc = dep[i].svc
                               /\ dep'[i].status # "none" <=> dep[i].status # "none"
                               /\ dep'[i].status = "building" => dep[i].status = "building"
  BY <1>1, <1>2 DEF DeployStep, Deps
<1>3. ASSUME NEW j \in DepIds, DeleteRecord(j)
      PROVE  \A i \in DepIds : /\ dep'[i].svc = dep[i].svc
                               /\ dep'[i].status # "none" <=> dep[i].status # "none"
                               /\ dep'[i].status = "building" => dep[i].status = "building"
  BY <1>1, <1>3 DEF DeleteRecord, Deps
<1> QED  BY <1>2, <1>3
         DEF Next, Follower, Resume, Apply, SaveLayer, recordResult, startQueuedBuilds, NextLayer,
             LayersDone, WaitTimesOut, FinishSave, finishRun, Crash, resumeRun, ResumeGone,
             SetCap, vars

LEMMA RecordedTrigger ==
    ASSUME TypeOK, Book, Recorded, NEW s \in Services, TriggerOne(s)
    PROVE  Recorded'
<1>1. dep \in Deps /\ proc.steps \in RolloutSteps /\ proc \in FollowerType
  BY Typed
<1>2. proc.pc = "trigger" /\ proc'.pc = "trigger" /\ run' = run /\ run.status = "running"
  BY TriggerDoes DEF Book
<1>3. proc.steps[s].dep = NoDep
  BY <1>2, TriggerDoes DEF Book, InPlace, StepsTell, Idle, Live
<1>4. \A i \in DepIds : dep[i].status # "none" => proc.steps[dep[i].svc].dep = i
  BY <1>2 DEF Recorded, Steps
<1>5. \A i \in DepIds : dep[i].status # "none" => dep[i].svc # s
  BY <1>3, <1>4 DEF DepIds
<1>6. \A i \in DepIds : dep'[i].status # "none" => proc'.steps[dep'[i].svc].dep = i
  <2>1. CASE \E i \in DepIds :
                /\ dep[i].status = "none"
                /\ dep' = [dep EXCEPT ![i] = [svc |-> s, status |-> IF s \in Builds
                                                         THEN "building" ELSE "deploying"]]
                /\ proc'.previous = proc.previous \union {i}
                /\ proc'.steps = [proc.steps EXCEPT ![s] = [status |-> "started", dep |-> i]]
    <3>1. PICK i \in DepIds :
                /\ dep' = [dep EXCEPT ![i] = [svc |-> s, status |-> IF s \in Builds
                                                         THEN "building" ELSE "deploying"]]
                /\ proc'.steps = [proc.steps EXCEPT ![s] = [status |-> "started", dep |-> i]]
      BY <2>1
    <3>2. dep'[i].svc = s /\ proc'.steps[s].dep = i
      BY <1>1, <3>1 DEF Deps, RolloutSteps
    <3>3. \A j \in DepIds \ {i} : dep'[j] = dep[j]
      BY <1>1, <3>1 DEF Deps
    <3>4. \A t \in Services \ {s} : proc'.steps[t] = proc.steps[t]
      BY <1>1, <3>1 DEF RolloutSteps
    <3>5. \A j \in DepIds : dep[j].svc \in Services
      BY <1>1 DEF Deps
    <3> QED  BY <1>4, <1>5, <3>2, <3>3, <3>4, <3>5
  <2>2. CASE /\ dep' = dep /\ proc'.previous = proc.previous
             /\ proc'.steps = [proc.steps EXCEPT ![s].status = "failed"]
    <3>1. \A t \in Services \ {s} : proc'.steps[t] = proc.steps[t]
      BY <1>1, <2>2 DEF RolloutSteps
    <3>2. \A j \in DepIds : dep[j].svc \in Services
      BY <1>1 DEF Deps
    <3> QED  BY <1>4, <1>5, <2>2, <3>1, <3>2
  <2> QED  BY <2>1, <2>2, TriggerDoes
<1> QED  BY <1>2, <1>6 DEF Recorded, Steps

LEMMA RecordedStep ==
    ASSUME TypeOK, Book, Recorded, budget["midcrash"] = 0, [Next]_vars
    PROVE  Recorded'
<1>1. CASE \E s \in Services : TriggerOne(s)
  BY <1>1, RecordedTrigger
<1>2. CASE ~ \E s \in Services : TriggerOne(s)
  <2>1. \A i \in DepIds : /\ dep'[i].svc = dep[i].svc /\ dep[i].svc \in Services
                          /\ dep'[i].status # "none" <=> dep[i].status # "none"
    BY <1>2, OnlyTriggerMakes, Typed DEF Deps
  <2>2. (\A s \in Services : Steps'[s].dep = Steps[s].dep)
        /\ (proc'.pc \notin {"none", "trigger"} =>
               \A s \in Services : proc'.steps[s].dep = run'.steps[s].dep)
    <3>1. CASE Apply
      BY <3>1, ApplyDoes DEF Steps, NotRunning
    <3>2. CASE SaveLayer
      BY <3>2, SaveLayerDoes DEF Steps
    <3>3. CASE recordResult
      BY <3>3, recordDoes DEF Steps, Recorded
    <3>4. CASE startQueuedBuilds
      BY <3>4, startQueuedDoes DEF Steps, Recorded
    <3>5. CASE NextLayer
      <4>1. SameShape(proc.steps, proc'.steps) /\ proc'.pc = "trigger" /\ proc.pc = "wait"
        BY <3>5, NextLayerDoes, NextStepsShape DEF Book
      <4> QED  BY <4>1 DEF Steps, SameShape
    <3>6. CASE LayersDone \/ WaitTimesOut \/ ResumeGone
      <4>1. /\ proc'.pc = "save" /\ run' = run
            /\ \/ SameShape(proc.steps, proc'.steps) /\ proc.pc = "wait"
               \/ SameShape(run.steps, proc'.steps) /\ proc.pc = "none"
        BY <3>6, SaveDoes DEF Book
      <4> QED  BY <4>1 DEF Steps, SameShape, Recorded
    <3>7. CASE FinishSave
      BY <3>7, FinishDoes DEF Steps
    <3>8. CASE finishRun
      BY <3>8, CloseDoes DEF Steps, NotRunning, Recorded
    <3>9. CASE Crash
      <4>1. proc.pc \notin {"none", "trigger"}
        BY <3>9, NeverSpent DEF Crash, Expenses
      <4> QED  BY <3>9, <4>1 DEF Crash, Steps, NotRunning, Recorded
    <3>10. CASE resumeRun
      BY <3>10, resumeDoes DEF Steps
    <3>11. CASE UNCHANGED <<run, proc>>
      BY <3>11 DEF Steps, Recorded
    <3> QED  BY <1>2, <3>1, <3>2, <3>3, <3>4, <3>5, <3>6, <3>7, <3>8, <3>9, <3>10, <3>11
             DEF Next, Follower, Resume, SetCap, DeployStep, DeleteRecord, vars
  <2>3. \A i \in DepIds : dep'[i].status # "none" => Steps'[dep'[i].svc].dep = i
    BY <2>1, <2>2 DEF Recorded
  <2>4. run'.status = "none" => run.status = "none"
    BY <1>2, ApplyDoes, SaveLayerDoes, recordDoes, FinishDoes, CloseDoes
       DEF Ended, Next, Follower, Resume, startQueuedBuilds, NextLayer, LayersDone, WaitTimesOut,
           Crash, resumeRun, ResumeGone, SetCap, DeployStep, DeleteRecord, vars
  <2>5. run'.status = "none" => \A i \in DepIds : dep'[i].status = "none"
    BY <2>1, <2>4 DEF Recorded
  <2> QED  BY <2>2, <2>3, <2>5 DEF Recorded
<1> QED  BY <1>1, <1>2

\* Everything unfinished is of the layer the follower is in.
LEMMA UnfinishedHere ==
    ASSUME TypeOK, Book, Recorded, proc.pc \in Live, NEW i \in DepIds,
           dep[i].status \in Unfinished
    PROVE  i \in proc.previous
<1> DEFINE s == dep[i].svc
<1>1. s \in Services /\ proc \in FollowerType /\ Layer[s] \in Nat
  BY Typed, LayerAfter DEF Deps
<1>2. proc.steps[s].dep = i /\ i # NoDep
  BY DEF Recorded, Steps, Live, Unfinished, DepIds
<1>3. InPlace(dep, proc) /\ StepsTell(dep, proc.steps)
  BY DEF Book
<1>4. ~ (Layer[s] < proc.next - 1) /\ ~ (Layer[s] >= proc.next)
  BY <1>1, <1>2, <1>3 DEF InPlace, StepsTell
<1>5. Layer[s] = proc.next - 1
  BY <1>1, <1>4 DEF FollowerType
<1> QED  BY <1>1, <1>2, <1>3, <1>5 DEF InPlace, InLayer

LEMMA Finite ==
    ASSUME TypeOK
    PROVE  /\ \A T \in SUBSET DepIds : IsFiniteSet(T) /\ Cardinality(T) \in Nat
           /\ \A T \in SUBSET Services : IsFiniteSet(T) /\ Cardinality(T) \in Nat
<1>1. IsFiniteSet(DepIds) /\ IsFiniteSet(Services)
  BY RolloutAssumption, FS_Interval DEF DepIds
<1> QED  BY <1>1, FS_Subset, FS_CardinalityType

LEMMA UnderCapTrigger ==
    ASSUME TypeOK, UnderCap, NEW s \in Services, TriggerOne(s)
    PROVE  UnderCap'
<1>1. dep \in Deps /\ proc \in FollowerType
  BY Typed
<1>2. proc.pc = "trigger" /\ s \in proc.todo /\ proc'.todo = proc.todo \ {s} /\ proc'.max = proc.max
  BY TriggerDoes
<1> DEFINE b == proc.todo \cap Builds
           c == proc'.todo \cap Builds
<1>3. b \in SUBSET Services /\ c = b \ {s} /\ BuildingNow \in SUBSET DepIds
  BY <1>1, <1>2 DEF FollowerType, BuildingNow
<1>4. IsFiniteSet(b) /\ Cardinality(b) \in Nat /\ IsFiniteSet(BuildingNow) /\ Cardinality(BuildingNow) \in Nat
  BY <1>3, Finite
<1>5. SUFFICES ASSUME proc.max > 0, c # {}
               PROVE  Cardinality(BuildingNow') + Cardinality(c) <= proc.max
  BY <1>2 DEF UnderCap
<1>6. Cardinality(BuildingNow) + Cardinality(b) <= proc.max
  BY <1>2, <1>3, <1>5 DEF UnderCap
<1>7. s \in Builds => Cardinality(c) = Cardinality(b) - 1
  <2>1. s \in Builds => Cardinality(b \ {s}) = Cardinality(b) - 1
    <3>1. s \in Builds => s \in b
      BY <1>2
    <3> HIDE DEF b
    <3> QED  BY <1>4, <3>1, FS_RemoveElement
  <2> QED  BY <1>3, <2>1
<1>8. s \notin Builds => c = b
  BY <1>3
<1>9. /\ s \in Builds => Cardinality(BuildingNow') <= Cardinality(BuildingNow) + 1
      /\ s \notin Builds => Cardinality(BuildingNow') <= Cardinality(BuildingNow)
      /\ Cardinality(BuildingNow') \in Nat
  <2>1. CASE \E i \in DepIds :
                /\ dep[i].status = "none"
                /\ dep' = [dep EXCEPT ![i] = [svc |-> s, status |-> IF s \in Builds
                                                         THEN "building" ELSE "deploying"]]
                /\ proc'.previous = proc.previous \union {i}
                /\ proc'.steps = [proc.steps EXCEPT ![s] = [status |-> "started", dep |-> i]]
    <3>1. PICK i \in DepIds :
                /\ dep[i].status = "none"
                /\ dep' = [dep EXCEPT ![i] = [svc |-> s, status |-> IF s \in Builds
                                                         THEN "building" ELSE "deploying"]]
      BY <2>1
    <3>2. i \notin BuildingNow
      BY <3>1 DEF BuildingNow
    <3>3. dep'[i].status = (IF s \in Builds THEN "building" ELSE "deploying")
          /\ \A j \in DepIds \ {i} : dep'[j] = dep[j]
      BY <1>1, <3>1 DEF Deps
    <3>4. s \in Builds => BuildingNow' = BuildingNow \union {i}
      BY <3>3 DEF BuildingNow
    <3>5. s \notin Builds => BuildingNow' = BuildingNow
      BY <3>2, <3>3 DEF BuildingNow
    <3>6. Cardinality(BuildingNow \union {i}) = Cardinality(BuildingNow) + 1
      BY <1>4, <3>2, FS_AddElement
    <3>7. CASE s \in Builds
      <4>1. Cardinality(BuildingNow') = Cardinality(BuildingNow) + 1
        BY <3>4, <3>6, <3>7
      <4> QED  BY <1>4, <3>7, <4>1
    <3>8. CASE s \notin Builds
      <4>1. Cardinality(BuildingNow') = Cardinality(BuildingNow)
        BY <3>5, <3>8
      <4> QED  BY <1>4, <3>8, <4>1
    <3> QED  BY <3>7, <3>8
  <2>2. CASE dep' = dep
    <3>1. BuildingNow' = BuildingNow
      BY <2>2 DEF BuildingNow
    <3> QED  BY <1>4, <3>1
  <2> QED  BY <2>1, <2>2, TriggerDoes
<1>10. proc.max \in Nat
  BY <1>1 DEF FollowerType
<1> HIDE DEF b, c
<1>11. CASE s \in Builds
  BY <1>4, <1>6, <1>7, <1>9, <1>10, <1>11
<1>12. CASE s \notin Builds
  BY <1>4, <1>6, <1>8, <1>9, <1>10, <1>12
<1> QED  BY <1>11, <1>12

LEMMA UnderCapQueue ==
    ASSUME TypeOK, Book, Recorded, startQueuedBuilds
    PROVE  UnderCap'
<1>1. SUFFICES ASSUME proc'.pc = "trigger"
               PROVE  Cardinality(BuildingNow') + Cardinality(proc'.todo \cap Builds) <= proc'.max
  BY DEF UnderCap
<1>2. PICK q \in SUBSET proc.queued :
         /\ Cardinality(q) = Min({proc.max - Building, Cardinality(proc.queued)})
         /\ proc'.todo = q /\ proc.max > Building
  BY <1>1, startQueuedDoes
<1>3. proc.pc = "queue" /\ proc'.max = proc.max /\ dep' = dep /\ proc \in FollowerType
  BY startQueuedDoes, Typed
<1>4. BuildingNow = {i \in proc.previous : dep[i].status = "building"}
  BY <1>3, UnfinishedHere DEF BuildingNow, Live, Unfinished, FollowerType
<1>5. BuildingNow' = BuildingNow /\ Cardinality(BuildingNow) = Building
  BY <1>3, <1>4 DEF BuildingNow, Building
<1>6. /\ Building \in Nat /\ proc.max \in Nat /\ Cardinality(proc.queued) \in Nat
      /\ IsFiniteSet(q) /\ Cardinality(q) \in Nat /\ Cardinality(q \cap Builds) \in Nat
  BY <1>2, <1>3, <1>5, Finite DEF FollowerType, BuildingNow
<1>7. Cardinality(q \cap Builds) <= Cardinality(q)
  BY <1>6, FS_Subset
<1>8. proc.max - Building \in Nat
  BY <1>2, <1>6
<1>9. Cardinality(q) <= proc.max - Building
  BY <1>2, <1>6, <1>8, MinOfTwo
<1> QED  BY <1>2, <1>3, <1>5, <1>6, <1>7, <1>9

LEMMA UnderCapStep ==
    ASSUME TypeOK, Book, Recorded, UnderCap, [Next]_vars
    PROVE  UnderCap'
<1>1. CASE \E s \in Services : TriggerOne(s)
  BY <1>1, UnderCapTrigger
<1>2. CASE startQueuedBuilds
  BY <1>2, UnderCapQueue
<1>3. ASSUME Apply \/ NextLayer PROVE UnderCap'
  <2>1. \A i \in DepIds : dep'[i].status # "building"
    <3>1. CASE Apply
      BY <3>1, ApplyDoes DEF Recorded
    <3>2. CASE NextLayer
      <4>1. proc.pc \in Live /\ PreviousEnded /\ dep' = dep
        BY <3>2, NextLayerDoes DEF Live
      <4> QED  BY <4>1, UnfinishedHere DEF PreviousEnded, Unfinished
    <3> QED  BY <1>3, <3>1, <3>2
  <2>2. BuildingNow' = {}
    BY <2>1 DEF BuildingNow
  <2>3. Cardinality(BuildingNow') = 0
    BY <2>2, FS_EmptySet
  <2>4. proc' \in FollowerType
    BY <1>3, TypeStep DEF TypeOK, FollowerType, Next, Follower
  <2>5. proc'.todo \cap Builds \in SUBSET Services
    BY <2>4 DEF FollowerType
  <2>6. Cardinality(proc'.todo \cap Builds) \in Nat
    BY <2>5, Finite
  <2>7. proc'.max > 0 => Cardinality(proc'.todo \cap Builds) <= proc'.max
    BY <1>3, ApplyDoes, NextLayerDoes
  <2> QED  BY <2>3, <2>6, <2>7 DEF UnderCap
<1>4. CASE UNCHANGED proc /\ ~ \E s \in Services : TriggerOne(s)
  <2>1. BuildingNow' \in SUBSET BuildingNow
    BY <1>4, OnlyTriggerMakes DEF BuildingNow
  <2>2. BuildingNow \in SUBSET DepIds
    BY DEF BuildingNow
  <2>3. Cardinality(BuildingNow') <= Cardinality(BuildingNow) /\ Cardinality(BuildingNow') \in Nat
        /\ Cardinality(BuildingNow) \in Nat
    BY <2>1, <2>2, Finite, FS_Subset
  <2>4. proc \in FollowerType
    BY Typed
  <2>5. Cardinality(proc.todo \cap Builds) \in Nat /\ proc.max \in Nat
    BY <2>4, Finite DEF FollowerType
  <2> QED  BY <1>4, <2>3, <2>5 DEF UnderCap
<1>5. ASSUME proc'.pc # "trigger" PROVE UnderCap'
  BY <1>5 DEF UnderCap
<1>6. SaveLayer \/ recordResult \/ LayersDone \/ WaitTimesOut \/ FinishSave \/ finishRun
         \/ Crash \/ resumeRun \/ ResumeGone => proc'.pc # "trigger"
  BY SaveLayerDoes, recordDoes, SaveDoes, FinishDoes, CloseDoes, resumeDoes
     DEF Crash, NotRunning, Book
<1> QED  BY <1>1, <1>2, <1>3, <1>4, <1>5, <1>6
         DEF Next, Follower, Resume, SetCap, DeployStep, DeleteRecord, vars

LEMMA RecordedInit == Init => Recorded /\ UnderCap
<1> SUFFICES ASSUME Init PROVE Recorded /\ UnderCap
  OBVIOUS
<1>1. \A i \in DepIds : dep[i].status = "none"
  BY DEF Init
<1> QED  BY <1>1 DEF Init, NotRunning, Recorded, UnderCap

LEMMA InRecorded ==
    ASSUME Budget["midcrash"] = 0
    PROVE  Spec => [](TypeOK /\ Book /\ Recorded /\ UnderCap)
<1> DEFINE I == TypeOK /\ Book /\ Recorded /\ UnderCap /\ budget["midcrash"] = 0
<1>1. Init => I
  BY TypeInit, BookInit, RecordedInit DEF Init
<1>2. I /\ [Next]_vars => I'
  BY TypeStep, BookStep, RecordedStep, UnderCapStep, NeverSpent DEF Expenses
<1>3. I => TypeOK /\ Book /\ Recorded /\ UnderCap
  OBVIOUS
<1> QED  BY <1>1, <1>2, <1>3, PTL DEF Spec

\* A run, however often resumed, starts each service once: no two deployments of
\* it are of one service.
THEOREM StartsEachOnce ==
    ASSUME Budget["midcrash"] = 0
    PROVE  Spec => []EachOnce
<1>1. Recorded => EachOnce
  BY DEF Recorded, EachOnce
<1> QED  BY <1>1, InRecorded, PTL

\* A build starts only while fewer than the cap are going on, counted over all
\* of the stack's deployments and not only the layer's, through restarts,
\* deletions, edits of the cap and waits that time out.
THEOREM BuildsStayCapped ==
    ASSUME Budget["midcrash"] = 0
    PROVE  Spec => BuildsCapped
<1> DEFINE A == \A i \in DepIds : Made(i) /\ dep'[i].status = "building" /\ proc.max > 0 =>
                    Cardinality({j \in DepIds : dep[j].status = "building"}) < proc.max
<1>1. ASSUME TypeOK, UnderCap, [Next]_vars PROVE A
  <2> SUFFICES ASSUME NEW i \in DepIds, Made(i), dep'[i].status = "building", proc.max > 0
               PROVE  Cardinality(BuildingNow) < proc.max
    BY DEF BuildingNow
  <2>1. PICK s \in Services : TriggerOne(s)
    BY <1>1, OnlyTriggerMakes DEF Made
  <2>2. s \in Builds
    <3>1. dep \in Deps /\ dep[i].status = "none" /\ dep' # dep
      BY <1>1, Typed DEF Made
    <3>2. PICK j \in DepIds :
              dep' = [dep EXCEPT ![j] = [svc |-> s, status |-> IF s \in Builds
                                                     THEN "building" ELSE "deploying"]]
      BY <1>1, <2>1, <3>1, TriggerDoes
    <3>3. i = j
      BY <3>1, <3>2 DEF Deps
    <3>4. dep'[i].status = IF s \in Builds THEN "building" ELSE "deploying"
      BY <3>1, <3>2, <3>3 DEF Deps
    <3> QED  BY <3>4
  <2> DEFINE b == proc.todo \cap Builds
  <2>3. proc.pc = "trigger" /\ s \in b /\ proc \in FollowerType
    BY <1>1, <2>1, <2>2, TriggerDoes, Typed
  <2>4. Cardinality(BuildingNow) + Cardinality(b) <= proc.max
    BY <1>1, <2>3 DEF UnderCap
  <2>5. IsFiniteSet(b) /\ Cardinality(b) \in Nat /\ Cardinality(BuildingNow) \in Nat /\ proc.max \in Nat
    BY <1>1, <2>3, Finite DEF FollowerType, BuildingNow
  <2>6. Cardinality(b) # 0
    BY <2>3, <2>5, FS_EmptySet
  <2> HIDE DEF b
  <2> QED  BY <2>4, <2>5, <2>6
<1>2. UNCHANGED vars => A
  BY DEF vars, Made
<1>3. TypeOK /\ UnderCap /\ [Next]_vars => [A]_vars
  BY <1>1
<1> QED  BY <1>3, InRecorded, PTL DEF Spec, BuildsCapped

-----------------------------------------------------------------------------
(* With nothing given up on, no record deleted and the cap not edited *)

Quiet == Slow = {} /\ Budget["delete"] = 0 /\ Budget["setCap"] = 0 /\ Budget["gone"] = 0
QuietNow == budget["delete"] = 0 /\ budget["setCap"] = 0 /\ budget["gone"] = 0

LEMMA QuietStep ==
    ASSUME TypeOK, QuietNow, [Next]_vars
    PROVE  /\ QuietNow'
           /\ \A i \in DepIds : ~ DeleteRecord(i)
           /\ ~ SetCap /\ ~ ResumeGone
           /\ cap' = cap
<1>1. QuietNow' /\ (\A i \in DepIds : ~ DeleteRecord(i)) /\ ~ SetCap /\ ~ ResumeGone
  BY NeverSpent DEF QuietNow, Expenses
<1> QED  BY <1>1
         DEF Next, Follower, Resume, Apply, SaveLayer, recordResult, startQueuedBuilds, NextLayer,
             LayersDone, WaitTimesOut, FinishSave, finishRun, Crash, resumeRun, TriggerOne,
             DeployStep, vars

\* A deployment that ended stays as it ended.
LEMMA EndStays ==
    ASSUME TypeOK, QuietNow, [Next]_vars
    PROVE  \A i \in DepIds : /\ dep[i].status \in {"success", "failed"} => dep'[i].status = dep[i].status
                             /\ dep[i].status # "deleted" => dep'[i].status # "deleted"
<1>1. dep \in Deps
  BY Typed
<1>2. ASSUME NEW s \in Services, TriggerOne(s)
      PROVE  \A i \in DepIds : /\ dep[i].status \in {"success", "failed"} => dep'[i].status = dep[i].status
                               /\ dep[i].status # "deleted" => dep'[i].status # "deleted"
  <2>1. CASE dep' = dep
    BY <2>1
  <2>2. CASE dep' # dep
    <3>1. PICK j \in DepIds :
            /\ dep[j].status = "none"
            /\ dep' = [dep EXCEPT ![j] = [svc |-> s, status |-> IF s \in Builds
                                                     THEN "building" ELSE "deploying"]]
      BY <1>2, <2>2, TriggerDoes
    <3>2. \A i \in DepIds \ {j} : dep'[i] = dep[i]
      BY <1>1, <3>1 DEF Deps
    <3>3. dep'[j].status \in {"building", "deploying"}
      BY <1>1, <3>1 DEF Deps
    <3> QED  BY <3>1, <3>2, <3>3
  <2> QED  BY <2>1, <2>2
<1>3. ASSUME NEW j \in DepIds, DeployStep(j)
      PROVE  \A i \in DepIds : /\ dep[i].status \in {"success", "failed"} => dep'[i].status = dep[i].status
                               /\ dep[i].status # "deleted" => dep'[i].status # "deleted"
  BY <1>1, <1>3 DEF DeployStep, Deps
<1> QED  BY <1>2, <1>3, QuietStep
         DEF Next, Follower, Resume, Apply, SaveLayer, recordResult, startQueuedBuilds, NextLayer,
             LayersDone, WaitTimesOut, FinishSave, finishRun, Crash, resumeRun, SetCap, vars

LEMMA AgreeStays ==
    ASSUME TypeOK, QuietNow, [Next]_vars, NEW steps \in RolloutSteps, StepsAgree(dep, steps)
    PROVE  StepsAgree(dep', steps)
<1>1. \A s \in Services : steps[s].dep # NoDep => steps[s].dep \in DepIds
  BY DEF RolloutSteps
<1> QED  BY <1>1, EndStays DEF StepsAgree

LEMMA OutcomeAgrees ==
    ASSUME TypeOK, StepsAgree(dep, proc.steps)
    PROVE  StepsAgree(dep, Outcome)
<1>1. NoDep \notin proc.previous
  BY Typed DEF FollowerType, DepIds
<1> QED  BY <1>1, OutcomeType DEF StepsAgree

LEMMA NextStepsAgree ==
    ASSUME TypeOK, StepsTell(dep, proc.steps), StepsAgree(dep, proc.steps)
    PROVE  StepsAgree(dep, NextSteps)
<1>1. \A s \in Services : NextSteps[s] = Outcome[s] \/ NextSteps[s].status = "not_started"
  BY NextStepsShape
<1> QED  BY <1>1, OutcomeAgrees DEF StepsAgree

LEMMA TriggerAgrees ==
    ASSUME TypeOK, Book, StepsAgree(dep', proc.steps), NEW s \in Services, TriggerOne(s)
    PROVE  StepsAgree(dep', proc'.steps)
<1>1. dep \in Deps /\ proc.steps \in RolloutSteps /\ proc.pc = "trigger"
  BY Typed, TriggerDoes
<1>2. proc.steps[s].dep = NoDep
  BY <1>1, TriggerDoes DEF Book, InPlace, StepsTell, Idle, Live
<1>3. \A t \in Services \ {s} : proc'.steps[t] = proc.steps[t]
  BY <1>1, TriggerDoes DEF RolloutSteps
<1>4. \/ proc'.steps[s].status = "started" /\ proc'.steps[s].dep # NoDep
      \/ proc'.steps[s].status = "failed" /\ proc'.steps[s].dep = NoDep
  <2>1. proc.steps[s] \in [status : StepStatus, dep : DepIds \union {NoDep}]
    BY <1>1 DEF RolloutSteps
  <2>2. CASE \E i \in DepIds : proc'.steps = [proc.steps EXCEPT ![s] = [status |-> "started", dep |-> i]]
    BY <1>1, <2>2 DEF RolloutSteps, DepIds
  <2>3. CASE proc'.steps = [proc.steps EXCEPT ![s].status = "failed"]
    BY <1>1, <1>2, <2>1, <2>3 DEF RolloutSteps
  <2> QED  BY <2>2, <2>3, TriggerDoes
<1> QED  BY <1>3, <1>4 DEF StepsAgree

\* When the layer's deployments have ended, all of it is over.
LEMMA OutcomeOver ==
    ASSUME TypeOK, Book, RecordAgrees, proc.pc = "wait", PreviousEnded,
           NEW s \in Services, Layer[s] < proc.next
    PROVE  Outcome[s].status \in Over
<1>1. proc \in FollowerType /\ Layer[s] \in Nat /\ proc.steps[s].status \in StepStatus
  BY Typed, LayerAfter DEF RolloutSteps
<1>2. proc.queued = {} /\ proc.todo = {} /\ InPlace(dep, proc)
  BY DEF RecordAgrees, NothingSkipped, Book, Live
<1>3. CASE Layer[s] < proc.next - 1
  <2>1. proc.steps[s].status \in Over
    BY <1>3 DEF RecordAgrees, NothingSkipped, Live
  <2> QED  BY <2>1, OutcomeType DEF Over
<1>4. CASE Layer[s] = proc.next - 1
  <2>1. proc.steps[s].status # "waiting"
    BY <1>2, <1>4 DEF RecordAgrees, NothingSkipped, Live
  <2>2. CASE proc.steps[s].status = "started"
    <3>1. proc.steps[s].dep # NoDep
      BY <2>2 DEF RecordAgrees, StepsAgree
    <3>2. proc.steps[s].dep \in proc.previous /\ proc.steps[s].dep \in DepIds
      BY <1>1, <1>2, <1>4, <3>1 DEF InPlace, InLayer, FollowerType
    <3>3. dep[proc.steps[s].dep].status \in {"success", "failed"}
      BY <3>2 DEF PreviousEnded, RecordAgrees
    <3> QED  BY <3>2, <3>3, OutcomeType DEF Over
  <2>3. CASE proc.steps[s].status \in Over
    BY <2>3, OutcomeType DEF Over
  <2> QED  BY <1>1, <2>1, <2>2, <2>3 DEF StepStatus, Over
<1> QED  BY <1>1, <1>3, <1>4 DEF FollowerType

LEMMA LayersDoneDoes ==
    ASSUME TypeOK, LayersDone
    PROVE  /\ proc.pc = "wait" /\ proc'.pc = "save" /\ proc'.steps = Outcome /\ proc'.max = proc.max
           /\ proc'.queued = proc.queued /\ PreviousEnded /\ proc.next > LastLayer
           /\ run' = run /\ cap' = cap /\ dep' = dep
<1>1. proc \in FollowerType
  BY Typed
<1> QED  BY <1>1 DEF LayersDone, FollowerType

LEMMA SkippedTrigger ==
    ASSUME TypeOK, Book, NothingSkipped, NEW s \in Services, TriggerOne(s)
    PROVE  NothingSkipped'
<1>1. /\ proc.pc = "trigger" /\ proc'.pc = "trigger" /\ s \in proc.todo
      /\ proc'.todo = proc.todo \ {s} /\ proc'.queued = proc.queued
      /\ proc'.next = proc.next /\ proc'.max = proc.max /\ run' = run /\ cap' = cap
      /\ proc.steps \in RolloutSteps
      /\ Layer[s] = proc.next - 1 /\ proc.next \in Nat
  BY TriggerDoes, Typed DEF Book, InPlace, Live, FollowerType
<1>2. \A t \in Services \ {s} : proc'.steps[t] = proc.steps[t]
  BY <1>1, TriggerDoes DEF RolloutSteps
<1>3. proc'.steps[s].status # "waiting"
  <2>1. CASE \E i \in DepIds : proc'.steps = [proc.steps EXCEPT ![s] = [status |-> "started", dep |-> i]]
    BY <1>1, <2>1 DEF RolloutSteps
  <2>2. CASE proc'.steps = [proc.steps EXCEPT ![s].status = "failed"]
    BY <1>1, <2>2 DEF RolloutSteps
  <2> QED  BY <2>1, <2>2, TriggerDoes
<1>4. \A t \in Services :
        /\ Layer[t] < proc'.next - 1 => proc'.steps[t].status \in Over
        /\ Layer[t] = proc'.next - 1 /\ proc'.steps[t].status = "waiting" =>
              t \in proc'.todo \union proc'.queued
  BY <1>1, <1>2, <1>3 DEF NothingSkipped, Live
<1> QED  BY <1>1, <1>4 DEF NothingSkipped

LEMMA SkippedNextLayer ==
    ASSUME TypeOK, Book, RecordAgrees, NextLayer
    PROVE  NothingSkipped'
<1>1. /\ proc.pc = "wait" /\ proc'.pc = "trigger" /\ proc'.next = proc.next + 1
      /\ proc'.todo \union proc'.queued = Fresh \ Held /\ proc'.steps = NextSteps
      /\ proc'.max = 0 => proc'.queued = {}
      /\ proc'.max = proc.max /\ run' = run /\ cap' = cap /\ proc.next \in Nat /\ PreviousEnded
  BY NextLayerDoes, Typed DEF FollowerType
<1>2. proc'.next - 1 = proc.next
  BY <1>1
<1>3. /\ Fresh \in SUBSET InLayer(proc.next)
      /\ \A s \in Services \ Held : NextSteps[s] = Outcome[s]
      /\ \A s \in Held : s \in Fresh /\ NextSteps[s].status = "not_started"
  BY NextStepsShape DEF Book
<1>4. \A s \in Services : Layer[s] < proc.next => NextSteps[s].status \in Over
  BY <1>1, <1>3, OutcomeOver DEF Over
<1>5. \A s \in Services : Layer[s] = proc.next /\ NextSteps[s].status = "waiting" => s \in Fresh \ Held
  BY <1>3 DEF Fresh, StillWaiting, InLayer
<1>6. \A s \in Services :
        /\ Layer[s] < proc'.next - 1 => proc'.steps[s].status \in Over
        /\ Layer[s] = proc'.next - 1 /\ proc'.steps[s].status = "waiting" =>
              s \in proc'.todo \union proc'.queued
  BY <1>1, <1>2, <1>4, <1>5
<1> QED  BY <1>1, <1>6 DEF NothingSkipped, RecordAgrees

LEMMA SkippedSaveLayer ==
    ASSUME TypeOK, Book, NothingSkipped, SaveLayer
    PROVE  NothingSkipped'
<1>1. /\ proc.pc = "trigger" /\ proc.todo = {}
      /\ proc'.pc \in {"record", "queue"} /\ proc'.todo = {} /\ proc'.queued = proc.queued
      /\ proc'.steps = proc.steps /\ proc'.next = proc.next /\ proc'.max = proc.max
      /\ run'.status = "running" /\ run'.steps = proc.steps /\ cap' = cap
      /\ proc.next \in Nat /\ InPlace(dep, proc)
  BY SaveLayerDoes, Typed DEF Book, FollowerType, Live
<1>2. \A s \in Services : Layer[s] \in Nat
  BY LayerAfter
<1>3. ASSUME NEW s \in Services, NEW t \in Services, proc.steps[t].status \notin Idle
      PROVE  /\ Layer[s] < Layer[t] => proc.steps[s].status \in Over
             /\ Layer[s] = Layer[t] /\ cap = 0 => proc.steps[s].status # "waiting"
  <2>1. ~ (Layer[t] >= proc.next)
    BY <1>1, <1>3 DEF InPlace
  <2>2. Layer[s] < Layer[t] => Layer[s] < proc.next - 1
    BY <1>1, <1>2, <2>1
  <2>3. Layer[s] < proc.next - 1 => proc.steps[s].status \in Over
    BY <1>1 DEF NothingSkipped, Live
  <2>4. CASE Layer[s] = Layer[t] /\ cap = 0
    <3>1. proc.queued = {} /\ proc.todo = {}
      BY <1>1, <2>4 DEF NothingSkipped
    <3>2. Layer[s] < proc.next - 1 \/ Layer[s] = proc.next - 1
      BY <1>1, <1>2, <2>1, <2>4
    <3> QED  BY <1>1, <2>2, <2>3, <2>4, <3>1, <3>2 DEF NothingSkipped, Live, Over
  <2> QED  BY <2>2, <2>3, <2>4
<1>4. run'.status \notin Ended
  BY <1>1 DEF Ended
<1> QED  BY <1>1, <1>3, <1>4 DEF NothingSkipped, Live

LEMMA SkippedResume ==
    ASSUME TypeOK, Book, NothingSkipped, resumeRun
    PROVE  NothingSkipped'
<1> DEFINE current == Current(run.steps)
<1>1. /\ proc'.pc = "queue" /\ proc'.steps = run.steps /\ proc'.next = current + 1
      /\ proc'.todo = {} /\ proc'.queued = StillWaiting(run.steps, InLayer(current))
      /\ proc'.max = cap /\ run' = run /\ cap' = cap /\ run.status = "running"
  BY resumeDoes
<1>2. /\ current \in Int /\ current + 1 - 1 = current
      /\ current = -1 \/ \E s \in Services : run.steps[s].status \notin Idle /\ Layer[s] = current
  BY Typed, CurrentIsLast
<1>3. \A s \in Services : Layer[s] \in Nat
  BY LayerAfter
<1> HIDE DEF current
<1>4. \A s, t \in Services : run.steps[t].status \notin Idle =>
          /\ Layer[s] < Layer[t] => run.steps[s].status \in Over
          /\ Layer[s] = Layer[t] /\ cap = 0 => run.steps[s].status # "waiting"
  BY DEF NothingSkipped
<1>5. \A s \in Services : Layer[s] <= current =>
        \E t \in Services : run.steps[t].status \notin Idle /\ Layer[t] = current
  BY <1>2, <1>3
<1>6. \A s \in Services : Layer[s] < current => run.steps[s].status \in Over
  BY <1>2, <1>3, <1>4, <1>5
<1>7. \A s \in Services : Layer[s] = current /\ run.steps[s].status = "waiting" => s \in proc'.queued
  BY <1>1 DEF StillWaiting, InLayer
<1>8. cap = 0 => proc'.queued = {}
  BY <1>1, <1>2, <1>3, <1>4, <1>5 DEF StillWaiting, InLayer
<1>9. proc'.next - 1 = current
  BY <1>1, <1>2
<1> QED  BY <1>1, <1>4, <1>6, <1>7, <1>8, <1>9 DEF NothingSkipped, Ended

LEMMA SkippedStep ==
    ASSUME TypeOK, Book, RecordAgrees, QuietNow, Slow = {}, [Next]_vars
    PROVE  NothingSkipped'
<1> USE QuietStep
<1>1. NothingSkipped /\ cap' = cap
  BY DEF RecordAgrees
<1>2. CASE Apply
  <2>1. /\ proc'.pc = "trigger" /\ proc'.next - 1 = 0 /\ run'.status = "running"
        /\ run'.steps = run.steps /\ proc'.max = cap
        /\ proc'.todo \union proc'.queued = InLayer(0)
        /\ proc'.max = 0 => proc'.queued = {}
    BY <1>2, ApplyDoes
  <2>2. \A s \in Services : ~ (Layer[s] < 0) /\ (Layer[s] = 0 => s \in InLayer(0))
    BY LayerAfter DEF InLayer
  <2> QED  BY <1>1, <2>1, <2>2 DEF NothingSkipped, Ended
<1>3. ASSUME NEW s \in Services, TriggerOne(s)  PROVE NothingSkipped'
  BY <1>1, <1>3, SkippedTrigger
<1>4. CASE SaveLayer
  BY <1>1, <1>4, SkippedSaveLayer
<1>5. CASE recordResult
  <2>1. proc.pc \in Live /\ proc'.pc \in Live /\ proc'.pc = "queue" /\ proc.pc # "none"
    BY <1>5, recordDoes DEF Live
  <2> QED  BY <1>1, <1>5, <2>1, recordDoes DEF NothingSkipped
<1>6. CASE startQueuedBuilds
  <2>1. /\ proc.pc = "queue" /\ proc.todo = {} /\ proc.pc \in Live /\ proc'.pc \in {"wait", "trigger"}
        /\ proc'.steps = proc.steps /\ proc'.next = proc.next /\ proc'.max = proc.max
        /\ run' = run
    BY <1>6, startQueuedDoes DEF Book, Live
  <2>2. /\ proc'.todo \union proc'.queued = proc.todo \union proc.queued
        /\ proc'.pc = "wait" => proc'.queued = {}
        /\ proc.queued = {} => proc'.queued = {}
    BY <1>1, <1>6, <2>1, startQueuedDoes DEF NothingSkipped
  <2> QED  BY <1>1, <2>1, <2>2 DEF NothingSkipped
<1>7. CASE NextLayer
  BY <1>7, SkippedNextLayer
<1>8. CASE LayersDone
  <2>1. /\ proc.pc = "wait" /\ proc'.pc = "save" /\ proc'.steps = Outcome /\ proc'.max = proc.max
        /\ proc'.queued = proc.queued /\ PreviousEnded /\ proc.next > LastLayer
        /\ run' = run
    BY <1>8, LayersDoneDoes
  <2>2. \A s \in Services : Layer[s] < proc.next
    BY <2>1, LastLayerIsLast, LayerAfter, Typed DEF FollowerType
  <2>3. \A s \in Services : Outcome[s].status \in Over
    BY <2>1, <2>2, OutcomeOver
  <2> QED  BY <1>1, <2>1, <2>3 DEF NothingSkipped, Live
<1>9. ~ WaitTimesOut
  BY DEF WaitTimesOut
<1>10. CASE FinishSave
  <2>1. /\ proc.pc = "save" /\ proc'.pc = "close" /\ proc'.pc \notin Live
        /\ proc'.steps = proc.steps /\ proc'.queued = proc.queued /\ proc'.max = proc.max
        /\ run'.status = "running" /\ run'.steps = proc.steps
    BY <1>10, FinishDoes DEF Live, Book
  <2>2. \A s \in Services : proc.steps[s].status \in Over /\ proc.steps[s].status # "waiting"
    BY <1>1, <2>1 DEF NothingSkipped, Over
  <2>3. run'.status \notin Ended
    BY <2>1 DEF Ended
  <2> QED  BY <1>1, <2>1, <2>2, <2>3 DEF NothingSkipped
<1>11. CASE finishRun
  <2>1. /\ proc.pc = "close" /\ proc'.pc = "none" /\ proc'.queued = {}
        /\ run'.steps = run.steps
    BY <1>11, CloseDoes DEF NotRunning
  <2>2. \A s \in Services : run'.steps[s].status \in Over
    BY <1>1, <2>1 DEF NothingSkipped
  <2> QED  BY <1>1, <2>1, <2>2 DEF NothingSkipped, Live
<1>12. CASE Crash
  <2>1. proc'.pc = "none" /\ proc'.queued = {} /\ run' = run /\ run.status = "running"
    BY <1>12 DEF Crash, NotRunning, Book
  <2> QED  BY <1>1, <2>1 DEF NothingSkipped, Live, Ended
<1>13. CASE resumeRun
  BY <1>1, <1>13, SkippedResume
<1>14. CASE UNCHANGED <<run, proc>>
  BY <1>1, <1>14 DEF NothingSkipped
<1> QED  BY <1>2, <1>3, <1>4, <1>5, <1>6, <1>7, <1>8, <1>9, <1>10, <1>11, <1>12, <1>13, <1>14
         DEF Next, Follower, Resume, DeployStep, vars

LEMMA AgreesStep ==
    ASSUME TypeOK, Book, RecordAgrees, QuietNow, Slow = {}, [Next]_vars
    PROVE  RecordAgrees'
<1>1. StepsAgree(dep', proc.steps) /\ StepsAgree(dep', run.steps)
  BY Typed, AgreeStays DEF RecordAgrees
<1>2. \A i \in DepIds : dep'[i].status # "deleted"
  BY EndStays DEF RecordAgrees
<1>3. StepsAgree(dep', Waiting)
  BY DEF StepsAgree, Waiting
<1>4. StepsAgree(dep', proc'.steps)
  <2>1. CASE Apply \/ Crash \/ finishRun
    BY <1>3, <2>1, ApplyDoes, CloseDoes DEF Crash, NotRunning
  <2>2. ASSUME NEW s \in Services, TriggerOne(s)  PROVE StepsAgree(dep', proc'.steps)
    BY <1>1, <2>2, TriggerAgrees
  <2>3. CASE SaveLayer \/ recordResult \/ startQueuedBuilds \/ FinishSave
    BY <1>1, <2>3, SaveLayerDoes, recordDoes, startQueuedDoes, FinishDoes
  <2>4. CASE NextLayer
    BY <2>4, NextLayerDoes, NextStepsAgree DEF RecordAgrees, Book
  <2>5. CASE LayersDone
    BY <2>5, LayersDoneDoes, OutcomeAgrees DEF RecordAgrees
  <2>6. CASE resumeRun
    BY <1>1, <2>6, resumeDoes
  <2>7. CASE UNCHANGED proc
    BY <1>1, <2>7
  <2>8. ~ WaitTimesOut
    BY DEF WaitTimesOut
  <2> QED  BY <2>1, <2>2, <2>3, <2>4, <2>5, <2>6, <2>7, <2>8, QuietStep
           DEF Next, Follower, Resume, DeployStep, vars
<1>5. StepsAgree(dep', run'.steps)
  <2>1. run'.steps = run.steps \/ run'.steps = proc.steps
    BY ApplyDoes, SaveLayerDoes, recordDoes, FinishDoes, CloseDoes, TriggerDoes, QuietStep
       DEF Next, Follower, Resume, startQueuedBuilds, NextLayer, LayersDone, WaitTimesOut,
           Crash, resumeRun, DeployStep, vars
  <2> QED  BY <1>1, <2>1
<1> QED  BY <1>2, <1>4, <1>5, SkippedStep DEF RecordAgrees

LEMMA AgreesInit == Init => RecordAgrees
<1> SUFFICES ASSUME Init PROVE RecordAgrees
  OBVIOUS
<1>1. proc = NotRunning /\ run.status = "none" /\ run.steps = Waiting
      /\ \A i \in DepIds : dep[i].status = "none"
  BY DEF Init
<1>2. \A s \in Services : Waiting[s].status = "waiting"
  BY DEF Waiting
<1> QED  BY <1>1, <1>2 DEF RecordAgrees, StepsAgree, NothingSkipped, NotRunning, Live, Ended, Idle

LEMMA InAgreement ==
    ASSUME Quiet
    PROVE  Spec => [](TypeOK /\ Book /\ RecordAgrees)
<1> DEFINE I == TypeOK /\ Book /\ RecordAgrees /\ QuietNow
<1>1. Init => I
  BY TypeInit, BookInit, AgreesInit DEF Init, Quiet, QuietNow
<1>2. I /\ [Next]_vars => I'
  BY TypeStep, BookStep, AgreesStep, QuietStep DEF Quiet
<1>3. I => TypeOK /\ Book /\ RecordAgrees
  OBVIOUS
<1> QED  BY <1>1, <1>2, <1>3, PTL DEF Spec

\* The record of a run that ended says how each service went, also when the run
\* was carried on after restarts, one of them between a row and its record.
THEOREM RecordStaysFinal ==
    ASSUME Quiet
    PROVE  Spec => []RecordIsFinal
<1>1. ASSUME TypeOK, Book, RecordAgrees PROVE RecordIsFinal
  <2> SUFFICES ASSUME run.status \in Ended, NEW s \in Services
               PROVE  LET st == run.steps[s]
                      IN  CASE st.status = "succeeded" -> st.dep # NoDep /\ dep[st.dep].status = "success"
                            [] st.status = "failed" -> st.dep # NoDep => dep[st.dep].status = "failed"
                            [] st.status = "not_started" -> st.dep = NoDep
                            [] OTHER -> FALSE
    BY DEF RecordIsFinal
  <2>1. run.steps[s].status \in Over
    BY <1>1 DEF RecordAgrees, NothingSkipped
  <2>2. StepsAgree(dep, run.steps) /\ StepsTell(dep, run.steps)
    BY <1>1 DEF RecordAgrees, Book
  <2> QED  BY <2>1, <2>2 DEF Over, StepsAgree, StepsTell, Idle
<1> QED  BY <1>1, InAgreement, PTL

-----------------------------------------------------------------------------
(* What starts, and what is held back *)

\* A run that is never restarted is followed as long as it runs.
NeverRestarted ==
    /\ budget["crash"] = 0 /\ budget["midcrash"] = 0
    /\ proc.pc = "none" => run.status # "running"

LEMMA NeverRestartedStep ==
    ASSUME TypeOK, Book, QuietNow, NeverRestarted, [Next]_vars
    PROVE  NeverRestarted'
<1>1. budget'["crash"] = 0 /\ budget'["midcrash"] = 0 /\ ~ Crash
  BY NeverSpent DEF NeverRestarted, Expenses
<1>2. proc'.pc = "none" => run'.status # "running"
  <2>1. CASE Apply
    BY <2>1, ApplyDoes
  <2>2. CASE \E s \in Services : TriggerOne(s)
    BY <2>2, TriggerDoes
  <2>3. CASE SaveLayer \/ recordResult \/ startQueuedBuilds \/ NextLayer \/ FinishSave
    BY <2>3, SaveLayerDoes, recordDoes, startQueuedDoes, NextLayerDoes, FinishDoes
  <2>4. CASE LayersDone \/ WaitTimesOut \/ ResumeGone
    BY <2>4, SaveDoes DEF Book
  <2>5. CASE finishRun
    BY <2>5, CloseDoes DEF Ended
  <2>6. CASE resumeRun
    BY <2>6, resumeDoes
  <2>7. CASE UNCHANGED <<run, proc>>
    BY <2>7 DEF NeverRestarted
  <2> QED  BY <1>1, <2>1, <2>2, <2>3, <2>4, <2>5, <2>6, <2>7
           DEF Next, Follower, Resume, SetCap, DeployStep, DeleteRecord, vars
<1> QED  BY <1>1, <1>2 DEF NeverRestarted

LEMMA UpStays ==
    ASSUME TypeOK, QuietNow, [Next]_vars, NEW steps \in RolloutSteps, NEW s \in Services,
           DepsUp(dep, steps, s)
    PROVE  DepsUp(dep', steps, s)
<1>1. \A t \in DependsOn[s] : t \in Services
  BY RolloutAssumption
<1>2. \A t \in DependsOn[s] : steps[t].dep \in DepIds /\ dep[steps[t].dep].status = "success"
  BY <1>1 DEF DepsUp, RolloutSteps
<1> QED  BY <1>2, EndStays DEF DepsUp

LEMMA HeldTrigger ==
    ASSUME TypeOK, Book, HeldForAReason, QuietNow, NEW s \in Services, TriggerOne(s)
    PROVE  HeldForAReason'
<1>1. [Next]_vars
  BY DEF Next, Follower
<1>2. /\ proc.pc = "trigger" /\ proc'.pc = "trigger" /\ s \in proc.todo
      /\ proc'.todo = proc.todo \ {s} /\ proc'.queued = proc.queued
      /\ proc'.blocked = proc.blocked /\ run' = run
      /\ proc.steps \in RolloutSteps /\ run.steps \in RolloutSteps /\ proc \in FollowerType
      /\ proc.steps[s].status = "waiting" /\ proc.steps[s].dep = NoDep
  BY TriggerDoes, Typed DEF Book, InPlace, Live, StepsTell, Idle
<1>3. \A t \in Services \ {s} : proc'.steps[t] = proc.steps[t]
  BY <1>2, TriggerDoes DEF RolloutSteps
<1>4. proc'.steps[s].status \in {"started", "failed"}
  <2>1. CASE \E i \in DepIds : proc'.steps = [proc.steps EXCEPT ![s] = [status |-> "started", dep |-> i]]
    BY <1>2, <2>1 DEF RolloutSteps
  <2>2. CASE proc'.steps = [proc.steps EXCEPT ![s].status = "failed"]
    BY <1>2, <2>2 DEF RolloutSteps
  <2> QED  BY <2>1, <2>2, TriggerDoes
<1>5. \A t \in proc'.todo \union proc'.queued : DepsUp(dep', proc'.steps, t)
  <2> SUFFICES ASSUME NEW t \in proc'.todo \union proc'.queued
               PROVE  DepsUp(dep', proc'.steps, t)
    OBVIOUS
  <2>1. t \in Services /\ DepsUp(dep, proc.steps, t)
    BY <1>2 DEF HeldForAReason, Live, FollowerType
  <2>2. DepsUp(dep', proc.steps, t)
    BY <1>1, <1>2, <2>1, UpStays
  <2>3. \A u \in DependsOn[t] : u \in Services /\ u # s
    BY <1>2, <2>1, RolloutAssumption DEF DepsUp
  <2> QED  BY <1>3, <2>2, <2>3 DEF DepsUp
<1>6. \A t \in proc'.blocked : proc'.steps[t].status \in {"failed", "not_started"}
  <2>1. \A t \in proc.blocked : t \in Services /\ proc.steps[t].status \in {"failed", "not_started"}
    BY <1>2 DEF HeldForAReason, Live, FollowerType
  <2> QED  BY <1>2, <1>3, <1>4, <2>1
<1>7. \A t \in Services : proc'.steps[t].status = "not_started" =>
         proc.steps[t].status = "not_started"
  BY <1>3, <1>4
<1>8. \A a, b \in Services :
          /\ Layer[a] = Layer[b]
          /\ run.steps[a].status = "waiting"
          /\ run.steps[b].status \notin Idle
          => DepsUp(dep', run.steps, a)
  BY <1>1, <1>2, UpStays DEF HeldForAReason
<1> QED  BY <1>2, <1>5, <1>6, <1>7, <1>8 DEF HeldForAReason, Live

LEMMA HeldNextLayer ==
    ASSUME TypeOK, Book, RecordAgrees, HeldForAReason, NextLayer
    PROVE  HeldForAReason'
<1>1. /\ proc.pc = "wait" /\ proc'.pc = "trigger"
      /\ proc'.todo \union proc'.queued = Fresh \ Held /\ proc'.steps = NextSteps
      /\ proc'.blocked = Blocked \union Held
      /\ run' = run /\ dep' = dep /\ proc.next \in Nat /\ PreviousEnded
      /\ proc.blocked \in SUBSET Services
  BY NextLayerDoes, Typed DEF FollowerType
<1>2. /\ Fresh \in SUBSET InLayer(proc.next)
      /\ \A s \in Fresh : s \in Services /\ Layer[s] = proc.next
      /\ \A s \in Services \ Held : NextSteps[s] = Outcome[s]
      /\ \A s \in Held : s \in Fresh /\ NextSteps[s].status = "not_started"
  BY NextStepsShape DEF Book, InLayer
<1>3. StepsAgree(dep, Outcome)
  BY OutcomeAgrees DEF RecordAgrees
<1>4. \A s \in Services : Outcome[s].status = "not_started" => proc.steps[s].status = "not_started"
  BY OutcomeType
<1>5. \A s \in Services : proc.steps[s].status \in {"failed", "not_started"} =>
         Outcome[s].status \in {"failed", "not_started"}
  <2> SUFFICES ASSUME NEW s \in Services, proc.steps[s].status \in {"failed", "not_started"}
               PROVE  Outcome[s].status \in {"failed", "not_started"}
    OBVIOUS
  <2>1. proc.previous \in SUBSET DepIds /\ NoDep \notin DepIds
    BY Typed DEF FollowerType, DepIds
  <2>2. proc.steps[s].status = "not_started" => proc.steps[s].dep = NoDep
    BY DEF Book, StepsTell, Idle
  <2>3. proc.steps[s].status = "failed" /\ proc.steps[s].dep # NoDep =>
           dep[proc.steps[s].dep].status = "failed"
    BY DEF RecordAgrees, StepsAgree
  <2> QED  BY <2>1, <2>2, <2>3, OutcomeType
<1>6. \A s \in Fresh \ Held : DepsUp(dep, NextSteps, s)
  <2> SUFFICES ASSUME NEW s \in Fresh \ Held, NEW t \in DependsOn[s]
               PROVE  NextSteps[t].dep # NoDep /\ dep[NextSteps[t].dep].status = "success"
    BY DEF DepsUp
  <2>1. s \in Services /\ t \in Services /\ Layer[t] < proc.next /\ t \notin Held
    BY <1>1, <1>2, LayerAfter
  <2>2. t \notin Blocked
    BY DEF Held, HeldBack
  <2>3. Outcome[t].status \in Over /\ NextSteps[t] = Outcome[t]
    BY <1>1, <1>2, <2>1, OutcomeOver
  <2>4. Outcome[t].status # "failed"
    BY <2>1, <2>2 DEF Blocked, FailedNames
  <2>5. Outcome[t].status # "not_started"
    <3> SUFFICES ASSUME Outcome[t].status = "not_started" PROVE FALSE
      OBVIOUS
    <3>1. proc.steps[t].status = "not_started"
      BY <1>4, <2>1
    <3>2. t \notin proc.blocked
      BY <2>2 DEF Blocked
    <3>3. TwoLayers /\ DependsOn[t] # {}
      BY <1>1, <2>1, <3>1, <3>2 DEF HeldForAReason, Live
    <3> QED  BY <2>1, <3>3 DEF TwoLayers
  <2>6. Outcome[t].status = "succeeded"
    BY <2>3, <2>4, <2>5 DEF Over
  <2> QED  BY <1>3, <2>1, <2>3, <2>6 DEF StepsAgree
<1>7. \A s \in proc'.blocked : proc'.steps[s].status \in {"failed", "not_started"}
  <2>1. \A s \in proc.blocked : s \in Services /\ proc.steps[s].status \in {"failed", "not_started"}
    BY <1>1 DEF HeldForAReason, Live
  <2>2. \A s \in FailedNames(Outcome) : s \in Services /\ Outcome[s].status = "failed"
    BY DEF FailedNames
  <2>3. \A s \in Blocked : s \in Services /\ Outcome[s].status \in {"failed", "not_started"}
    BY <1>5, <2>1, <2>2 DEF Blocked
  <2> QED  BY <1>1, <1>2, <2>3
<1>8. ASSUME NEW s \in Services, NextSteps[s].status = "not_started"
      PROVE  (s \in proc'.blocked \/ TwoLayers) /\ DependsOn[s] # {}
  <2>1. CASE s \in Held
    BY <1>1, <2>1 DEF Held, HeldBack
  <2>2. CASE s \notin Held
    <3>1. proc.steps[s].status = "not_started"
      BY <1>2, <1>4, <1>8, <2>2
    <3> QED  BY <1>1, <3>1 DEF HeldForAReason, Live, Blocked
  <2> QED  BY <2>1, <2>2
<1>9. \A s \in proc'.todo \union proc'.queued : DepsUp(dep', proc'.steps, s)
  BY <1>1, <1>6
<1> QED  BY <1>1, <1>7, <1>8, <1>9 DEF HeldForAReason

LEMMA HeldSaveLayer ==
    ASSUME TypeOK, Book, RecordAgrees, HeldForAReason, SaveLayer
    PROVE  HeldForAReason'
<1>1. /\ proc.pc = "trigger" /\ proc.todo = {} /\ proc.pc \in Live /\ proc'.pc \in Live
      /\ proc'.todo = {} /\ proc'.queued = proc.queued
      /\ proc'.steps = proc.steps /\ proc'.blocked = proc.blocked
      /\ run'.steps = proc.steps /\ dep' = dep
      /\ proc.next \in Nat /\ InPlace(dep, proc)
  BY SaveLayerDoes, Typed DEF Book, FollowerType, Live
<1>2. \A s \in Services : Layer[s] \in Nat
  BY LayerAfter
<1>3. ASSUME NEW s \in Services, NEW t \in Services, Layer[s] = Layer[t],
             proc.steps[s].status = "waiting", proc.steps[t].status \notin Idle
      PROVE  DepsUp(dep, proc.steps, s)
  <2>1. ~ (Layer[t] >= proc.next) /\ ~ (Layer[s] < proc.next - 1)
    BY <1>1, <1>3 DEF InPlace, RecordAgrees, NothingSkipped, Over
  <2>2. Layer[s] = proc.next - 1
    BY <1>1, <1>2, <1>3, <2>1
  <2>3. s \in proc.todo \union proc.queued
    BY <1>1, <1>3, <2>2 DEF RecordAgrees, NothingSkipped
  <2> QED  BY <1>1, <2>3 DEF HeldForAReason
<1> QED  BY <1>1, <1>3 DEF HeldForAReason

LEMMA HeldResume ==
    ASSUME TypeOK, Book, HeldForAReason, TwoLayers, resumeRun
    PROVE  HeldForAReason'
<1> DEFINE current == Current(run.steps)
<1>1. /\ proc'.pc = "queue" /\ proc'.steps = run.steps /\ proc'.blocked = {}
      /\ proc'.todo = {} /\ proc'.queued = StillWaiting(run.steps, InLayer(current))
      /\ run' = run /\ dep' = dep
  BY resumeDoes
<1>2. current = -1 \/ \E s \in Services : run.steps[s].status \notin Idle /\ Layer[s] = current
  BY Typed, CurrentIsLast
<1> HIDE DEF current
<1>3. \A s \in proc'.queued : DepsUp(dep, run.steps, s)
  <2> SUFFICES ASSUME NEW s \in proc'.queued PROVE DepsUp(dep, run.steps, s)
    OBVIOUS
  <2>1. s \in Services /\ Layer[s] = current /\ run.steps[s].status = "waiting" /\ Layer[s] # -1
    BY <1>1, LayerAfter DEF StillWaiting, InLayer
  <2> QED  BY <1>2, <2>1 DEF HeldForAReason
<1> QED  BY <1>1, <1>3 DEF HeldForAReason

LEMMA HeldStep ==
    ASSUME TypeOK, Book, RecordAgrees, HeldForAReason, QuietNow, Slow = {},
           NeverRestarted \/ TwoLayers, [Next]_vars
    PROVE  HeldForAReason'
<1> DEFINE Sane(d, r) == \A s, t \in Services :
              /\ Layer[s] = Layer[t]
              /\ r[s].status = "waiting"
              /\ r[t].status \notin Idle
              => DepsUp(d, r, s)
<1>1. Sane(dep', run.steps)
  BY UpStays, Typed DEF HeldForAReason
<1>2. \A s \in Services : Waiting[s].status = "waiting" /\ Waiting[s].dep = NoDep
  BY DEF Waiting
<1>3. CASE Apply
  <2>1. /\ run'.steps = run.steps /\ proc'.steps = Waiting /\ proc'.pc = "trigger"
        /\ proc'.blocked = {} /\ proc'.todo \union proc'.queued = InLayer(0)
    BY <1>3, ApplyDoes
  <2>2. \A s \in InLayer(0) : DepsUp(dep', Waiting, s)
    BY LayerAfter DEF InLayer, DepsUp
  <2> QED  BY <1>1, <1>2, <2>1, <2>2 DEF HeldForAReason
<1>4. ASSUME NEW s \in Services, TriggerOne(s)  PROVE HeldForAReason'
  BY <1>4, HeldTrigger
<1>5. CASE SaveLayer
  BY <1>5, HeldSaveLayer
<1>6. CASE recordResult
  <2>1. proc.pc \in Live /\ proc'.pc \in Live /\ proc.pc \notin {"none", "trigger"} /\ dep' = dep
        /\ run'.steps = run.steps
    BY <1>6, recordDoes DEF Live
  <2> QED  BY <1>6, <2>1, recordDoes DEF HeldForAReason
<1>7. CASE startQueuedBuilds
  <2>1. /\ proc.pc \in Live /\ proc.pc \notin {"none", "trigger"} /\ dep' = dep /\ run' = run
        /\ proc'.steps = proc.steps /\ proc'.blocked = proc.blocked
        /\ proc.todo = {}
    BY <1>7, startQueuedDoes DEF Live, Book
  <2>2. proc'.todo \union proc'.queued \in SUBSET (proc.todo \union proc.queued)
    BY <1>7, <2>1, startQueuedDoes
  <2>3. \A s \in proc'.todo \union proc'.queued : DepsUp(dep', proc'.steps, s)
    BY <2>1, <2>2 DEF HeldForAReason
  <2> QED  BY <2>1, <2>3 DEF HeldForAReason
<1>8. CASE NextLayer
  BY <1>8, HeldNextLayer
<1>9. CASE LayersDone
  <2>1. /\ proc.pc = "wait" /\ proc'.pc = "save" /\ proc'.steps = Outcome
        /\ run' = run /\ dep' = dep
    BY <1>9, LayersDoneDoes
  <2>2. NoDep \notin proc.previous
    BY Typed DEF FollowerType, DepIds
  <2>3. \A s \in Services : Outcome[s].dep = NoDep => Outcome[s] = run.steps[s]
    BY <2>1, <2>2, OutcomeType DEF HeldForAReason
  <2>4. \A s \in Services : Outcome[s].status = "not_started" => proc.steps[s].status = "not_started"
    BY OutcomeType
  <2> QED  BY <1>1, <2>1, <2>3, <2>4 DEF HeldForAReason, Live
<1>10. CASE FinishSave
  <2>1. /\ proc.pc = "save" /\ proc'.pc = "close" /\ proc'.steps = proc.steps
        /\ run'.steps = proc.steps
    BY <1>10, FinishDoes
  <2>2. \A s \in Services : proc.steps[s].status # "waiting"
    BY <2>1 DEF RecordAgrees, NothingSkipped, Over
  <2> QED  BY <2>1, <2>2 DEF HeldForAReason, Live
<1>11. CASE finishRun \/ Crash
  <2>1. proc'.pc = "none" /\ proc'.steps = Waiting /\ run'.steps = run.steps
    BY <1>11, CloseDoes DEF Crash, NotRunning
  <2> QED  BY <1>1, <1>2, <2>1 DEF HeldForAReason, Live
<1>12. CASE resumeRun
  <2>1. TwoLayers
    BY <1>12 DEF resumeRun, NeverRestarted
  <2> QED  BY <1>12, <2>1, HeldResume
<1>13. CASE UNCHANGED <<run, proc>>
  <2>1. proc.pc \in Live => \A s \in proc.todo \union proc.queued : DepsUp(dep', proc.steps, s)
    BY UpStays, Typed DEF HeldForAReason, FollowerType
  <2> QED  BY <1>1, <1>13, <2>1 DEF HeldForAReason
<1>14. ~ WaitTimesOut
  BY DEF WaitTimesOut
<1> QED  BY <1>3, <1>4, <1>5, <1>6, <1>7, <1>8, <1>9, <1>10, <1>11, <1>12, <1>13, <1>14, QuietStep
         DEF Next, Follower, Resume, DeployStep, vars

LEMMA HeldInit == Init => HeldForAReason
<1> SUFFICES ASSUME Init PROVE HeldForAReason
  OBVIOUS
<1>1. proc.pc = "none" /\ proc.steps = Waiting /\ run.steps = Waiting
  BY DEF Init, NotRunning
<1>2. \A s \in Services : Waiting[s].status = "waiting"
  BY DEF Waiting
<1> QED  BY <1>1, <1>2 DEF HeldForAReason, Live, Idle

-----------------------------------------------------------------------------
(* The rollout implements StackOrder *)

\* A service's phase, read from its step and the deployment the step names.
PhaseOf(d, st) ==
    IF st.dep # NoDep
    THEN IF d[st.dep].status \in Unfinished THEN "started"
         ELSE IF d[st.dep].status = "success" THEN "succeeded" ELSE "failed"
    ELSE IF st.status = "failed" THEN "failed"
    ELSE IF st.status = "not_started" THEN "held" ELSE "waiting"

PhaseBySteps == [s \in Services |-> PhaseOf(dep, Steps[s])]

LEMMA PhaseIsBySteps == TypeOK /\ Book /\ Recorded => Phase = PhaseBySteps
<1> SUFFICES ASSUME TypeOK, Book, Recorded PROVE Phase = PhaseBySteps
  OBVIOUS
<1>1. Steps \in RolloutSteps /\ StepsTell(dep, Steps)
  BY Typed DEF Steps, Book
<1>2. ASSUME NEW s \in Services
      PROVE  Phase[s] = PhaseOf(dep, Steps[s])
  <2> DEFINE mine == {i \in DepIds : dep[i].svc = s /\ dep[i].status # "none"}
             d == Steps[s].dep
  <2>1. Phase[s] = IF Cardinality(mine) > 1 THEN "twice"
                   ELSE IF mine # {}
                   THEN LET i == CHOOSE i \in mine : TRUE
                        IN  IF dep[i].status \in Unfinished THEN "started"
                            ELSE IF dep[i].status = "success" THEN "succeeded" ELSE "failed"
                   ELSE CASE Steps[s].status = "failed" -> "failed"
                          [] Steps[s].status = "not_started" -> "held"
                          [] OTHER -> "waiting"
    BY DEF Phase
  <2>2. mine \in SUBSET {d}
    BY DEF Recorded
  <2>3. CASE d = NoDep
    <3>1. mine = {}
      BY <2>2, <2>3 DEF DepIds
    <3>2. Cardinality(mine) = 0
      BY <3>1, FS_EmptySet
    <3> HIDE DEF mine
    <3> QED  BY <2>1, <2>3, <3>1, <3>2 DEF PhaseOf
  <2>4. CASE d # NoDep
    <3>1. d \in mine
      BY <1>1, <2>4 DEF StepsTell, RolloutSteps
    <3>2. mine = {d}
      BY <2>2, <3>1
    <3>3. Cardinality({d}) = 1
      BY FS_Singleton
    <3>4. (CHOOSE i \in mine : TRUE) = d
      BY <3>2
    <3> HIDE DEF mine
    <3>6. Cardinality(mine) = 1
      BY <3>2, <3>3
    <3>5. ~ (Cardinality(mine) > 1) /\ mine # {}
      BY <3>1, <3>6
    <3> QED  BY <2>1, <2>4, <3>4, <3>5 DEF PhaseOf
  <2> QED  BY <2>3, <2>4
<1> QED  BY <1>2 DEF Phase, PhaseBySteps

\* What every step of the rollout may count on.
Sound == TypeOK /\ Book /\ Recorded /\ RecordAgrees /\ HeldForAReason

LEMMA PhaseIs ==
    ASSUME Sound
    PROVE  Phase = PhaseBySteps
  BY PhaseIsBySteps DEF Sound

LEMMA PhaseIsAfter == (Sound => Phase = PhaseBySteps)'
<1>1. Sound => Phase = PhaseBySteps
  BY PhaseIs
<1> QED  BY <1>1, PTL

\* Steps of which only the state of those with a deployment may differ: the
\* phases are the same.
SameCourse(st, tt) ==
    \A s \in Services : tt[s].dep = st[s].dep /\ (st[s].dep = NoDep => tt[s] = st[s])

LEMMA OutcomeCourse ==
    ASSUME TypeOK
    PROVE  SameCourse(proc.steps, Outcome)
<1>1. NoDep \notin proc.previous
  BY Typed DEF FollowerType, DepIds
<1> QED  BY <1>1, OutcomeType DEF SameCourse

LEMMA SamePhases ==
    ASSUME Sound, Sound', dep' = dep, SameCourse(Steps, Steps')
    PROVE  Phase' = Phase
<1>1. \A s \in Services : PhaseOf(dep, Steps'[s]) = PhaseOf(dep, Steps[s])
  BY DEF SameCourse, PhaseOf
<1>2. PhaseBySteps' = PhaseBySteps
  BY <1>1 DEF PhaseBySteps
<1> QED  BY <1>2, PhaseIs, PhaseIsAfter

LEMMA OrderStutters ==
    ASSUME Sound, Sound', QuietNow, budget["midcrash"] = 0, [Next]_vars,
           \/ SaveLayer \/ recordResult \/ startQueuedBuilds \/ LayersDone
           \/ FinishSave \/ Crash \/ resumeRun \/ UNCHANGED vars
    PROVE  UNCHANGED <<Phase, run.status>>
<1>1. TypeOK /\ Book /\ HeldForAReason
  BY DEF Sound
<1>2. CASE SaveLayer
  <2>1. dep' = dep /\ run'.status = run.status /\ SameCourse(Steps, Steps')
    BY <1>1, <1>2, SaveLayerDoes DEF Steps, SameCourse
  <2> QED  BY <2>1, SamePhases
<1>3. CASE recordResult
  <2>1. dep' = dep /\ run'.status = run.status /\ SameCourse(Steps, Steps')
    BY <1>1, <1>3, recordDoes DEF Steps, SameCourse
  <2> QED  BY <2>1, SamePhases
<1>4. CASE startQueuedBuilds
  <2>1. dep' = dep /\ run'.status = run.status /\ SameCourse(Steps, Steps')
    BY <1>1, <1>4, startQueuedDoes DEF Steps, SameCourse
  <2> QED  BY <2>1, SamePhases
<1>5. CASE LayersDone
  <2>1. dep' = dep /\ run'.status = run.status /\ Steps = proc.steps /\ Steps' = Outcome
    BY <1>1, <1>5, LayersDoneDoes DEF Steps
  <2> QED  BY <1>1, <2>1, OutcomeCourse, SamePhases
<1>6. CASE FinishSave
  <2>1. dep' = dep /\ run'.status = run.status /\ SameCourse(Steps, Steps')
    BY <1>1, <1>6, FinishDoes DEF Steps, SameCourse
  <2> QED  BY <2>1, SamePhases
<1>7. CASE Crash
  <2>1. proc.pc \notin {"none", "trigger"} /\ dep' = dep /\ run' = run
        /\ Steps = proc.steps /\ Steps' = run.steps
    BY <1>1, <1>7, NeverSpent DEF Crash, Expenses, Steps, NotRunning
  <2>2. SameCourse(proc.steps, run.steps)
    BY <2>1 DEF Sound, Recorded, HeldForAReason, SameCourse
  <2> QED  BY <2>1, <2>2, SamePhases
<1>8. CASE resumeRun
  <2>1. dep' = dep /\ run' = run /\ SameCourse(Steps, Steps')
    BY <1>1, <1>8, resumeDoes DEF Steps, SameCourse
  <2> QED  BY <2>1, SamePhases
<1>9. CASE UNCHANGED vars
  <2>1. dep' = dep /\ run' = run /\ SameCourse(Steps, Steps')
    BY <1>9 DEF vars, Steps, SameCourse
  <2> QED  BY <2>1, SamePhases
<1> QED  BY <1>2, <1>3, <1>4, <1>5, <1>6, <1>7, <1>8, <1>9

LEMMA OrderBegins ==
    ASSUME Sound, Sound', Apply
    PROVE  Order!Begin
<1>1. TypeOK /\ Book
  BY DEF Sound
<1>2. run.status = "none" /\ run'.status = "running" /\ dep' = dep /\ SameCourse(Steps, Steps')
  BY <1>1, ApplyDoes DEF Steps, SameCourse, NotRunning
<1> QED  BY <1>2, SamePhases DEF Order!Begin

LEMMA OrderStarts ==
    ASSUME Sound, Sound', NEW s \in Services, TriggerOne(s)
    PROVE  Order!Start(s)
<1>1. TypeOK /\ Book /\ HeldForAReason /\ dep \in Deps /\ proc.steps \in RolloutSteps
  BY Typed DEF Sound
<1>2. /\ proc.pc = "trigger" /\ proc'.pc = "trigger" /\ s \in proc.todo /\ run' = run
      /\ run.status = "running" /\ Steps = proc.steps /\ Steps' = proc'.steps
      /\ proc.steps[s].status = "waiting" /\ proc.steps[s].dep = NoDep
  BY <1>1, TriggerDoes DEF Book, InPlace, Live, StepsTell, Idle, Steps
<1>3. Phase = PhaseBySteps /\ Phase' = PhaseBySteps'
  BY PhaseIs, PhaseIsAfter
<1>4. Phase[s] = "waiting"
  BY <1>2, <1>3 DEF PhaseBySteps, PhaseOf
<1>5. \A t \in DependsOn[s] : Phase[t] = "succeeded"
  <2>1. DepsUp(dep, proc.steps, s) /\ \A t \in DependsOn[s] : t \in Services
    BY <1>1, <1>2, RolloutAssumption DEF HeldForAReason, Live
  <2> QED  BY <1>2, <1>3, <2>1 DEF PhaseBySteps, PhaseOf, DepsUp, Unfinished
<1>6. \A i \in DepIds : dep[i].status # "none" => dep[i].svc # s
  BY <1>2 DEF Sound, Recorded, DepIds
<1>7. \E p \in {"started", "failed"} : PhaseBySteps' = [PhaseBySteps EXCEPT ![s] = p]
  <2>1. CASE \E i \in DepIds :
                /\ dep[i].status = "none"
                /\ dep' = [dep EXCEPT ![i] = [svc |-> s, status |-> IF s \in Builds
                                                         THEN "building" ELSE "deploying"]]
                /\ proc'.previous = proc.previous \union {i}
                /\ proc'.steps = [proc.steps EXCEPT ![s] = [status |-> "started", dep |-> i]]
    <3>1. PICK i \in DepIds :
                /\ dep[i].status = "none"
                /\ dep' = [dep EXCEPT ![i] = [svc |-> s, status |-> IF s \in Builds
                                                         THEN "building" ELSE "deploying"]]
                /\ proc'.steps = [proc.steps EXCEPT ![s] = [status |-> "started", dep |-> i]]
      BY <2>1
    <3>2. proc'.steps[s].dep = i /\ i # NoDep /\ dep'[i].status \in Unfinished
      BY <1>1, <3>1 DEF RolloutSteps, Deps, Unfinished, DepIds
    <3>3. PhaseOf(dep', proc'.steps[s]) = "started"
      BY <3>2 DEF PhaseOf
    <3>4. \A t \in Services \ {s} : proc'.steps[t] = proc.steps[t]
      BY <1>1, <3>1 DEF RolloutSteps
    <3>5. \A t \in Services \ {s} : proc.steps[t].dep # NoDep =>
              proc.steps[t].dep \in DepIds /\ proc.steps[t].dep # i
      BY <1>1, <3>1 DEF Book, StepsTell, RolloutSteps
    <3>6. \A j \in DepIds \ {i} : dep'[j] = dep[j]
      BY <1>1, <3>1 DEF Deps
    <3>7. \A t \in Services \ {s} : PhaseOf(dep', proc'.steps[t]) = PhaseOf(dep, proc.steps[t])
      BY <3>4, <3>5, <3>6 DEF PhaseOf
    <3>8. PhaseBySteps' = [PhaseBySteps EXCEPT ![s] = "started"]
      BY <1>2, <3>3, <3>7 DEF PhaseBySteps
    <3> QED  BY <3>8
  <2>2. CASE /\ dep' = dep
             /\ proc'.steps = [proc.steps EXCEPT ![s].status = "failed"]
    <3>1. proc.steps[s] \in [status : StepStatus, dep : DepIds \union {NoDep}]
      BY <1>1 DEF RolloutSteps
    <3>2. proc'.steps[s].dep = NoDep /\ proc'.steps[s].status = "failed"
      BY <1>1, <1>2, <2>2, <3>1 DEF RolloutSteps
    <3>3. PhaseOf(dep', proc'.steps[s]) = "failed"
      BY <3>2 DEF PhaseOf
    <3>4. \A t \in Services \ {s} : proc'.steps[t] = proc.steps[t]
      BY <1>1, <2>2 DEF RolloutSteps
    <3>5. PhaseBySteps' = [PhaseBySteps EXCEPT ![s] = "failed"]
      BY <1>2, <2>2, <3>3, <3>4 DEF PhaseBySteps
    <3> QED  BY <3>5
  <2> QED  BY <1>1, <2>1, <2>2, TriggerDoes
<1> QED  BY <1>2, <1>3, <1>4, <1>5, <1>7 DEF Order!Start

LEMMA OrderHoldsBack ==
    ASSUME Sound, Sound', NextLayer
    PROVE  UNCHANGED <<Phase, run.status>> \/ Order!HoldBack(Held)
<1>1. TypeOK /\ Book /\ RecordAgrees /\ HeldForAReason /\ StepsTell(dep, proc.steps)
  BY DEF Sound, Book
<1>2. /\ proc.pc = "wait" /\ proc'.pc = "trigger" /\ proc'.steps = NextSteps
      /\ run' = run /\ dep' = dep /\ run.status = "running" /\ PreviousEnded
      /\ Steps = proc.steps /\ Steps' = NextSteps /\ proc.blocked \in SUBSET Services
      /\ proc.steps \in RolloutSteps
  BY <1>1, NextLayerDoes, Typed DEF Book, Steps, FollowerType
<1>3. Phase = PhaseBySteps /\ Phase' = PhaseBySteps'
  BY PhaseIs, PhaseIsAfter
<1>4. /\ \A s \in Services \ Held : NextSteps[s] = Outcome[s]
      /\ \A s \in Held : /\ s \in Services /\ NextSteps[s].status = "not_started"
                         /\ proc.steps[s].status = "waiting"
      /\ SameShape(proc.steps, NextSteps)
  BY <1>1, NextStepsShape DEF InLayer
<1>5. SameCourse(proc.steps, Outcome)
  BY <1>1, OutcomeCourse
<1>6. \A s \in Services \ Held : PhaseOf(dep, NextSteps[s]) = PhaseOf(dep, proc.steps[s])
  BY <1>4, <1>5 DEF SameCourse, PhaseOf
<1>7. \A s \in Held : /\ PhaseOf(dep, NextSteps[s]) = "held"
                      /\ PhaseOf(dep, proc.steps[s]) = "waiting"
  <2>1. \A s \in Held : proc.steps[s].dep = NoDep /\ NextSteps[s].dep = NoDep
    BY <1>1, <1>4 DEF StepsTell, SameShape, Idle
  <2> QED  BY <1>4, <2>1 DEF PhaseOf
<1>8. PhaseBySteps' = [s \in Services |-> IF s \in Held THEN "held" ELSE PhaseBySteps[s]]
  BY <1>2, <1>6, <1>7 DEF PhaseBySteps
<1>9. \A s \in Blocked : s \in Services /\ PhaseBySteps[s] \in {"failed", "held"}
  <2>1. StepsAgree(dep, Outcome) /\ StepsAgree(dep, proc.steps)
    BY <1>1, OutcomeAgrees DEF RecordAgrees
  <2>2. ASSUME NEW s \in Services, proc.steps[s].status \in {"failed", "not_started"}
        PROVE  PhaseOf(dep, proc.steps[s]) \in {"failed", "held"}
    BY <1>1, <2>1, <2>2 DEF StepsTell, StepsAgree, PhaseOf, Idle, Unfinished
  <2>3. ASSUME NEW s \in Services, Outcome[s].status = "failed"
        PROVE  PhaseOf(dep, proc.steps[s]) = "failed"
    <3>1. PhaseOf(dep, Outcome[s]) = "failed"
      BY <2>1, <2>3 DEF StepsAgree, PhaseOf, Unfinished
    <3> QED  BY <1>5, <3>1 DEF SameCourse, PhaseOf
  <2>4. \A s \in proc.blocked : s \in Services /\ proc.steps[s].status \in {"failed", "not_started"}
    BY <1>1, <1>2 DEF HeldForAReason, Live
  <2> QED  BY <1>2, <2>2, <2>3, <2>4 DEF Blocked, FailedNames, PhaseBySteps
<1>10. \A s \in Held : \E t \in DependsOn[s] : t \in Blocked
  BY DEF Held, HeldBack
<1>11. \A s \in Held : Phase[s] = "waiting" /\ \E t \in DependsOn[s] : Phase[t] \in {"failed", "held"}
  BY <1>2, <1>3, <1>4, <1>7, <1>9, <1>10 DEF PhaseBySteps
<1>12. CASE Held = {}
  <2>1. PhaseBySteps' = PhaseBySteps
    BY <1>8, <1>12 DEF PhaseBySteps
  <2> QED  BY <1>2, <1>3, <2>1
<1>13. CASE Held # {}
  BY <1>2, <1>3, <1>8, <1>11, <1>13 DEF Order!HoldBack
<1> QED  BY <1>12, <1>13

LEMMA OrderEnds ==
    ASSUME Sound, Sound', NEW i \in DepIds, DeployStep(i)
    PROVE  UNCHANGED <<Phase, run.status>> \/ Order!End(dep[i].svc)
<1> DEFINE s == dep[i].svc
<1>1. /\ dep \in Deps /\ Steps \in RolloutSteps /\ s \in Services
      /\ run' = run /\ Steps' = Steps /\ StepsTell(dep, Steps)
  BY Typed DEF Sound, Deps, DeployStep, Steps, Book
<1>2. Phase = PhaseBySteps /\ Phase' = PhaseBySteps'
  BY PhaseIs, PhaseIsAfter
<1>3. dep[i].status \in Unfinished /\ Steps[s].dep = i /\ i # NoDep
  BY DEF DeployStep, Unfinished, Sound, Recorded, DepIds
<1>4. PICK st \in {"deploying", "failed", "success"} : dep' = [dep EXCEPT ![i].status = st]
  BY DEF DeployStep
<1>5. dep'[i].status = st /\ \A j \in DepIds \ {i} : dep'[j] = dep[j]
  BY <1>1, <1>4 DEF Deps
<1>6. \A t \in Services \ {s} : Steps[t].dep # NoDep => Steps[t].dep \in DepIds \ {i}
  BY <1>1 DEF StepsTell, RolloutSteps
<1>7. \A t \in Services \ {s} : PhaseOf(dep', Steps[t]) = PhaseOf(dep, Steps[t])
  BY <1>5, <1>6 DEF PhaseOf
<1>8. PhaseBySteps[s] = "started"
  BY <1>1, <1>3 DEF PhaseBySteps, PhaseOf
<1>9. PhaseBySteps' = [PhaseBySteps EXCEPT ![s] = PhaseOf(dep', Steps[s])]
  BY <1>1, <1>7 DEF PhaseBySteps
<1>10. PhaseOf(dep', Steps[s]) = IF st = "deploying" THEN "started"
                                 ELSE IF st = "success" THEN "succeeded" ELSE "failed"
  BY <1>3, <1>5 DEF PhaseOf, Unfinished
<1>11. CASE st = "deploying"
  <2>1. PhaseBySteps' = PhaseBySteps
    BY <1>8, <1>9, <1>10, <1>11 DEF PhaseBySteps
  <2> QED  BY <1>1, <1>2, <2>1
<1>12. CASE st # "deploying"
  <2>1. \E p \in {"succeeded", "failed"} : PhaseBySteps' = [PhaseBySteps EXCEPT ![s] = p]
    BY <1>9, <1>10, <1>12
  <2> QED  BY <1>1, <1>2, <1>8, <2>1 DEF Order!End
<1> QED  BY <1>11, <1>12

LEMMA OrderCloses ==
    ASSUME Sound, Sound', finishRun
    PROVE  Order!Close
<1>1. TypeOK /\ Book /\ RecordAgrees
  BY DEF Sound
<1>2. /\ proc.pc = "close" /\ proc' = NotRunning /\ run.status = "running"
      /\ run'.status = Verdict(proc.steps, proc.errors)
      /\ run'.steps = run.steps /\ dep' = dep
      /\ run.steps = proc.steps /\ Steps = proc.steps /\ Steps' = proc.steps
      /\ \A s \in Services : proc.steps[s].status \in Over
      /\ StepsAgree(dep, proc.steps) /\ StepsTell(dep, proc.steps)
  BY <1>1, CloseDoes DEF Book, RecordAgrees, NothingSkipped, Steps, NotRunning
<1>3. Phase = PhaseBySteps
  BY PhaseIs
<1>4. \A s \in Services :
        /\ proc.steps[s].status = "succeeded" => Phase[s] = "succeeded"
        /\ proc.steps[s].status = "failed" => Phase[s] = "failed"
        /\ proc.steps[s].status = "not_started" => Phase[s] = "held"
  BY <1>2, <1>3 DEF PhaseBySteps, PhaseOf, StepsAgree, StepsTell, Idle, Unfinished
<1>5. SameCourse(Steps, Steps')
  BY <1>2 DEF SameCourse
<1>6. Phase' = Phase
  BY <1>2, <1>5, SamePhases
<1>7. \A s \in Services : Phase[s] \in {"succeeded", "failed", "held"}
  BY <1>2, <1>4 DEF Over
<1>8. /\ (\E s \in Services : Phase[s] = "held") <=> \E s \in Services : proc.steps[s].status = "not_started"
      /\ (\E s \in Services : Phase[s] = "failed") <=> FailedNames(proc.steps) # {}
  BY <1>2, <1>4 DEF Over, FailedNames
<1>9. run'.status \in IF \E s \in Services : Phase[s] = "held" THEN {"stopped"}
                      ELSE IF \E s \in Services : Phase[s] = "failed" THEN {"failed"}
                      ELSE {"succeeded", "failed"}
  BY <1>2, <1>8 DEF Verdict
<1> QED  BY <1>2, <1>6, <1>7, <1>9 DEF Order!Close

LEMMA OrderStep ==
    ASSUME Sound, Sound', QuietNow, budget["midcrash"] = 0, Slow = {}, [Next]_vars
    PROVE  [Order!Next]_<<Phase, run.status>>
<1>1. TypeOK /\ dep \in Deps
  BY Typed DEF Sound
<1>2. CASE Apply
  BY <1>2, OrderBegins DEF Order!Next
<1>3. ASSUME NEW s \in Services, TriggerOne(s)  PROVE Order!Next
  BY <1>3, OrderStarts DEF Order!Next
<1>4. CASE NextLayer
  <2>1. Held \in SUBSET Services
    BY DEF Held, HeldBack, Fresh, StillWaiting, InLayer
  <2> QED  BY <1>4, <2>1, OrderHoldsBack DEF Order!Next
<1>5. CASE finishRun
  BY <1>5, OrderCloses DEF Order!Next
<1>6. ASSUME NEW i \in DepIds, DeployStep(i)  PROVE [Order!Next]_<<Phase, run.status>>
  <2>1. dep[i].svc \in Services
    BY <1>1 DEF Deps
  <2> QED  BY <1>6, <2>1, OrderEnds DEF Order!Next
<1>7. ~ WaitTimesOut
  BY DEF WaitTimesOut
<1> QED  BY <1>1, <1>2, <1>3, <1>4, <1>5, <1>6, <1>7, OrderStutters, QuietStep
         DEF Next, Follower, Resume

LEMMA OrderInit == Init => Order!Init
<1> SUFFICES ASSUME Init PROVE Order!Init
  OBVIOUS
<1>1. TypeOK /\ Book /\ Recorded
  BY TypeInit, BookInit, RecordedInit
<1>2. Phase = PhaseBySteps
  BY <1>1, PhaseIsBySteps
<1>5. Steps = Waiting
  BY DEF Init, Steps, NotRunning
<1>3. \A s \in Services : Steps[s].dep = NoDep /\ Steps[s].status = "waiting"
  BY <1>5 DEF Waiting
<1>4. PhaseBySteps = [s \in Services |-> "waiting"]
  BY <1>3 DEF PhaseBySteps, PhaseOf
<1> QED  BY <1>2, <1>4 DEF Order!Init, Init

\* Where no service is held back through another one, or no restart happens, the
\* rollout is StackOrder: services start when what they depend on is up and are
\* held back for what is not going to be, however layers, the cap, the queue of
\* builds, the saves and the restarts interleave.
THEOREM RolloutImplementsOrder ==
    ASSUME Quiet, Budget["midcrash"] = 0, Budget["crash"] = 0 \/ TwoLayers
    PROVE  Spec => ImplementsOrder
<1> DEFINE I == /\ Sound /\ QuietNow /\ budget["midcrash"] = 0
                /\ NeverRestarted \/ TwoLayers
<1>1. Init => I
  BY TypeInit, BookInit, RecordedInit, AgreesInit, HeldInit
     DEF Init, Sound, Quiet, QuietNow, NeverRestarted
<1>2. I /\ [Next]_vars => I'
  <2> SUFFICES ASSUME I, [Next]_vars PROVE I'
    OBVIOUS
  <2>1. TypeOK /\ Book /\ Recorded /\ RecordAgrees /\ HeldForAReason
    BY DEF Sound
  <2>2. Sound'
    BY <2>1, TypeStep, BookStep, RecordedStep, AgreesStep, HeldStep DEF Sound, Quiet
  <2>3. QuietNow' /\ budget'["midcrash"] = 0
    BY <2>1, QuietStep, NeverSpent DEF Expenses
  <2>4. NeverRestarted' \/ TwoLayers
    BY <2>1, NeverRestartedStep
  <2> QED  BY <2>2, <2>3, <2>4
<1>3. I /\ I' /\ [Next]_vars => [Order!Next]_<<Phase, run.status>>
  BY OrderStep DEF Quiet
<1> HIDE DEF I
<1> QED  BY <1>1, <1>2, <1>3, OrderInit, PTL DEF Spec, ImplementsOrder, Order!Spec, Order!vars

=============================================================================
