--------------------------- MODULE MCStackRollout ---------------------------
(* Instances of StackRollout for TLC: a stack's shape and what goes wrong. *)
EXTENDS StackRollout, TLC

\* A chain: migrator, then api, then ui.
Chain == {"migrator", "api", "ui"}
ChainDeps == ("migrator" :> {}) @@ ("api" :> {"migrator"}) @@ ("ui" :> {"api"})

\* Two builds and an image side by side, and what depends on two of them.
Fan == {"api", "worker", "redis", "ui"}
FanDeps == ("api" :> {}) @@ ("worker" :> {}) @@ ("redis" :> {}) @@ ("ui" :> {"api", "redis"})
FanBuilds == {"api", "worker", "ui"}

\* Two builds side by side, and what depends on one of them.
Pair == {"api", "worker", "ui"}
PairDeps == ("api" :> {}) @@ ("worker" :> {}) @@ ("ui" :> {"api"})

\* Three builds at once, and nothing after them.
Wide == {"api", "worker", "ui"}
WideDeps == [s \in Wide |-> {}]

Spending(crash, midcrash, delete, setCap, gone) ==
    ("crash" :> crash) @@ ("midcrash" :> midcrash) @@ ("delete" :> delete)
        @@ ("setCap" :> setCap) @@ ("gone" :> gone)

NoFaults == Spending(0, 0, 0, 0, 0)
Crashes == Spending(2, 0, 0, 0, 0)
CrashAndCap == Spending(1, 0, 0, 1, 0)
MidCrash == Spending(0, 1, 0, 0, 0)
Deleting == Spending(0, 0, 1, 0, 0)
Anything == Spending(1, 1, 1, 1, 1)
=============================================================================
