---------------------------- MODULE MCMigration -----------------------------
(* Instances of Migration for TLC: what a server runs, and what goes wrong. *)
EXTENDS Migration, TLC

\* An application and its database; and a compose app with a volume.
TwoGroups == {"shop", "blog"}
ShopAndBlog == ("shop" :> <<"web">>) @@ ("blog" :> <<"wiki">>)
ShopData == ("shop" :> <<"pg">>) @@ ("blog" :> <<>>)
HostNames == <<"web", "wiki">>

OneGroup == {"shop"}
Shop == "shop" :> <<"web">>
ShopOnly == "shop" :> <<"pg">>

Both == {TwoGroups}
EitherPlan == {TwoGroups, {"shop"}}
One == {OneGroup}

Spending(write, fail, undofail, partial, crash, torn, settle, revoke, rollback, recut, again) ==
    ("write" :> write) @@ ("fail" :> fail) @@ ("undofail" :> undofail)
        @@ ("partial" :> partial) @@ ("crash" :> crash) @@ ("torn" :> torn)
        @@ ("settle" :> settle) @@ ("revoke" :> revoke) @@ ("rollback" :> rollback) @@ ("recut" :> recut)
        @@ ("again" :> again)

\* What is not stopping Meshploy's copy: with that, OneSide does not hold.
Stoppable == Kinds \ {"start", "service"}

FailOnce == Spending(1, 1, 1, 0, 1, 0, 0, 0, 1, 0, 1)
\* (write, fail, undofail, partial, crash, torn, settle, revoke, rollback, recut, again)
FailAndAgain == Spending(1, 1, 0, 0, 0, 0, 0, 0, 0, 0, 1)
StartsByHalves == Spending(0, 0, 0, 1, 0, 0, 0, 0, 0, 0, 0)
NoSettling == Spending(0, 0, 0, 0, 0, 0, 1, 0, 1, 0, 0)
TornOnce == Spending(0, 0, 0, 0, 0, 1, 0, 0, 1, 0, 0)
NotRevoked == Spending(0, 1, 0, 0, 0, 0, 0, 1, 0, 0, 0)
PutBackOnce == Spending(0, 0, 0, 0, 0, 0, 0, 0, 1, 0, 0)
CutOverTwice == Spending(0, 0, 0, 0, 0, 0, 0, 0, 0, 1, 0)
=============================================================================
