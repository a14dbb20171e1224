------------------------------ MODULE Handover ------------------------------
(***************************************************************************)
(* What a migration promises of each group, whatever fails on the way: it  *)
(* is on one side at a time.  A group leaves the side it is on before it   *)
(* is brought up on the other, so it is for a moment on neither; it may be *)
(* taken there and back any number of times (move.go:25-28).               *)
(***************************************************************************)
CONSTANT Groups

VARIABLE side       \* of each group: "old", "new" or "neither"

Init == side \in [Groups -> {"old", "neither"}]

\* What ran on one side is down.
Leave(g) ==
    /\ side[g] # "neither"
    /\ side' = [side EXCEPT ![g] = "neither"]

\* It comes up where it goes: on the new side, or back on the old one.
Arrive(g) ==
    /\ side[g] = "neither"
    /\ \E s \in {"old", "new"} : side' = [side EXCEPT ![g] = s]

Next == \E g \in Groups : Leave(g) \/ Arrive(g)

Spec == Init /\ [][Next]_side
=============================================================================
