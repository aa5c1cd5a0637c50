---------------------------- MODULE MCShadowIndex ----------------------------
(* Two branches from the genesis block, of three and of two blocks. *)
EXTENDS ShadowIndex, TLC

CONSTANTS g, a1, a2, a3, b1, b2,
    MaxFaults   \* bound: kills and invalidations together

Tree == g :> Null @@ a1 :> g @@ a2 :> a1 @@ a3 :> a2 @@ b1 :> g @@ b2 :> b1

Heights == g :> 0 @@ a1 :> 1 @@ a2 :> 2 @@ a3 :> 3 @@ b1 :> 1 @@ b2 :> 2

MCParent == [b \in Blocks |-> Tree[b]]

MCPath[b \in Blocks \cup {Null}] == IF b = Null THEN {} ELSE MCPath[Tree[b]] \cup {b}

MCHeight == [b \in Blocks |-> Heights[b]]

\* The first blocks of the two branches have the same time, the others have not.
Times == g :> 0 @@ a1 :> 1 @@ a2 :> 2 @@ a3 :> 4 @@ b1 :> 1 @@ b2 :> 3

MCBlockTime == [b \in Blocks |-> Times[b]]

MCNext == Next /\ kills' + invalidations' <= MaxFaults

MCSpec == Init /\ [][MCNext]_vars /\ Fairness
=============================================================================
