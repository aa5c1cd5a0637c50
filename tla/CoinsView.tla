------------------------------ MODULE CoinsView ------------------------------
(***************************************************************************)
(* What a stack of coins views promises: every view is a plain map from    *)
(* outpoints to coins with a best block.  A child view starts as a copy of *)
(* its parent, and is committed to the parent or dropped.  Level 0 is the  *)
(* database, level 1 CoinsTip, 2 the view of a block being connected or    *)
(* disconnected, 3 the staged view of its shadow state.  The levels above  *)
(* the open one mirror it.                                                 *)
(***************************************************************************)
EXTENDS Naturals

CONSTANTS
    Outpoints,
    Coins,      \* the unspent coins an outpoint may have
    Spent,      \* no coin
    Blocks

Levels == 0..3

VARIABLES
    depth,      \* the open view
    view,       \* the coins of every level
    best,       \* the best block of every level
    broken      \* a commit has failed half-way

vars == <<depth, view, best, broken>>

Init ==
    /\ depth = 1
    /\ \E coins \in [Outpoints -> Coins \cup {Spent}] : view = [l \in Levels |-> coins]
    /\ \E b \in Blocks : best = [l \in Levels |-> b]
    /\ broken = FALSE

\* The levels from l on become f and b.
Fill(l, f, b) ==
    /\ view' = [k \in Levels |-> IF k >= l THEN f ELSE view[k]]
    /\ best' = [k \in Levels |-> IF k >= l THEN b ELSE best[k]]

Write(o, coin) == Fill(depth, [view[depth] EXCEPT ![o] = coin], best[depth]) /\ UNCHANGED depth

SetBestBlock(b) == Fill(depth, view[depth], b) /\ UNCHANGED depth

Open == depth < 3 /\ depth' = depth + 1 /\ UNCHANGED <<view, best>>

Commit == depth > 1 /\ depth' = depth - 1 /\ Fill(depth - 1, view[depth], best[depth])

Drop == depth > 1 /\ depth' = depth - 1 /\ Fill(depth - 1, view[depth - 1], best[depth - 1])

Persist == depth = 1 /\ Fill(0, view[1], best[1]) /\ UNCHANGED depth

\* A commit of the staged view may leave anything in the view of the block.
Fail ==
    /\ depth = 3 /\ depth' = 2
    /\ \E f \in [Outpoints -> Coins \cup {Spent}] : Fill(2, f, best[2])

Operation ==
    \/ \E o \in Outpoints, coin \in Coins \cup {Spent} : Write(o, coin)
    \/ \E b \in Blocks : SetBestBlock(b)
    \/ Open \/ Commit \/ Drop \/ Persist

\* After a failed commit the view of the block is dropped, and nothing else happens.
Next ==
    \/ ~broken /\ Operation /\ UNCHANGED broken
    \/ ~broken /\ Fail /\ broken' = TRUE
    \/ broken /\ Drop /\ broken' = FALSE

Spec == Init /\ [][Next]_vars

=============================================================================
