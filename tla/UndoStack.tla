------------------------------ MODULE UndoStack ------------------------------
(***************************************************************************)
(* What connecting and disconnecting blocks promises: the state below a    *)
(* block comes back exactly when the block is taken off again.             *)
(***************************************************************************)
EXTENDS Naturals, Sequences

VARIABLES
    current,    \* the state at the tip
    past        \* the states at the ancestors of the tip, oldest first

Init == past = <<>>

\* A block may lead to any state.
Push == past' = Append(past, current)

Pop ==
    /\ past # <<>>
    /\ current' = past[Len(past)]
    /\ past' = SubSeq(past, 1, Len(past) - 1)

Spec == Init /\ [][Push \/ Pop]_<<current, past>>
=============================================================================
