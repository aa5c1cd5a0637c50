------------------------------ MODULE DurableTip ------------------------------
(***************************************************************************)
(* What the chainstate on disk promises to a node that may be killed at    *)
(* any moment: there is one saved tip, a running node saves its tip in one *)
(* step, and a node that starts again is at the saved tip.  Only wiping    *)
(* the chainstate loses the saved tip.                                     *)
(***************************************************************************)
CONSTANTS
    Blocks,
    Null,       \* no block
    Parent

VARIABLES
    up,         \* the node runs
    tip,        \* the tip of the running node
    saved       \* the tip that a restart finds

vars == <<up, tip, saved>>

Init == up = FALSE /\ tip = Null /\ saved \in Blocks \cup {Null}

Connect(b) == up /\ Parent[b] = tip /\ tip' = b /\ UNCHANGED <<up, saved>>

Disconnect == up /\ tip # Null /\ Parent[tip] # Null /\ tip' = Parent[tip] /\ UNCHANGED <<up, saved>>

Save == up /\ tip # Null /\ saved' = tip /\ UNCHANGED <<up, tip>>

Stop == up /\ up' = FALSE /\ tip' = Null /\ UNCHANGED saved

Start == ~up /\ up' = TRUE /\ tip' = saved /\ UNCHANGED saved

Wipe == ~up /\ saved' = Null /\ UNCHANGED <<up, tip>>

Next == (\E b \in Blocks : Connect(b)) \/ Disconnect \/ Save \/ Stop \/ Start \/ Wipe

Spec == Init /\ [][Next]_vars

=============================================================================
