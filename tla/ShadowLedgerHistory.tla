-------------------------- MODULE ShadowLedgerHistory --------------------------
(***************************************************************************)
(* ShadowLedger with a history variable that remembers the whole ledger at *)
(* every ancestor of the tip, shown to implement UndoStack.                *)
(***************************************************************************)
EXTENDS ShadowLedger

VARIABLE history

Ledger == [chain |-> chain, pool |-> pool, poolUndo |-> poolUndo, signals |-> signals,
           signalUndo |-> signalUndo, solvers |-> solvers, buckets |-> buckets,
           store |-> store, replay |-> replay]

HInit == Init /\ history = <<>>

HNext ==
    \/ DisconnectBlock /\ history' = Front(history)
    \/ \E b \in Blocks : ConnectBlock(b) /\ history' = Append(history, Ledger)

HSpec == HInit /\ [][HNext]_<<vars, history>>

Stack == INSTANCE UndoStack WITH current <- Ledger, past <- history

\* DisconnectBlock is the exact inverse of ConnectBlock: whatever a block did to
\* the pool, the signals, the solver markers, the buckets, the payouts, the
\* inventory and the replay marker, disconnecting it brings back precisely the
\* markers of its parent, over any sequence of reorganisations.
DisconnectRestoresParent == Stack!Spec
=============================================================================
