-------------------------- MODULE MCClaimResolution --------------------------
(***************************************************************************)
(* Four instances of ClaimResolution side by side.  A behaviour stays     *)
(* within one of them: what its environment does and how often.            *)
(***************************************************************************)
EXTENDS ClaimResolution

VARIABLE scenario

Either == {FALSE, TRUE}

\* One anchor whose claims come and go, with locks, tips, policies and the miner changing.
Changing ==
    [anchors |-> {1}, tips |-> {1, 2}, policies |-> {0, 1}, standings |-> {"unsafe", "aged"}, lockable |-> {1},
     plans |-> {None}, switches |-> Either, writes |-> 2, restarts |-> 1, evictions |-> TRUE, submits |-> FALSE]

\* One anchor and an operator whose plan outlives the process.  Only a restart empties the
\* mempool.
Planning ==
    [anchors |-> {1}, tips |-> {1}, policies |-> {0}, standings |-> {"aged"}, lockable |-> {},
     plans |-> {1}, switches |-> {TRUE}, writes |-> 2, restarts |-> 2, evictions |-> FALSE, submits |-> FALSE]

\* The same operator, who also submits the resolution by sendrawtransaction.
Submitting == [Planning EXCEPT !.writes = 3, !.restarts = 0, !.submits = TRUE]

\* Two anchors and a window that moves.
Budgeting ==
    [anchors |-> {1, 2}, tips |-> {1, 2, 3}, policies |-> {1}, standings |-> {"aged"}, lockable |-> {},
     plans |-> {None}, switches |-> {TRUE}, writes |-> 3, restarts |-> 0, evictions |-> TRUE, submits |-> FALSE]

Within(s) ==
    /\ tip \in s.tips /\ policy \in s.policies /\ diskPolicy \in s.policies
    /\ \A a \in Anchors : standing[a] \in IF a \in s.anchors THEN s.standings ELSE {"unsafe"}
    /\ locked \subseteq s.lockable /\ (plan # None => 1 \in s.plans)
    /\ {unlocked, mining} \subseteq s.switches
    /\ s.submits \/ submitted = {}
    /\ generation <= s.writes /\ restarts <= s.restarts

MCInit == Init /\ scenario \in {Changing, Planning, Submitting, Budgeting} /\ Within(scenario)

Stays ==
    /\ UNCHANGED scenario /\ Within(scenario)'
    /\ scenario.evictions \/ mempool \subseteq mempool' \/ restarts' # restarts

\* The mempool refuses no resolution here (Barrable is empty).
MCNext ==
    \/ (ConnectTip /\ Stays) \/ (ProcessTip /\ Stays) \/ (ClaimChanges /\ Stays)
    \/ (LeavesMempool /\ Stays) \/ (UnlockWallet /\ Stays) \/ (SetPowMining /\ Stays) \/ (LockCoin /\ Stays)
    \/ (UnlockCoin /\ Stays) \/ (SetPolicy /\ Stays) \/ (Revoke /\ Stays)
    \/ (SendRawTransaction /\ Stays) \/ (TransactionSubmittedByRpc /\ Stays) \/ (Preview /\ Stays)
    \/ (Execute /\ Stays) \/ (Tick /\ Stays) \/ (Ask /\ Stays) \/ (\E c \in Callers : Begin(c) /\ Stays)
    \/ (Persist /\ Stays) \/ (Review /\ Stays) \/ (Reserve /\ Stays) \/ (Broadcast /\ Stays)
    \/ (Restart /\ Stays)

MCSpec == MCInit /\ [][MCNext]_<<vars, scenario>>
==============================================================================
