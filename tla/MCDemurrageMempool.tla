-------------------------- MODULE MCDemurrageMempool --------------------------
EXTENDS DemurrageMempool, TLC

CONSTANTS k1, k2, c1, c2, c3, c4, c5, m1, m2, s1, a1, a2,
    Busy    \* bound on the height of the chains over which the mempool is used

VARIABLE submits    \* whether transactions are submitted to the mempool

\* The stake and the move m2 spend the same coin, and m1 spends the stake's output.
MCOwner == c1 :> k1 @@ c2 :> k1 @@ c3 :> k2 @@ c4 :> k2 @@ c5 :> k2
MCIssued == c1 :> 0 @@ c2 :> None @@ c3 :> None @@ c4 :> None @@ c5 :> 0
MCIn == s1 :> c1 @@ m1 :> c2 @@ m2 :> c1
MCOut == s1 :> c2 @@ m1 :> c3 @@ m2 :> c4
MCTxOrder == s1 :> 1 @@ a1 :> 2 @@ a2 :> 2 @@ m1 :> 3 @@ m2 :> 4

\* Two instances in one: short chains with a mempool, and long chains in which
\* a key gets a coin after another of its coins has lost its value.
MCInit == MempoolInit /\ submits \in BOOLEAN

MCNext ==
    /\ \/ \E a \in Attestations, c \in IF submits THEN Coins \ {c5} ELSE Coins : Sign(a, c)
       \/ \E t \in IF submits THEN Transactions ELSE {} : AcceptToMemoryPool(t)
       \/ \E block \in SUBSET (Transactions \ IF submits THEN {} ELSE {s1, m1}) :
            (submits => Height < Busy) /\ ConnectTip(block)
       \/ (submits \/ disconnectpool = <<>>) /\ DisconnectTip
       \/ ResurrectTx
       \/ MaybeUpdateMempoolForReorg
    /\ UNCHANGED submits

MCSpec == MCInit /\ [][MCNext]_<<vars, mempoolVars, submits>>

Symmetry == Permutations(Attestations)
=============================================================================
