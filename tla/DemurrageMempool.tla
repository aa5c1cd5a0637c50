--------------------------- MODULE DemurrageMempool ---------------------------
(***************************************************************************)
(* The mempool over the demurrage state.  An attestation refers to a coin  *)
(* that it does not spend and to the previous attestation of its key, so   *)
(* that a connected block, a reorganisation or another transaction of the  *)
(* mempool can make it unminable without touching one of its inputs.       *)
(*                                                                         *)
(* ActivateBestChainStep disconnects and connects blocks and then repairs  *)
(* the mempool, all under cs_main and the mempool's lock: `phase' is where *)
(* it is, and nothing else happens unless it is "idle".                    *)
(***************************************************************************)
EXTENDS Demurrage

CONSTANTS
    Stakes,     \* the moves that are coinstakes: never in the mempool
    TxOrder,    \* the place of every transaction in a block; equal places are in any order
    MaxReorg    \* bound on the number of blocks that are disconnected at once

ASSUME StakesAssumption == Stakes \subseteq Moves

VARIABLES mempool, disconnectpool, phase

mempoolVars == <<mempool, disconnectpool, phase>>

Transactions == Attestations \cup Moves

Targets(pool) == {signed[a].target : a \in AttestationsOf(pool)}
AttestedKeys(pool) == {signed[a].key : a \in AttestationsOf(pool)}

MEMPOOL_HEIGHT == MaxHeight + 1

\* CCoinsViewMemPool: the coins of the tip and the outputs of the mempool.
View(pool) ==
    [c \in Coins |-> IF c \in CreatedBy(pool) THEN MEMPOOL_HEIGHT ELSE coins[c]]

InputAllowed(c, view) ==
    /\ view[c] # None
    /\ EvaluateDemurrage(view[c], latest[Owner[c]], Height + 1) # 0

AttestationAllowed(a, view) ==
    TargetAllowed(signed[a], view) /\ PreviousAllowed(signed[a])
-----------------------------------------------------------------------------
\* MemPoolAccept::PreChecks.

MoveAccepted(m, pool) ==
    /\ m \notin Stakes
    /\ In[m] \notin Targets(pool) \cup SpentBy(pool)
    /\ InputAllowed(In[m], View(pool))

AttestationAccepted(a, pool) ==
    /\ signed[a] # None
    /\ IsDemurrageActive(Height + 1)
    /\ coins[signed[a].target] # None
    /\ signed[a].target \notin SpentBy(pool)
    /\ signed[a].key \notin AttestedKeys(pool)
    /\ AttestationAllowed(a, View(pool))

Accepted(t, pool) ==
    /\ t \notin pool /\ Fresh({t})
    /\ IF t \in Moves THEN MoveAccepted(t, pool) ELSE AttestationAccepted(t, pool)

AcceptToMemoryPool(t) ==
    /\ phase = "idle" /\ Accepted(t, mempool)
    /\ mempool' = mempool \cup {t}
    /\ UNCHANGED <<vars, disconnectpool, phase>>
-----------------------------------------------------------------------------
\* Removal.

Children(txs, pool) == {m \in MovesOf(pool) : In[m] \in CreatedBy(txs)}

\* The least set with txs and the children of its members.
WithDescendants(txs, pool) ==
    {t \in txs \cup pool :
        \A S \in SUBSET (txs \cup pool) : txs \subseteq S /\ Children(S, pool) \subseteq S => t \in S}

RemoveRecursive(txs, pool) == pool \ WithDescendants(txs, pool)

RemoveForBlock(block, pool) ==
    LET others == pool \ block
    IN  RemoveRecursive({m \in MovesOf(others) : In[m] \in SpentBy(block)}, others)
-----------------------------------------------------------------------------
\* MaybeUpdateMempoolForReorg: its loop over the disconnected transactions, one
\* at a time, and the recheck of what is in the mempool then.

Queued == UNION {disconnectpool[i] : i \in DOMAIN disconnectpool}

\* Earliest transaction first; disconnectpool has the last block in front.
QueuedBefore(t, u) ==
    \E i, j \in DOMAIN disconnectpool :
        /\ t \in disconnectpool[i] /\ u \in disconnectpool[j]
        /\ i > j \/ (i = j /\ TxOrder[t] <= TxOrder[u])

Resurrect(t, pool) ==
    IF Accepted(t, pool) THEN pool \cup {t} ELSE RemoveRecursive({t}, pool)

ResurrectTx ==
    /\ phase # "idle"
    /\ \E t \in Queued :
          /\ \A u \in Queued : QueuedBefore(t, u)
          /\ mempool' = Resurrect(t, mempool)
          /\ disconnectpool' = [i \in DOMAIN disconnectpool |-> disconnectpool[i] \ {t}]
    /\ phase' = "resurrecting"
    /\ UNCHANGED vars

InvalidLifecycle_TargetsOnly(pool) ==
    {a \in AttestationsOf(pool) :
        \/ ~IsDemurrageActive(Height + 1)
        \/ coins[signed[a].target] = None
        \/ signed[a].target \in SpentBy(pool)}

\* Attestations of one key never meet in the mempool (MempoolIsMinable), so the
\* set of keys the loop collects rejects none.
InvalidLifecycle(pool) ==
    {a \in AttestationsOf(pool) :
        \/ ~IsDemurrageActive(Height + 1)
        \/ ~AttestationAllowed(a, View(pool))
        \/ coins[signed[a].target] = None
        \/ signed[a].target \in SpentBy(pool)}

InvalidInputs(pool) == {m \in MovesOf(pool) : ~InputAllowed(In[m], View(pool))}

RemoveForReorg(pool) ==
    RemoveRecursive(InvalidLifecycle(pool) \cup InvalidInputs(pool), pool)

MaybeUpdateMempoolForReorg ==
    /\ phase # "idle" /\ Queued = {}
    /\ mempool' = RemoveForReorg(mempool)
    /\ disconnectpool' = <<>> /\ phase' = "idle"
    /\ UNCHANGED vars

DisconnectTip ==
    /\ phase \in {"idle", "disconnected"} /\ Len(disconnectpool) < MaxReorg
    /\ DisconnectBlock
    /\ disconnectpool' = Append(disconnectpool, Tip) /\ phase' = "disconnected"
    /\ UNCHANGED mempool

\* A step that disconnects nothing connects one block: its work is higher.
ConnectTip(block) ==
    /\ phase \in {"idle", "disconnected", "reconnected"}
    /\ ConnectBlock(block) /\ Cardinality(block \cap Stakes) <= 1
    /\ mempool' = RemoveForBlock(block, mempool)
    /\ disconnectpool' = [i \in DOMAIN disconnectpool |-> disconnectpool[i] \ block]
    /\ phase' = IF phase = "idle" THEN "advanced" ELSE "reconnected"

Sign(a, target) ==
    /\ phase = "idle"
    /\ CreateDemurrageAttestationTransaction(a, target)
    /\ UNCHANGED mempoolVars
-----------------------------------------------------------------------------
\* The block assembler.

Closed(txs) ==
    \A m \in MovesOf(txs), n \in MovesOf(mempool) : Out[n] = In[m] => n \in txs

\* The packages that TestPackageTransactions lets into a template.
TestPackageTransactions(txs) ==
    /\ txs \subseteq mempool /\ Closed(txs)
    /\ \A m \in MovesOf(txs) : InputAllowed(In[m], View(mempool))
    /\ Targets(txs) \cap SpentBy(txs) = {}
    /\ Cardinality(AttestationsOf(txs)) <= MAX_DEMURRAGE_ATTESTATIONS_PER_BLOCK
    /\ \A a \in AttestationsOf(txs) :
          IsDemurrageActive(Height + 1) /\ AttestationAllowed(a, View(mempool))

Reserved_InputsOnly(txs) == SpentBy(txs)

Reserved(txs) == SpentBy(txs) \cup Targets(txs)

\* CreateCoinStake after the packages are selected.
CreateCoinStake(stake, txs) ==
    /\ coins[In[stake]] # None /\ ~IsLocked(In[stake], Height + 1)
    /\ In[stake] \notin Reserved(txs)
    /\ Fresh({stake})
-----------------------------------------------------------------------------
MempoolInit == Init /\ mempool = {} /\ disconnectpool = <<>> /\ phase = "idle"

MempoolNext ==
    \/ \E a \in Attestations, c \in Coins : Sign(a, c)
    \/ \E t \in Transactions : AcceptToMemoryPool(t)
    \/ \E block \in SUBSET Transactions : ConnectTip(block)
    \/ DisconnectTip
    \/ ResurrectTx
    \/ MaybeUpdateMempoolForReorg

MempoolSpec == MempoolInit /\ [][MempoolNext]_<<vars, mempoolVars>>
-----------------------------------------------------------------------------
Resting == phase = "idle" /\ Height < MaxHeight

\* After every tip change the mempool is what the next block may carry: any of
\* its transactions with their ancestors, as long as the attestations are within
\* the cap of a block, make a valid block, whatever attestations, spends of their
\* targets and superseded records the change left behind.
MempoolIsMinable ==
    Resting =>
        \A txs \in SUBSET mempool :
            /\ Closed(txs)
            /\ Cardinality(AttestationsOf(txs)) <= MAX_DEMURRAGE_ATTESTATIONS_PER_BLOCK
            => Valid(txs)

\* A block that the node assembles and stakes itself passes its own validation:
\* the coinstake does not spend the target of an attestation in the template.
TemplateIsValid ==
    Resting =>
        \A txs \in SUBSET mempool, stake \in Stakes :
            TestPackageTransactions(txs) /\ CreateCoinStake(stake, txs)
            => Valid(txs \cup {stake})
=============================================================================
