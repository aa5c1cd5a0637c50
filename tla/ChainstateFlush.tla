--------------------------- MODULE ChainstateFlush ---------------------------
(***************************************************************************)
(* The coins database under crashes: FlushStateToDisk writes the block     *)
(* index and then the coins, in batches (CCoinsViewDB::BatchWrite); the    *)
(* process may be killed between any two writes; the next start replays an *)
(* interrupted flush block by block (ReplayBlocks), checks the auxiliary   *)
(* state (ReplayShadowBlocks) and runs, or refuses and asks for a rebuild. *)
(***************************************************************************)
EXTENDS Integers

CONSTANTS
    Blocks, Genesis,
    Null,                       \* no block hash; also the coin of a spent outpoint
    Parent, Height, Ancestor,   \* pprev, nHeight and GetAncestor
    Base,                       \* the outpoints of transactions
    Marker, Leaf, Snapshot,     \* QQRSTATE, the leaves it does not commit, the whitelist
    Creates, Spends,            \* what the transactions of a block do
    Utxo,                       \* the coins after a block
    SHADOW_WHITELIST_HEIGHT

Outpoints == Base \cup {Marker, Leaf, Snapshot}

\* A coin is known by the block that created it: its height, time and origin are that block's.
Views == [Outpoints -> Blocks \cup {Null}]

Empty == [o \in Outpoints |-> Null]

StateOf(b) == IF b = Null THEN Empty ELSE Utxo[b]

Touched(b) == Creates[b] \cup Spends[b]

\* The outpoints of auxiliary records that a block of this height writes.
Written(b) ==
    IF Height[b] < SHADOW_WHITELIST_HEIGHT THEN {}
    ELSE IF Height[b] = SHADOW_WHITELIST_HEIGHT THEN {Marker, Leaf, Snapshot}
    ELSE {Marker, Leaf}

\* The transactions of the block and, with aux, its auxiliary records.
Connected(v, b, aux) ==
    [o \in Outpoints |->
        IF o \in Spends[b] THEN Null
        ELSE IF o \in Creates[b] \/ (aux /\ o \in Written(b)) THEN b
        ELSE v[o]]

\* The undo data of a block holds the coins that it spent.
Disconnected(v, b, aux) ==
    [o \in Outpoints |->
        IF o \in Creates[b] THEN Null
        ELSE IF o \in Spends[b] THEN StateOf(Parent[b])[o]
        ELSE IF ~aux \/ o \notin Written(b) THEN v[o]
        ELSE IF Height[b] > SHADOW_WHITELIST_HEIGHT THEN Parent[b] ELSE Null]

\* The block's inputs are there and its outputs are not.
Connectable(v, b) ==
    /\ \A o \in Creates[b] : v[o] = Null
    /\ \A o \in Spends[b] \ Creates[b] : v[o] # Null

HasCurrentShadowReplayState(v, b) ==
    Height[b] >= SHADOW_WHITELIST_HEIGHT /\ v[Marker] = b /\ v[Snapshot] # Null

\* DISCONNECT_OK: the outputs are those of the block and the inputs are spent.
Disconnectable(v, b) ==
    /\ \A o \in Creates[b] \ Spends[b] : v[o] = b
    /\ \A o \in Spends[b] : v[o] = Null
    /\ Height[b] >= SHADOW_WHITELIST_HEIGHT => HasCurrentShadowReplayState(v, b)

ASSUME TreeAssumption ==
    /\ Genesis \in Blocks /\ Null \notin Blocks
    /\ Height \in [Blocks -> Nat] /\ Height[Genesis] = 0
    /\ Parent \in [Blocks -> Blocks \cup {Null}]
    /\ \A b \in Blocks : Parent[b] = Null <=> b = Genesis
    /\ \A b \in Blocks \ {Genesis} : Height[b] = Height[Parent[b]] + 1
    /\ \A b \in Blocks :
        /\ Ancestor[b][Height[b]] = b /\ Ancestor[b][0] = Genesis
        /\ \A h \in 0..Height[b] :
            /\ Ancestor[b][h] \in Blocks /\ Height[Ancestor[b][h]] = h
            /\ h > 0 => Parent[Ancestor[b][h]] = Ancestor[b][h - 1]

ASSUME OutpointAssumption ==
    /\ Marker \notin Base /\ Leaf \notin Base /\ Snapshot \notin Base
    /\ Marker # Leaf /\ Leaf # Snapshot /\ Snapshot # Marker

\* Every block is valid on its chain, and the genesis block is not connected.
ASSUME ContentAssumption ==
    /\ SHADOW_WHITELIST_HEIGHT \in Nat \ {0}
    /\ Creates \in [Blocks -> SUBSET Base] /\ Spends \in [Blocks -> SUBSET Base]
    /\ Creates[Genesis] = {} /\ Spends[Genesis] = {}
    /\ Utxo \in [Blocks -> Views]
    /\ \A b \in Blocks :
        /\ Utxo[b] = Connected(StateOf(Parent[b]), b, TRUE)
        /\ Connectable(StateOf(Parent[b]), b)
        /\ IF Height[b] < SHADOW_WHITELIST_HEIGHT
           THEN \A o \in {Marker, Leaf, Snapshot} : Utxo[b][o] = Null
           ELSE Utxo[b][Marker] = b /\ Utxo[b][Leaf] = b /\ Utxo[b][Snapshot] # Null

-----------------------------------------------------------------------------
VARIABLES
    \* on disk
    db,         \* the coins
    best,       \* DB_BEST_BLOCK
    heads,      \* DB_HEAD_BLOCKS: <<>> or <<new tip, old tip>>
    index,      \* the blocks in the block index database
    \* in memory
    pc,         \* what the process is doing
    next,       \* what follows the flush of the coins
    known,      \* m_block_index
    view,       \* what the coins cache in use answers
    tip,        \* its best block
    at,         \* the block that the replay has reached
    \* the environment
    calm        \* the process will not be killed any more

disk == <<db, best, heads, index>>
vars == <<db, best, heads, index, pc, next, known, view, tip, at, calm>>

TypeOK ==
    /\ db \in Views /\ view \in Views
    /\ best \in Blocks \cup {Null} /\ tip \in Blocks \cup {Null} /\ at \in Blocks \cup {Null}
    /\ heads \in {<<>>} \cup (Blocks \X (Blocks \cup {Null}))
    /\ index \subseteq Blocks /\ known \subseteq Blocks
    /\ pc \in {"down", "rollback", "forward", "shadow", "running", "index", "batches",
               "closing", "refused", "failed"}
    /\ next \in {"running", "shadow", "down"}
    /\ calm \in BOOLEAN

\* An empty data directory.
Init ==
    /\ db = Empty /\ best = Null /\ heads = <<>> /\ index = {}
    /\ pc = "down" /\ next = "running" /\ known = {} /\ view = Empty /\ tip = Null /\ at = Null
    /\ calm = FALSE

-----------------------------------------------------------------------------
\* BatchWrite starts by asserting that a replay completes the transition it found.
BatchWrite(hashBlock) ==
    IF best = Null /\ heads # <<>> /\ heads[1] # hashBlock THEN "failed" ELSE "batches"

-----------------------------------------------------------------------------
\* The node at work

Up == pc \in {"running", "index"} \/ (pc = "batches" /\ next = "running")

AcceptBlock(b) ==
    /\ pc = "running" /\ b \notin known /\ Parent[b] \in known
    /\ known' = known \cup {b}
    /\ UNCHANGED <<disk, pc, next, view, tip, at, calm>>

ConnectTip(b) ==
    /\ pc = "running" /\ b \in known /\ Parent[b] = tip
    /\ Connectable(view, b)
    /\ view' = Connected(view, b, TRUE) /\ tip' = b
    /\ UNCHANGED <<disk, pc, next, known, at, calm>>

DisconnectTip ==
    /\ pc = "running" /\ tip # Null /\ Parent[tip] # Null
    /\ Disconnectable(view, tip)
    /\ view' = Disconnected(view, tip, TRUE) /\ tip' = Parent[tip]
    /\ UNCHANGED <<disk, pc, next, known, at, calm>>

\* The coins are flushed without the block index.
WriteBlockIndexDB_Skipped ==
    pc = "running" /\ pc' = "index" /\ UNCHANGED <<disk, next, known, view, tip, at, calm>>

\* FlushStateToDisk writes the block index first, the coins only in a full flush.
WriteBlockIndexDB ==
    /\ pc = "running"
    /\ index' = known
    /\ pc' = "index"
    /\ UNCHANGED <<db, best, heads, next, known, view, tip, at, calm>>

FlushCoins ==
    /\ pc = "index"
    /\ pc' \in {"running"} \cup (IF tip = Null THEN {} ELSE {BatchWrite(tip)})
    /\ next' = "running"
    /\ UNCHANGED <<disk, known, view, tip, at, calm>>

-----------------------------------------------------------------------------
\* CCoinsViewDB::BatchWrite

\* The tip that the transition started from: that of the interrupted one, in a replay.
OldTip == IF best = Null /\ heads # <<>> THEN heads[2] ELSE best

\* The coins of S reach the database.
Batch(S) == [o \in Outpoints |-> IF o \in S THEN view[o] ELSE db[o]]

\* No DB_HEAD_BLOCKS in the first batch.
PartialBatch_Unmarked(S) ==
    /\ pc = "batches"
    /\ db' = Batch(S)
    /\ UNCHANGED <<best, heads, index, pc, next, known, view, tip, at, calm>>

PartialBatch(S) ==
    /\ pc = "batches"
    /\ db' = Batch(S) /\ best' = Null /\ heads' = <<tip, OldTip>>
    /\ UNCHANGED <<index, pc, next, known, view, tip, at, calm>>

FinalBatch ==
    /\ pc = "batches"
    /\ db' = view /\ best' = tip /\ heads' = <<>>
    /\ pc' = next
    /\ UNCHANGED <<index, next, known, view, tip, at, calm>>

-----------------------------------------------------------------------------
\* Startup

\* Off by one.
Crossed_OneEarly(b) == b # Null /\ Height[b] >= SHADOW_WHITELIST_HEIGHT - 1

Crossed(b) == b # Null /\ Height[b] >= SHADOW_WHITELIST_HEIGHT

\* The new tip is not looked at.
CrossesShadowState_OldOnly(new, old) == Crossed(old)

CrossesShadowState(new, old) == Crossed(new) \/ Crossed(old)

\* The last common ancestor of the two tips is at height h; without an old tip it is the genesis.
ForkHeight(new, old, h) ==
    IF old = Null THEN h = 0
    ELSE /\ h <= Height[new] /\ h <= Height[old]
         /\ Ancestor[new][h] = Ancestor[old][h]
         /\ \A k \in (h + 1)..Height[new] : k <= Height[old] => Ancestor[new][k] # Ancestor[old][k]

\* Only DB_BEST_BLOCK is looked at.
Start_WithoutReplay ==
    /\ pc = "down" /\ pc' = "shadow"
    /\ known' = index \cup {Genesis} /\ view' = db /\ tip' = best /\ at' = Null
    /\ UNCHANGED <<disk, next, calm>>

\* LoadBlockIndex, LoadGenesisBlock, and ReplayBlocks up to its loops.
Start ==
    /\ pc = "down"
    /\ known' = index \cup {Genesis}
    /\ view' = db /\ tip' = best
    /\ pc' = IF heads = <<>> THEN "shadow"
             ELSE IF heads[1] \notin known' \/ heads[2] \notin known' \cup {Null} THEN "failed"
             ELSE IF CrossesShadowState(heads[1], heads[2]) THEN "refused"
             ELSE "rollback"
    /\ at' = IF heads = <<>> THEN Null ELSE IF heads[2] = Null THEN Genesis ELSE heads[2]
    /\ UNCHANGED <<disk, next, calm>>

Rollback ==
    /\ pc = "rollback"
    /\ \E h \in 0..Height[heads[1]] :
        /\ ForkHeight(heads[1], heads[2], h)
        /\ IF Height[at] = h THEN pc' = "forward" /\ UNCHANGED <<view, tip, at>>
           ELSE /\ view' = Disconnected(view, at, FALSE)
                /\ tip' = Parent[at] /\ at' = Parent[at] /\ UNCHANGED pc
    /\ UNCHANGED <<disk, next, known, calm>>

RollforwardBlock ==
    /\ pc = "forward"
    /\ IF at = heads[1] THEN pc' = BatchWrite(heads[1]) /\ next' = "shadow" /\ tip' = heads[1] /\ UNCHANGED <<view, at>>
       ELSE LET b == Ancestor[heads[1]][Height[at] + 1]
            IN  view' = Connected(view, b, FALSE) /\ at' = b /\ UNCHANGED <<pc, next, tip>>
    /\ UNCHANGED <<disk, known, calm>>

\* Also InitCoinsCache and LoadChainTip.
ReplayShadowBlocks ==
    /\ pc = "shadow"
    /\ view' = db /\ tip' = best /\ at' = Null
    /\ pc' = IF best = Null THEN "running"
             ELSE IF best \notin known THEN "failed"
             ELSE IF Crossed(best) /\ ~HasCurrentShadowReplayState(db, best) THEN "refused"
             ELSE "running"
    /\ UNCHANGED <<disk, next, known, calm>>

\* DB_HEAD_BLOCKS survives the rebuild.
Rebuild_KeepsHeads ==
    /\ pc = "refused"
    /\ db' = Empty /\ best' = Null
    /\ pc' = "down"
    /\ UNCHANGED <<heads, index, next, known, view, tip, at, calm>>

\* The operator restarts with -reindex-chainstate.
Rebuild ==
    /\ pc = "refused"
    /\ db' = Empty /\ best' = Null /\ heads' = <<>>
    /\ pc' = "down"
    /\ UNCHANGED <<index, next, known, view, tip, at, calm>>

-----------------------------------------------------------------------------
\* The process is killed.
Crash ==
    /\ ~calm /\ pc # "down"
    /\ pc' = "down" /\ next' = "running" /\ known' = {} /\ view' = Empty /\ tip' = Null /\ at' = Null
    /\ UNCHANGED <<disk, calm>>

CalmDown == ~calm /\ calm' = TRUE /\ UNCHANGED <<disk, pc, next, known, view, tip, at>>

Startup == Start \/ Rollback \/ RollforwardBlock \/ FinalBatch \/ ReplayShadowBlocks \/ Rebuild

Next ==
    \/ \E b \in Blocks : AcceptBlock(b) \/ ConnectTip(b)
    \/ DisconnectTip \/ WriteBlockIndexDB \/ FlushCoins
    \/ \E S \in SUBSET Outpoints : PartialBatch(S)
    \/ FinalBatch
    \/ Start \/ Rollback \/ RollforwardBlock \/ ReplayShadowBlocks \/ Rebuild
    \/ Crash \/ CalmDown

Spec == Init /\ [][Next]_vars /\ WF_vars(Startup)

-----------------------------------------------------------------------------
\* Properties

\* A database that BatchWrite has marked as consistent with a block holds exactly the coins and
\* the auxiliary records after that block, whatever batches, crashes and replays came before.
ConsistentWhenMarked == heads = <<>> => db = StateOf(best)

\* The coins that a running node sees are those after its tip: after a crash in the middle of a
\* flush, or of the flush of a replay, no record of the other branch or of a later block is left.
ViewIsTheTip == Up => view = StateOf(tip)

\* No start ends in ReplayResult::FAILURE (a tip that the block index does not know), no assertion
\* of BatchWrite fails, no valid block is rejected and no block fails to disconnect.
NeverFails ==
    /\ pc # "failed"
    /\ pc = "running" =>
        /\ \A b \in known : Parent[b] = tip => Connectable(view, b)
        /\ tip # Null => Disconnectable(view, tip)

\* Only an interrupted flush from or to a block with auxiliary state makes ReplayBlocks or
\* ReplayShadowBlocks ask for a rebuild: a completed flush never does.
RebuildIsJustified == pc = "refused" => heads # <<>> /\ CrossesShadowState(heads[1], heads[2])

Saved == IF heads = <<>> THEN best ELSE heads[1]

Abstract == INSTANCE DurableTip WITH up <- Up, tip <- IF Up THEN tip ELSE Null, saved <- Saved

\* The flush is atomic: the first batch decides it, and every later start completes it.
ImplementsDurableTip == Abstract!Spec

\* Once the process is no longer killed, the node gets up: replaying, and rebuilding where it
\* must, comes to an end.
NodeGetsUp == calm ~> Up

=============================================================================
