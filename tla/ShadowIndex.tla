----------------------------- MODULE ShadowIndex -----------------------------
(***************************************************************************)
(* The explorer index of the shadow ledger and the base class it is built  *)
(* on (BaseIndex).  The index follows the active chain from two threads: a *)
(* sync thread that reads the chain until it has caught up, and then the   *)
(* handlers of the validation notifications, which arrive later than the   *)
(* changes they report.  Its database holds a record per block, a custom   *)
(* tip written with each record, and the locator of BaseIndex, written     *)
(* separately.  The process may be killed between any two writes.          *)
(***************************************************************************)
EXTENDS Integers, Sequences

CONSTANTS
    Blocks, Genesis,
    Null,                       \* no block
    Parent, Height, Path,       \* pprev, nHeight, and a block with its ancestors
    BlockTime,                  \* GetBlockTime
    Winners,                    \* blocks with a credited proof-of-work claim
    SHADOW_REWARD_START_HEIGHT,
    COMPETING_CLAIMS_HEIGHT,    \* nShadowCompetingClaimsActivationHeight
    MaxPending,                 \* the limit of pending notifications
    MaxKills,                   \* bound: kills of the process
    MaxInvalidations            \* bound: tips disconnected by invalidateblock

VARIABLES
    node,           \* down, unwinding (CustomInit), up, stopping, refused
    tip,            \* the active tip, which is the best block of CoinsTip
    known,          \* m_block_index
    flushed,        \* the tip on disk
    written,        \* the block index on disk
    queue,          \* notifications that are not handled yet
    best,           \* m_best_block_index
    synced,         \* m_synced
    pindex, sync,   \* the sync thread: its block and what it does next
    handler,        \* the notification that is handled and what is done next
    suppressed,     \* m_event_stream_suppressed
    message,        \* the event that the handler has published, if any
    position,       \* where a subscriber is that has read the index by RPC and follows the events
    locator, customTip, records,    \* the index database
    kills, invalidations

chainVars == <<tip, known, flushed, written, invalidations>>
baseVars == <<best, synced>>
syncVars == <<pindex, sync>>
streamVars == <<suppressed, message, position>>
dbVars == <<locator, customTip, records>>
vars == <<node, chainVars, queue, baseVars, syncVars, handler, streamVars, dbVars, kills>>

ASSUME TreeAssumption ==
    /\ Genesis \in Blocks /\ Null \notin Blocks
    /\ Height \in [Blocks -> Nat] /\ Height[Genesis] = 0
    /\ Parent \in [Blocks -> Blocks \cup {Null}]
    /\ \A b \in Blocks : Parent[b] = Null <=> b = Genesis
    /\ \A b \in Blocks \ {Genesis} : Height[b] = Height[Parent[b]] + 1
    /\ Path \in [Blocks \cup {Null} -> SUBSET Blocks]
    /\ Path[Null] = {}
    /\ \A b \in Blocks : Path[b] = Path[Parent[b]] \cup {b}
    /\ SHADOW_REWARD_START_HEIGHT \in Nat \ {0}
    /\ COMPETING_CLAIMS_HEIGHT \in Nat /\ BlockTime \in [Blocks -> Nat]

-----------------------------------------------------------------------------
(* The block tree. *)

\* FindFork: the last block of the active chain that b descends from.
Fork(b) == CHOOSE a \in Path[b] \cap Path[tip] : Path[b] \cap Path[tip] \subseteq Path[a]

\* CChain::Next: the block after b on the active chain.
NextOf(b) ==
    IF b \in Path[tip] \ {tip} THEN CHOOSE c \in Path[tip] : Parent[c] = b ELSE Null

\* Mutant: a block that has left the active chain is taken for its tip.
NextSyncBlock_NoFork(b) == IF b = Null THEN Genesis ELSE NextOf(b)

NextSyncBlock(b) ==
    IF b = Null THEN Genesis
    ELSE IF NextOf(b) # Null THEN NextOf(b)
    ELSE NextOf(Fork(b))

Rewarded(b) == Height[b] >= SHADOW_REWARD_START_HEIGHT

\* The custom tip of an index that has come to b.
TipKey(b) == IF b # Null /\ Rewarded(b) THEN b ELSE Null

-----------------------------------------------------------------------------
(* Validation. *)

Connected(b) == [type |-> "connected", block |-> b]

Disconnected(b) == [type |-> "disconnected", block |-> b]

Flushed(b) == [type |-> "flushed", block |-> b]

\* The block of height h on the chain of b.
GetAncestor(b, h) == CHOOSE a \in Path[b] : Height[a] = h

\* What a change of the active chain to b is reported as: the blocks from the tip down to the
\* fork are disconnected and those up to b are connected.
Notifications(b) ==
    LET fork == Height[Fork(b)]
    IN  [i \in 1..(Height[tip] - fork) |-> Disconnected(GetAncestor(tip, Height[tip] + 1 - i))]
            \o [i \in 1..(Height[b] - fork) |-> Connected(GetAncestor(b, fork + i))]

\* The sync thread rewinds with cs_main held.
Unlocked == sync # "rewind"

\* LimitValidationInterfaceQueue waits before a step when too much is pending.
Unlimited == Len(queue) <= MaxPending

\* A step ends as soon as its tip has more work than the one before; cs_main is held
\* until the notifications are queued.
ActivateBestChainStep(b) ==
    /\ node = "up" /\ Unlocked /\ Unlimited
    /\ Height[b] = Height[tip] + 1
    /\ queue' = queue \o Notifications(b)
    /\ tip' = b
    /\ known' = known \cup Path[b]
    /\ UNCHANGED <<node, flushed, written, invalidations, baseVars, syncVars, handler, streamVars, dbVars, kills>>

\* The block may be reconsidered at any time.
InvalidateBlock ==
    /\ node = "up" /\ Unlocked /\ Unlimited
    /\ invalidations < MaxInvalidations
    /\ tip # Genesis
    /\ queue' = Append(queue, Disconnected(tip))
    /\ tip' = Parent[tip]
    /\ invalidations' = invalidations + 1
    /\ UNCHANGED <<node, known, flushed, written, baseVars, syncVars, handler, streamVars, dbVars, kills>>

\* A periodic write of the block index alone.
WriteBlockIndexDB ==
    /\ node = "up" /\ Unlocked
    /\ written # known
    /\ written' = known
    /\ UNCHANGED <<node, tip, known, flushed, invalidations, queue, baseVars, syncVars, handler, streamVars, dbVars, kills>>

\* Periodic, or the flush of a shutdown.  A flush of a tip that is on disk is left out.
FlushStateToDisk ==
    /\ node \in {"up", "stopping"} /\ Unlocked
    /\ flushed # tip \/ written # known
    /\ flushed' = tip
    /\ written' = known
    /\ queue' = Append(queue, Flushed(tip))
    /\ UNCHANGED <<node, tip, known, invalidations, baseVars, syncVars, handler, streamVars, dbVars, kills>>

-----------------------------------------------------------------------------
(* The index database. *)

\* The pool marker in CoinsTip is taken for that of an ancestor of b by its height and its time.
PoolMarkerFits(b) ==
    /\ Rewarded(tip) /\ Height[tip] < Height[b]
    /\ BlockTime[tip] = BlockTime[GetAncestor(b, Height[tip])]

\* The proof bucket of the parent is in CoinsTip, if the parent has one.
BucketsReadable(b) == Height[Parent[b]] >= COMPETING_CLAIMS_HEIGHT => Parent[b] \in Path[tip]

\* The markers of the block are in CoinsTip, or the markers there can be taken for those that
\* the block is applied to.
ContextReadable(b) ==
    \/ b \in Path[tip]
    \/ Height[b] = SHADOW_REWARD_START_HEIGHT /\ ~Rewarded(tip)
    \/ Height[b] > SHADOW_REWARD_START_HEIGHT /\ PoolMarkerFits(b) /\ BucketsReadable(b)

\* A credited claim needs its payout, and payouts are read from CoinsTip.
Accountable(b) == b \in Path[tip] \/ b \notin Winners

Appendable(b) ==
    /\ ContextReadable(b) /\ Accountable(b)
    /\ Height[b] > SHADOW_REWARD_START_HEIGHT => Parent[b] \in DOMAIN records

Indexed(b) == ~Rewarded(b) \/ b \in DOMAIN records

\* Mutant: the custom tip is not in the batch of the record.
WriteRecord_TipApart(b) ==
    /\ records' = [c \in DOMAIN records \cup {b} |-> IF c = b THEN b \in Path[tip] ELSE records[c]]
    /\ UNCHANGED customTip

\* The record says whether the payouts of the block were found.
WriteRecord(b) ==
    /\ records' = [c \in DOMAIN records \cup {b} |-> IF c = b THEN b \in Path[tip] ELSE records[c]]
    /\ customTip' = b

\* Succeeds with nothing to do for a block that is indexed.
CustomAppend(b) ==
    IF Indexed(b) THEN UNCHANGED <<customTip, records>> ELSE Appendable(b) /\ WriteRecord(b)

CustomAppendFails(b) == ~Indexed(b) /\ ~Appendable(b)

\* One batch of CustomRewind or of CustomInit undoes one block.
RewindBatch(target) ==
    /\ customTip # TipKey(target)
    /\ records' = [c \in DOMAIN records \ {customTip} |-> records[c]]
    /\ customTip' = TipKey(Parent[customTip])
    /\ UNCHANGED locator

\* SetBestBlockIndex and Commit, once all batches are written.
RewindCommit(target) ==
    /\ customTip = TipKey(target)
    /\ best' = target
    /\ locator' = target
    /\ UNCHANGED <<synced, customTip, records>>

\* Commit writes no locator before the first block.
CommitBest(b) == best' = b /\ locator' = IF b = Null THEN locator ELSE b

-----------------------------------------------------------------------------
(* The sync thread.  It acts while m_synced is not set; the handlers then leave the    *)
(* index alone. *)

StartRewind == node = "up" /\ sync = "loop" /\ NextSyncBlock(pindex) # Null /\ Parent[NextSyncBlock(pindex)] # pindex

\* Caught up: the handlers take over.
SyncCatchesUp ==
    /\ node = "up" /\ sync = "loop"
    /\ NextSyncBlock(pindex) = Null
    /\ CommitBest(pindex)
    /\ synced' = TRUE
    /\ sync' = "done"
    /\ position' = IF pindex = tip THEN pindex ELSE Null
    /\ UNCHANGED <<node, chainVars, queue, pindex, handler, suppressed, message, customTip, records, kills>>

SyncAdvance ==
    /\ node = "up" /\ sync = "loop"
    /\ NextSyncBlock(pindex) # Null /\ Parent[NextSyncBlock(pindex)] = pindex
    /\ pindex' = NextSyncBlock(pindex)
    /\ sync' = "append"
    /\ UNCHANGED <<node, chainVars, queue, baseVars, handler, streamVars, dbVars, kills>>

\* Rewind asserts that it starts at the best block.
SyncRewind ==
    /\ StartRewind /\ pindex = best
    /\ sync' = "rewind"
    /\ UNCHANGED <<node, chainVars, queue, baseVars, pindex, handler, streamVars, dbVars, kills>>

SyncRewindBatch ==
    /\ node \in {"up", "stopping"} /\ sync = "rewind"
    /\ RewindBatch(Parent[NextSyncBlock(pindex)])
    /\ UNCHANGED <<node, chainVars, queue, baseVars, syncVars, handler, streamVars, kills>>

SyncRewindCommit ==
    /\ node \in {"up", "stopping"} /\ sync = "rewind"
    /\ RewindCommit(Parent[NextSyncBlock(pindex)])
    /\ pindex' = NextSyncBlock(pindex)
    /\ sync' = "append"
    /\ UNCHANGED <<node, chainVars, queue, handler, streamVars, kills>>

\* When the locator was not written for a while.
SyncWriteLocator ==
    /\ node \in {"up", "stopping"} /\ sync = "append"
    /\ best # Parent[pindex]
    /\ CommitBest(Parent[pindex])
    /\ UNCHANGED <<node, chainVars, queue, synced, syncVars, handler, streamVars, customTip, records, kills>>

SyncAppend ==
    /\ node \in {"up", "stopping"} /\ sync = "append"
    /\ CustomAppend(pindex)
    /\ sync' = "loop"
    /\ UNCHANGED <<node, chainVars, queue, baseVars, pindex, handler, streamVars, locator, kills>>

\* Mutant: the thread is left and the node goes on.
SyncAppendFails_NotFatal ==
    /\ node \in {"up", "stopping"} /\ sync = "append"
    /\ CustomAppendFails(pindex)
    /\ sync' = "done"
    /\ UNCHANGED <<node, chainVars, queue, baseVars, pindex, handler, streamVars, dbVars, kills>>

\* FatalErrorf stops the node, and the thread is left.
SyncAppendFails ==
    /\ node \in {"up", "stopping"} /\ sync = "append"
    /\ CustomAppendFails(pindex)
    /\ node' = "stopping"
    /\ sync' = "done"
    /\ UNCHANGED <<chainVars, queue, baseVars, pindex, handler, streamVars, dbVars, kills>>

SyncInterrupted ==
    /\ node = "stopping" /\ sync = "loop"
    /\ CommitBest(pindex)
    /\ sync' = "done"
    /\ UNCHANGED <<node, chainVars, queue, synced, pindex, handler, streamVars, customTip, records, kills>>

-----------------------------------------------------------------------------
(* The handlers of the notifications. *)

Idle == [step |-> "idle", event |-> Null, delta |-> Null]

Running == node \in {"up", "stopping"}

\* BuildBlockEvent: the event that tells subscribers of a block is built from its record.
Delta(type, b) ==
    IF b \in DOMAIN records THEN [type |-> type, block |-> b, payouts |-> records[b]] ELSE Null

\* The index is where the notification expects it.
DirectTransition(e) ==
    synced /\ best = IF e.type = "connected" THEN Parent[e.block] ELSE e.block

\* Mutant: a change that the index does not follow step by step is told.
Gap_Never(e) == suppressed

\* A change that is not told leaves a gap in the stream.
Gap(e) == suppressed \/ ~DirectTransition(e)

\* The event of a disconnect is built while the record is still there.
HandlerBegin ==
    /\ Running /\ handler = Idle /\ queue # <<>>
    /\ Head(queue).type # "flushed"
    /\ queue' = Tail(queue)
    /\ suppressed' = Gap(Head(queue))
    /\ handler' = [step |-> "base", event |-> Head(queue),
                   delta |-> IF ~Gap(Head(queue)) /\ Head(queue).type = "disconnected" /\ Rewarded(Head(queue).block)
                             THEN Delta("disconnected", Head(queue).block) ELSE Null]
    /\ message' = Null
    /\ position' = IF Gap(Head(queue)) THEN Null ELSE position
    /\ UNCHANGED <<node, chainVars, baseVars, syncVars, dbVars, kills>>

ChainStateFlushed ==
    /\ Running /\ handler = Idle /\ queue # <<>>
    /\ Head(queue).type = "flushed"
    /\ queue' = Tail(queue)
    /\ locator' = IF synced /\ Head(queue).block \in Path[best] THEN best ELSE locator
    /\ UNCHANGED <<node, chainVars, baseVars, syncVars, handler, streamVars, customTip, records, kills>>

Target(e) == Parent[e.block]

\* The notification concerns the chain that the index is on.
Concerns(e) ==
    synced /\ (IF e.type = "connected" THEN Parent[e.block] ELSE e.block) \in Path[best]

HandlerStep(step) == handler' = [handler EXCEPT !.step = step]

AtStep(step) == Running /\ handler.step = step

AfterRewind(e) == IF e.type = "connected" THEN "append" ELSE "end"

HandlerBase ==
    /\ AtStep("base")
    /\ HandlerStep(IF ~Concerns(handler.event) THEN "end"
                   ELSE IF best = Target(handler.event) THEN "append" ELSE "rewind")
    /\ UNCHANGED <<node, chainVars, queue, baseVars, syncVars, streamVars, dbVars, kills>>

HandlerRewindBatch ==
    /\ AtStep("rewind")
    /\ RewindBatch(Target(handler.event))
    /\ UNCHANGED <<node, chainVars, queue, baseVars, syncVars, handler, streamVars, kills>>

HandlerRewindCommit ==
    /\ AtStep("rewind")
    /\ RewindCommit(Target(handler.event))
    /\ HandlerStep(AfterRewind(handler.event))
    /\ UNCHANGED <<node, chainVars, queue, syncVars, streamVars, kills>>

HandlerAppend ==
    /\ AtStep("append")
    /\ CustomAppend(handler.event.block)
    /\ best' = handler.event.block
    /\ HandlerStep("end")
    /\ UNCHANGED <<node, chainVars, queue, synced, syncVars, streamVars, locator, kills>>

HandlerAppendFails ==
    /\ AtStep("append")
    /\ CustomAppendFails(handler.event.block)
    /\ node' = "stopping"
    /\ HandlerStep("end")
    /\ UNCHANGED <<chainVars, queue, baseVars, syncVars, streamVars, dbVars, kills>>

\* Where the index is after a notification that it has followed.
Reached(e) == IF e.type = "connected" THEN e.block ELSE Parent[e.block]

Followed(e) == synced /\ best = Reached(e)

Published(e) ==
    IF e.type = "disconnected" THEN handler.delta
    ELSE IF Rewarded(e.block) THEN Delta("connected", e.block) ELSE Null

\* A suppressed stream goes on from where the index is at the active tip.
HandlerEnd ==
    /\ AtStep("end")
    /\ IF ~Followed(handler.event) THEN UNCHANGED streamVars
       ELSE IF suppressed THEN /\ suppressed' = (best # tip)
                               /\ position' = IF best = tip THEN best ELSE position
                               /\ UNCHANGED message
       ELSE /\ message' = Published(handler.event)
            /\ position' = best
            /\ UNCHANGED suppressed
    /\ handler' = Idle
    /\ UNCHANGED <<node, chainVars, queue, baseVars, syncVars, dbVars, kills>>

-----------------------------------------------------------------------------
(* The process. *)

\* What a process loses when it ends.
Ended ==
    /\ node' = "down"
    /\ tip' = flushed
    /\ known' = written
    /\ queue' = <<>>
    /\ best' = Null /\ synced' = FALSE
    /\ pindex' = Null /\ sync' = "done"
    /\ handler' = Idle
    /\ suppressed' = FALSE /\ message' = Null /\ position' = Null
    /\ UNCHANGED <<flushed, written, invalidations, dbVars>>

Kill ==
    /\ node \in {"unwinding", "up", "stopping"}
    /\ kills < MaxKills
    /\ kills' = kills + 1
    /\ Ended

\* The assertion at the start of Rewind.
AssertionFails == StartRewind /\ pindex # best /\ Ended /\ UNCHANGED kills

Interrupt ==
    /\ node = "up"
    /\ kills < MaxKills
    /\ kills' = kills + 1
    /\ node' = "stopping"
    /\ UNCHANGED <<chainVars, queue, baseVars, syncVars, handler, streamVars, dbVars>>

\* The chain state is flushed, the notifications are handled and the thread is joined.
Shutdown ==
    /\ node = "stopping"
    /\ flushed = tip /\ written = known
    /\ queue = <<>> /\ handler = Idle /\ sync = "done"
    /\ Ended
    /\ UNCHANGED kills

\* A locator of a block that is not in the block index is replaced by the active tip.
StartBlock == IF locator = Null \/ locator \in known THEN locator ELSE tip

CustomTipAllowed ==
    IF customTip = Null THEN TipKey(StartBlock) = Null
    ELSE customTip \in known /\ (StartBlock # Null => StartBlock \in Path[customTip])

\* BaseIndex::Init and the checks of CustomInit.
InitIndex ==
    /\ node = "down"
    /\ best' = StartBlock
    /\ node' = IF CustomTipAllowed THEN "unwinding" ELSE "refused"
    /\ UNCHANGED <<chainVars, queue, synced, syncVars, handler, streamVars, dbVars, kills>>

InitRewindBatch ==
    /\ node = "unwinding"
    /\ RewindBatch(best)
    /\ UNCHANGED <<node, chainVars, queue, baseVars, syncVars, handler, streamVars, kills>>

\* An index that is at the active tip needs no sync thread.
StartIndex ==
    /\ node = "unwinding"
    /\ customTip = TipKey(best)
    /\ synced' = (best = tip)
    /\ pindex' = best
    /\ sync' = IF best = tip THEN "done" ELSE "loop"
    /\ position' = IF best = tip THEN best ELSE Null
    /\ node' = "up"
    /\ UNCHANGED <<chainVars, queue, best, handler, suppressed, message, dbVars, kills>>

\* The operator does what the refusal asks for: everything is built again.
Reindex ==
    /\ node = "refused"
    /\ node' = "down"
    /\ tip' = Genesis /\ flushed' = Genesis
    /\ known' = {Genesis} /\ written' = {Genesis}
    /\ best' = Null
    /\ locator' = Null /\ customTip' = Null /\ records' = [b \in {} |-> TRUE]
    /\ UNCHANGED <<queue, synced, syncVars, handler, streamVars, kills, invalidations>>

\* A new index on a node whose chain is on disk.
Init ==
    /\ node = "down"
    /\ tip \in Blocks
    /\ flushed = tip
    /\ known = Path[tip]
    /\ written = known
    /\ queue = <<>>
    /\ best = Null /\ synced = FALSE
    /\ pindex = Null /\ sync = "done"
    /\ handler = Idle
    /\ suppressed = FALSE /\ message = Null /\ position = Null
    /\ locator = Null /\ customTip = Null /\ records = [b \in {} |-> TRUE]
    /\ kills = 0 /\ invalidations = 0

Validation == (\E b \in Blocks : ActivateBestChainStep(b)) \/ InvalidateBlock \/ WriteBlockIndexDB \/ FlushStateToDisk

ThreadSync ==
    \/ SyncCatchesUp \/ SyncAdvance
    \/ SyncRewind \/ SyncRewindBatch \/ SyncRewindCommit \/ AssertionFails
    \/ SyncWriteLocator \/ SyncAppend \/ SyncAppendFails \/ SyncInterrupted

Handler ==
    \/ HandlerBegin \/ ChainStateFlushed
    \/ HandlerBase \/ HandlerRewindBatch \/ HandlerRewindCommit
    \/ HandlerAppend \/ HandlerAppendFails \/ HandlerEnd

Startup == InitIndex \/ InitRewindBatch \/ StartIndex \/ Reindex

Next == Validation \/ ThreadSync \/ Handler \/ Startup \/ Shutdown \/ Kill \/ Interrupt

Spec == Init /\ [][Next]_vars

(* The threads of a process go on, a node that is asked to stop does, and it is started *)
(* again.  Nothing is assumed of blocks, of periodic flushes or of the locator timer. *)
Fairness ==
    /\ WF_vars(SyncCatchesUp \/ SyncAdvance \/ SyncRewind \/ SyncRewindBatch \/ SyncRewindCommit \/ AssertionFails)
    /\ WF_vars(SyncAppend \/ SyncAppendFails \/ SyncInterrupted)
    /\ WF_vars(Handler)
    /\ WF_vars(Startup)
    /\ WF_vars(node = "stopping" /\ FlushStateToDisk)
    /\ WF_vars(Shutdown)

FairSpec == Spec /\ Fairness

-----------------------------------------------------------------------------
(* Properties. *)

\* The genesis block is never connected or disconnected.
Events ==
    [type : {"flushed"}, block : Blocks] \cup [type : {"connected", "disconnected"}, block : Blocks \ {Genesis}]

Deltas == [type : {"connected", "disconnected"}, block : Blocks, payouts : BOOLEAN]

\* The handlers follow a synced index, so its best block is never null (BaseIndex::BlockConnected
\* and ChainStateFlushed use it), and the tip on disk is in the block index on disk.
TypeOK ==
    /\ node \in {"down", "unwinding", "up", "stopping", "refused"}
    /\ tip \in known /\ flushed \in written
    /\ known \subseteq Blocks /\ written \subseteq Blocks
    /\ queue \in Seq(Events)
    /\ best \in Blocks \cup {Null} /\ synced \in BOOLEAN
    /\ synced => best # Null
    /\ pindex \in Blocks \cup {Null} /\ sync \in {"loop", "append", "rewind", "done"}
    /\ handler \in [step : {"idle", "base", "rewind", "append", "end"},
                   event : Events \cup {Null}, delta : Deltas \cup {Null}]
    /\ suppressed \in BOOLEAN /\ message \in Deltas \cup {Null}
    /\ {position, locator, customTip} \subseteq Blocks \cup {Null}
    /\ DOMAIN records \subseteq Blocks /\ \A b \in DOMAIN records : records[b] \in BOOLEAN

\* The records of the database are those of the custom tip and its rewarded ancestors, at every
\* moment at which the process may be killed: each batch of CustomAppend, CustomRewind and
\* CustomInit moves both.
RecordsFollowCustomTip ==
    DOMAIN records = {b \in Path[customTip] : Rewarded(b)}

\* CustomRewind finds the custom tip at the block it is asked to rewind, whichever of the
\* two threads calls it ("shadowindex custom tip does not match rewind source" does not happen).
RewindSourceMatches ==
    /\ sync = "loop" => customTip = TipKey(pindex)
    /\ synced /\ handler.step # "rewind" => customTip = TipKey(best)

\* Once the notifications are handled, a synced index of a running node has the active tip, as
\* BlockUntilSyncedToCurrentChain tells the RPCs.
SettledIndexHasTip ==
    node = "up" /\ synced /\ queue = <<>> /\ handler = Idle => tip \in Path[best]

\* A subscriber that reads the index by RPC when it is at the active tip and then follows the
\* events finds each connected block on top of its own and each disconnected block to be its own,
\* or the stream is suppressed until the index is at the active tip again.
StreamIsContiguous ==
    [][message' # message /\ message' # Null /\ position # Null =>
        position = IF message'.type = "connected" THEN Parent[message'.block] ELSE message'.block]_vars

\* Once the active tip rests the index comes to it, through kills, failed appends, failed
\* assertions and reindexing: no notification is lost that the sync thread does not make up for.
IndexCatchesUp ==
    <>[][tip' = tip]_vars => <>[](node = "up" /\ synced /\ tip \in Path[best])

-----------------------------------------------------------------------------
(* What the code's assertions, comments and documentation say of it. *)

\* The first assertion of BaseIndex::Rewind, when the sync thread calls it.
RewindStartsAtBest == StartRewind => pindex = best

=============================================================================
