-------------------------- MODULE ShadowIndexProofs --------------------------
(***************************************************************************)
(* For every block tree, reward start, queue limit and number of kills:    *)
(* the index database is coherent whenever the process may end, rewinds    *)
(* start where the database is, the event stream is contiguous, and an     *)
(* index that has handled its notifications has the tip.                   *)
(***************************************************************************)
EXTENDS ShadowIndex, TLAPS, WellFoundedInduction

-----------------------------------------------------------------------------
(* The block tree. *)

\* A non-empty set of natural numbers has a least element.
LEMMA LeastNat ==
    ASSUME NEW T, T \subseteq Nat, T # {}
    PROVE  \E n \in T : \A m \in T : n <= m
<1>. DEFINE R == OpToRel(<, Nat)
<1>1. IsWellFoundedOn(R, Nat)
  BY NatLessThanWellFounded, Zenon
<1>2. \E x \in T : \A y \in T : ~(<<y, x>> \in R)
  <2>. HIDE DEF R
  <2>. QED  BY <1>1, WFMin, Zenon
<1>3. PICK x \in T : \A y \in T : ~(<<y, x>> \in R)
  BY <1>2, Zenon
<1>4. ASSUME NEW y \in T PROVE x <= y
  <2>1. x \in Nat /\ y \in Nat
    BY Zenon
  <2>2. ~(y < x)
    <3>1. SUFFICES ASSUME y < x PROVE FALSE
      BY Zenon
    <3>2. <<y, x>> \in R
      BY <2>1, <3>1, Zenon DEF OpToRel
    <3>. QED  BY <1>3, <3>2, Zenon
  <2>. QED  BY <2>1, <2>2
<1>. QED  BY <1>4, Zenon

\* A set that holds the genesis block and every child of its blocks holds all blocks.
LEMMA TreeInduction ==
    ASSUME NEW S, Genesis \in S, \A b \in Blocks \ {Genesis} : Parent[b] \in S => b \in S
    PROVE  Blocks \subseteq S
<1>. DEFINE T == {Height[b] : b \in Blocks \ S}
<1>1. SUFFICES ASSUME NEW c \in Blocks, c \notin S PROVE FALSE
  BY Zenon
<1>2. T \subseteq Nat /\ T # {}
  BY <1>1, TreeAssumption
<1>3. PICK n \in T : \A m \in T : n <= m
  <2>. HIDE DEF T
  <2>. QED  BY <1>2, LeastNat, Zenon
<1>4. PICK b \in Blocks \ S : n = Height[b]
  BY <1>3, Zenon
<1>5. b # Genesis /\ Parent[b] \in Blocks \ S
  BY <1>4, TreeAssumption
<1>6. n <= Height[Parent[b]]
  BY <1>3, <1>5
<1>. QED  BY <1>4, <1>5, <1>6, TreeAssumption

\* The path of a block holds blocks that are not higher.
LEMMA PathBelow ==
    \A b \in Blocks : b \in Path[b] /\ \A a \in Path[b] : a \in Blocks /\ Height[a] <= Height[b]
<1>. DEFINE S == {b \in Blocks : \A a \in Path[b] : Height[a] <= Height[b]}
<1>1. Genesis \in S
  BY TreeAssumption
<1>2. ASSUME NEW b \in Blocks \ {Genesis}, Parent[b] \in S PROVE b \in S
  <2>1. Parent[b] \in Blocks /\ Height[b] = Height[Parent[b]] + 1 /\ Path[b] = Path[Parent[b]] \cup {b}
    BY TreeAssumption, Zenon
  <2>2. ASSUME NEW a \in Path[b] PROVE Height[a] <= Height[b]
    BY <1>2, <2>1, TreeAssumption
  <2>. QED  BY <2>2, Zenon
<1>3. Blocks \subseteq S
  <2>. HIDE DEF S
  <2>. QED  BY <1>1, <1>2, TreeInduction, Zenon
<1>4. ASSUME NEW b \in Blocks PROVE b \in Path[b] /\ Path[b] \subseteq Blocks
  BY TreeAssumption, Zenon
<1>. QED  BY <1>3, <1>4, Zenon

\* A parent is lower than its child.
LEMMA ParentBelow ==
    \A b \in Blocks : b \notin Path[Parent[b]] /\ Path[Parent[b]] = Path[b] \ {b}
<1>1. ASSUME NEW b \in Blocks PROVE b \notin Path[Parent[b]]
  <2>1. CASE b = Genesis
    BY <2>1, TreeAssumption, Zenon
  <2>2. CASE b # Genesis
    <3>1. Parent[b] \in Blocks /\ ~(Height[b] <= Height[Parent[b]])
      BY <2>2, TreeAssumption
    <3>. QED  BY <3>1, PathBelow, Zenon
  <2>. QED  BY <2>1, <2>2, Zenon
<1>2. ASSUME NEW b \in Blocks PROVE Path[b] = Path[Parent[b]] \cup {b}
  BY TreeAssumption, Zenon
<1>. QED  BY <1>1, <1>2, Zenon

\* The path of an ancestor is part of the path.
LEMMA PathTransitive ==
    \A b \in Blocks : \A a \in Path[b] : Path[a] \subseteq Path[b]
<1>. DEFINE S == {b \in Blocks : \A a \in Path[b] : Path[a] \subseteq Path[b]}
<1>1. Genesis \in S
  BY TreeAssumption
<1>2. ASSUME NEW b \in Blocks \ {Genesis}, Parent[b] \in S PROVE b \in S
  BY <1>2, TreeAssumption
<1>3. Blocks \subseteq S
  <2>. HIDE DEF S
  <2>. QED  BY <1>1, <1>2, TreeInduction, Zenon
<1>. QED  BY <1>3, Zenon

\* Every path begins at the genesis block.
LEMMA GenesisFirst ==
    \A b \in Blocks : Genesis \in Path[b]
<1>. DEFINE S == {b \in Blocks : Genesis \in Path[b]}
<1>1. Genesis \in S
  BY TreeAssumption
<1>2. ASSUME NEW b \in Blocks \ {Genesis}, Parent[b] \in S PROVE b \in S
  BY <1>2, TreeAssumption
<1>3. Blocks \subseteq S
  <2>. HIDE DEF S
  <2>. QED  BY <1>1, <1>2, TreeInduction, Zenon
<1>. QED  BY <1>3, Zenon

\* A block of a path that is not its last has a child on it.
LEMMA ChildOnPath ==
    \A b \in Blocks : \A a \in Path[b] \ {b} : \E c \in Path[b] : Parent[c] = a
<1>. DEFINE S == {b \in Blocks : \A a \in Path[b] \ {b} : \E c \in Path[b] : Parent[c] = a}
<1>1. Genesis \in S
  BY TreeAssumption
<1>2. ASSUME NEW b \in Blocks \ {Genesis}, Parent[b] \in S PROVE b \in S
  BY <1>2, TreeAssumption
<1>3. Blocks \subseteq S
  <2>. HIDE DEF S
  <2>. QED  BY <1>1, <1>2, TreeInduction, Zenon
<1>. QED  BY <1>3, Zenon

\* A path has a block of every height up to its last.
LEMMA BlockAtHeight ==
    \A b \in Blocks : \A h \in 0..Height[b] : \E a \in Path[b] : Height[a] = h
<1>. DEFINE S == {b \in Blocks : \A h \in 0..Height[b] : \E a \in Path[b] : Height[a] = h}
<1>1. Genesis \in S
  BY TreeAssumption
<1>2. ASSUME NEW b \in Blocks \ {Genesis}, Parent[b] \in S PROVE b \in S
  <2>1. ASSUME NEW h \in 0..Height[b] PROVE \E a \in Path[b] : Height[a] = h
    <3>1. CASE h = Height[b]
      BY <3>1, PathBelow, Zenon
    <3>2. CASE h # Height[b]
      <4>1. h \in 0..Height[Parent[b]]
        BY <3>2, <1>2, TreeAssumption
      <4>. QED  BY <4>1, <1>2, TreeAssumption
    <3>. QED  BY <3>1, <3>2, Zenon
  <2>. QED  BY <2>1, Zenon
<1>3. Blocks \subseteq S
  <2>. HIDE DEF S
  <2>. QED  BY <1>1, <1>2, TreeInduction, Zenon
<1>. QED  BY <1>3, Zenon

\* Two paths have a last common block.
LEMMA LastCommon ==
    ASSUME NEW t \in Blocks
    PROVE  \A b \in Blocks : \E a \in Path[b] \cap Path[t] : Path[b] \cap Path[t] \subseteq Path[a]
<1>. DEFINE S == {b \in Blocks : \E a \in Path[b] \cap Path[t] : Path[b] \cap Path[t] \subseteq Path[a]}
<1>1. Genesis \in S
  BY TreeAssumption, GenesisFirst, Zenon
<1>2. ASSUME NEW b \in Blocks \ {Genesis}, Parent[b] \in S PROVE b \in S
  <2>1. CASE b \in Path[t]
    BY <2>1, PathBelow, Zenon
  <2>2. CASE b \notin Path[t]
    <3>1. Path[b] \cap Path[t] = Path[Parent[b]] \cap Path[t]
      BY <2>2, TreeAssumption
    <3>. QED  BY <3>1, <1>2, Zenon
  <2>. QED  BY <2>1, <2>2, Zenon
<1>3. Blocks \subseteq S
  <2>. HIDE DEF S
  <2>. QED  BY <1>1, <1>2, TreeInduction, Zenon
<1>. QED  BY <1>3, Zenon

-----------------------------------------------------------------------------
(* The inductive invariant. *)

\* The custom tip is at the target of a rewind or above it.
Above(target) == TipKey(target) \in Path[customTip] \cup {Null}

\* The block index, in memory and on disk, has the ancestors of its blocks.
ChainInv ==
    /\ tip \in known /\ flushed \in written /\ queue \in Seq(Events)
    /\ known \subseteq Blocks /\ written \subseteq known
    /\ \A b \in known : Path[b] \subseteq known
    /\ \A b \in written : Path[b] \subseteq written

DatabaseInv ==
    /\ customTip \in Blocks \cup {Null}
    /\ customTip = TipKey(customTip)
    /\ RecordsFollowCustomTip
    /\ \A b \in DOMAIN records : records[b] \in BOOLEAN

\* No thread acts on the index of a node that is not running.
ProcessInv ==
    /\ node \notin {"up", "stopping"} => ~synced /\ sync = "done" /\ handler = Idle
    /\ node = "unwinding" => Above(best)

SyncInv ==
    /\ sync # "done" => ~synced
    /\ sync = "loop" => customTip = TipKey(pindex)
    /\ sync = "append" => pindex # Null /\ customTip = TipKey(Parent[pindex])
    /\ sync = "rewind" => pindex # Null /\ NextSyncBlock(pindex) # Null /\ Above(Parent[NextSyncBlock(pindex)])

\* Where the index is before a notification that it can follow.
Before(e) == IF e.type = "connected" THEN Parent[e.block] ELSE e.block

HandlerInv ==
    /\ handler.step # "idle" => handler.event \in Events /\ handler.event.type # "flushed"
    /\ handler.step \in {"rewind", "append"} => synced
    /\ handler.step = "rewind" => Above(Target(handler.event))
    /\ handler.step = "append" => best = Target(handler.event) /\ handler.event.type = "connected"
    /\ synced /\ handler.step # "rewind" => customTip = TipKey(best)

StreamInv ==
    /\ handler.delta # Null =>
        /\ handler.step # "idle" /\ handler.event.type = "disconnected"
        /\ handler.delta.type = "disconnected" /\ handler.delta.block = handler.event.block
    /\ handler.step # "idle" /\ ~synced => suppressed
    /\ position # Null /\ ~suppressed =>
        /\ synced
        /\ handler.step # "end" => position = best
        /\ handler.step \notin {"idle", "end"} => best = Before(handler.event)
        /\ handler.step = "end" =>
            position = IF best = Reached(handler.event) THEN Before(handler.event) ELSE best

IInv == TypeOK /\ ChainInv /\ DatabaseInv /\ ProcessInv /\ SyncInv /\ HandlerInv /\ StreamInv

-----------------------------------------------------------------------------
(* Operators. *)

\* The descendants of a rewarded block are rewarded.
LEMMA RewardedAbove ==
    ASSUME NEW b \in Blocks, NEW a \in Path[b], Rewarded(a)
    PROVE  Rewarded(b)
<1>1. a \in Blocks /\ Height[a] <= Height[b]
  BY PathBelow, Zenon
<1>. QED  BY <1>1, TreeAssumption DEF Rewarded

\* The rewarded blocks of a path are those of its custom tip.
LEMMA RewardedPath ==
    ASSUME NEW b \in Blocks \cup {Null}
    PROVE  {a \in Path[TipKey(b)] : Rewarded(a)} = {a \in Path[b] : Rewarded(a)}
<1>1. CASE b \in Blocks /\ ~Rewarded(b)
  <2>1. {a \in Path[b] : Rewarded(a)} = {}
    BY <1>1, RewardedAbove, Zenon
  <2>. QED  BY <1>1, <2>1, TreeAssumption, Zenon DEF TipKey
<1>2. CASE b = Null \/ Rewarded(b)
  BY <1>2, Zenon DEF TipKey
<1>. QED  BY <1>1, <1>2, Zenon

\* A block that the sync thread goes on to is the child of the thread's block or of an ancestor.
LEMMA NextIsChild ==
    ASSUME tip \in Blocks, NEW b \in Blocks \cup {Null}, NextSyncBlock(b) # Null
    PROVE  /\ NextSyncBlock(b) \in Blocks
           /\ IF b = Null THEN Parent[NextSyncBlock(b)] = Null ELSE Parent[NextSyncBlock(b)] \in Path[b]
<1>1. ASSUME NEW a \in Blocks, NextOf(a) # Null PROVE NextOf(a) \in Blocks /\ Parent[NextOf(a)] = a
  <2>1. a \in Path[tip] \ {tip}
    BY <1>1, Zenon DEF NextOf
  <2>2. \E c \in Path[tip] : Parent[c] = a
    BY <2>1, ChildOnPath, Zenon
  <2>. QED  BY <2>1, <2>2, PathBelow, Zenon DEF NextOf
<1>2. CASE b = Null
  BY <1>2, TreeAssumption, Zenon DEF NextSyncBlock
<1>3. CASE b \in Blocks /\ NextOf(b) # Null
  BY <1>3, <1>1, PathBelow, TreeAssumption DEF NextSyncBlock
<1>4. CASE b \in Blocks /\ NextOf(b) = Null
  <2>1. Fork(b) \in Path[b]
    BY <1>4, LastCommon, Zenon DEF Fork
  <2>2. Fork(b) \in Blocks
    BY <1>4, <2>1, PathBelow, Zenon
  <2>3. NextSyncBlock(b) = NextOf(Fork(b)) /\ b # Null
    BY <1>4, TreeAssumption, Zenon DEF NextSyncBlock
  <2>. QED  BY <1>1, <2>1, <2>2, <2>3, Zenon
<1>. QED  BY <1>2, <1>3, <1>4, Zenon

\* An index at b is above every ancestor of b.
LEMMA AboveAncestor ==
    ASSUME NEW b \in Blocks, NEW a \in Path[b], customTip = TipKey(b)
    PROVE  Above(a)
<1>1. a \in Blocks
  BY PathBelow, Zenon
<1>. QED  BY <1>1, RewardedAbove, Zenon DEF Above, TipKey

\* The notifications of a step of the active chain concern no genesis block.
LEMMA NotificationsAreEvents ==
    ASSUME tip \in Blocks, NEW b \in Blocks
    PROVE  Notifications(b) \in Seq(Events)
<1>. DEFINE fork == Height[Fork(b)]
            down == [i \in 1..(Height[tip] - fork) |-> Disconnected(GetAncestor(tip, Height[tip] + 1 - i))]
            up == [i \in 1..(Height[b] - fork) |-> Connected(GetAncestor(b, fork + i))]
<1>1. Fork(b) \in Path[b] /\ Fork(b) \in Path[tip]
  BY LastCommon, Zenon DEF Fork
<1>2. /\ fork \in Nat /\ Height[tip] \in Nat /\ Height[b] \in Nat
      /\ fork <= Height[tip] /\ fork <= Height[b]
  BY <1>1, PathBelow, TreeAssumption, Zenon
<1>3. ASSUME NEW c \in Blocks, NEW h \in 1..Height[c]
      PROVE  GetAncestor(c, h) \in Blocks \ {Genesis}
  <2>1. h \in 0..Height[c] /\ h # 0
    BY TreeAssumption
  <2>2. GetAncestor(c, h) \in Path[c] /\ Height[GetAncestor(c, h)] = h
    BY <2>1, BlockAtHeight, Zenon DEF GetAncestor
  <2>. QED  BY <2>1, <2>2, PathBelow, TreeAssumption, Zenon
<1>. HIDE DEF fork
<1>4. ASSUME NEW i \in 1..(Height[tip] - fork)
      PROVE  Disconnected(GetAncestor(tip, Height[tip] + 1 - i)) \in Events
  <2>1. Height[tip] + 1 - i \in 1..Height[tip]
    BY <1>2
  <2>2. GetAncestor(tip, Height[tip] + 1 - i) \in Blocks \ {Genesis}
    BY <1>3, <2>1, Zenon
  <2>. QED  BY <2>2, Zenon DEF Events, Disconnected
<1>5. ASSUME NEW i \in 1..(Height[b] - fork)
      PROVE  Connected(GetAncestor(b, fork + i)) \in Events
  <2>1. fork + i \in 1..Height[b]
    BY <1>2
  <2>2. GetAncestor(b, fork + i) \in Blocks \ {Genesis}
    BY <1>3, <2>1, Zenon
  <2>. QED  BY <2>2, Zenon DEF Events, Connected
<1>6. down \in Seq(Events)
  <2>1. Height[tip] - fork \in Nat
    BY <1>2
  <2>. QED  BY <1>4, <2>1
<1>7. up \in Seq(Events)
  <2>1. Height[b] - fork \in Nat
    BY <1>2
  <2>. QED  BY <1>5, <2>1
<1>. HIDE DEF down, up
<1>8. down \o up \in Seq(Events)
  BY <1>6, <1>7
<1>. QED  BY <1>8, Zenon DEF Notifications, fork, down, up

\* An append moves the custom tip from the parent to the block.
LEMMA AppendKeeps ==
    ASSUME NEW b \in Blocks, DatabaseInv, customTip = TipKey(Parent[b]), CustomAppend(b)
    PROVE  DatabaseInv' /\ customTip' = TipKey(b)
<1>. DEFINE R(p) == {a \in Path[p] : Rewarded(a)}
<1>1. Parent[b] \in Blocks \cup {Null} /\ Path[b] = Path[Parent[b]] \cup {b} /\ b # Null
  BY TreeAssumption, Zenon
<1>2. DOMAIN records = R(Parent[b])
  BY <1>1, RewardedPath, Zenon DEF DatabaseInv, RecordsFollowCustomTip
<1>3. b \notin DOMAIN records
  BY <1>2, ParentBelow, Zenon
<1>4. CASE ~Rewarded(b)
  <2>1. UNCHANGED <<customTip, records>>
    BY <1>4, Zenon DEF CustomAppend, Indexed
  <2>2. TipKey(Parent[b]) = Null
    <3>1. Parent[b] # Null => Parent[b] \in Path[b]
      BY <1>1, PathBelow, Zenon
    <3>. QED  BY <1>1, <1>4, <3>1, RewardedAbove, Zenon DEF TipKey
  <2>. QED  BY <1>4, <2>1, <2>2, Zenon DEF DatabaseInv, RecordsFollowCustomTip, TipKey
<1>5. CASE Rewarded(b)
  <2>1. WriteRecord(b)
    BY <1>3, <1>5, Zenon DEF CustomAppend, Indexed
  <2>2. customTip' = b /\ TipKey(b) = b
    BY <1>1, <1>5, <2>1, Zenon DEF WriteRecord, TipKey
  <2>3. DOMAIN records' = DOMAIN records \cup {b}
    BY <2>1, Zenon DEF WriteRecord
  <2>4. R(b) = R(Parent[b]) \cup {b}
    BY <1>1, <1>5, Zenon
  <2>5. ASSUME NEW c \in DOMAIN records' PROVE records'[c] \in BOOLEAN
    <3>1. records'[c] = IF c = b THEN b \in Path[tip] ELSE records[c]
      BY <2>1, <2>3, Zenon DEF WriteRecord
    <3>2. CASE c = b
      <4>1. (b \in Path[tip]) \in BOOLEAN
        OBVIOUS
      <4>2. records'[c] = (b \in Path[tip])
        BY <3>1, <3>2, Zenon
      <4>. QED  BY <4>1, <4>2, Zenon
    <3>3. CASE c # b
      BY <2>3, <3>1, <3>3, Zenon DEF DatabaseInv
    <3>. QED  BY <3>2, <3>3, Zenon
  <2>. QED  BY <1>2, <2>2, <2>3, <2>4, <2>5, Zenon DEF DatabaseInv, RecordsFollowCustomTip
<1>. QED  BY <1>4, <1>5, Zenon

\* A batch of a rewind moves the custom tip to the parent, and not below the target.
LEMMA BatchKeeps ==
    ASSUME NEW t \in Blocks \cup {Null}, DatabaseInv, Above(t), RewindBatch(t)
    PROVE  DatabaseInv' /\ Above(t)' /\ locator' = locator
<1>. DEFINE p == Parent[customTip]
            R(q) == {a \in Path[q] : Rewarded(a)}
<1>1. customTip # Null
  BY TreeAssumption, Zenon DEF Above, RewindBatch
<1>2. customTip \in Blocks /\ Rewarded(customTip)
  BY <1>1, Zenon DEF DatabaseInv, TipKey
<1>3. p \in Blocks \cup {Null} /\ Path[customTip] = Path[p] \cup {customTip} /\ customTip \notin Path[p]
  BY <1>2, ParentBelow, TreeAssumption, Zenon
<1>4. customTip' = TipKey(p) /\ locator' = locator
  BY Zenon DEF RewindBatch
<1>. HIDE DEF p
<1>5. R(customTip') = R(p)
  BY <1>3, <1>4, RewardedPath, Zenon
<1>6. DOMAIN records' = R(customTip) \ {customTip}
  BY Zenon DEF RewindBatch, DatabaseInv, RecordsFollowCustomTip
<1>7. R(customTip) \ {customTip} = R(p)
  BY <1>3, Zenon
<1>8. DatabaseInv'
  <2>1. customTip' \in Blocks \cup {Null} /\ customTip' = TipKey(customTip')
    BY <1>3, <1>4, Zenon DEF TipKey
  <2>2. \A c \in DOMAIN records' : records'[c] \in BOOLEAN
    BY Zenon DEF RewindBatch, DatabaseInv
  <2>. QED  BY <1>5, <1>6, <1>7, <2>1, <2>2, Zenon DEF DatabaseInv, RecordsFollowCustomTip
<1>9. Above(t)'
  <2>1. CASE TipKey(t) = Null
    BY <2>1, Zenon DEF Above
  <2>2. CASE TipKey(t) # Null
    <3>1. TipKey(t) = t /\ Rewarded(t) /\ t \in Path[p]
      BY <1>3, <2>2, Zenon DEF TipKey, Above, RewindBatch
    <3>2. p \in Blocks
      BY <1>3, <3>1, TreeAssumption, Zenon
    <3>3. Rewarded(p)
      BY <3>1, <3>2, RewardedAbove, Zenon
    <3>. QED  BY <1>4, <3>1, <3>2, <3>3, Zenon DEF TipKey, Above
  <2>. QED  BY <2>1, <2>2, Zenon
<1>. QED  BY <1>4, <1>8, <1>9, Zenon

-----------------------------------------------------------------------------
(* The steps. *)

\* Validation changes the active chain and the queue; it does not while the sync thread rewinds.
LEMMA ValidationKeeps ==
    ASSUME IInv, Validation
    PROVE  IInv'
<1>1. /\ UNCHANGED <<node, best, synced, pindex, sync, handler, suppressed, message, position, locator, customTip, records>>
      /\ sync # "rewind"
  BY Zenon DEF Validation, ActivateBestChainStep, InvalidateBlock, WriteBlockIndexDB, FlushStateToDisk, Unlocked,
         baseVars, syncVars, streamVars, dbVars
<1>2. tip \in Blocks /\ tip \in known /\ queue \in Seq(Events)
  BY Zenon DEF IInv, ChainInv
<1>3. ChainInv'
  <2>1. ASSUME NEW b \in Blocks, ActivateBestChainStep(b) PROVE ChainInv'
    <3>1. queue' \in Seq(Events)
      BY <1>2, <2>1, NotificationsAreEvents DEF ActivateBestChainStep
    <3>2. known' = known \cup Path[b] /\ tip' = b /\ UNCHANGED <<flushed, written>>
      BY <2>1, Zenon DEF ActivateBestChainStep
    <3>. QED  BY <3>1, <3>2, PathBelow, PathTransitive, Zenon DEF IInv, ChainInv
  <2>2. CASE InvalidateBlock
    <3>1. Disconnected(tip) \in Events
      BY <1>2, <2>2, Zenon DEF InvalidateBlock, Disconnected, Events
    <3>2. queue' \in Seq(Events)
      BY <1>2, <2>2, <3>1 DEF InvalidateBlock
    <3>3. tip' \in Path[tip] /\ UNCHANGED <<known, flushed, written>>
      BY <1>2, <2>2, PathBelow, TreeAssumption DEF InvalidateBlock
    <3>. QED  BY <1>2, <3>2, <3>3, Zenon DEF IInv, ChainInv
  <2>3. CASE WriteBlockIndexDB
    BY <2>3, Zenon DEF IInv, ChainInv, WriteBlockIndexDB
  <2>4. CASE FlushStateToDisk
    <3>1. Flushed(tip) \in Events
      BY <1>2, Zenon DEF Flushed, Events
    <3>2. queue' \in Seq(Events)
      BY <1>2, <2>4, <3>1 DEF FlushStateToDisk
    <3>. QED  BY <2>4, <3>2, Zenon DEF IInv, ChainInv, FlushStateToDisk
  <2>. QED  BY <2>1, <2>2, <2>3, <2>4, Zenon DEF Validation
<1>4. TypeOK'
  BY <1>1, <1>3 DEF IInv, TypeOK, ChainInv
<1>5. DatabaseInv' /\ ProcessInv'
  BY <1>1, Zenon DEF IInv, DatabaseInv, RecordsFollowCustomTip, ProcessInv, Above
<1>6. SyncInv'
  BY <1>1, Zenon DEF IInv, SyncInv
<1>7. HandlerInv' /\ StreamInv'
  BY <1>1, Zenon DEF IInv, HandlerInv, Above, Target, StreamInv, Before, Reached
<1>. QED  BY <1>3, <1>4, <1>5, <1>6, <1>7, Zenon DEF IInv

\* The sync thread works while the index is not synced, so the handlers leave it alone.
LEMMA SyncKeeps ==
    ASSUME IInv, SyncCatchesUp \/ SyncAdvance \/ SyncRewind \/ SyncRewindBatch \/ SyncRewindCommit
                 \/ SyncWriteLocator \/ SyncAppend \/ SyncAppendFails \/ SyncInterrupted
    PROVE  IInv'
<1>1. /\ UNCHANGED <<chainVars, queue, handler, suppressed, message>>
      /\ node' \in {"up", "stopping"} /\ node \in {"up", "stopping"}
  BY Zenon
     DEF SyncCatchesUp, SyncAdvance, SyncRewind, SyncRewindBatch, SyncRewindCommit, SyncWriteLocator, SyncAppend,
         SyncAppendFails, SyncInterrupted, StartRewind, RewindBatch, CommitBest, baseVars, syncVars, streamVars, dbVars
<1>2. /\ tip \in Blocks /\ pindex \in Blocks \cup {Null} /\ locator \in Blocks \cup {Null} /\ best \in Blocks \cup {Null}
      /\ sync # "done" /\ ~synced /\ DatabaseInv
  BY Zenon DEF IInv, TypeOK, ChainInv, SyncInv, SyncCatchesUp, SyncAdvance, SyncRewind, SyncRewindBatch,
               SyncRewindCommit,
         SyncWriteLocator, SyncAppend, SyncAppendFails, SyncInterrupted, StartRewind
<1>3. ChainInv'
  BY <1>1, Zenon DEF IInv, ChainInv, chainVars
<1>4. \A b \in Blocks : Parent[b] \in Blocks \cup {Null}
  BY TreeAssumption, Zenon
<1>. DEFINE SyncTyped == /\ pindex \in Blocks \cup {Null} /\ sync \in {"loop", "append", "rewind", "done"}
                         /\ {position, locator} \subseteq Blocks \cup {Null}
                         /\ best \in Blocks \cup {Null} /\ synced \in BOOLEAN
                         /\ synced => best # Null
<1>5. ASSUME DatabaseInv', SyncTyped' PROVE TypeOK'
  <2>1. DOMAIN records' \subseteq Blocks
    BY <1>5, TreeAssumption, Zenon DEF DatabaseInv, RecordsFollowCustomTip
  <2>. QED  BY <1>1, <1>3, <1>5, <2>1 DEF IInv, TypeOK, ChainInv, DatabaseInv, chainVars
<1>6. ASSUME UNCHANGED synced PROVE ProcessInv' /\ HandlerInv'
  <2>1. handler.step \notin {"rewind", "append"}
    BY <1>2, Zenon DEF IInv, HandlerInv
  <2>2. ProcessInv'
    BY <1>1, Zenon DEF ProcessInv
  <2>. QED  BY <1>1, <1>2, <1>6, <2>1, <2>2, Zenon DEF IInv, HandlerInv
<1>7. ASSUME UNCHANGED <<synced, position>> PROVE StreamInv'
  BY <1>1, <1>2, <1>7, Zenon DEF IInv, StreamInv
<1>8. CASE SyncCatchesUp
  <2>1. pindex # Null
    BY <1>8, TreeAssumption, Zenon DEF SyncCatchesUp, NextSyncBlock
  <2>2. /\ best' = pindex /\ synced' /\ sync' = "done" /\ customTip = TipKey(pindex)
        /\ position' \in {pindex, Null} /\ UNCHANGED <<pindex, customTip, records>>
        /\ locator' = pindex
    BY <1>8, <2>1, Zenon DEF IInv, SyncInv, SyncCatchesUp, CommitBest
  <2>3. DatabaseInv' /\ SyncInv' /\ ProcessInv'
    BY <1>1, <1>2, <2>2, Zenon DEF DatabaseInv, RecordsFollowCustomTip, SyncInv, ProcessInv
  <2>4. SyncTyped'
    BY <1>2, <1>8, <2>1, <2>2, Zenon DEF SyncCatchesUp
  <2>5. HandlerInv'
    BY <1>1, <1>2, <2>2, Zenon DEF IInv, HandlerInv
  <2>6. StreamInv'
    BY <1>1, <1>2, <2>2, Zenon DEF IInv, StreamInv
  <2>. QED  BY <1>3, <1>5, <2>3, <2>4, <2>5, <2>6, Zenon DEF IInv
<1>9. CASE SyncAdvance
  <2>1. NextSyncBlock(pindex) \in Blocks /\ NextSyncBlock(pindex) # Null
    BY <1>2, <1>9, NextIsChild, TreeAssumption, Zenon DEF SyncAdvance
  <2>2. /\ pindex' = NextSyncBlock(pindex) /\ sync' = "append" /\ customTip = TipKey(Parent[pindex'])
        /\ UNCHANGED <<best, synced, position, locator, customTip, records>>
    BY <1>9, Zenon DEF IInv, SyncInv, SyncAdvance, baseVars, streamVars, dbVars
  <2>3. DatabaseInv' /\ SyncInv'
    BY <1>2, <2>1, <2>2, Zenon DEF DatabaseInv, RecordsFollowCustomTip, SyncInv
  <2>4. SyncTyped'
    BY <2>1, <2>2 DEF IInv, TypeOK
  <2>. QED  BY <1>3, <1>5, <1>6, <1>7, <2>2, <2>3, <2>4, Zenon DEF IInv
<1>10. CASE SyncRewind
  <2>1. NextSyncBlock(pindex) # Null /\ Parent[NextSyncBlock(pindex)] # pindex /\ customTip = TipKey(pindex)
    BY <1>10, Zenon DEF IInv, SyncInv, SyncRewind, StartRewind
  <2>2. pindex \in Blocks /\ Parent[NextSyncBlock(pindex)] \in Path[pindex]
    BY <1>2, <2>1, NextIsChild, Zenon
  <2>3. Above(Parent[NextSyncBlock(pindex)])
    BY <2>1, <2>2, AboveAncestor, Zenon
  <2>4. sync' = "rewind" /\ UNCHANGED <<pindex, best, synced, position, locator, customTip, records, tip>>
    BY <1>10, Zenon DEF SyncRewind, baseVars, streamVars, dbVars, chainVars
  <2>5. NextSyncBlock(pindex)' = NextSyncBlock(pindex)
    BY <2>4 DEF NextSyncBlock, NextOf, Fork
  <2>6. DatabaseInv'
    BY <1>2, <2>4, Zenon DEF DatabaseInv, RecordsFollowCustomTip
  <2>7. SyncInv'
    BY <1>2, <2>1, <2>2, <2>3, <2>4, <2>5, TreeAssumption, Zenon DEF SyncInv, Above
  <2>8. SyncTyped'
    BY <2>4, Zenon DEF IInv, TypeOK
  <2>. QED  BY <1>3, <1>5, <1>6, <1>7, <2>4, <2>6, <2>7, <2>8, Zenon DEF IInv
<1>11. CASE SyncRewindBatch
  <2>. DEFINE t == Parent[NextSyncBlock(pindex)]
  <2>1. sync = "rewind" /\ pindex # Null /\ NextSyncBlock(pindex) # Null /\ Above(t)
    BY <1>11, Zenon DEF IInv, SyncInv, SyncRewindBatch
  <2>2. t \in Blocks \cup {Null}
    BY <1>2, <1>4, <2>1, NextIsChild, Zenon
  <2>3. UNCHANGED <<pindex, sync, best, synced, position, tip>> /\ RewindBatch(t)
    BY <1>11, Zenon DEF SyncRewindBatch, baseVars, syncVars, streamVars, chainVars
  <2>4. t' = t /\ NextSyncBlock(pindex)' = NextSyncBlock(pindex)
    BY <2>3 DEF NextSyncBlock, NextOf, Fork
  <2>. HIDE DEF t
  <2>5. DatabaseInv' /\ Above(t)' /\ locator' = locator
    BY <1>2, <2>1, <2>2, <2>3, <2>4, BatchKeeps, Zenon
  <2>6. SyncInv'
    BY <1>2, <2>1, <2>3, <2>4, <2>5, Zenon DEF SyncInv, t
  <2>7. SyncTyped'
    BY <2>3, <2>5, Zenon DEF IInv, TypeOK
  <2>. QED  BY <1>3, <1>5, <1>6, <1>7, <2>3, <2>5, <2>6, <2>7, Zenon DEF IInv
<1>12. CASE SyncRewindCommit
  <2>. DEFINE n == NextSyncBlock(pindex)
  <2>1. sync = "rewind" /\ n # Null
    BY <1>12, Zenon DEF IInv, SyncInv, SyncRewindCommit
  <2>2. n \in Blocks /\ Parent[n] \in Blocks \cup {Null}
    BY <1>2, <1>4, <2>1, NextIsChild, Zenon
  <2>. HIDE DEF n
  <2>3. /\ customTip = TipKey(Parent[n]) /\ best' = Parent[n] /\ locator' = Parent[n]
        /\ pindex' = n /\ sync' = "append" /\ UNCHANGED <<synced, position, customTip, records>>
    BY <1>12, Zenon DEF SyncRewindCommit, RewindCommit, streamVars, n
  <2>4. DatabaseInv' /\ SyncInv'
    BY <1>2, <2>1, <2>2, <2>3, Zenon DEF DatabaseInv, RecordsFollowCustomTip, SyncInv
  <2>5. SyncTyped'
    BY <1>2, <2>2, <2>3 DEF IInv, TypeOK
  <2>. QED  BY <1>3, <1>5, <1>6, <1>7, <2>3, <2>4, <2>5, Zenon DEF IInv
<1>13. CASE SyncWriteLocator
  <2>1. /\ sync = "append" /\ pindex \in Blocks /\ best' = Parent[pindex] /\ locator' \in {locator, Parent[pindex]}
        /\ UNCHANGED <<synced, pindex, sync, position, customTip, records>>
    BY <1>2, <1>13, Zenon DEF IInv, SyncInv, SyncWriteLocator, CommitBest, syncVars, streamVars
  <2>2. DatabaseInv' /\ SyncInv'
    BY <1>2, <2>1, Zenon DEF IInv, DatabaseInv, RecordsFollowCustomTip, SyncInv
  <2>3. SyncTyped'
    BY <1>2, <1>4, <2>1 DEF IInv, TypeOK
  <2>. QED  BY <1>3, <1>5, <1>6, <1>7, <2>1, <2>2, <2>3, Zenon DEF IInv
<1>14. CASE SyncAppend
  <2>1. /\ pindex \in Blocks /\ customTip = TipKey(Parent[pindex]) /\ CustomAppend(pindex)
        /\ sync' = "loop" /\ UNCHANGED <<best, synced, pindex, position, locator>>
    BY <1>2, <1>14, Zenon DEF IInv, SyncInv, SyncAppend, baseVars, streamVars
  <2>2. DatabaseInv' /\ customTip' = TipKey(pindex)
    BY <1>2, <2>1, AppendKeeps, Zenon
  <2>3. SyncInv'
    BY <1>2, <2>1, <2>2, Zenon DEF SyncInv
  <2>4. SyncTyped'
    BY <2>1, Zenon DEF IInv, TypeOK
  <2>. QED  BY <1>3, <1>5, <1>6, <1>7, <2>1, <2>2, <2>3, <2>4, Zenon DEF IInv
<1>15. CASE SyncAppendFails \/ SyncInterrupted
  <2>1. /\ best' \in {best, pindex} /\ locator' \in {locator, pindex} /\ sync' = "done"
        /\ UNCHANGED <<synced, pindex, position, customTip, records>>
    BY <1>15, Zenon DEF SyncAppendFails, SyncInterrupted, CommitBest, baseVars, streamVars, dbVars
  <2>2. DatabaseInv' /\ SyncInv'
    BY <1>2, <2>1, Zenon DEF DatabaseInv, RecordsFollowCustomTip, SyncInv
  <2>3. SyncTyped'
    BY <1>2, <2>1, Zenon DEF IInv, TypeOK
  <2>. QED  BY <1>3, <1>5, <1>6, <1>7, <2>1, <2>2, <2>3, Zenon DEF IInv
<1>. QED  BY <1>8, <1>9, <1>10, <1>11, <1>12, <1>13, <1>14, <1>15, Zenon

\* What is left to show of a step of a handler.
LEMMA HandlerTypes ==
    ASSUME IInv, UNCHANGED <<chainVars, synced, pindex, sync>>, DatabaseInv',
           node' \in {"up", "stopping"},
           queue' \in Seq(Events), best' \in Blocks \cup {Null}, synced => best' # Null,
           handler' \in [step : {"idle", "base", "rewind", "append", "end"},
                         event : Events \cup {Null}, delta : Deltas \cup {Null}],
           suppressed' \in BOOLEAN, message' \in Deltas \cup {Null},
           position' \in Blocks \cup {Null}, locator' \in Blocks \cup {Null}
    PROVE  TypeOK' /\ ChainInv' /\ ProcessInv'
<1>1. DOMAIN records' \subseteq Blocks
  BY TreeAssumption, Zenon DEF DatabaseInv, RecordsFollowCustomTip
<1>2. ChainInv'
  BY Zenon DEF IInv, ChainInv, chainVars
<1>3. {position', locator', customTip'} \subseteq Blocks \cup {Null}
  BY Zenon DEF DatabaseInv
<1>4. TypeOK'
  BY <1>1, <1>2, <1>3, Zenon DEF IInv, TypeOK, ChainInv, DatabaseInv, chainVars
<1>. QED  BY <1>2, <1>4, Zenon DEF ProcessInv

\* The sync thread is not concerned by what the handlers do with an index that is synced.
LEMMA SyncUndisturbed ==
    ASSUME IInv, UNCHANGED <<chainVars, synced, pindex, sync>>, synced \/ UNCHANGED <<customTip, records>>
    PROVE  SyncInv'
<1>1. CASE synced
  BY <1>1, Zenon DEF IInv, SyncInv
<1>2. CASE UNCHANGED <<customTip, records>>
  <2>1. NextSyncBlock(pindex)' = NextSyncBlock(pindex)
    BY DEF NextSyncBlock, NextOf, Fork, chainVars
  <2>. QED  BY <1>2, <2>1, Zenon DEF IInv, SyncInv, Above
<1>. QED  BY <1>1, <1>2, Zenon

\* The event of a block is one that subscribers may be told.
LEMMA DeltaTyped ==
    ASSUME DatabaseInv, NEW b \in Blocks, NEW type \in {"connected", "disconnected"}
    PROVE  /\ Delta(type, b) \in Deltas \cup {Null}
           /\ Delta(type, b) # Null => Delta(type, b).type = type /\ Delta(type, b).block = b
<1>1. CASE b \in DOMAIN records
  <2>1. records[b] \in BOOLEAN
    BY <1>1, Zenon DEF DatabaseInv
  <2>2. Delta(type, b) = [type |-> type, block |-> b, payouts |-> records[b]]
    BY <1>1, Zenon DEF Delta
  <2>. QED  BY <2>1, <2>2 DEF Deltas
<1>2. CASE b \notin DOMAIN records
  BY <1>2, Zenon DEF Delta
<1>. QED  BY <1>1, <1>2, Zenon

\* The facts about a notification that is being handled.
LEMMA HandledEvent ==
    ASSUME IInv, handler.step # "idle"
    PROVE  /\ handler.event \in Events /\ handler.event.type \in {"connected", "disconnected"}
           /\ handler.event.block \in Blocks /\ Parent[handler.event.block] \in Blocks
<1>1. handler.event \in Events /\ handler.event.type # "flushed"
  BY Zenon DEF IInv, TypeOK, HandlerInv
<1>2. handler.event.block \in Blocks \ {Genesis} /\ handler.event.type \in {"connected", "disconnected"}
  BY <1>1, Zenon DEF Events
<1>. QED  BY <1>1, <1>2, TreeAssumption, Zenon

\* The handlers follow the notifications.
LEMMA BeginKeeps ==
    ASSUME IInv, HandlerBegin
    PROVE  IInv'
<1>. DEFINE e == Head(queue)
<1>1. e \in Events /\ Tail(queue) \in Seq(Events) /\ e.type # "flushed"
  BY DEF HandlerBegin, IInv, ChainInv
<1>2. e.block \in Blocks /\ e.type \in {"connected", "disconnected"}
  BY <1>1, TreeAssumption, Zenon DEF Events, HandlerBegin
<1>. DEFINE d == IF ~Gap(e) /\ e.type = "disconnected" /\ Rewarded(e.block) THEN Delta("disconnected", e.block) ELSE Null
<1>3. d \in Deltas \cup {Null} /\ (d # Null => d.type = "disconnected" /\ d.block = e.block /\ e.type = "disconnected")
  <2>1. DatabaseInv
    BY Zenon DEF IInv
  <2>. QED  BY <1>2, <2>1, DeltaTyped, Zenon
<1>4. /\ handler = Idle /\ node \in {"up", "stopping"} /\ queue' = Tail(queue)
      /\ suppressed' = Gap(e) /\ handler' = [step |-> "base", event |-> e, delta |-> d]
      /\ message' = Null /\ position' = IF Gap(e) THEN Null ELSE position
      /\ UNCHANGED <<node, chainVars, best, synced, pindex, sync, locator, customTip, records>>
  BY Zenon DEF HandlerBegin, Running, baseVars, syncVars, dbVars
<1>. HIDE DEF e, d
<1>5. suppressed' \in BOOLEAN /\ (~suppressed' => ~suppressed /\ synced /\ best = Before(e))
  <2>1. Gap(e) \in BOOLEAN
    BY Zenon DEF Gap
  <2>2. suppressed' \in BOOLEAN
    BY <1>4, <2>1, Zenon
  <2>3. ~Gap(e) => ~suppressed /\ synced /\ best = Before(e)
    BY Zenon DEF Gap, DirectTransition, Before
  <2>. QED  BY <1>4, <2>2, <2>3, Zenon
<1>6. DatabaseInv'
  BY <1>4, Zenon DEF IInv, DatabaseInv, RecordsFollowCustomTip
<1>7. TypeOK' /\ ChainInv' /\ ProcessInv'
  <2>1. /\ best' \in Blocks \cup {Null} /\ locator' \in Blocks \cup {Null} /\ position' \in Blocks \cup {Null}
        /\ synced => best' # Null
    BY <1>4, Zenon DEF IInv, TypeOK
  <2>. QED  BY <1>1, <1>3, <1>4, <1>5, <1>6, <2>1, HandlerTypes, Zenon
<1>8. SyncInv'
  BY <1>4, SyncUndisturbed, Zenon
<1>9. HandlerInv'
  BY <1>1, <1>2, <1>4, Zenon DEF IInv, HandlerInv, Idle
<1>10. StreamInv'
  <2>1. position' # Null /\ ~suppressed' => position' = position /\ position = best /\ synced
    <3>1. CASE Gap(e)
      BY <1>4, <3>1, Zenon
    <3>2. CASE ~Gap(e)
      BY <1>4, <1>5, <3>2, Zenon DEF IInv, StreamInv, Idle
    <3>. QED  BY <3>1, <3>2, Zenon
  <2>2. ~synced' => suppressed'
    BY <1>4, <1>5, Zenon
  <2>3. handler'.delta # Null => handler'.delta.type = "disconnected" /\ handler'.delta.block = handler'.event.block
                                 /\ handler'.event.type = "disconnected"
    BY <1>3, <1>4, Zenon
  <2>4. handler'.step = "base" /\ handler'.event = e
    BY <1>4, Zenon
  <2>. QED  BY <1>4, <1>5, <2>1, <2>2, <2>3, <2>4, Zenon DEF StreamInv, Before
<1>. QED  BY <1>6, <1>7, <1>8, <1>9, <1>10, Zenon DEF IInv

\* A flush that the index has followed moves the locator to its best block.
LEMMA FlushedKeeps ==
    ASSUME IInv, ChainStateFlushed
    PROVE  IInv'
<1>1. /\ queue' = Tail(queue) /\ queue # <<>> /\ locator' \in {best, locator} /\ node \in {"up", "stopping"}
      /\ UNCHANGED <<node, chainVars, best, synced, pindex, sync, handler, suppressed, message, position, customTip, records>>
  BY Zenon DEF ChainStateFlushed, Running, baseVars, syncVars, streamVars
<1>2. Tail(queue) \in Seq(Events)
  BY <1>1 DEF IInv, ChainInv
<1>3. DatabaseInv'
  BY <1>1, Zenon DEF IInv, DatabaseInv, RecordsFollowCustomTip
<1>4. TypeOK' /\ ChainInv' /\ ProcessInv'
  <2>1. /\ best' \in Blocks \cup {Null} /\ locator' \in Blocks \cup {Null} /\ position' \in Blocks \cup {Null}
        /\ synced => best' # Null
        /\ suppressed' \in BOOLEAN /\ message' \in Deltas \cup {Null}
        /\ handler' \in [step : {"idle", "base", "rewind", "append", "end"},
                         event : Events \cup {Null}, delta : Deltas \cup {Null}]
    BY <1>1 DEF IInv, TypeOK
  <2>. QED  BY <1>1, <1>2, <1>3, <2>1, HandlerTypes, Zenon
<1>5. SyncInv'
  BY <1>1, SyncUndisturbed, Zenon
<1>6. HandlerInv' /\ StreamInv'
  BY <1>1, Zenon DEF IInv, HandlerInv, Above, Target, StreamInv, Before, Reached
<1>. QED  BY <1>3, <1>4, <1>5, <1>6, Zenon DEF IInv

\* The handler takes the notification to the index if the index is on its chain.
LEMMA BaseKeeps ==
    ASSUME IInv, HandlerBase
    PROVE  IInv'
<1>. DEFINE e == handler.event
<1>1. /\ e \in Events /\ e.type \in {"connected", "disconnected"}
      /\ e.block \in Blocks /\ Parent[e.block] \in Blocks
  BY HandledEvent, Zenon DEF HandlerBase, AtStep
<1>2. PICK s \in {"end", "append", "rewind"} : handler' = [step |-> s, event |-> e, delta |-> handler.delta]
  BY Zenon DEF HandlerBase, HandlerStep, IInv, TypeOK
<1>3. /\ handler.step = "base" /\ node \in {"up", "stopping"}
      /\ s = IF ~Concerns(e) THEN "end" ELSE IF best = Target(e) THEN "append" ELSE "rewind"
      /\ UNCHANGED <<node, chainVars, queue, best, synced, pindex, sync, suppressed, message, position, locator, customTip, records>>
  BY <1>2 DEF HandlerBase, HandlerStep, AtStep, Running, baseVars, syncVars, streamVars, dbVars
<1>4. Concerns(e) => synced /\ Before(e) \in Path[best]
  BY Zenon DEF Concerns, Before
<1>. HIDE DEF e
<1>5. DatabaseInv'
  BY <1>3, Zenon DEF IInv, DatabaseInv, RecordsFollowCustomTip
<1>6. TypeOK' /\ ChainInv' /\ ProcessInv'
  <2>1. /\ best' \in Blocks \cup {Null} /\ locator' \in Blocks \cup {Null} /\ position' \in Blocks \cup {Null}
        /\ synced => best' # Null
        /\ suppressed' \in BOOLEAN /\ message' \in Deltas \cup {Null} /\ queue' \in Seq(Events)
        /\ handler.delta \in Deltas \cup {Null}
    BY <1>3, Zenon DEF IInv, TypeOK, ChainInv
  <2>. QED  BY <1>1, <1>2, <1>3, <1>5, <2>1, HandlerTypes, Zenon
<1>7. SyncInv'
  BY <1>3, SyncUndisturbed, Zenon
<1>8. synced => best \in Blocks /\ customTip = TipKey(best)
  BY <1>3, Zenon DEF IInv, TypeOK, HandlerInv
<1>9. Concerns(e) => Target(e) \in Path[best]
  <2>1. synced /\ e.block \in Path[best] => Parent[e.block] \in Path[best]
    <3>1. Parent[e.block] \in Path[e.block]
      BY <1>1, PathBelow, TreeAssumption
    <3>2. ASSUME synced, e.block \in Path[best] PROVE Parent[e.block] \in Path[best]
      <4>1. best \in Blocks
        BY <1>8, <3>2, Zenon
      <4>. QED  BY <3>1, <3>2, <4>1, PathTransitive, Zenon
    <3>. QED  BY <3>2, Zenon
  <2>. QED  BY <1>4, <2>1, Zenon DEF Before, Target
<1>10. s = "append" => e.type = "connected"
  <2>1. e.block \notin Path[Parent[e.block]]
    BY <1>1, ParentBelow, Zenon
  <2>. QED  BY <1>1, <1>3, <1>4, <2>1, Zenon DEF Before, Target
<1>11. HandlerInv'
  <2>1. s = "rewind" => Above(Target(e))
    BY <1>3, <1>4, <1>8, <1>9, AboveAncestor, Zenon
  <2>2. handler'.step = s /\ handler'.event = e
    BY <1>2, Zenon
  <2>3. s = "rewind" => Above(Target(handler.event))'
    BY <1>3, <2>1, <2>2, Zenon DEF Above, Target
  <2>. QED  BY <1>1, <1>3, <1>4, <1>8, <1>10, <2>2, <2>3, Zenon DEF HandlerInv, Target
<1>12. StreamInv'
  <2>1. handler'.step = s /\ handler'.event = e /\ handler'.delta = handler.delta
    BY <1>2, Zenon
  <2>2. position # Null /\ ~suppressed => synced /\ position = best /\ best = Before(e)
    BY <1>3, Zenon DEF IInv, StreamInv, e
  <2>3. position # Null /\ ~suppressed => Concerns(e)
    BY <1>1, <1>8, <2>2, PathBelow, Zenon DEF Concerns, Before
  <2>4. position # Null /\ ~suppressed => s # "end"
    BY <1>3, <2>3, Zenon
  <2>5. ~synced => suppressed
    BY <1>3, Zenon DEF IInv, StreamInv
  <2>6. handler.delta # Null => e.type = "disconnected" /\ handler.delta.type = "disconnected" /\ handler.delta.block = e.block
    BY Zenon DEF IInv, StreamInv, e
  <2>. QED  BY <1>3, <2>1, <2>2, <2>4, <2>5, <2>6, Zenon DEF StreamInv
<1>. QED  BY <1>5, <1>6, <1>7, <1>11, <1>12, Zenon DEF IInv

\* A batch of the rewind of a handler.
LEMMA HandlerBatchKeeps ==
    ASSUME IInv, HandlerRewindBatch
    PROVE  IInv'
<1>. DEFINE e == handler.event
<1>1. e \in Events /\ e.block \in Blocks /\ Parent[e.block] \in Blocks
  BY HandledEvent, Zenon DEF HandlerRewindBatch, AtStep
<1>2. /\ handler.step = "rewind" /\ node \in {"up", "stopping"} /\ RewindBatch(Target(e))
      /\ UNCHANGED <<node, chainVars, queue, best, synced, pindex, sync, handler, suppressed, message, position>>
  BY Zenon DEF HandlerRewindBatch, AtStep, Running, baseVars, syncVars, streamVars
<1>3. synced /\ Above(Target(e)) /\ DatabaseInv
  BY <1>2, Zenon DEF IInv, HandlerInv
<1>4. DatabaseInv' /\ Above(Target(e))'
  BY <1>1, <1>2, <1>3, BatchKeeps, Zenon DEF Target
<1>5. TypeOK' /\ ChainInv' /\ ProcessInv'
  <2>1. /\ best' \in Blocks \cup {Null} /\ locator' \in Blocks \cup {Null} /\ position' \in Blocks \cup {Null}
        /\ synced => best' # Null
        /\ suppressed' \in BOOLEAN /\ message' \in Deltas \cup {Null} /\ queue' \in Seq(Events)
        /\ handler' \in [step : {"idle", "base", "rewind", "append", "end"},
                         event : Events \cup {Null}, delta : Deltas \cup {Null}]
    BY <1>2 DEF IInv, TypeOK, ChainInv, RewindBatch
  <2>. QED  BY <1>2, <1>4, <2>1, HandlerTypes, Zenon
<1>6. SyncInv'
  BY <1>2, <1>3, SyncUndisturbed, Zenon
<1>7. HandlerInv'
  BY <1>2, <1>3, <1>4, Zenon DEF IInv, HandlerInv
<1>8. StreamInv'
  BY <1>2, Zenon DEF IInv, StreamInv, Before, Reached
<1>. QED  BY <1>4, <1>5, <1>6, <1>7, <1>8, Zenon DEF IInv

\* The end of the rewind of a handler.
LEMMA HandlerCommitKeeps ==
    ASSUME IInv, HandlerRewindCommit
    PROVE  IInv'
<1>. DEFINE e == handler.event
<1>1. /\ e \in Events /\ e.type \in {"connected", "disconnected"}
      /\ e.block \in Blocks /\ Parent[e.block] \in Blocks
  BY HandledEvent, Zenon DEF HandlerRewindCommit, AtStep
<1>2. handler' = [step |-> AfterRewind(e), event |-> e, delta |-> handler.delta]
  BY Zenon DEF HandlerRewindCommit, HandlerStep, IInv, TypeOK
<1>3. /\ handler.step = "rewind" /\ node \in {"up", "stopping"}
      /\ customTip = TipKey(Target(e)) /\ best' = Target(e) /\ locator' = Target(e)
      /\ UNCHANGED <<node, chainVars, queue, synced, pindex, sync, suppressed, message, position, customTip, records>>
  BY Zenon DEF HandlerRewindCommit, RewindCommit, AtStep, Running, syncVars, streamVars
<1>4. synced
  BY <1>3, Zenon DEF IInv, HandlerInv
<1>5. AfterRewind(e) = IF e.type = "connected" THEN "append" ELSE "end"
  BY Zenon DEF AfterRewind
<1>6. position # Null /\ ~suppressed => position = best /\ best = Before(e)
  BY <1>3, Zenon DEF IInv, StreamInv
<1>7. handler.delta # Null => e.type = "disconnected" /\ handler.delta.type = "disconnected" /\ handler.delta.block = e.block
  BY Zenon DEF IInv, StreamInv
<1>. HIDE DEF e
<1>8. DatabaseInv'
  BY <1>3, Zenon DEF IInv, DatabaseInv, RecordsFollowCustomTip
<1>9. TypeOK' /\ ChainInv' /\ ProcessInv'
  <2>1. /\ best' \in Blocks /\ locator' \in Blocks /\ best' # Null
    BY <1>1, <1>3, TreeAssumption, Zenon DEF Target
  <2>2. /\ position' \in Blocks \cup {Null}
        /\ suppressed' \in BOOLEAN /\ message' \in Deltas \cup {Null} /\ queue' \in Seq(Events)
        /\ handler.delta \in Deltas \cup {Null}
    BY <1>3, Zenon DEF IInv, TypeOK, ChainInv
  <2>. QED  BY <1>1, <1>2, <1>3, <1>5, <1>8, <2>1, <2>2, HandlerTypes
<1>10. SyncInv'
  BY <1>3, <1>4, SyncUndisturbed, Zenon
<1>11. handler'.step = AfterRewind(e) /\ handler'.event = e /\ handler'.delta = handler.delta
  BY <1>2, Zenon
<1>12. HandlerInv'
  BY <1>1, <1>3, <1>4, <1>5, <1>11, Zenon DEF HandlerInv, TipKey, Target
<1>13. StreamInv'
  BY <1>1, <1>3, <1>4, <1>5, <1>6, <1>7, <1>11, Zenon DEF StreamInv, Target, Before, Reached
<1>. QED  BY <1>8, <1>9, <1>10, <1>12, <1>13, Zenon DEF IInv

\* The append of a handler.
LEMMA HandlerAppendKeeps ==
    ASSUME IInv, HandlerAppend \/ HandlerAppendFails
    PROVE  IInv'
<1>. DEFINE e == handler.event
<1>1. handler.step = "append" /\ node \in {"up", "stopping"}
  BY Zenon DEF HandlerAppend, HandlerAppendFails, AtStep, Running
<1>2. /\ e \in Events /\ e.type = "connected" /\ best = Parent[e.block] /\ synced
      /\ e.block \in Blocks /\ Parent[e.block] \in Blocks /\ customTip = TipKey(best)
  BY <1>1, HandledEvent, Zenon DEF IInv, HandlerInv, Target
<1>3. handler' = [step |-> "end", event |-> e, delta |-> handler.delta]
  BY Zenon DEF HandlerAppend, HandlerAppendFails, HandlerStep, IInv, TypeOK
<1>4. /\ node' \in {"up", "stopping"}
      /\ UNCHANGED <<chainVars, queue, synced, pindex, sync, suppressed, message, position, locator>>
  BY <1>1, Zenon DEF HandlerAppend, HandlerAppendFails, baseVars, syncVars, streamVars, dbVars
<1>5. best' \in {best, e.block} /\ DatabaseInv' /\ customTip' = TipKey(best')
  <2>1. CASE HandlerAppend
    <3>1. DatabaseInv /\ customTip = TipKey(Parent[e.block]) /\ CustomAppend(e.block) /\ best' = e.block
      BY <1>2, <2>1, Zenon DEF HandlerAppend, IInv
    <3>. QED  BY <1>2, <3>1, AppendKeeps, Zenon
  <2>2. CASE HandlerAppendFails
    <3>1. UNCHANGED <<best, locator, customTip, records>>
      BY <2>2, Zenon DEF HandlerAppendFails, baseVars, dbVars
    <3>. QED  BY <1>2, <3>1, Zenon DEF IInv, DatabaseInv, RecordsFollowCustomTip
  <2>. QED  BY <2>1, <2>2, Zenon
<1>6. position # Null /\ ~suppressed => position = best
  BY <1>1, Zenon DEF IInv, StreamInv
<1>7. handler.delta = Null
  BY <1>2, Zenon DEF IInv, StreamInv
<1>. HIDE DEF e
<1>8. TypeOK' /\ ChainInv' /\ ProcessInv'
  <2>1. best' \in Blocks /\ best' # Null
    BY <1>2, <1>5, TreeAssumption
  <2>2. /\ position' \in Blocks \cup {Null} /\ locator' \in Blocks \cup {Null}
        /\ suppressed' \in BOOLEAN /\ message' \in Deltas \cup {Null} /\ queue' \in Seq(Events)
        /\ handler.delta \in Deltas \cup {Null}
    BY <1>4, Zenon DEF IInv, TypeOK, ChainInv
  <2>. QED  BY <1>2, <1>3, <1>4, <1>5, <2>1, <2>2, HandlerTypes, Zenon
<1>9. SyncInv'
  BY <1>2, <1>4, SyncUndisturbed, Zenon
<1>10. handler'.step = "end" /\ handler'.event = e /\ handler'.delta = handler.delta
  BY <1>3, Zenon
<1>11. HandlerInv'
  BY <1>2, <1>4, <1>5, <1>10, Zenon DEF HandlerInv, TipKey
<1>12. StreamInv'
  BY <1>2, <1>4, <1>5, <1>6, <1>7, <1>10, Zenon DEF StreamInv, Before, Reached
<1>. QED  BY <1>5, <1>8, <1>9, <1>11, <1>12, Zenon DEF IInv

\* What the end of a handler publishes.
LEMMA PublishedTyped ==
    ASSUME IInv, handler.step = "end"
    PROVE  LET e == handler.event
           IN  /\ Published(e) \in Deltas \cup {Null}
               /\ Published(e) # Null => Published(e).type = e.type /\ Published(e).block = e.block
<1>. DEFINE e == handler.event
<1>1. e.type \in {"connected", "disconnected"} /\ e.block \in Blocks
  BY HandledEvent, Zenon
<1>2. CASE e.type = "disconnected"
  BY <1>2, Zenon DEF Published, IInv, TypeOK, StreamInv
<1>3. CASE e.type = "connected"
  <2>1. /\ Delta("connected", e.block) \in Deltas \cup {Null}
        /\ Delta("connected", e.block) # Null =>
             Delta("connected", e.block).type = "connected" /\ Delta("connected", e.block).block = e.block
    BY <1>1, DeltaTyped, Zenon DEF IInv
  <2>2. Published(e) \in {Delta("connected", e.block), Null}
    BY <1>3, Zenon DEF Published
  <2>. QED  BY <1>3, <2>1, <2>2, Zenon
<1>. QED  BY <1>1, <1>2, <1>3, Zenon

\* The end of a handler.
LEMMA EndKeeps ==
    ASSUME IInv, HandlerEnd
    PROVE  IInv'
<1>. DEFINE e == handler.event
<1>1. /\ handler.step = "end" /\ node \in {"up", "stopping"} /\ handler' = Idle
      /\ UNCHANGED <<node, chainVars, queue, best, synced, pindex, sync, locator, customTip, records>>
  BY Zenon DEF HandlerEnd, AtStep, Running, baseVars, syncVars, dbVars
<1>2. \/ ~Followed(e) /\ UNCHANGED <<suppressed, message, position>>
      \/ /\ Followed(e) /\ suppressed /\ suppressed' = (best # tip) /\ UNCHANGED message
         /\ position' = IF best = tip THEN best ELSE position
      \/ Followed(e) /\ ~suppressed /\ message' = Published(e) /\ position' = best /\ UNCHANGED suppressed
  BY Zenon DEF HandlerEnd, streamVars
<1>3. Published(e) \in Deltas \cup {Null}
  BY <1>1, PublishedTyped, Zenon
<1>4. position # Null /\ ~suppressed => synced /\ position = IF best = Reached(e) THEN Before(e) ELSE best
  BY <1>1, Zenon DEF IInv, StreamInv
<1>5. Followed(e) <=> synced /\ best = Reached(e)
  BY Zenon DEF Followed
<1>. HIDE DEF e
<1>6. DatabaseInv'
  BY <1>1, Zenon DEF IInv, DatabaseInv, RecordsFollowCustomTip
<1>7. suppressed' \in BOOLEAN
  <2>1. suppressed \in BOOLEAN
    BY Zenon DEF IInv, TypeOK
  <2>2. (best # tip) \in BOOLEAN
    BY Zenon
  <2>. QED  BY <1>2, <2>1, <2>2, Zenon
<1>8. TypeOK' /\ ChainInv' /\ ProcessInv'
  <2>1. /\ best' \in Blocks \cup {Null} /\ locator' \in Blocks \cup {Null} /\ queue' \in Seq(Events)
        /\ synced => best' # Null
    BY <1>1, Zenon DEF IInv, TypeOK, ChainInv
  <2>2. message' \in Deltas \cup {Null} /\ position' \in Blocks \cup {Null}
    BY <1>1, <1>2, <1>3, Zenon DEF IInv, TypeOK
  <2>3. handler' \in [step : {"idle", "base", "rewind", "append", "end"},
                      event : Events \cup {Null}, delta : Deltas \cup {Null}]
    BY <1>1, Zenon DEF Idle
  <2>. QED  BY <1>1, <1>6, <1>7, <2>1, <2>2, <2>3, HandlerTypes, Zenon
<1>9. SyncInv'
  BY <1>1, SyncUndisturbed, Zenon
<1>10. handler'.step = "idle" /\ handler'.delta = Null
  BY <1>1, Zenon DEF Idle
<1>11. HandlerInv'
  BY <1>1, <1>10, Zenon DEF IInv, HandlerInv, TipKey
<1>12. position' # Null /\ ~suppressed' => synced /\ position' = best
  <2>1. CASE ~Followed(e) /\ UNCHANGED <<suppressed, message, position>>
    BY <1>4, <1>5, <2>1, Zenon
  <2>2. CASE /\ Followed(e) /\ suppressed /\ suppressed' = (best # tip)
             /\ position' = IF best = tip THEN best ELSE position
    <3>1. ~suppressed' => best = tip
      BY <2>2, Zenon
    <3>. QED  BY <1>5, <2>2, <3>1, Zenon
  <2>3. CASE Followed(e) /\ position' = best
    BY <1>5, <2>3, Zenon
  <2>. QED  BY <1>2, <2>1, <2>2, <2>3, Zenon
<1>13. StreamInv'
  BY <1>1, <1>10, <1>12, Zenon DEF StreamInv
<1>. QED  BY <1>6, <1>8, <1>9, <1>11, <1>13, Zenon DEF IInv

\* Every step of a handler.
LEMMA HandlerKeeps == IInv /\ Handler => IInv'
BY BeginKeeps, FlushedKeeps, BaseKeeps, HandlerBatchKeeps, HandlerCommitKeeps, HandlerAppendKeeps, EndKeeps, Zenon
   DEF Handler

-----------------------------------------------------------------------------
(* The process. *)

\* A process that ends leaves what is on disk.
LEMMA EndedKeeps ==
    ASSUME IInv, Ended
    PROVE  IInv'
<1>1. /\ node' = "down" /\ tip' = flushed /\ known' = written /\ queue' = <<>>
      /\ best' = Null /\ synced' = FALSE /\ pindex' = Null /\ sync' = "done" /\ handler' = Idle
      /\ suppressed' = FALSE /\ message' = Null /\ position' = Null
      /\ UNCHANGED <<flushed, written, locator, customTip, records>>
  BY Zenon DEF Ended, dbVars
<1>2. /\ handler'.step = "idle" /\ handler'.delta = Null
      /\ handler' \in [step : {"idle", "base", "rewind", "append", "end"},
                       event : Events \cup {Null}, delta : Deltas \cup {Null}]
  BY <1>1, Zenon DEF Idle
<1>3. queue' \in Seq(Events)
  BY <1>1
<1>4. DatabaseInv'
  BY <1>1, Zenon DEF IInv, DatabaseInv, RecordsFollowCustomTip
<1>5. ChainInv'
  BY <1>1, <1>3, Zenon DEF IInv, ChainInv, TypeOK
<1>6. TypeOK'
  BY <1>1, <1>2, <1>3, ZenonT(60) DEF IInv, TypeOK
<1>7. ProcessInv' /\ SyncInv' /\ HandlerInv' /\ StreamInv'
  BY <1>1, <1>2, Zenon DEF ProcessInv, SyncInv, HandlerInv, StreamInv
<1>. QED  BY <1>4, <1>5, <1>6, <1>7, Zenon DEF IInv

\* An interrupted process only stops taking blocks.
LEMMA InterruptKeeps ==
    ASSUME IInv, Interrupt
    PROVE  IInv'
<1>1. /\ node = "up" /\ node' = "stopping"
      /\ UNCHANGED <<tip, known, flushed, written, queue, best, synced, pindex, sync, handler, suppressed, message, position,
                     locator, customTip, records>>
  BY Zenon DEF Interrupt, chainVars, baseVars, syncVars, streamVars, dbVars
<1>2. TypeOK' /\ ChainInv' /\ DatabaseInv' /\ ProcessInv'
  <2>1. TypeOK'
    BY <1>1 DEF IInv, TypeOK
  <2>2. ChainInv'
    BY <1>1, Zenon DEF IInv, ChainInv
  <2>3. DatabaseInv'
    BY <1>1, Zenon DEF IInv, DatabaseInv, RecordsFollowCustomTip
  <2>4. ProcessInv'
    BY <1>1, Zenon DEF ProcessInv
  <2>. QED  BY <2>1, <2>2, <2>3, <2>4, Zenon
<1>3. SyncInv'
  <2>1. NextSyncBlock(pindex)' = NextSyncBlock(pindex)
    BY <1>1 DEF NextSyncBlock, NextOf, Fork
  <2>. QED  BY <1>1, <2>1, Zenon DEF IInv, SyncInv, Above
<1>4. HandlerInv' /\ StreamInv'
  BY <1>1, Zenon DEF IInv, HandlerInv, Above, Target, StreamInv, Before, Reached
<1>. QED  BY <1>2, <1>3, <1>4, Zenon DEF IInv

\* What a start of the index leaves alone while no thread runs.
LEMMA StartupKeeps ==
    ASSUME IInv, Startup
    PROVE  IInv'
<1>1. node \in {"down", "unwinding", "refused"} /\ ~synced /\ sync = "done" /\ handler = Idle
  BY Zenon DEF IInv, ProcessInv, Startup, InitIndex, InitRewindBatch, StartIndex, Reindex
<1>2. /\ handler' = Idle /\ queue' = queue /\ suppressed' = suppressed /\ message' = message
  BY <1>1, Zenon DEF Startup, InitIndex, InitRewindBatch, StartIndex, Reindex, streamVars
<1>3. /\ handler'.step = "idle" /\ handler'.delta = Null
      /\ handler' \in [step : {"idle", "base", "rewind", "append", "end"},
                       event : Events \cup {Null}, delta : Deltas \cup {Null}]
  BY <1>2, Zenon DEF Idle
<1>4. position # Null => suppressed
  BY <1>1, Zenon DEF IInv, StreamInv
<1>5. CASE InitIndex
  <2>1. /\ node = "down" /\ best' = StartBlock /\ node' = IF CustomTipAllowed THEN "unwinding" ELSE "refused"
        /\ UNCHANGED <<tip, known, flushed, written, synced, pindex, sync, position, locator, customTip, records>>
    BY <1>5, Zenon DEF InitIndex, chainVars, syncVars, streamVars, dbVars
  <2>2. best' \in Blocks \cup {Null}
    BY <2>1, Zenon DEF StartBlock, IInv, TypeOK
  <2>3. CustomTipAllowed => Above(StartBlock)
    BY Zenon DEF CustomTipAllowed, Above, TipKey, IInv, TypeOK
  <2>4. ProcessInv'
    BY <1>1, <1>2, <2>1, <2>3, Zenon DEF ProcessInv, Above, TipKey
  <2>5. TypeOK'
    BY <1>1, <1>2, <1>3, <2>1, <2>2, Zenon DEF IInv, TypeOK
  <2>6. ChainInv' /\ DatabaseInv'
    BY <1>2, <2>1, Zenon DEF IInv, ChainInv, DatabaseInv, RecordsFollowCustomTip
  <2>7. SyncInv' /\ HandlerInv' /\ StreamInv'
    BY <1>1, <1>2, <1>3, <1>4, <2>1, Zenon DEF SyncInv, HandlerInv, StreamInv
  <2>. QED  BY <2>4, <2>5, <2>6, <2>7, Zenon DEF IInv
<1>6. CASE InitRewindBatch
  <2>1. /\ node = "unwinding" /\ RewindBatch(best)
        /\ UNCHANGED <<node, tip, known, flushed, written, best, synced, pindex, sync, position>>
    BY <1>6, Zenon DEF InitRewindBatch, chainVars, baseVars, syncVars, streamVars
  <2>2. DatabaseInv /\ Above(best) /\ best \in Blocks \cup {Null}
    BY <2>1, Zenon DEF IInv, ProcessInv, TypeOK
  <2>3. DatabaseInv' /\ Above(best)' /\ locator' = locator
    <3>1. DatabaseInv' /\ locator' = locator /\ \A t \in Blocks \cup {Null} : t = best => Above(t)'
      BY <2>1, <2>2, BatchKeeps, Zenon
    <3>. QED  BY <2>1, <2>2, <3>1, Zenon DEF Above
  <2>4. TypeOK'
    <3>1. DOMAIN records' \subseteq Blocks
      BY <2>3, TreeAssumption, Zenon DEF DatabaseInv, RecordsFollowCustomTip
    <3>2. customTip' \in Blocks \cup {Null} /\ (\A b \in DOMAIN records' : records'[b] \in BOOLEAN)
      BY <2>3, Zenon DEF DatabaseInv
    <3>3. locator' \in Blocks \cup {Null} /\ position' \in Blocks \cup {Null}
      BY <2>1, <2>3, Zenon DEF IInv, TypeOK
    <3>. QED  BY <1>2, <1>3, <2>1, <3>1, <3>2, <3>3 DEF IInv, TypeOK
  <2>5. ChainInv' /\ ProcessInv'
    BY <1>1, <1>2, <2>1, <2>3, Zenon DEF IInv, ChainInv, ProcessInv
  <2>6. SyncInv' /\ HandlerInv' /\ StreamInv'
    BY <1>1, <1>2, <1>3, <1>4, <2>1, Zenon DEF SyncInv, HandlerInv, StreamInv
  <2>. QED  BY <2>3, <2>4, <2>5, <2>6, Zenon DEF IInv
<1>7. CASE StartIndex
  <2>1. /\ customTip = TipKey(best) /\ synced' = (best = tip) /\ pindex' = best
        /\ sync' = (IF best = tip THEN "done" ELSE "loop") /\ position' = (IF best = tip THEN best ELSE Null)
        /\ node' = "up"
        /\ UNCHANGED <<tip, known, flushed, written, best, locator, customTip, records>>
    BY <1>7, Zenon DEF StartIndex, chainVars, dbVars
  <2>2. (best = tip) \in BOOLEAN
    BY Zenon
  <2>3. synced' \in BOOLEAN /\ (synced' <=> best = tip)
    BY <2>1, <2>2, Zenon
  <2>4. TypeOK'
    <3>1. best = tip => best # Null
      BY TreeAssumption DEF IInv, TypeOK
    <3>. QED  BY <1>2, <1>3, <2>1, <2>3, <3>1, Zenon DEF IInv, TypeOK
  <2>5. ChainInv' /\ DatabaseInv' /\ ProcessInv'
    BY <1>2, <2>1, Zenon DEF IInv, ChainInv, DatabaseInv, RecordsFollowCustomTip, ProcessInv
  <2>6. SyncInv' /\ HandlerInv'
    BY <1>3, <2>1, <2>3, Zenon DEF SyncInv, HandlerInv, TipKey
  <2>7. StreamInv'
    BY <1>3, <2>1, <2>3, Zenon DEF StreamInv
  <2>. QED  BY <2>4, <2>5, <2>6, <2>7, Zenon DEF IInv
<1>8. CASE Reindex
  <2>1. /\ node' = "down" /\ tip' = Genesis /\ flushed' = Genesis /\ known' = {Genesis} /\ written' = {Genesis}
        /\ best' = Null /\ locator' = Null /\ customTip' = Null /\ records' = [b \in {} |-> TRUE]
        /\ UNCHANGED <<synced, pindex, sync, position>>
    BY <1>8, Zenon DEF Reindex, syncVars, streamVars
  <2>2. Path[Genesis] = {Genesis}
    BY TreeAssumption
  <2>3. DatabaseInv'
    <3>1. DOMAIN records' = {}
      BY <2>1, Zenon
    <3>. QED  BY <2>1, <3>1, TreeAssumption, Zenon DEF DatabaseInv, RecordsFollowCustomTip, TipKey
  <2>4. ChainInv'
    BY <1>2, <2>1, <2>2, TreeAssumption, Zenon DEF IInv, ChainInv
  <2>5. TypeOK'
    <3>1. Genesis \in Blocks
      BY TreeAssumption, Zenon
    <3>2. DOMAIN records' = {}
      BY <2>1, Zenon
    <3>3. tip' \in known' /\ flushed' \in written' /\ known' \subseteq Blocks /\ written' \subseteq Blocks
      BY <2>1, <3>1, Zenon
    <3>4. /\ node' \in {"down", "unwinding", "up", "stopping", "refused"}
          /\ best' \in Blocks \cup {Null} /\ ~synced' /\ synced' \in BOOLEAN
      BY <1>1, <2>1, Zenon DEF IInv, TypeOK
    <3>5. /\ queue' \in Seq(Events) /\ suppressed' \in BOOLEAN /\ message' \in Deltas \cup {Null}
          /\ pindex' \in Blocks \cup {Null} /\ sync' \in {"loop", "append", "rewind", "done"}
      BY <1>2, <2>1, Zenon DEF IInv, TypeOK
    <3>6. {position', locator', customTip'} \subseteq Blocks \cup {Null}
      BY <2>1, Zenon DEF IInv, TypeOK
    <3>7. DOMAIN records' \subseteq Blocks /\ \A b \in DOMAIN records' : records'[b] \in BOOLEAN
      BY <3>2, Zenon
    <3>. QED  BY <1>3, <3>3, <3>4, <3>5, <3>6, <3>7, Zenon DEF TypeOK
  <2>6. ProcessInv' /\ SyncInv' /\ HandlerInv' /\ StreamInv'
    BY <1>1, <1>2, <1>3, <1>4, <2>1, Zenon DEF ProcessInv, SyncInv, HandlerInv, StreamInv
  <2>. QED  BY <2>3, <2>4, <2>5, <2>6, Zenon DEF IInv
<1>. QED  BY <1>5, <1>6, <1>7, <1>8, Zenon DEF Startup

\* The start of a node with a new index.
LEMMA InitKeeps == Init => IInv
<1>. SUFFICES ASSUME Init PROVE IInv
  BY Zenon
<1>1. /\ tip \in Path[tip] /\ Path[tip] \subseteq Blocks /\ \A b \in Path[tip] : Path[b] \subseteq Path[tip]
  BY PathBelow, PathTransitive, Zenon DEF Init
<1>2. /\ handler.step = "idle" /\ handler.delta = Null
      /\ handler \in [step : {"idle", "base", "rewind", "append", "end"},
                      event : Events \cup {Null}, delta : Deltas \cup {Null}]
  BY Zenon DEF Init, Idle
<1>3. DOMAIN records = {}
  BY Zenon DEF Init
<1>4. ChainInv
  <2>1. queue \in Seq(Events)
    BY DEF Init
  <2>2. known = Path[tip] /\ written = known /\ flushed = tip
    BY Zenon DEF Init
  <2>. QED  BY <1>1, <2>1, <2>2, Zenon DEF ChainInv
<1>. DEFINE start == /\ best = Null /\ synced = FALSE /\ pindex = Null /\ sync = "done" /\ node = "down"
                     /\ suppressed = FALSE /\ message = Null /\ {position, locator, customTip} = {Null}
<1>5. TypeOK
  <2>1. start
    BY Zenon DEF Init
  <2>. QED  BY <1>2, <1>3, <1>4, <2>1, Zenon DEF TypeOK, ChainInv
<1>6. DatabaseInv
  BY <1>3, TreeAssumption, Zenon DEF Init, DatabaseInv, RecordsFollowCustomTip, TipKey
<1>7. ProcessInv /\ SyncInv /\ HandlerInv /\ StreamInv
  BY <1>2, Zenon DEF Init, ProcessInv, SyncInv, HandlerInv, StreamInv
<1>. QED  BY <1>4, <1>5, <1>6, <1>7, Zenon DEF IInv

\* Every step keeps the invariant.
LEMMA NextKeeps == IInv /\ [Next]_vars => IInv'
<1>. SUFFICES ASSUME IInv, [Next]_vars PROVE IInv'
  BY Zenon
<1>1. CASE Validation
  BY <1>1, ValidationKeeps, Zenon
<1>2. CASE ThreadSync
  BY <1>2, SyncKeeps, EndedKeeps, Zenon DEF ThreadSync, AssertionFails
<1>3. CASE Handler
  BY <1>3, HandlerKeeps, Zenon
<1>4. CASE Startup
  BY <1>4, StartupKeeps, Zenon
<1>5. CASE Shutdown \/ Kill
  BY <1>5, EndedKeeps, Zenon DEF Shutdown, Kill
<1>6. CASE Interrupt
  BY <1>6, InterruptKeeps, Zenon
<1>7. CASE UNCHANGED vars
  <2>1. UNCHANGED <<node, tip, known, flushed, written, queue, best, synced, pindex, sync, handler, suppressed, message, position,
                    locator, customTip, records>>
    BY <1>7, Zenon DEF vars, chainVars, baseVars, syncVars, streamVars, dbVars
  <2>2. TypeOK' /\ ChainInv' /\ DatabaseInv' /\ ProcessInv'
    <3>1. TypeOK'
      BY <2>1 DEF IInv, TypeOK
    <3>2. ChainInv'
      BY <2>1, Zenon DEF IInv, ChainInv
    <3>3. DatabaseInv'
      BY <2>1, Zenon DEF IInv, DatabaseInv, RecordsFollowCustomTip
    <3>4. ProcessInv'
      BY <2>1, Zenon DEF IInv, ProcessInv, Above
    <3>. QED  BY <3>1, <3>2, <3>3, <3>4, Zenon
  <2>3. SyncInv'
    <3>1. NextSyncBlock(pindex)' = NextSyncBlock(pindex)
      BY <2>1 DEF NextSyncBlock, NextOf, Fork
    <3>. QED  BY <2>1, <3>1, Zenon DEF IInv, SyncInv, Above
  <2>4. HandlerInv' /\ StreamInv'
    BY <2>1, Zenon DEF IInv, HandlerInv, Above, Target, StreamInv, Before, Reached
  <2>. QED  BY <2>2, <2>3, <2>4, Zenon DEF IInv
<1>. QED  BY <1>1, <1>2, <1>3, <1>4, <1>5, <1>6, <1>7, Zenon DEF Next

-----------------------------------------------------------------------------
(* Theorems: for every tree of blocks, every limit of pending notifications and any number *)
(* of kills and invalidated blocks. *)

\* The inductive invariant.
THEOREM Invariance == Spec => []IInv
BY InitKeeps, NextKeeps, PTL DEF Spec

\* The handlers never use a null best block, and the tip on disk is in the block index on disk.
THEOREM TypeCorrect == Spec => []TypeOK
<1>1. IInv => TypeOK
  BY Zenon DEF IInv
<1>. QED  BY <1>1, Invariance, PTL

\* At every moment at which the process may be killed, the records of the index are those of its
\* custom tip and the rewarded ancestors (CustomAppend, CustomRewind and CustomInit write both in
\* one batch).
THEOREM DatabaseIsConsistent == Spec => []RecordsFollowCustomTip
<1>1. IInv => RecordsFollowCustomTip
  BY Zenon DEF IInv, DatabaseInv
<1>. QED  BY <1>1, Invariance, PTL

\* CustomRewind always finds the custom tip at the block that it is asked to rewind.
THEOREM RewindsMatch == Spec => []RewindSourceMatches
<1>1. IInv => RewindSourceMatches
  BY Zenon DEF IInv, SyncInv, HandlerInv, RewindSourceMatches
<1>. QED  BY <1>1, Invariance, PTL

\* Only the end of a handler publishes.
LEMMA OnlyEndPublishes ==
    ASSUME IInv, Next, message' # message, message' # Null
    PROVE  HandlerEnd
BY Zenon DEF Next, Validation, ActivateBestChainStep, InvalidateBlock, WriteBlockIndexDB, FlushStateToDisk,
       ThreadSync, SyncCatchesUp, SyncAdvance, SyncRewind, SyncRewindBatch, SyncRewindCommit, AssertionFails,
       SyncWriteLocator, SyncAppend, SyncAppendFails, SyncInterrupted,
       Handler, HandlerBegin, ChainStateFlushed, HandlerBase, HandlerRewindBatch, HandlerRewindCommit,
       HandlerAppend, HandlerAppendFails, Startup, InitIndex, InitRewindBatch, StartIndex, Reindex,
       Shutdown, Kill, Interrupt, Ended, streamVars

\* The events that a subscriber is told join up with where it is, or the stream is suppressed
\* (ShadowIndex::BlockConnected and BlockDisconnected check where the index is before and after).
THEOREM StreamJoins == Spec => StreamIsContiguous
<1>. DEFINE Joins == message' # message /\ message' # Null /\ position # Null =>
        position = IF message'.type = "connected" THEN Parent[message'.block] ELSE message'.block
<1>1. ASSUME IInv, [Next]_vars PROVE [Joins]_vars
  <2>. SUFFICES ASSUME Next, message' # message, message' # Null, position # Null
                PROVE  position = IF message'.type = "connected" THEN Parent[message'.block] ELSE message'.block
    BY <1>1, Zenon
  <2>1. HandlerEnd
    BY <1>1, OnlyEndPublishes, Zenon
  <2>. DEFINE e == handler.event
  <2>2. handler.step = "end" /\ Followed(e) /\ ~suppressed /\ message' = Published(e)
    BY <2>1, Zenon DEF HandlerEnd, AtStep, streamVars
  <2>3. message'.type = e.type /\ message'.block = e.block
    BY <1>1, <2>2, PublishedTyped, Zenon
  <2>4. position = Before(e)
    BY <1>1, <2>2, Zenon DEF IInv, StreamInv, Followed
  <2>. QED  BY <2>3, <2>4, Zenon DEF Before
<1>. QED  BY <1>1, Invariance, PTL DEF Spec, StreamIsContiguous

-----------------------------------------------------------------------------
(* The pending notifications lead to the active tip. *)

\* The blocks that the changes after the i-th notification start from, and the tip they lead to.
Later(q, t, i) ==
    {t} \cup {Before(q[j]) : j \in {k \in DOMAIN q : k > i /\ q[k].type # "flushed"}}

\* Each pending change leads to where a later one starts, or to the tip.
Links(q, t) == \A i \in DOMAIN q : q[i].type # "flushed" => Reached(q[i]) \in Later(q, t, i)

\* The change that is being handled and was not applied yet.
Current == IF handler.step \in {"base", "rewind", "append"} THEN {Before(handler.event)} ELSE {}

QueueInv ==
    /\ Links(queue, tip)
    /\ node \notin {"up", "stopping"} => queue = <<>>
    /\ handler.step # "idle" => Reached(handler.event) \in Later(queue, tip, 0)
    /\ node = "up" /\ synced => Path[best] \cap (Later(queue, tip, 0) \cup Current) # {}

\* The rest of the queue.
LEMMA TailLinks ==
    ASSUME NEW q \in Seq(Events), q # <<>>, NEW t, Links(q, t)
    PROVE  /\ Links(Tail(q), t)
           /\ Head(q).type = "flushed" => Later(q, t, 0) = Later(Tail(q), t, 0)
           /\ Head(q).type # "flushed" =>
                /\ Later(q, t, 0) \subseteq Later(Tail(q), t, 0) \cup {Before(Head(q))}
                /\ Reached(Head(q)) \in Later(Tail(q), t, 0)
<1>1. PICK n : n = Len(q) /\ n \in Nat /\ n >= 1 /\ DOMAIN q = 1 .. n
  OBVIOUS
<1>2. PICK r : r = Tail(q)
  BY Zenon
<1>3. DOMAIN r = 1 .. n - 1 /\ \A i \in 1 .. n - 1 : r[i] = q[i + 1]
  BY <1>1, <1>2
<1>4. ASSUME NEW i \in Nat PROVE Later(q, t, i + 1) = Later(r, t, i)
  <2>1. ASSUME NEW j \in DOMAIN q, j > i + 1, q[j].type # "flushed" PROVE Before(q[j]) \in Later(r, t, i)
    <3>1. j - 1 \in 1 .. n - 1 /\ j - 1 > i /\ r[j - 1] = q[j]
      BY <1>1, <1>3, <2>1
    <3>. QED  BY <1>3, <2>1, <3>1, Zenon DEF Later
  <2>2. ASSUME NEW j \in DOMAIN r, j > i, r[j].type # "flushed" PROVE Before(r[j]) \in Later(q, t, i + 1)
    <3>1. j + 1 \in DOMAIN q /\ j + 1 > i + 1 /\ r[j] = q[j + 1]
      BY <1>1, <1>3, <2>2
    <3>. QED  BY <2>2, <3>1, Zenon DEF Later
  <2>. QED  BY <2>1, <2>2, Zenon DEF Later
<1>5. Links(r, t)
  <2>. SUFFICES ASSUME NEW i \in DOMAIN r, r[i].type # "flushed" PROVE Reached(r[i]) \in Later(r, t, i)
    BY Zenon DEF Links
  <2>1. i \in Nat /\ i + 1 \in DOMAIN q /\ r[i] = q[i + 1]
    BY <1>1, <1>3
  <2>2. Reached(q[i + 1]) \in Later(q, t, i + 1)
    BY <2>1, Zenon DEF Links
  <2>. QED  BY <1>4, <2>1, <2>2, Zenon
<1>6. Head(q) = q[1] /\ 1 \in DOMAIN q
  BY <1>1
<1>7. Later(r, t, 0) = Later(q, t, 1)
  <2>1. 0 \in Nat /\ 0 + 1 = 1
    OBVIOUS
  <2>. QED  BY <1>4, <2>1, Zenon
<1>8. Later(q, t, 0) \subseteq Later(q, t, 1) \cup (IF Head(q).type = "flushed" THEN {} ELSE {Before(Head(q))})
  <2>1. ASSUME NEW j \in DOMAIN q, j > 0, q[j].type # "flushed"
        PROVE  Before(q[j]) \in Later(q, t, 1) \cup (IF Head(q).type = "flushed" THEN {} ELSE {Before(Head(q))})
    <3>1. CASE j = 1
      BY <1>6, <2>1, <3>1, Zenon
    <3>2. CASE j # 1
      <4>1. j > 1
        BY <1>1, <2>1, <3>2
      <4>. QED  BY <2>1, <4>1, Zenon DEF Later
    <3>. QED  BY <3>1, <3>2, Zenon
  <2>. QED  BY <2>1, Zenon DEF Later
<1>9. Later(q, t, 1) \subseteq Later(q, t, 0)
  <2>1. \A j \in DOMAIN q : j > 1 => j > 0
    BY <1>1
  <2>. QED  BY <2>1, Zenon DEF Later
<1>10. Head(q).type # "flushed" => Reached(Head(q)) \in Later(q, t, 1)
  BY <1>6, Zenon DEF Links
<1>. QED  BY <1>2, <1>5, <1>7, <1>8, <1>9, <1>10, Zenon

\* A queue that leads to t with one behind it that leads from t to u.
LEMMA ConcatLinks ==
    ASSUME NEW q \in Seq(Events), NEW r \in Seq(Events), NEW t, NEW u,
           Links(q, t), Links(r, u), t \in Later(r, u, 0)
    PROVE  Links(q \o r, u) /\ Later(q, t, 0) \subseteq Later(q \o r, u, 0)
<1>1. PICK n : n = Len(q) /\ n \in Nat /\ DOMAIN q = 1 .. n
  OBVIOUS
<1>2. PICK m : m = Len(r) /\ m \in Nat /\ DOMAIN r = 1 .. m
  OBVIOUS
<1>3. PICK s : s = q \o r
  BY Zenon
<1>4. /\ DOMAIN s = 1 .. n + m
      /\ \A i \in 1 .. n : s[i] = q[i]
      /\ \A i \in 1 .. m : s[n + i] = r[i]
  BY <1>1, <1>2, <1>3
<1>5. ASSUME NEW i \in Nat, NEW k \in Nat, k <= n + i PROVE Later(r, u, i) \subseteq Later(s, u, k)
  <2>1. ASSUME NEW j \in DOMAIN r, j > i, r[j].type # "flushed" PROVE Before(r[j]) \in Later(s, u, k)
    <3>1. j \in 1 .. m /\ n + j \in 1 .. n + m /\ n + j > k
      BY <1>1, <1>2, <1>5, <2>1
    <3>2. s[n + j] = r[j] /\ n + j \in DOMAIN s
      BY <1>4, <3>1, Zenon
    <3>. QED  BY <2>1, <3>1, <3>2, Zenon DEF Later
  <2>. QED  BY <2>1, Zenon DEF Later
<1>6. ASSUME NEW i \in 0 .. n PROVE Later(q, t, i) \subseteq Later(s, u, i)
  <2>1. t \in Later(s, u, i)
    <3>1. 0 \in Nat /\ i \in Nat /\ i <= n + 0
      BY <1>1, <1>2
    <3>. QED  BY <1>5, <3>1, Zenon
  <2>2. ASSUME NEW j \in DOMAIN q, j > i, q[j].type # "flushed" PROVE Before(q[j]) \in Later(s, u, i)
    <3>1. j \in DOMAIN s /\ s[j] = q[j]
      BY <1>1, <1>2, <1>4
    <3>. QED  BY <2>2, <3>1, Zenon DEF Later
  <2>. QED  BY <2>1, <2>2, Zenon DEF Later
<1>7. Links(s, u)
  <2>. SUFFICES ASSUME NEW i \in DOMAIN s, s[i].type # "flushed" PROVE Reached(s[i]) \in Later(s, u, i)
    BY Zenon DEF Links
  <2>1. CASE i <= n
    <3>1. i \in DOMAIN q /\ i \in 0 .. n /\ s[i] = q[i]
      BY <1>1, <1>2, <1>4, <2>1
    <3>2. Reached(q[i]) \in Later(q, t, i)
      BY <3>1, Zenon DEF Links
    <3>. QED  BY <1>6, <3>1, <3>2, Zenon
  <2>2. CASE ~(i <= n)
    <3>1. PICK j : j = i - n
      BY Zenon
    <3>2. j \in 1 .. m /\ j \in Nat /\ i = n + j /\ i \in Nat /\ i <= n + j
      BY <1>1, <1>2, <1>4, <2>2, <3>1
    <3>3. j \in DOMAIN r /\ j \in Nat /\ i \in Nat /\ i <= n + j /\ s[i] = r[j]
      BY <1>1, <1>2, <1>4, <3>2, Zenon
    <3>4. Reached(r[j]) \in Later(r, u, j)
      BY <3>3, Zenon DEF Links
    <3>. QED  BY <1>5, <3>3, <3>4, Zenon
  <2>. QED  BY <2>1, <2>2, Zenon
<1>8. Later(q, t, 0) \subseteq Later(s, u, 0)
  <2>1. 0 \in 0 .. n
    BY <1>1, <1>2
  <2>. QED  BY <1>6, <2>1, Zenon
<1>. QED  BY <1>3, <1>7, <1>8, Zenon

\* A path has one block of each height, each the parent of the next.
LEMMA Ancestors ==
    ASSUME NEW b \in Blocks, NEW h \in 0 .. Height[b]
    PROVE  /\ GetAncestor(b, h) \in Path[b] /\ Height[GetAncestor(b, h)] = h
           /\ \A a \in Path[b] : Height[a] = h => GetAncestor(b, h) = a
           /\ h > 0 => Parent[GetAncestor(b, h)] = GetAncestor(b, h - 1)
<1>. DEFINE S == {c \in Blocks : \A x, y \in Path[c] : Height[x] = Height[y] => x = y}
<1>1. Genesis \in S
  BY TreeAssumption
<1>2. ASSUME NEW c \in Blocks \ {Genesis}, Parent[c] \in S PROVE c \in S
  <2>1. Parent[c] \in Blocks /\ Height[c] = Height[Parent[c]] + 1 /\ Path[c] = Path[Parent[c]] \cup {c}
    BY TreeAssumption, Zenon
  <2>2. \A x \in Path[Parent[c]] : x \in Blocks /\ Height[x] <= Height[Parent[c]]
    BY <2>1, PathBelow, Zenon
  <2>3. \A x \in Path[Parent[c]] : Height[x] # Height[c]
    BY <2>1, <2>2, TreeAssumption
  <2>. QED  BY <1>2, <2>1, <2>3, Zenon
<1>3. b \in S
  <2>. HIDE DEF S
  <2>. QED  BY <1>1, <1>2, TreeInduction, Zenon
<1>4. \A x, y \in Path[b] : Height[x] = Height[y] => x = y
  BY <1>3, Zenon
<1>. HIDE DEF S
<1>5. ASSUME NEW g \in 0 .. Height[b]
      PROVE  GetAncestor(b, g) \in Path[b] /\ Height[GetAncestor(b, g)] = g
  BY BlockAtHeight, Zenon DEF GetAncestor
<1>6. ASSUME h > 0 PROVE Parent[GetAncestor(b, h)] = GetAncestor(b, h - 1)
  <2>1. PICK a : a = GetAncestor(b, h)
    BY Zenon
  <2>2. a \in Path[b] /\ a \in Blocks /\ Height[a] = h /\ Height[b] \in Nat
    BY <1>5, <2>1, PathBelow, TreeAssumption, Zenon
  <2>3. a # Genesis /\ Parent[a] \in Path[a]
    BY <1>6, <2>2, PathBelow, TreeAssumption
  <2>4. Parent[a] \in Path[b] /\ Height[Parent[a]] = h - 1
    <3>1. Height[a] = Height[Parent[a]] + 1 /\ Height[Parent[a]] \in Nat
      BY <2>2, <2>3, PathBelow, TreeAssumption, Zenon
    <3>. QED  BY <2>2, <2>3, <3>1, PathTransitive
  <2>5. h - 1 \in 0 .. Height[b]
    BY <1>6, <2>2
  <2>. QED  BY <1>4, <1>5, <2>1, <2>4, <2>5, Zenon
<1>. QED  BY <1>4, <1>5, <1>6, Zenon

\* The notifications of a step of the active chain lead from the old tip to the new one.
LEMMA NotificationsLink ==
    ASSUME tip \in Blocks, NEW b \in Blocks, Height[b] = Height[tip] + 1
    PROVE  Links(Notifications(b), b) /\ tip \in Later(Notifications(b), b, 0)
<1>1. PICK f : f = Fork(b) /\ f \in Path[b] /\ f \in Path[tip] /\ f \in Blocks
  <2>1. Fork(b) \in Path[b] /\ Fork(b) \in Path[tip]
    BY LastCommon, Zenon DEF Fork
  <2>. QED  BY <2>1, PathBelow, Zenon
<1>2. PICK h : h = Height[f]
  BY Zenon
<1>3. PICK x : x = Height[tip]
  BY Zenon
<1>4. h \in Nat /\ x \in Nat /\ h <= x /\ Height[b] = x + 1
  BY <1>1, <1>2, <1>3, PathBelow, TreeAssumption, Zenon
<1>5. PICK m : m = x - h
  BY Zenon
<1>6. PICK k : k = x + 1 - h
  BY Zenon
<1>7. m \in Nat /\ k \in Nat /\ k = m + 1
  BY <1>4, <1>5, <1>6
<1>8. PICK s : s = Notifications(b)
  BY Zenon
<1>9. /\ DOMAIN s = 1 .. m + k
      /\ \A i \in 1 .. m : s[i] = Disconnected(GetAncestor(tip, x + 1 - i))
      /\ \A i \in 1 .. k : s[m + i] = Connected(GetAncestor(b, h + i))
  <2>. DEFINE down == [i \in 1 .. m |-> Disconnected(GetAncestor(tip, x + 1 - i))]
              up == [i \in 1 .. k |-> Connected(GetAncestor(b, h + i))]
  <2>1. s = down \o up
    <3>1. Height[Fork(b)] = h /\ Height[tip] = x /\ x - h = m /\ Height[b] - h = k
      BY <1>1, <1>2, <1>3, <1>4, <1>5, <1>6
    <3>. QED  BY <1>8, <3>1, Zenon DEF Notifications
  <2>2. /\ DOMAIN down = 1 .. m /\ DOMAIN up = 1 .. k
        /\ \A i \in 1 .. m : down[i] = Disconnected(GetAncestor(tip, x + 1 - i))
        /\ \A i \in 1 .. k : up[i] = Connected(GetAncestor(b, h + i))
    BY Zenon
  <2>3. PICK T : (\A i \in 1 .. m : down[i] \in T) /\ (\A i \in 1 .. k : up[i] \in T)
    <3>. WITNESS {down[i] : i \in 1 .. m} \cup {up[i] : i \in 1 .. k}
    <3>. QED  BY Zenon
  <2>4. down \in Seq(T) /\ up \in Seq(T) /\ Len(down) = m /\ Len(up) = k
    BY <1>7, <2>3
  <2>. HIDE DEF down, up
  <2>5. /\ DOMAIN s = 1 .. m + k
        /\ \A i \in 1 .. m : s[i] = down[i]
        /\ \A i \in 1 .. k : s[m + i] = up[i]
    <3>1. /\ s \in Seq(T) /\ Len(s) = m + k
          /\ \A i \in 1 .. m + k : s[i] = IF i <= m THEN down[i] ELSE up[i - m]
      BY <2>1, <2>4
    <3>2. ASSUME NEW i \in 1 .. k PROVE s[m + i] = up[i]
      <4>1. m + i \in 1 .. m + k /\ ~(m + i <= m) /\ (m + i) - m = i
        BY <1>7
      <4>. QED  BY <3>1, <4>1, Zenon
    <3>. QED  BY <1>7, <3>1, <3>2
  <2>. QED  BY <2>2, <2>5, Zenon
\* The i-th notification that disconnects, and the i-th that connects a block.
<1>10. ASSUME NEW i \in 1 .. m
       PROVE  /\ i \in DOMAIN s /\ s[i].type # "flushed"
              /\ Before(s[i]) = GetAncestor(tip, x + 1 - i) /\ Reached(s[i]) = GetAncestor(tip, x - i)
  <2>1. i \in DOMAIN s /\ s[i] = Disconnected(GetAncestor(tip, x + 1 - i))
    BY <1>7, <1>9
  <2>2. PICK g : g = x + 1 - i
    BY Zenon
  <2>3. g \in 0 .. Height[tip] /\ g > 0 /\ g - 1 = x - i
    BY <1>3, <1>4, <1>5, <2>2
  <2>4. Parent[GetAncestor(tip, g)] = GetAncestor(tip, g - 1)
    BY <2>3, Ancestors, Zenon
  <2>. QED  BY <2>1, <2>2, <2>3, <2>4 DEF Disconnected, Before, Reached
<1>11. ASSUME NEW i \in 1 .. k
       PROVE  /\ m + i \in DOMAIN s /\ s[m + i].type # "flushed"
              /\ Before(s[m + i]) = GetAncestor(b, h + i - 1) /\ Reached(s[m + i]) = GetAncestor(b, h + i)
  <2>1. m + i \in DOMAIN s /\ s[m + i] = Connected(GetAncestor(b, h + i))
    BY <1>7, <1>9
  <2>2. PICK g : g = h + i
    BY Zenon
  <2>3. g \in 0 .. Height[b] /\ g > 0 /\ g - 1 = h + i - 1
    BY <1>4, <1>6, <2>2
  <2>4. Parent[GetAncestor(b, g)] = GetAncestor(b, g - 1)
    BY <2>3, Ancestors, Zenon
  <2>. QED  BY <2>1, <2>2, <2>3, <2>4 DEF Connected, Before, Reached
<1>12. GetAncestor(tip, h) = f /\ GetAncestor(b, h) = f /\ GetAncestor(tip, x) = tip /\ GetAncestor(b, x + 1) = b
  <2>1. h \in 0 .. Height[tip] /\ h \in 0 .. Height[b] /\ x \in 0 .. Height[tip] /\ x + 1 \in 0 .. Height[b]
    BY <1>3, <1>4
  <2>2. tip \in Path[tip] /\ b \in Path[b]
    BY PathBelow, Zenon
  <2>3. GetAncestor(tip, h) = f
    BY <1>1, <1>2, <2>1, Ancestors
  <2>4. GetAncestor(b, h) = f
    BY <1>1, <1>2, <2>1, Ancestors, SMTT(60)
  <2>5. GetAncestor(tip, x) = tip
    BY <1>3, <2>1, <2>2, Ancestors
  <2>6. GetAncestor(b, x + 1) = b
    BY <1>4, <2>1, <2>2, Ancestors, Zenon
  <2>. QED  BY <2>3, <2>4, <2>5, <2>6, Zenon
<1>13. 1 \in 1 .. k /\ h + 1 - 1 = h /\ h + k = x + 1 /\ m + k \in Nat
  BY <1>4, <1>6, <1>7
<1>14. ASSUME NEW i \in 1 .. m PROVE Reached(s[i]) \in Later(s, b, i)
  <2>1. CASE i = m
    <3>1. x - i = h /\ m + 1 > i
      BY <1>4, <1>5, <2>1
    <3>2. m + 1 \in DOMAIN s /\ s[m + 1].type # "flushed" /\ Before(s[m + 1]) = f
      BY <1>11, <1>12, <1>13, Zenon
    <3>3. Reached(s[i]) = f
      BY <1>10, <1>12, <3>1, Zenon
    <3>. QED  BY <3>1, <3>2, <3>3, Zenon DEF Later
  <2>2. CASE i # m
    <3>1. i + 1 \in 1 .. m /\ x + 1 - (i + 1) = x - i /\ i + 1 > i
      BY <1>4, <1>7, <2>2
    <3>2. i + 1 \in DOMAIN s /\ s[i + 1].type # "flushed" /\ Before(s[i + 1]) = Reached(s[i])
      BY <1>10, <3>1, Zenon
    <3>. QED  BY <3>1, <3>2, Zenon DEF Later
  <2>. QED  BY <2>1, <2>2, Zenon
<1>15. ASSUME NEW i \in 1 .. k PROVE Reached(s[m + i]) \in Later(s, b, m + i)
  <2>1. CASE i = k
    BY <1>11, <1>12, <1>13, <2>1, Zenon DEF Later
  <2>2. CASE i # k
    <3>1. i + 1 \in 1 .. k /\ h + (i + 1) - 1 = h + i /\ m + (i + 1) > m + i
      BY <1>4, <1>7, <2>2
    <3>2. m + (i + 1) \in DOMAIN s /\ s[m + (i + 1)].type # "flushed" /\ Before(s[m + (i + 1)]) = Reached(s[m + i])
      BY <1>11, <3>1, Zenon
    <3>. QED  BY <3>1, <3>2, Zenon DEF Later
  <2>. QED  BY <2>1, <2>2, Zenon
<1>16. Links(s, b)
  <2>. SUFFICES ASSUME NEW j \in DOMAIN s PROVE Reached(s[j]) \in Later(s, b, j)
    BY Zenon DEF Links
  <2>1. CASE j \in 1 .. m
    BY <1>14, <2>1, Zenon
  <2>2. CASE j \notin 1 .. m
    <3>1. j - m \in 1 .. k /\ m + (j - m) = j
      BY <1>7, <1>9, <2>2
    <3>. QED  BY <1>15, <3>1, Zenon
  <2>. QED  BY <2>1, <2>2, Zenon
<1>17. tip \in Later(s, b, 0)
  <2>1. CASE m = 0
    <3>1. x = h /\ m + 1 > 0
      BY <1>4, <1>5, <2>1
    <3>2. m + 1 \in DOMAIN s /\ s[m + 1].type # "flushed" /\ Before(s[m + 1]) = f
      BY <1>11, <1>12, <1>13, Zenon
    <3>. QED  BY <1>12, <3>1, <3>2, Zenon DEF Later
  <2>2. CASE m # 0
    <3>1. 1 \in 1 .. m /\ x + 1 - 1 = x /\ 1 > 0
      BY <1>4, <1>7, <2>2
    <3>2. 1 \in DOMAIN s /\ s[1].type # "flushed" /\ Before(s[1]) = tip
      BY <1>10, <1>12, <3>1, Zenon
    <3>. QED  BY <3>1, <3>2, Zenon DEF Later
  <2>. QED  BY <2>1, <2>2, Zenon
<1>. QED  BY <1>8, <1>16, <1>17, Zenon

\* A change of the chain is put behind the pending ones, and a flush does not count.
LEMMA ValidationQueue ==
    ASSUME IInv, QueueInv, Validation
    PROVE  QueueInv'
<1>1. UNCHANGED <<node, best, synced, handler>>
  BY Zenon DEF Validation, ActivateBestChainStep, InvalidateBlock, WriteBlockIndexDB, FlushStateToDisk, baseVars
<1>2. tip \in Blocks /\ queue \in Seq(Events) /\ node \in {"up", "stopping"} /\ Links(queue, tip)
  BY Zenon DEF IInv, ChainInv, QueueInv, Validation, ActivateBestChainStep, InvalidateBlock, WriteBlockIndexDB,
               FlushStateToDisk
<1>3. Links(queue, tip)' /\ Later(queue, tip, 0) \subseteq Later(queue, tip, 0)'
  <2>1. ASSUME NEW b \in Blocks, ActivateBestChainStep(b)
        PROVE  Links(queue, tip)' /\ Later(queue, tip, 0) \subseteq Later(queue, tip, 0)'
    <3>1. PICK r : r = Notifications(b) /\ r \in Seq(Events)
      BY <1>2, NotificationsAreEvents, Zenon
    <3>2. Links(r, b) /\ tip \in Later(r, b, 0)
      BY <1>2, <2>1, <3>1, NotificationsLink, Zenon DEF ActivateBestChainStep
    <3>3. queue' = queue \o r /\ tip' = b
      BY <2>1, <3>1, Zenon DEF ActivateBestChainStep
    <3>. QED  BY <1>2, <3>1, <3>2, <3>3, ConcatLinks, Zenon
  <2>2. ASSUME NEW e \in Events, NEW u, queue' = Append(queue, e), tip' = u,
               IF e.type = "flushed" THEN u = tip ELSE Before(e) = tip /\ Reached(e) = u
        PROVE  Links(queue, tip)' /\ Later(queue, tip, 0) \subseteq Later(queue, tip, 0)'
    <3>1. <<e>> \in Seq(Events)
      OBVIOUS
    <3>2. PICK r : r = <<e>> /\ r \in Seq(Events)
      BY <3>1, Zenon
    <3>3. DOMAIN r = 1 .. 1 /\ r[1] = e
      BY <3>2
    <3>4. Links(r, u) /\ tip \in Later(r, u, 0)
      BY <2>2, <3>3 DEF Links, Later
    <3>5. queue' = queue \o r
      BY <1>2, <2>2, <3>2, SMTT(60)
    <3>. QED  BY <1>2, <2>2, <3>2, <3>4, <3>5, ConcatLinks, Zenon
  <2>3. CASE InvalidateBlock
    <3>1. PICK e : e = Disconnected(tip) /\ e \in Events
      BY <1>2, <2>3 DEF InvalidateBlock, Disconnected, Events
    <3>2. e.type # "flushed" /\ Before(e) = tip /\ Reached(e) = tip'
      BY <2>3, <3>1, Zenon DEF InvalidateBlock, Disconnected, Before, Reached
    <3>. QED  BY <2>2, <2>3, <3>1, <3>2, Zenon DEF InvalidateBlock
  <2>4. CASE WriteBlockIndexDB
    BY <1>2, <2>4, Zenon DEF WriteBlockIndexDB
  <2>5. CASE FlushStateToDisk
    <3>1. Flushed(tip) \in Events /\ Flushed(tip).type = "flushed"
      BY <1>2, Zenon DEF Flushed, Events
    <3>2. PICK e : e = Flushed(tip) /\ e \in Events /\ e.type = "flushed"
      BY <3>1, Zenon
    <3>. QED  BY <2>2, <2>5, <3>2, Zenon DEF FlushStateToDisk
  <2>. QED  BY <2>1, <2>3, <2>4, <2>5, Zenon DEF Validation
<1>4. Current' = Current
  BY <1>1, Zenon DEF Current, Before
<1>. QED  BY <1>1, <1>2, <1>3, <1>4, Zenon DEF QueueInv, Reached

\* A sync thread that finds no next block has come to the tip, or beyond it.
LEMMA CaughtUp ==
    ASSUME tip \in Blocks, NEW b \in Blocks \cup {Null}, NextSyncBlock(b) = Null
    PROVE  tip \in Path[b]
<1>1. b # Null /\ b \in Blocks
  BY TreeAssumption, Zenon DEF NextSyncBlock
<1>2. ASSUME NEW a \in Path[tip], NextOf(a) = Null PROVE a = tip
  <2>. SUFFICES ASSUME a # tip PROVE FALSE
    BY Zenon
  <2>1. PICK c \in Path[tip] : Parent[c] = a
    BY ChildOnPath, Zenon
  <2>2. NextOf(a) \in Path[tip]
    BY <2>1, Zenon DEF NextOf
  <2>. QED  BY <1>2, <2>2, PathBelow, TreeAssumption, Zenon
<1>3. Fork(b) \in Path[b] /\ Fork(b) \in Path[tip]
  BY <1>1, LastCommon, Zenon DEF Fork
<1>4. NextOf(Fork(b)) = Null
  BY <1>1, Zenon DEF NextSyncBlock
<1>. QED  BY <1>2, <1>3, <1>4, Zenon

LEMMA SyncQueue ==
    ASSUME IInv, QueueInv, SyncCatchesUp \/ SyncAdvance \/ SyncRewind \/ SyncRewindBatch \/ SyncRewindCommit
                           \/ SyncWriteLocator \/ SyncAppend \/ SyncAppendFails \/ SyncInterrupted
    PROVE  QueueInv'
<1>1. UNCHANGED <<tip, queue, handler>> /\ node \in {"up", "stopping"} /\ node' \in {"up", "stopping"}
  BY Zenon
     DEF SyncCatchesUp, SyncAdvance, SyncRewind, SyncRewindBatch, SyncRewindCommit, SyncWriteLocator, SyncAppend,
         SyncAppendFails, SyncInterrupted, StartRewind, RewindBatch, CommitBest, chainVars
<1>2. ~synced
  BY Zenon DEF IInv, SyncInv, SyncCatchesUp, SyncAdvance, SyncRewind, SyncRewindBatch, SyncRewindCommit,
               SyncWriteLocator,
         SyncAppend, SyncAppendFails, SyncInterrupted, StartRewind
<1>3. synced' => tip \in Path[best']
  <2>1. CASE SyncCatchesUp
    BY <2>1, CaughtUp, Zenon DEF SyncCatchesUp, CommitBest, IInv, TypeOK
  <2>2. CASE ~SyncCatchesUp
    BY <1>2, <2>2, Zenon DEF SyncAdvance, SyncRewind, SyncRewindBatch, SyncRewindCommit, SyncWriteLocator, SyncAppend,
         SyncAppendFails, SyncInterrupted, RewindCommit, baseVars
  <2>. QED  BY <2>1, <2>2, Zenon
<1>4. tip \in Later(queue, tip, 0)
  BY Zenon DEF Later
<1>. QED  BY <1>1, <1>3, <1>4, Zenon DEF QueueInv, Reached

\* A change that the index follows takes it to where a later one starts; another one leaves it.
LEMMA HandlerQueue ==
    ASSUME IInv, QueueInv, Handler
    PROVE  QueueInv'
<1>. DEFINE L == Later(queue, tip, 0)
<1>1. /\ queue \in Seq(Events) /\ tip \in Blocks /\ Links(queue, tip) /\ best \in Blocks \cup {Null}
      /\ handler.step # "idle" => handler.event \in Events /\ handler.event.type # "flushed"
      /\ synced => best \in Blocks
  BY Zenon DEF IInv, ChainInv, TypeOK, HandlerInv, QueueInv
<1>2. CASE HandlerBegin
  <2>1. PICK e : e = Head(queue)
    BY Zenon
  <2>2. /\ queue # <<>> /\ e.type # "flushed" /\ queue' = Tail(queue) /\ handler = Idle
        /\ handler'.step = "base" /\ handler'.event = e /\ UNCHANGED <<node, tip, best, synced>>
        /\ node \in {"up", "stopping"}
    BY <1>2, <2>1, Zenon DEF HandlerBegin, chainVars, baseVars, Running
  <2>3. Links(queue, tip)' /\ L \subseteq L' \cup {Before(e)} /\ Reached(e) \in L'
    BY <1>1, <2>1, <2>2, TailLinks, Zenon
  <2>4. Current' = {Before(e)}
    BY <2>2, Zenon DEF Current, Before
  <2>5. Current = {}
    BY <2>2, Zenon DEF Current, Idle
  <2>. QED  BY <2>2, <2>3, <2>4, <2>5, Zenon DEF QueueInv, Reached
<1>3. CASE ChainStateFlushed
  <2>1. /\ queue # <<>> /\ Head(queue).type = "flushed" /\ queue' = Tail(queue)
        /\ UNCHANGED <<node, tip, best, synced, handler>> /\ node \in {"up", "stopping"}
    BY <1>3, Zenon DEF ChainStateFlushed, chainVars, baseVars, Running
  <2>2. Links(queue, tip)' /\ L = L'
    BY <1>1, <2>1, TailLinks, Zenon
  <2>3. Current' = Current
    BY <2>1, Zenon DEF Current, Before
  <2>. QED  BY <2>1, <2>2, <2>3, Zenon DEF QueueInv, Reached
<1>4. ASSUME UNCHANGED <<tip, queue>>, node \in {"up", "stopping"}, node' \in {"up", "stopping"},
             handler.step # "idle", handler'.step = "idle" \/ handler'.event = handler.event,
             node' = "up" /\ synced' => Path[best'] \cap (L \cup Current') # {}
      PROVE  QueueInv'
  BY <1>4, Zenon DEF QueueInv, Reached
<1>5. CASE HandlerBase
  <2>1. /\ UNCHANGED <<tip, queue, node, best, synced>> /\ node \in {"up", "stopping"} /\ handler.step = "base"
        /\ handler'.event = handler.event
        /\ handler'.step = IF ~Concerns(handler.event) THEN "end"
                           ELSE IF best = Target(handler.event) THEN "append" ELSE "rewind"
    BY <1>5, Zenon DEF HandlerBase, AtStep, Running, HandlerStep, chainVars, baseVars, IInv, TypeOK
  <2>2. Current = {Before(handler.event)}
    BY <2>1, Zenon DEF Current
  <2>3. CASE Concerns(handler.event)
    <3>1. Current' = Current
      BY <2>1, <2>2, <2>3, Zenon DEF Current, Before
    <3>. QED  BY <1>4, <2>1, <3>1, Zenon DEF QueueInv
  <2>4. CASE ~Concerns(handler.event)
    <3>1. synced => Before(handler.event) \notin Path[best]
      BY <2>4, Zenon DEF Concerns, Before
    <3>. QED  BY <1>4, <2>1, <2>2, <3>1, Zenon DEF QueueInv
  <2>. QED  BY <2>3, <2>4, Zenon
<1>6. CASE HandlerRewindBatch
  <2>1. /\ UNCHANGED <<tip, queue, node, best, synced, handler>> /\ node \in {"up", "stopping"} /\ handler.step = "rewind"
    BY <1>6, Zenon DEF HandlerRewindBatch, AtStep, Running, chainVars, baseVars
  <2>2. Current' = Current
    BY <2>1, Zenon DEF Current, Before
  <2>. QED  BY <1>4, <2>1, <2>2, Zenon DEF QueueInv
<1>7. CASE HandlerRewindCommit
  <2>1. /\ UNCHANGED <<tip, queue, node, synced>> /\ node \in {"up", "stopping"} /\ handler.step = "rewind"
        /\ handler'.event = handler.event /\ handler'.step = AfterRewind(handler.event)
        /\ best' = Target(handler.event)
    BY <1>7, Zenon DEF HandlerRewindCommit, RewindCommit, AtStep, Running, HandlerStep, chainVars, IInv, TypeOK
  <2>2. best' \in Blocks /\ best' \in Path[best']
    BY <1>1, <2>1, PathBelow, TreeAssumption DEF Target, Events
  <2>3. CASE handler.event.type = "connected"
    <3>1. Current' = {best'}
      BY <2>1, <2>3, Zenon DEF Current, AfterRewind, Before, Target
    <3>. QED  BY <1>4, <2>1, <2>2, <3>1, Zenon
  <2>4. CASE handler.event.type # "connected"
    <3>1. best' \in L
      BY <2>1, <2>4, Zenon DEF QueueInv, Reached, Target
    <3>. QED  BY <1>4, <2>1, <2>2, <3>1, Zenon
  <2>. QED  BY <2>3, <2>4, Zenon
<1>8. CASE HandlerAppend
  <2>1. /\ UNCHANGED <<tip, queue, node, synced>> /\ node \in {"up", "stopping"} /\ handler.step = "append"
        /\ handler'.event = handler.event /\ best' = handler.event.block
    BY <1>8, Zenon DEF HandlerAppend, AtStep, Running, HandlerStep, chainVars, IInv, TypeOK
  <2>2. handler.event.type = "connected"
    BY <2>1, Zenon DEF IInv, HandlerInv
  <2>3. best' \in L /\ best' \in Path[best']
    BY <1>1, <2>1, <2>2, PathBelow, Zenon DEF QueueInv, Reached, Events
  <2>. QED  BY <1>4, <2>1, <2>3, Zenon
<1>9. CASE HandlerAppendFails
  BY <1>4, <1>9, Zenon DEF HandlerAppendFails, AtStep, Running, HandlerStep, chainVars, IInv, TypeOK
<1>10. CASE HandlerEnd
  <2>1. /\ UNCHANGED <<tip, queue, node, best, synced>> /\ node \in {"up", "stopping"} /\ handler.step = "end"
        /\ handler' = Idle
    BY <1>10, Zenon DEF HandlerEnd, AtStep, Running, chainVars, baseVars
  <2>2. Current = {} /\ Current' = {} /\ handler'.step = "idle"
    BY <2>1, Zenon DEF Current, Idle
  <2>. QED  BY <1>4, <2>1, <2>2, Zenon DEF QueueInv
<1>. QED  BY <1>2, <1>3, <1>5, <1>6, <1>7, <1>8, <1>9, <1>10, Zenon DEF Handler

\* A process that is not running has no notifications.
LEMMA ProcessQueue ==
    ASSUME IInv, QueueInv, Ended \/ Interrupt \/ Startup
    PROVE  QueueInv'
<1>1. Links(<<>>, tip') /\ tip' \in Later(<<>>, tip', 0)
  BY DEF Links, Later
<1>2. CASE Ended
  BY <1>1, <1>2, Zenon DEF Ended, QueueInv, Idle
<1>3. CASE Interrupt
  BY <1>3, Zenon DEF Interrupt, QueueInv, Reached, chainVars, baseVars
<1>4. CASE Startup
  <2>1. node \notin {"up", "stopping"} /\ queue' = queue /\ handler' = handler
    BY <1>4, Zenon DEF Startup, InitIndex, InitRewindBatch, StartIndex, Reindex
  <2>2. queue = <<>> /\ handler = Idle /\ ~synced
    BY <2>1, Zenon DEF QueueInv, IInv, ProcessInv
  <2>3. synced' => tip' \in Path[best']
    <3>1. CASE StartIndex
      BY <3>1, PathBelow, Zenon DEF StartIndex, chainVars, IInv, ChainInv
    <3>2. CASE ~StartIndex
      BY <1>4, <2>2, <3>2, Zenon DEF Startup, InitIndex, InitRewindBatch, Reindex, baseVars
    <3>. QED  BY <3>1, <3>2, Zenon
  <2>. QED  BY <1>1, <2>1, <2>2, <2>3, Zenon DEF QueueInv, Idle
<1>. QED  BY <1>2, <1>3, <1>4, Zenon

LEMMA NextQueue == IInv /\ QueueInv /\ [Next]_vars => QueueInv'
<1>. SUFFICES ASSUME IInv, QueueInv, [Next]_vars PROVE QueueInv'
  BY Zenon
<1>1. CASE Validation
  BY <1>1, ValidationQueue, Zenon
<1>2. CASE ThreadSync
  BY <1>2, SyncQueue, ProcessQueue, Zenon DEF ThreadSync, AssertionFails
<1>3. CASE Handler
  BY <1>3, HandlerQueue, Zenon
<1>4. CASE Startup \/ Shutdown \/ Kill \/ Interrupt
  BY <1>4, ProcessQueue, Zenon DEF Shutdown, Kill
<1>5. CASE UNCHANGED vars
  <2>1. UNCHANGED <<node, tip, queue, best, synced, handler>>
    BY <1>5, Zenon DEF vars, chainVars, baseVars
  <2>2. Current' = Current
    BY <2>1, Zenon DEF Current, Before
  <2>. QED  BY <2>1, <2>2, Zenon DEF QueueInv, Reached
<1>. QED  BY <1>1, <1>2, <1>3, <1>4, <1>5, Zenon DEF Next

\* Once the notifications are handled, a synced index of a running node has the active tip, however
\* late they came and whatever the sync thread had read before they did: a handler that ignores a
\* notification (BaseIndex::BlockConnected) leaves an index that a later one finds, or the tip.
THEOREM SettledIndexIsCurrent == Spec => []SettledIndexHasTip
<1>1. Init => QueueInv
  BY DEF Init, QueueInv, Links, Idle
<1>2. IInv /\ QueueInv => SettledIndexHasTip
  <2>. SUFFICES ASSUME IInv, QueueInv, node = "up", synced, queue = <<>>, handler = Idle PROVE tip \in Path[best]
    BY Zenon DEF SettledIndexHasTip
  <2>1. Later(queue, tip, 0) = {tip} /\ Current = {}
    BY DEF Later, Current, Idle
  <2>. QED  BY <2>1, Zenon DEF QueueInv
<1>. QED  BY <1>1, <1>2, InitKeeps, NextKeeps, NextQueue, PTL DEF Spec

=============================================================================
