------------------------------ MODULE Demurrage ------------------------------
(***************************************************************************)
(* Demurrage: coins of a quantum key lose value when the key is idle.  An  *)
(* attestation, signed by the key and carried by a transaction, renews     *)
(* them.  The coins database keeps the latest attestation of every key     *)
(* (QQALIVE) and a rolling inventory of these records (QQAINV), which are  *)
(* written when a block is connected and taken back when it is             *)
(* disconnected.                                                           *)
(*                                                                         *)
(* A block is the set of its transactions and its hash is the sequence of  *)
(* blocks that ends in it, so a record names its source block by a prefix  *)
(* of some chain.  The time and the output index of a record are functions *)
(* of its source block and transaction and are left out.  The MuHash of    *)
(* the inventory is the set it accumulates.                                *)
(***************************************************************************)
EXTENDS Integers, Sequences, FiniteSets

CONSTANTS
    Keys, Coins,
    Owner,              \* the quantum key that controls a coin
    Issued,             \* the coins of the first block, with their heights
    Attestations,       \* identifiers of transactions with an attestation
    Moves,              \* transactions that spend one coin and create another
    In, Out,            \* the coin a move spends and the coin it creates
    None,
    Activation,         \* EffectiveDemurrageActivationHeight
    Grace, Zero, AutoAttest,  \* DemurrageGraceBlocks, ...ZeroBlocks, ...AutoAttestBlocks
    DEMURRAGE_PPM,
    MAX_DEMURRAGE_ATTESTATIONS_PER_BLOCK,
    MaxHeight           \* bound on the height of the chain

ASSUME ScheduleAssumption ==
    /\ Activation \in Nat \ {0} /\ Grace \in Nat /\ Zero \in Nat /\ AutoAttest \in Nat
    /\ 0 < AutoAttest /\ Grace < Zero
    /\ DEMURRAGE_PPM \in Nat \ {0} /\ MaxHeight \in Nat
    /\ MAX_DEMURRAGE_ATTESTATIONS_PER_BLOCK \in Nat

ASSUME CoinAssumption ==
    /\ Owner \in [Coins -> Keys]
    /\ Issued \in [Coins -> {0, None}]
    /\ In \in [Moves -> Coins] /\ Out \in [Moves -> Coins]
    /\ \A m \in Moves : Issued[Out[m]] = None
    /\ \A m, n \in Moves : Out[m] = Out[n] => m = n
    /\ \E order \in [Moves -> 1 .. Cardinality(Moves)] :
          \A m, n \in Moves : Out[m] = In[n] => order[m] < order[n]
    /\ Moves \cap Attestations = {}
    /\ None \notin Int

Hashes == Seq(SUBSET (Attestations \cup Moves))

Records == [height: 1 .. MaxHeight, coverage: 1 .. MaxHeight, block: Hashes, tx: Attestations]

Inventories == [tip: Hashes, live: SUBSET (Keys \X Records), count: Nat]

ASSUME RecordAssumption == IsFiniteSet(Keys) /\ None \notin Records /\ None \notin Inventories

VARIABLES
    chain,      \* the blocks of the active chain above the first one
    latest,     \* the QQALIVE record of every key
    inventory,  \* the QQAINV marker
    coins,      \* the height of every unspent coin
    undo,       \* the undo data of every block of the chain
    signed      \* the attestation each transaction carries

vars == <<chain, latest, inventory, coins, undo, signed>>

Height == Len(chain)

IsDemurrageActive(height) == height >= Activation
-----------------------------------------------------------------------------
\* The value that is left of a coin.

DemurrageRemainingPpm(inactive) ==
    LET t == ((inactive - Grace) * DEMURRAGE_PPM) \div (Zero - Grace)
    IN  IF inactive <= Grace THEN DEMURRAGE_PPM
        ELSE IF inactive >= Zero THEN 0
        ELSE DEMURRAGE_PPM - (t * t) \div DEMURRAGE_PPM

MaxOf(a, b) == IF a >= b THEN a ELSE b

ActivityStart(created) == MaxOf(created, Activation)

Covers_Inclusive(record, created) ==
    record # None /\ record.coverage - ActivityStart(created) <= Zero

\* The height of the record is that of a block below the one evaluated.
Covers(record, created) ==
    record # None /\ record.coverage - ActivityStart(created) < Zero

LastActive(created, record) ==
    IF Covers(record, created) THEN MaxOf(ActivityStart(created), record.height)
    ELSE ActivityStart(created)

EvaluateDemurrage(created, record, height) ==
    IF IsDemurrageActive(height)
    THEN DemurrageRemainingPpm(MaxOf(0, height - LastActive(created, record)))
    ELSE DEMURRAGE_PPM

IsLocked(coin, height) ==
    EvaluateDemurrage(coins[coin], latest[Owner[coin]], height) = 0
-----------------------------------------------------------------------------
\* The inventory.

Leaves(map) == {<<k, map[k]>> : k \in {i \in Keys : map[i] # None}}

EmptyInventory(hash) == [tip |-> hash, live |-> {}, count |-> 0]

InventoryIsEmpty == inventory.live = {} /\ inventory.count = 0

InventoryAt(hash) == inventory # None /\ inventory.tip = hash

HasCurrentDemurrageInventory ==
    IF IsDemurrageActive(Height) THEN InventoryAt(chain)
    ELSE IF IsDemurrageActive(Height + 1) THEN InventoryAt(chain) /\ InventoryIsEmpty
    ELSE inventory = None

InventoryAnchoredForApply ==
    InventoryAt(chain) /\ (IsDemurrageActive(Height) \/ InventoryIsEmpty)

CanApplyDemurrageInventory ==
    IF IsDemurrageActive(Height + 1) THEN InventoryAnchoredForApply
    ELSE inventory = None
-----------------------------------------------------------------------------
\* Signing, by the wallet of the key.

CreateDemurrageAttestationTransaction(a, target) ==
    /\ signed[a] = None
    /\ IsDemurrageActive(Height + 1)
    /\ coins[target] # None /\ ~IsLocked(target, Height + 1)
    /\ LET previous == latest[Owner[target]]
       IN  /\ previous # None => Height + 1 - previous.height >= AutoAttest
           /\ signed' = [signed EXCEPT ![a] =
                  [key |-> Owner[target], target |-> target, previous |-> previous]]
    /\ UNCHANGED <<chain, latest, inventory, coins, undo>>
-----------------------------------------------------------------------------
\* Connecting a block.

AttestationsOf(block) == block \cap Attestations
MovesOf(block) == block \cap Moves

\* The inputs of a block are checked against the records of its parent; a coin
\* may be created and spent in the same block.
MovesAllowed(block) ==
    /\ \A m \in MovesOf(block) :
          \/ coins[In[m]] # None /\ ~IsLocked(In[m], Height + 1)
          \/ \E n \in MovesOf(block) : Out[n] = In[m]
    /\ \A m, n \in MovesOf(block) : In[m] = In[n] => m = n

SpentBy(block) == {In[m] : m \in MovesOf(block)}
CreatedBy(block) == {Out[m] : m \in MovesOf(block)}

CoinsAfter(block) ==
    [c \in Coins |-> IF c \in SpentBy(block) THEN None
                     ELSE IF c \in CreatedBy(block) THEN Height + 1
                     ELSE coins[c]]

\* ApplyDemurrageBlock runs after all inputs of the block are spent: the target
\* must be left over at the end of the block.
TargetAllowed(attestation, left) ==
    /\ left[attestation.target] # None
    /\ EvaluateDemurrage(left[attestation.target], latest[attestation.key], Height + 1) # 0

PreviousAllowed_AnySource(attestation) ==
    /\ attestation.previous = None <=> latest[attestation.key] = None
    /\ attestation.previous # None => Height + 1 - attestation.previous.height >= AutoAttest

PreviousAllowed(attestation) ==
    /\ attestation.previous = latest[attestation.key]
    /\ attestation.previous # None => Height + 1 - attestation.previous.height >= AutoAttest

CheckDemurrageAttestations(block) ==
    IsDemurrageActive(Height + 1) =>
        /\ Cardinality(AttestationsOf(block)) <= MAX_DEMURRAGE_ATTESTATIONS_PER_BLOCK
        /\ \A a, b \in AttestationsOf(block) : signed[a].key = signed[b].key => a = b
        /\ \A a \in AttestationsOf(block) :
              TargetAllowed(signed[a], CoinsAfter(block)) /\ PreviousAllowed(signed[a])

\* The source block of a record is on the active chain.
SourceOnChain(record) ==
    record.height \in 1 .. Height /\ record.block = SubSeq(chain, 1, record.height)

AttestationCoverageStart(attestation, height) ==
    IF attestation.previous # None /\ height - attestation.previous.height < Zero
    THEN attestation.previous.coverage
    ELSE height

RecordOf(a, hash) ==
    [height |-> Len(hash), coverage |-> AttestationCoverageStart(signed[a], Len(hash)),
     block |-> hash, tx |-> a]

AttestationFor(key, block) == {a \in AttestationsOf(block) : signed[a].key = key}

LatestAfter(block) ==
    [k \in Keys |->
        IF AttestationFor(k, block) = {} THEN latest[k]
        ELSE RecordOf(CHOOSE a \in AttestationFor(k, block) : TRUE, Append(chain, block))]

\* ApplyAttestationInventoryTransition for every attestation of the block.
InventoryAfter(block) ==
    LET replaced == {k \in Keys : AttestationFor(k, block) # {}}
        first    == {k \in replaced : latest[k] = None}
    IN  [tip   |-> Append(chain, block),
         live  |-> (inventory.live \ {<<k, latest[k]>> : k \in replaced})
                       \cup {<<k, LatestAfter(block)[k]>> : k \in replaced},
         count |-> inventory.count + Cardinality(first)]

\* The records the block replaces must stem from its own chain.
SourcesOnChain(block) ==
    \A a \in AttestationsOf(block) :
        signed[a].previous # None => SourceOnChain(signed[a].previous)

\* PrepareDemurrageActivationInventory included.
ApplyDemurrageBlock(block) ==
    IF IsDemurrageActive(Height + 1)
    THEN /\ latest' = LatestAfter(block)
         /\ inventory' = InventoryAfter(block)
    ELSE /\ inventory' = IF IsDemurrageActive(Height + 2)
                         THEN EmptyInventory(Append(chain, block)) ELSE inventory
         /\ UNCHANGED latest

\* Transactions are in a chain at most once: each spends its own inputs.
Fresh(block) == \A i \in 1 .. Len(chain) : chain[i] \cap block = {}

\* Otherwise the node stops with a FatalError.
Applicable(block) ==
    /\ CanApplyDemurrageInventory
    /\ IsDemurrageActive(Height + 1) => SourcesOnChain(block)

Valid(block) ==
    /\ Height < MaxHeight
    /\ Fresh(block) /\ \A a \in AttestationsOf(block) : signed[a] # None
    /\ MovesAllowed(block) /\ CheckDemurrageAttestations(block)

ConnectBlock(block) ==
    /\ Valid(block) /\ Applicable(block)
    /\ ApplyDemurrageBlock(block)
    /\ chain' = Append(chain, block)
    /\ coins' = CoinsAfter(block)
    /\ undo' = Append(undo, [c \in SpentBy(block) |-> coins[c]])
    /\ UNCHANGED signed
-----------------------------------------------------------------------------
\* Disconnecting the tip.

Tip == chain[Len(chain)]
Below == SubSeq(chain, 1, Len(chain) - 1)

UndoableAttestation(a) ==
    /\ latest[signed[a].key] = RecordOf(a, chain)
    /\ signed[a].previous # None =>
          /\ signed[a].previous.height < Height
          /\ SourceOnChain(signed[a].previous)

LatestBefore_Erased ==
    [k \in Keys |-> IF AttestationFor(k, Tip) = {} THEN latest[k] ELSE None]

LatestBefore ==
    [k \in Keys |->
        IF AttestationFor(k, Tip) = {} THEN latest[k]
        ELSE signed[CHOOSE a \in AttestationFor(k, Tip) : TRUE].previous]

InventoryBefore ==
    LET restored == {k \in Keys : AttestationFor(k, Tip) # {}}
        removed  == {k \in restored : LatestBefore[k] = None}
    IN  [tip   |-> Below,
         live  |-> (inventory.live \ {<<k, latest[k]>> : k \in restored})
                       \cup {<<k, LatestBefore[k]>> : k \in restored \ removed},
         count |-> inventory.count - Cardinality(removed)]

\* Otherwise DisconnectBlock returns DISCONNECT_FAILED and the node stops.
Undoable ==
    /\ HasCurrentDemurrageInventory
    /\ IsDemurrageActive(Height) =>
          /\ \A a \in AttestationsOf(Tip) : UndoableAttestation(a)
          /\ InventoryBefore.count >= 0
          /\ \/ IsDemurrageActive(Height - 1)
             \/ InventoryBefore.live = {} /\ InventoryBefore.count = 0

UndoDemurrageBlock ==
    IF IsDemurrageActive(Height)
    THEN latest' = LatestBefore /\ inventory' = InventoryBefore
    ELSE inventory' = None /\ UNCHANGED latest

CoinsBefore ==
    [c \in Coins |-> IF c \in CreatedBy(Tip) THEN None
                     ELSE IF c \in SpentBy(Tip) THEN undo[Len(undo)][c]
                     ELSE coins[c]]

DisconnectBlock ==
    /\ Height > 0 /\ Undoable
    /\ UndoDemurrageBlock
    /\ chain' = Below
    /\ coins' = CoinsBefore
    /\ undo' = SubSeq(undo, 1, Len(undo) - 1)
    /\ UNCHANGED signed
-----------------------------------------------------------------------------
Init ==
    /\ chain = <<>> /\ undo = <<>>
    /\ latest = [k \in Keys |-> None]
    /\ inventory = IF IsDemurrageActive(1) THEN EmptyInventory(<<>>) ELSE None
    /\ coins = Issued
    /\ signed = [a \in Attestations |-> None]

Next ==
    \/ \E a \in Attestations, c \in Coins : CreateDemurrageAttestationTransaction(a, c)
    \/ \E block \in SUBSET (Attestations \cup Moves) : ConnectBlock(block)
    \/ DisconnectBlock

Spec == Init /\ [][Next]_vars
-----------------------------------------------------------------------------
\* The kinds of values of the variables.
TypeOK ==
    /\ chain \in Hashes
    /\ latest \in [Keys -> Records \cup {None}]
    /\ inventory \in Inventories \cup {None}
    /\ coins \in [Coins -> (0 .. MaxHeight) \cup {None}]
    /\ Len(undo) = Len(chain)
    /\ signed \in [Attestations ->
            [key: Keys, target: Coins, previous: Records \cup {None}] \cup {None}]

\* The active heights of the chain at which a key was attested.
AttestedAt(key) ==
    {h \in 1 .. Height : IsDemurrageActive(h) /\ AttestationFor(key, chain[h]) # {}}

\* The first height of the last series of attestations that are less than
\* Zero blocks apart.
IsSeriesStart(s, heights) ==
    /\ s \in heights
    /\ \A h \in heights : h > s => \E p \in heights : s <= p /\ p < h /\ h - p < Zero
    /\ \A h \in heights : h < s =>
          \E q \in heights : h < q /\ q <= s /\
              \A p \in heights : p < q => q - p >= Zero

SeriesStart(heights) == CHOOSE s \in heights : IsSeriesStart(s, heights)

\* The QQALIVE record of a key is what a replay of the active chain would give:
\* it names the last attestation of the key on this chain and the first one of
\* its unbroken series, over any reorganisation between branches that carry
\* attestations of the same key, the same transaction among them.
LatestIsTheChains ==
    \A k \in Keys :
        IF AttestedAt(k) = {} THEN latest[k] = None
        ELSE LET last == CHOOSE h \in AttestedAt(k) : \A g \in AttestedAt(k) : g <= h
             IN  /\ latest[k] # None
                 /\ latest[k].height = last
                 /\ latest[k].block = SubSeq(chain, 1, last)
                 /\ latest[k].tx \in AttestationFor(k, chain[last])
                 /\ latest[k].coverage = SeriesStart(AttestedAt(k))

\* DeepAuditDemurrageInventory succeeds at every tip: from the block before the
\* activation on the inventory names the tip and accumulates exactly the records
\* of the coins database, and before that there is none.
InventoryMatchesRecords ==
    IF IsDemurrageActive(Height + 1)
    THEN inventory = [tip |-> chain, live |-> Leaves(latest),
                      count |-> Cardinality(Leaves(latest))]
    ELSE inventory = None

\* No valid block stops the node: the checks of the local demurrage state in
\* ConnectBlock and DisconnectBlock (FatalError, DISCONNECT_FAILED) never fail.
NeverHalts ==
    /\ \A block \in SUBSET (Attestations \cup Moves) : Valid(block) => Applicable(block)
    /\ Height > 0 => Undoable

Remaining(coin) == EvaluateDemurrage(coins[coin], latest[Owner[coin]], Height + 1)

\* Between two blocks a coin gains value only by an attestation of its key, and
\* a coin that has lost all of its value never gets it back and never moves,
\* however the attestations of its key follow each other.
OnlyAttestationRevives ==
    [][\A c \in Coins :
          /\ coins[c] # None /\ Height' = Height + 1
          /\ coins'[c] = None \/ Remaining(c)' > Remaining(c)
          => /\ Remaining(c) > 0
             /\ coins'[c] # None => AttestationFor(Owner[c], chain'[Height']) # {}]_vars

=============================================================================
