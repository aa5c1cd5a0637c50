----------------------------- MODULE CoinsCache ------------------------------
(***************************************************************************)
(* CCoinsViewCache of coins.cpp: up to three caches over the coins         *)
(* database, with the DIRTY and FRESH flags that decide what a flush       *)
(* writes to the parent and what it may leave out.                         *)
(***************************************************************************)
EXTENDS Naturals

CONSTANTS
    Outpoints,
    Coins,      \* the coins with a spendable script; AddCoin ignores the others
    Spent,      \* no coin
    Blocks,
    Null        \* no block hash

ASSUME SpentIsNoCoin == Spent \notin Coins
ASSUME NullIsNoBlock == Null \notin Blocks

VARIABLES
    depth,      \* the number of caches, the last one is in use
    db,         \* the coins in the database
    cache,      \* cacheCoins of each cache
    hash,       \* hashBlock of each cache, and DB_BEST_BLOCK at 0
    thrown,     \* a logic_error has been thrown
    broken      \* publishing the staged view has failed, its parent is to be dropped

cacheVars == <<depth, db, cache, hash, thrown, broken>>

Caches == 1..3
Entries == [present : BOOLEAN, coin : Coins \cup {Spent}, dirty : BOOLEAN, fresh : BOOLEAN]
NoEntry == [present |-> FALSE, coin |-> Spent, dirty |-> FALSE, fresh |-> FALSE]
Empty == [o \in Outpoints |-> NoEntry]

\* Every variable keeps its shape, and the caches that are not in use are empty.
CacheTypeOK ==
    /\ depth \in Caches
    /\ db \in [Outpoints -> Coins \cup {Spent}]
    /\ cache \in [Caches -> [Outpoints -> Entries]]
    /\ \A l \in Caches : l > depth => cache[l] = Empty /\ hash[l] = Null
    /\ hash \in [0..3 -> Blocks \cup {Null}] /\ hash[0] # Null
    /\ thrown \in BOOLEAN /\ broken \in BOOLEAN

\* CoinsTip over an opened database.
CacheInit ==
    /\ depth = 1
    /\ db \in [Outpoints -> Coins \cup {Spent}]
    /\ cache = [l \in Caches |-> Empty]
    /\ \E b \in Blocks : hash = [l \in 0..3 |-> IF l = 0 THEN b ELSE Null]
    /\ thrown = FALSE /\ broken = FALSE

-----------------------------------------------------------------------------
\* Reads

\* The coin that cache l finds in itself or further down.
GetCoin(l, o) ==
    IF l >= 3 /\ cache[3][o].present THEN cache[3][o].coin
    ELSE IF l >= 2 /\ cache[2][o].present THEN cache[2][o].coin
    ELSE IF l >= 1 /\ cache[1][o].present THEN cache[1][o].coin
    ELSE db[o]

HaveCoin(o) == GetCoin(depth, o) # Spent

\* A miss asks the next cache and keeps an unspent coin on the way back.
Missed(l, o) == l <= depth /\ \A k \in l..depth : ~cache[k][o].present

FetchCoin(o) ==
    [l \in Caches |->
        IF Missed(l, o) /\ HaveCoin(o)
        THEN [cache[l] EXCEPT ![o] = [present |-> TRUE, coin |-> GetCoin(l, o), dirty |-> FALSE, fresh |-> FALSE]]
        ELSE cache[l]]

BestBlock(l) ==
    IF l >= 3 /\ hash[3] # Null THEN hash[3]
    ELSE IF l >= 2 /\ hash[2] # Null THEN hash[2]
    ELSE IF l >= 1 /\ hash[1] # Null THEN hash[1]
    ELSE hash[0]

\* GetBestBlock of cache d asks the next cache and keeps the answer.
GetBestBlock(d) ==
    [l \in 0..3 |-> IF l <= d /\ \A k \in l..d : hash[k] = Null THEN BestBlock(l) ELSE hash[l]]

-----------------------------------------------------------------------------
\* Changes of one entry

\* FRESH although the spentness of the entry has not been flushed.
AddedEntry_AlwaysFresh(e, coin, overwrite) ==
    [present |-> TRUE, coin |-> coin, dirty |-> TRUE, fresh |-> e.fresh \/ ~overwrite]

AddedEntry(e, coin, overwrite) ==
    [present |-> TRUE, coin |-> coin, dirty |-> TRUE, fresh |-> e.fresh \/ (~overwrite /\ ~e.dirty)]

SpentEntry(e) ==
    IF ~e.present THEN e
    ELSE IF e.fresh THEN NoEntry
    ELSE [present |-> TRUE, coin |-> Spent, dirty |-> TRUE, fresh |-> FALSE]

\* BatchWrite of the child's entry e into the parent's entry u.
Misapplied(e, u) == e.dirty /\ u.present /\ e.fresh /\ u.coin # Spent

WrittenEntry(e, u) ==
    IF ~e.dirty THEN u
    ELSE IF ~u.present
    THEN IF e.fresh /\ e.coin = Spent THEN u
         ELSE [present |-> TRUE, coin |-> e.coin, dirty |-> TRUE, fresh |-> e.fresh]
    ELSE IF u.fresh /\ e.coin = Spent THEN NoEntry
    ELSE [present |-> TRUE, coin |-> e.coin, dirty |-> TRUE, fresh |-> u.fresh]

-----------------------------------------------------------------------------
\* Operations on the cache in use.  A thrown logic_error ends the process: what
\* the step that throws does to the caches is immaterial.

Fetch(o) == cache' = FetchCoin(o) /\ UNCHANGED <<depth, db, hash, thrown>>

\* Markers and coinbases are added with possible_overwrite set; ApplyTxInUndo,
\* RollforwardBlock and, by the check for BIP30, UpdateCoins ask HaveCoin before.
AddCoin(o, coin, checked) ==
    LET fetched == IF checked THEN FetchCoin(o) ELSE cache
        overwrite == IF checked THEN HaveCoin(o) ELSE TRUE
        e == fetched[depth][o]
    IN /\ thrown' = (thrown \/ (~overwrite /\ e.coin # Spent))
       /\ cache' = [fetched EXCEPT ![depth] = [fetched[depth] EXCEPT ![o] = AddedEntry(e, coin, overwrite)]]
       /\ UNCHANGED <<depth, db, hash>>

SpendCoin(o) ==
    LET fetched == FetchCoin(o)
    IN /\ cache' = [fetched EXCEPT ![depth] = [fetched[depth] EXCEPT ![o] = SpentEntry(fetched[depth][o])]]
       /\ UNCHANGED <<depth, db, hash, thrown>>

Uncache(o) ==
    /\ depth = 1
    /\ ~cache[1][o].dirty /\ ~cache[1][o].fresh
    /\ cache' = [cache EXCEPT ![1] = [cache[1] EXCEPT ![o] = NoEntry]]
    /\ UNCHANGED <<depth, db, hash, thrown>>

SetBestBlock(b) == hash' = [hash EXCEPT ![depth] = b] /\ UNCHANGED <<depth, db, cache, thrown>>

\* A view over the cache in use.  ConnectBlock and DisconnectTip call
\* GetBestBlock on it, ApplyShadowBlockResult sets it explicitly.
Open_Lazily == depth < 3 /\ depth' = depth + 1 /\ UNCHANGED <<db, cache, hash, thrown>>

Open ==
    /\ depth < 3
    /\ depth' = depth + 1
    /\ hash' = GetBestBlock(depth + 1)
    /\ UNCHANGED <<db, cache, thrown>>

\* BatchWrite of the outpoints in done into the parent; the view is gone after it.
BatchWrite(done) ==
    /\ thrown' = (thrown \/ \E o \in done : Misapplied(cache[depth][o], cache[depth - 1][o]))
    /\ cache' = [l \in Caches |->
                   IF l = depth THEN Empty
                   ELSE IF l = depth - 1
                   THEN [o \in Outpoints |-> IF o \in done THEN WrittenEntry(cache[depth][o], cache[depth - 1][o])
                                             ELSE cache[depth - 1][o]]
                   ELSE cache[l]]
    /\ depth' = depth - 1
    /\ UNCHANGED db

Flush ==
    /\ depth > 1
    /\ BatchWrite(Outpoints)
    /\ hash' = [l \in 0..3 |-> IF l = depth THEN Null ELSE IF l = depth - 1 THEN hash[depth] ELSE hash[l]]

\* Publishing the staged view runs out of memory in the middle: hashBlock is not
\* reached.  The block ends with LOCAL_INTERNAL_ERROR and ConnectTip drops its view.
FlushFails(done) ==
    /\ depth = 3
    /\ BatchWrite(done)
    /\ hash' = [hash EXCEPT ![3] = Null]

\* A block or its shadow state has failed: the view goes out of scope.
Discard ==
    /\ depth > 1
    /\ cache' = [cache EXCEPT ![depth] = Empty]
    /\ hash' = [hash EXCEPT ![depth] = Null]
    /\ depth' = depth - 1
    /\ UNCHANGED <<db, thrown>>

\* FlushStateToDisk writes the dirty entries of CoinsTip and empties it.
FlushToDisk ==
    /\ depth = 1
    /\ db' = [o \in Outpoints |-> IF cache[1][o].dirty THEN cache[1][o].coin ELSE db[o]]
    /\ cache' = [cache EXCEPT ![1] = Empty]
    /\ hash' = [GetBestBlock(1) EXCEPT ![0] = BestBlock(1)]
    /\ UNCHANGED <<depth, thrown>>

Operation ==
    \/ \E o \in Outpoints : Fetch(o) \/ SpendCoin(o) \/ Uncache(o)
    \/ \E o \in Outpoints, coin \in Coins, checked \in BOOLEAN : AddCoin(o, coin, checked)
    \/ \E b \in Blocks : SetBestBlock(b)
    \/ Open \/ Flush \/ Discard \/ FlushToDisk

CacheNext ==
    \/ ~broken /\ Operation /\ UNCHANGED broken
    \/ ~broken /\ (\E done \in SUBSET Outpoints : FlushFails(done)) /\ broken' = TRUE
    \/ broken /\ Discard /\ broken' = FALSE

CacheSpec == CacheInit /\ [][CacheNext]_cacheVars

-----------------------------------------------------------------------------
\* Properties

\* No call of the caches throws a logic_error: AddCoin never overwrites an
\* unspent coin unasked and BatchWrite never meets a FRESH coin that its parent has.
NoLogicError == ~thrown

\* The flags that SanityCheck asserts to be impossible do not occur.
SanityCheck ==
    \A l \in Caches, o \in Outpoints :
        LET e == cache[l][o]
        IN e.present => /\ e.dirty \/ e.coin # Spent \/ e.fresh
                        /\ ~(e.fresh /\ ~e.dirty /\ e.coin # Spent)
                        /\ ~(e.fresh /\ e.dirty /\ e.coin = Spent)

\* What the flags stand for.  An entry that is not DIRTY is the parent's unspent
\* coin, one that is FRESH is a coin the parent has not, a spent one is DIRTY and
\* not FRESH; a view over CoinsTip knows its best block.
EntryIsCoherent(l, o) ==
    LET e == cache[l][o]
    IN /\ ~e.present => e = NoEntry
       /\ e.present /\ ~e.dirty => ~e.fresh /\ e.coin # Spent /\ e.coin = GetCoin(l - 1, o)
       /\ e.fresh => e.coin # Spent /\ GetCoin(l - 1, o) = Spent

FlagsAreCoherent ==
    /\ \A l \in Caches, o \in Outpoints : EntryIsCoherent(l, o)
    /\ \A l \in 2..depth : hash[l] # Null

\* Whatever was fetched, overwritten, spent, uncached, committed or dropped on
\* the way, the caches answer every GetCoin and GetBestBlock as plain maps would.
Abstract == INSTANCE CoinsView
    WITH view <- [l \in 0..3 |-> [o \in Outpoints |-> GetCoin(l, o)]],
         best <- [l \in 0..3 |-> BestBlock(l)]

ImplementsCoinsView == Abstract!Spec

=============================================================================
