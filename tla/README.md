# Blackcoin Quantum Quasar: a TLA+ verification project

Blackcoin's Quantum Quasar upgrade (Protocol V4) adds to a Bitcoin Core node a
*shadow ledger* of rewards, demurrage on idle coins, an explorer index, a wallet
that recovers stranded claims by itself, and a protected way to rebuild the
chainstate.  This project models those parts, and the coins cache and the flush
that all of them rest on.  TLC checks small instances of the models; TLAPS proves
the central results for every instance.

Contents: 1 the system, 2 the models, 3 the runs, 4 the theorems, 5 findings and
observations, 6 what is not modelled.

## 1. The system

Blackcoin is a fork of Bitcoin Core with proof-of-stake.  Its own logic sits in a
few large files; the rest is inherited infrastructure.

| Part | Source (under `src/src/`) | State it owns | Modules |
|---|---|---|---|
| Lifecycle and reward schedule | `shadow_schedule.cpp`, `consensus/params.h` | none: functions of the height | `ShadowSchedule` |
| Proof-of-work claims (QQSPROOF, QQP1 to QQP4) | `shadow.cpp` | per-block buckets of accounted proofs | `ShadowPowClaims`, `CanonicalPowScan` |
| Active signals (QQSIGNAL) and proof-of-stake payouts | `shadow.cpp` | active-signal marker, delta undo records | `ActiveSignals` |
| Synthetic payouts and their inventory | `shadow.cpp` | claim, payout, spent and inventory markers | `GoldRushInventory` |
| Shadow ledger | `shadow.cpp`, called from `validation.cpp` | marker coins in the UTXO view | `ShadowLedger`, `ShadowLedgerHistory`, `UndoStack` |
| Coins cache | `coins.cpp` | cached coins and their flags | `CoinsCache`, `CoinsView` |
| Flush, crash and replay | `validation.cpp`, `txdb.cpp`, `node/chainstate.cpp` | the coins database and its head markers | `ChainstateFlush`, `DurableTip` |
| Protected rebuild | `node/chainstate.cpp`, `init.cpp` | the chainstate directories and a journal file | `ChainstateRebuild` |
| Demurrage | `consensus/demurrage.cpp`, `validation.cpp` | attestation records and their inventory | `Demurrage` |
| Mempool and assembler around attestations | `validation.cpp`, `txmempool.cpp`, `node/miner.cpp`, `wallet/staking.cpp` | mempool, disconnected transactions | `DemurrageMempool` |
| Shadow index | `index/shadowindex.cpp`, `index/base.cpp` | its own database and an event stream | `ShadowIndex` |
| Claim maintenance executor | `wallet/load.cpp`, `wallet/wallet.cpp` | slots, a mutex, a condition variable | `ClaimMaintenance` |
| Claim recovery | `wallet/shadow_pow_claim_recovery.cpp` and the wallet | managed resolutions and their authority | `ClaimResolution` |

How they interact.  The lifecycle runs Legacy, Gold Rush, Migration, Final.  While
the Gold Rush is on, each block adds a reward to two halves of a pool.  A staker of
the block who is active (has announced a payout script, backed by a recent solve)
releases the proof-of-stake half to all active stakers.  Fee-paying transactions
carry proof-of-work claims: before an activation height the first valid one takes
the proof-of-work half; after it a hash rank elects one winner among the claims
whose origin is the block itself, and every other valid claim, late ones included,
gets its fee back.  Everything paid becomes a synthetic payout, spendable in the
Migration.  From its own activation height on, demurrage lets the coins of an idle
quantum key lose value until the key attests that it is alive.

All of this is stored as marker coins in the UTXO view.  It is flushed with the
view, and every block leaves markers from which it can be undone.  A failed internal
check never rejects a block: the node stops with `FatalError` and asks for a rebuild.
That makes "no internal check ever fails" a correctness property of its own, and it
makes the layers below matter: the cache that holds the markers (`CoinsCache`), the
flush that may be cut short by a crash (`ChainstateFlush`), and the rebuild that is
the way out (`ChainstateRebuild`).  Above the ledger, the index follows the active
chain through notifications that come late, and the wallet's executor and claim
recovery act on snapshots of it.

## 2. The models

Each component is a module; `MC...` modules instantiate one for TLC; `...Proofs`
modules hold theorems.  Three abstract specifications say what a component promises:
`UndoStack` (what was below comes back), `CoinsView` (plain maps), `DurableTip` (a tip
saved in one step).

### 2.1 The shadow ledger

A block is identified with the sequence of block contents from the snapshot block
(height 0) up to it.  Its height is its length, its ancestors are its prefixes, and
a marker keyed by a block hash is keyed by the sequence: two blocks are equal
exactly when their whole histories are.

| Variable | In the code |
|---|---|
| `chain` | the active chain |
| `pool` | `QQSPOOL`, `ShadowPoolState` and the height of its coin |
| `poolUndo` | one `ShadowPoolUndoState` per reward block, with its claims |
| `signals`, `signalUndo` | the active-signal state and its delta records |
| `solvers` | the solver markers |
| `buckets` | the logical-proof buckets |
| `store` | claim, payout and spent markers, payout coins, inventory |
| `replay` | `QQRSTATE`, the fingerprint checked before a disconnect and on restart |

`ConnectBlock(b)` is the whole of the code's handling of one block: the checks of
every input that may be a payout, `RecordSpentGoldRushPayouts` and `UpdateCoins`,
`ApplyShadowBlock`, `AdvanceGoldRushInventoryTip`, `WriteShadowReplayStateMarker`.
Its outcome is "ok", "invalid" (the base block is rejected) or "fatal"; the last two
change nothing, because the code works on staged caches it then drops.
`DisconnectBlock` is `HasCurrentShadowReplayState`, `UndoSpentGoldRushPayouts`,
`UndoShadowBlock`, the return of the coins, `RewindGoldRushInventoryTip` and the
rewritten replay marker, with every check the code makes on the way.
`CanonicalPowScan` runs the canonical accounting of one block transaction by
transaction, with its bounded heap of candidates; `ShadowPowClaims` defines the same
result without the heap, as the reference.
`LedgerSequences` has the operators on sequences that these modules share.

Abstractions.  Scripts, outpoints and transaction hashes are numbers; hashes of
records are the records; MuHash accumulators are the sets they accumulate, so that
hash collisions are excluded.  The rank hash is a constant operator `CanonicalRank`;
the Argon2id hash of a proof is the number of its leading zero bits.  Amounts are
natural numbers: `CheckedAddMoney` and `MoneyRange` are subsumed by the emission cap,
which lies below the money range.  A spent payout is the input of a transaction of
its own; other inputs and outputs of the base block are left out.  The heights obey
`ScheduleAssumption`, as `chainparams.cpp` configures them; chains that take their
phases from time instead of height are not modelled.  `MAX_HEIGHT` bounds the chain.

### 2.2 The coins cache

`CoinsCache` models `CCoinsViewCache` with its DIRTY and FRESH flags in up to three
levels: `CoinsTip`, the view of a block, and the staged view of its shadow state.  The
actions are the calls: fetch, `AddCoin` with and without permission to overwrite,
`SpendCoin`, `Uncache`, `SetBestBlock`, opening a level, `Flush`, `Discard`, and a
`Flush` that fails after any part of its entries, after which the code drops the
level below.  `CoinsView` is what callers rely on: each level is a plain map.

### 2.3 Flush, crash and replay

`ChainstateFlush` keeps the coins database (`db`, its best block, its head markers),
the block index in memory and on disk, the view of the running node and the stage of
a flush or of a start.  `FlushStateToDisk` writes the block index and then the coins,
in batches of any content; `Crash` is possible between any two writes; `Start`,
`Rollback`, `RollforwardBlock` and `ReplayShadowBlocks` are the next start, with the
decision whether the auxiliary records can be trusted.  `Rebuild` is the wiped
chainstate.  A coin is known by the block that made it, so an old coin in a new view
is seen.  A crash is the end of the process, not a power failure: completed writes
stay.  The block files are assumed to be flushed, and the database to be of this
release.

### 2.4 The protected rebuild

`ChainstateRebuild` has one action per file operation of
`BeginStagedChainstateRebuild`, `RecoverInterruptedRebuild`, the two finalizers and
the start around them: `live`, `backup`, `partial` are the directories and `journal`
the journal file.  `Interference` ends the process at any point (a kill, an interrupt
or a failed operation), starts it with any reindex option, and connects blocks.  The
reindex options are one-shot because `init.cpp:925-932` refuses persistent ones.
`kept` is a history variable: the directories when the rebuild was staged.

### 2.5 Demurrage and the mempool

`Demurrage` keeps the chain, the latest record of every key (`QQALIVE`), the rolling
inventory (`QQAINV`), the unspent coins and the undo data.  Signing an attestation
reads the state of the tip, and the transaction may be mined any time later or never.
`ConnectBlock` is the checks of the transactions and of the block, the update of the
coins, and `ApplyDemurrageBlock` with the activation of the inventory;
`DisconnectBlock` is `UndoDemurrageBlock` and the return of the coins.

`DemurrageMempool` adds the mempool.  An attestation refers to a coin it does not
spend and to the previous attestation of its key, so other transactions can make it
unminable without touching its inputs.  `phase` is where `ActivateBestChainStep` is,
all under `cs_main` and the mempool's lock: blocks are disconnected into
`disconnectpool` (`DisconnectTip`), connected (`ConnectTip`, with `removeForBlock`), the
disconnected transactions come back one by one in the order of the queue
(`ResurrectTx`), and the rest of the mempool is checked again
(`MaybeUpdateMempoolForReorg`).  `TxOrder` is the place of a transaction in a block;
transactions with equal places come in any order.

### 2.6 The shadow index

`ShadowIndex` has the two threads of `BaseIndex`: the sync thread (`pindex`, `sync`),
which reads the chain and sets `best` only when it writes the locator, and the
notification handlers (`handler`), which take the oldest of `queue`.  Validation
changes the tip and queues notifications without waiting.  The database holds
`records`, the `customTip` written with them, and the `locator` written separately.
`suppressed` and `message` are the event stream, and `position` is a subscriber that
has read the index by RPC and follows the events.  A kill may come between any two
writes; startup reconciles the custom tip with the locator (`InitIndex`,
`InitRewindBatch`), or refuses and the operator reindexes.  An append reads `CoinsTip`,
which may be at another block by then (`ContextReadable`): the pool marker there is taken
for that of an ancestor by its height and time (`BlockTime`), and the proof buckets of the
ancestors are asked for from `COMPETING_CLAIMS_HEIGHT` on only.

### 2.7 The claim maintenance executor

`ClaimMaintenance` has one action per critical section: the worker, requests,
registration, unloading, `Stop` and `Sync`.  `sleeping` is the set of threads on the
single condition variable; `notify_one` wakes any one of them, and spurious wake-ups
happen.  A requesting thread copies the slot pointer and uses it later (`copied`).

### 2.8 Claim recovery

`ClaimResolution` follows a resolution from plan to relay: a snapshot is taken before
the mutex, the plan checked under it (`Begin`), the record signed and stored
(`Persist`), its authority looked at again (`Review`), the relay reserved (`Reserve`)
and the transaction handed over (`Broadcast`).  The scheduler makes two such calls for
each pass, the operator executes a preview that may be old.  Memory and disk are kept
apart, commits fail, and the process restarts from disk.  The write counter
`generation` is the real one of the database, and the receipt in the component
fingerprint is what makes an old plan stale.  `BUSY` and "chain not ready" are
refusals that change nothing.  A tip is named by its median time past.

A draft also gets authority without any such call.  The operator may take the bytes of a
stored resolution and submit them by `sendrawtransaction`: the mempool accepts them
(`SendRawTransaction`), and the RPC then tells the wallet (`TransactionSubmittedByRpc`),
which holds `cs_wallet` but not the recovery mutex, needs neither a plan nor an unlock and
writes no receipt.  `submitted` is what the wallet has not been told of yet; between the
two steps the draft may be revoked, get its authority from a plan, or the process may end.

## 3. The runs

| Run | Instance | Checks |
|---|---|---|
| `canonical_scan` | blocks of at most 4 of 9 transactions in every order, 2 evaluations, 3 contexts | `SelectionIsCanonical`, `OrderIndependent`, `CopiesCannotSuppress` |
| `ledger` | four menus of 7, 6, 5 and 6 blocks, chains of 5, 6, 7 and 6 | `NeverStops`, `EmissionIsConserved`, `ProofIsPaidOnce`, `ActiveMeansRecentSolve`, `InventoryIsExact`, `DisconnectRestoresParent` |
| `double_spend` | a menu of 3 | `StopsOnlyOnCorruption`, violated |
| `rebuild` | databases up to height 3, any number of stops | `SourcesSurvive`, `NoManualRecovery`, `CommitmentIsStable`, `RollbackRestores`, `RebuildIsResolved` |
| `coins_cache` | one outpoint, two coins, two blocks, three caches | `NoLogicError`, `ImplementsCoinsView` |
| `flush` | two branches of 2 and 4 blocks, three outpoints, auxiliary state from height 3 | `ConsistentWhenMarked`, `ViewIsTheTip`, `NeverFails`, `RebuildIsJustified`, `ImplementsDurableTip`, `NodeGetsUp` |
| `demurrage` | two keys, two attestations, three moves, height 6 | `LatestIsTheChains`, `NeverHalts`, `MempoolIsMinable`, `TemplateIsValid`, `OnlyAttestationRevives` |
| `shadow_index` | two branches of 2 blocks, a kill or an invalidated tip | `RecordsFollowCustomTip`, `SettledIndexHasTip`, `StreamIsContiguous`, `IndexCatchesUp` |
| `index_rewind_assertion` | the same tree | `RewindStartsAtBest`, violated |
| `claim_maintenance` | two wallets, two kinds of request | `NoLostWakeup`, `DrainedBeforeUnload`, `ResolveIsTaken` |
| `claim_resolution` | four scenarios side by side | `OneResolutionPerAnchor`, `AutomaticBudget`, `PublishedUnderConsent`, `AuthorityIsGranted`, `RevocationOutlivesPlans` |
| `claim_relay` | two anchors, submissions of drafts, nothing else changes | `AuthorisedIsRelayed` |

### Why the bounds are enough

- `ledger`: the windows are one or two blocks long.  Five blocks hold a proof at its
  origin, at both late positions and past the window; six hold a solve, its
  announcement, the expiry of the announcement inside the reward window and a block
  past that window; seven let payouts mature, be spent and be restored.  The schedule
  puts the halving, the second reward phase, the activation of the canonical rule and
  of QQP4, and the end of the rewards inside the chain, and the second-phase reward is
  odd so that the two halves differ.  The base target relaxes by a bit per block
  without a winner, so a weak proof becomes valid.  Every state can be left by
  disconnecting, so every reorganisation between any two chains of a menu happens.
- `canonical_scan`: two evaluations against four transactions make the candidate heap
  evict.  The run may stop, since the accounting of one block ends.
- `rebuild`: three heights separate the tip of a source, of a replacement and of a
  commitment.  The number of stops is not bounded.
- `coins_cache`: no operation relates two outpoints, except a publication that fails
  half-way, which one outpoint shows as done or not done.  Two outpoints with one coin
  and one block were also checked; the theorem is for any number.
- `flush`: the two branches create and spend the same outputs in different orders, so
  that a view mixed from both differs from each; one branch has auxiliary state and
  the other has none.
- `demurrage`: two instances in one.  Short chains with a mempool, in which a coinstake,
  a move that depends on it and a move that conflicts with it meet attestations; and
  long chains without one, in which a key gets a coin after another of its coins has
  lost its value.  Attestations are interchangeable, and so symmetric.  Also checked:
  three attestations (612,150 states), height 7 without a mempool, a longer decay with
  one, and reorganisations without a bound (550,731 states).
- `shadow_index`: one fault is enough to reach every recovery path, and two pending
  notifications to have one that is outdated by the next.  Also checked, with no
  violation: 771,790, 1,311,158, 1,956,739 (six blocks) and 5.46 million states with
  more faults, notifications or blocks.  On a branch of three blocks with two
  invalidations the records were also checked with the buckets demanded from the first
  height on and never (559,733 and 554,233 states).  Deadlock is off because a chain may
  stop.
- `claim_maintenance`: two wallets compete for the worker and for a wake-up.  Three
  wallets were also checked (5,853,484 states).  Deadlock is off because a stopped
  executor stops.  That `Stop`, `Sync` and `Unregister` return was also checked.
- `claim_resolution`: `Changing` lets one anchor's claims, locks, tip, policy and miner
  change, `Planning` gives the operator a plan that outlives the process, `Budgeting`
  moves the window over two anchors, `Submitting` lets the operator submit what the
  wallet has stored, at any moment of a call, a revocation or a failed commit.  Larger
  instances of the first three were checked before submissions were added (2,517,343,
  1,448,822 and 2,282,336 states), and `Submitting` with two restarts since (1,264,725
  states).  `Budgeting` has no restarts: that a resolution stored by a commit of unknown
  outcome counts after the reload rests on the theorem `WindowBudget`.
- `claim_relay`: of the operator's submissions only those of drafts are taken, since the
  others change nothing that the property speaks of but the mempool.

### Fairness

Liveness is checked only where the code's scheduling justifies it.

- `rebuild` (`RebuildIsResolved`): the steps of a process go on, a process that has
  committed shuts itself down (`StartShutdown`, `init.cpp:1935`), and a node that is down
  is started again without a reindex option, as the documentation instructs.  It is
  claimed only once stops cease (`calm`).
- `flush` (`NodeGetsUp`): the steps of a start go on.
- `shadow_index` (`IndexCatchesUp`): the threads go on, a node that was asked to stop
  does and is started again, and the operator reindexes when it refuses.  Nothing is
  assumed of blocks, flushes or the locator timer, and the property speaks of a tip
  that rests.
- `claim_maintenance` (`ResolveIsTaken`): a thread that can run does and gets the mutex.
  Nothing is assumed of requests, unloading or a stop.  A pass that throws is given up
  until the next request; the timer asks every minute.
- `claim_relay` (`AuthorisedIsRelayed`): the maintenance pass keeps coming and a call
  that has the mutex goes on.  It is claimed for a state in which chain, claims, policy
  and miner rest, since each of them can take the conditions of a relay away for ever;
  `RelayNext` is therefore the steps that are left.

The other runs check safety and assume no fairness.

## 4. The theorems

All theorems are for every value of the constants that satisfies the named
assumptions: every schedule, block tree, number of keys, wallets or outpoints, and
every bound.  Each inductive invariant was checked by TLC before it was proved.

| Module | Theorems |
|---|---|
| `CanonicalPowScanProofs` | `ScanIsCanonical`, `ValidCarrierIsAccounted`, `AccountingIgnoresOrder`, `CountersAddUp` |
| `ShadowLedgerProofs` | `TypeCorrect`, `EmissionConserved`, `ActivityIsEarned`, `ProofsArePaidOnce` |
| `ChainstateProofs`, on `CoinsCache` | `CachesImplementViews`, `CachesNeverThrow`, `CoherentCaches`, `SanityHolds` |
| `ChainstateProofs`, on `ChainstateRebuild` | `SourcesAreKept`, `RecoveryIsAutomatic`, `CommitmentHolds`, `RollbackIsExact` |
| `ShutdownProofs`, on `ChainstateFlush` | `MarkedIsConsistent`, `RunningViewIsExact`, `NothingFails`, `RebuildsAreJustified`, `FlushIsAtomic` |
| `ShutdownProofs`, on `ClaimMaintenance` | `WakeupsArrive`, `UnloadIsSafe`, `StopIsSafe` |
| `DemurrageProofs` | `RecordsFollowTheChain`, `NodeNeverHalts`, `RevivalIsAttested`, `InventoryIsExact`, `MempoolRefinesChain`, `MempoolStaysMinable`, `TemplatesAreValid` |
| `ShadowIndexProofs` | `TypeCorrect`, `DatabaseIsConsistent`, `RewindsMatch`, `StreamJoins`, `SettledIndexIsCurrent` |
| `ClaimResolutionProofs` | `Durable`, `OneResolution`, `Consent`, `Authority`, `WindowBudget`, `PlansDoNotRevive` |

`ShadowPowClaimsProofs` holds the lemmas about the scan of a block that the first two
modules share.  `ChainstateProofs` and `ShutdownProofs` each extend two components, whose
definitions therefore have different names (`CacheSpec`, `MaintenanceSpec`).

### The arguments

**The canonical scan.**  `ScanInv` says of the scan what `SelectionIsCanonical` says of its
candidates, and that the counters add up (`Balanced`).  The heart is a fact about the M
lowest members of a finite set (`Best`): when a member comes in, either there is room
(`BestWithRoom`), or it displaces the greatest (`BestReplaces`), or it is itself the
greatest and changes nothing (`BestIgnores`); the three are the cases of
`InsertLogicalPowCandidate` (`InsertSelects`).  An evicted proof stays out because M
members below it stay in.  The selection is therefore a function of the *set* of
transactions (`SameSelection`), and so are the best carrier, the election and the sums
(`SameAccount`), which gives the independence of the order.  `CountersAddUp` shows that two
of the three internal checks at the end of the accounting cannot fail.  Assumed of the constants:
the transactions of a block come from a finite set, ranks are numbers and no two
identities share one (`CanonicalPowCandidateLess` is a strict total order), and an
identity determines the payload it is the hash of.

**Emission.**  Conservation is not inductive: a disconnected block takes the pool from
its undo record.  The inductive invariant `TypeOK /\ EmissionInvariant` adds that the
pool state of every undo record is conserved at the height below its block, and that
without a pool marker nothing is owed.  `CreditConserves`, `PayPosConserves` and
`PayPowConserves` show that each step of a reward block moves value without losing any,
given the checks of `ApplyShadowBlockToCache` (`EvaluationConserves`).
`NoRewardWhenInactive` needs the assumption that the lifecycle covers the reward
window.  The scheduled emission is a recursive function; that it exists, so that its
equations may be used, follows from the well-foundedness of the naturals.

**Active signals.**  `SignalInv` says of the signals at the tip, and of those that each undo
record would restore below its block, that every entry is recent at the block where it is
judged and rests on a solver marker of an ancestor that was recent when it was announced
(`Backed`).  A disconnection takes only the markers of the block itself, and a backed
entry never rests on those (`BackedKept`).  A block without an undo record leaves entries
that were announced before it, which the check of the state marker guarantees
(`BackedDown`).  After `REWARD_END` the state is frozen, so it is judged there
(`SignalHeight`).

**One payment per proof.**  `PaidInv` adds to the property that every bucket is that of a
canonical block of the chain and that an origin-bound proof in it names an origin no later
than that block.  A proof is accounted only if its origin is within `LATE_ORIGIN_WINDOW` of
the block, so a bucket that holds it cannot be older than the window and has been read
(`OldBucketsDoNotMatter`).  That a row really belongs to a proof of the block is shown
along the whole accounting: the scan keeps only candidates of the notes it saw
(`InsertKeepsCandidates`, `BlockScansOnly`), a finite set can be listed in rank order
(`RankOrderExists`), and the election changes no identity (`ElectionKeepsRows`).  The
inductions over the transactions and over the size of the set take the least
counterexample, a set of numbers (`LeastNat`).  The theorem assumes that the rank of a
proof is a number (in its statement, since `CanonicalRank` takes any identity) and, in
`ContentAssumption`, that transactions and notes are sequences.

**Coins cache.**  `IInv` is `Stack /\ Hashes /\ ~thrown`: an entry that is not DIRTY is the
parent's coin, a FRESH one is a coin the parent has not, and an absent best block is
the parent's.  Under the mapping "what level l answers" every operation is then a step
of `CoinsView` or a stutter.

**Flush.**  `IInv` is `TypeOK /\ Disk /\ Replay /\ Memory`.  The database under an
unfinished flush is *mixed*: each coin is that of the old or that of the new tip, and
on the blocks up to the fork both agree.  Rolling back and forward block by block
overwrites each outpoint with the right coin whatever was found, so a crash during the
replay leaves a mix again.  The final batch then makes the mark true, which gives the
refinement of `DurableTip`.

**Rebuild.**  `TypeOK /\ RebuildInvariant` is inductive: for each phase of the journal it
says in which of the three places every directory is, and which of them are whole.

**Demurrage.**  `IInv` is `TypeInv /\ RecordInv /\ InventoryMatchesRecords`: the record of
a key is the one its last attestation on the chain wrote, and every attestation of a
block names the record of its key below that block, which is what a disconnection puts
back.  `CoinInv` adds that a coin that exists was created on the chain, and that the
undo data of a block holds the coins below it.  A coin without value cannot be the target of an attestation nor
be spent, and the value of a coin does not grow with the height, so what is lost stays
lost (`RevivalIsAttested`).

**Mempool.**  Every step of the mempool leaves the chain's variables alone or is a step
of `Demurrage` (`MempoolRefinesChain`), so the theorems about the chain hold of the
composition.  `MempoolInv` has two parts.  `Sound` holds even in the middle of a
reorganisation: no member is on the chain, no two spend the same coin, and no two
attest the same key.  `Rechecked` holds at rest: the input of each member, an unspent coin
or the output of another member, and the target and the previous record of each
attestation pass the checks for the next block, and no target is spent in the mempool.
Removal takes the descendants along, so the creators of all inputs stay (`Descendants`, `PartIsSound`); the recheck after a reorganisation
removes whatever fails (`RecheckWorks`).

**Shadow index.**  `IInv` is `TypeOK /\ ChainInv /\ DatabaseInv /\ ProcessInv /\ SyncInv /\
HandlerInv /\ StreamInv`: where each of the two threads stands in terms of the database
and of the queue, for every state of the process.  It rests on facts about block trees
that are proved by induction on the height (`TreeInduction`, `PathBelow`, `LastCommon`,
`Ancestors`).  `SettledIndexIsCurrent` needs `QueueInv` in addition: each pending change
leads to where a later one starts or to the tip (`Links`), and a synced index is on, or
beyond, a block from which a pending change starts, or at the tip.  A handler that
ignores a notification leaves that witness in place; one that follows it moves the
witness along the queue.  The queue of a new tip is a chain of links from the old one
(`NotificationsLink`).

**Claim maintenance.**  `IInv` is `TypeOK /\ WorkerInv /\ SlotInv /\ StopInv /\
NoLostWakeup`.  `notify_one` is enough for a request because a worker that sleeps sleeps
alone (`WorkerSleepsAlone`): then no slot is active or pending, which is what the other
threads would wait for.  A wallet that is being unloaded is cancelled, so its slot is not
taken again once its pass has ended.

**Claim recovery.**  `IInv` is `MemoryIsDurable /\ CallShape /\ OneOnDisk /\
PublishedIsStored /\ WalletIsStored /\ Storing`: memory equals disk unless the wallet
holds its database for ambiguous, what is published was stored, and what the operator can
take from memory and submit has its bytes on disk even then.  `Authority` names both
sources of authority.  For calls it adds `Asked /\ Shown`: a plan that is being executed
shows the records as they are stored.  For submissions it rests on `SubmittedStep`: the
callback looks at the record when it has the wallet, not when the mempool accepted it, so
one draft at most changes and it is not revoked.  `WindowBudget` adds
`BudgetInv`: every window on disk is within a policy, and an automatic call in the middle
of its stores has room, at its tip, for all that it still has to store (`Room`).  A plan
takes a new resolution as long as its rank among the new ones leaves room, which bounds
the size of the plan (`Ranked`).  A resolution of which the bytes are reused keeps its
time and its origin, so neither a retry nor a submission changes a count (`SameCount`).
`PlansDoNotRevive` adds
`RevocationInv /\ QueueInv /\ StoreInv`.  A plan is known by what it shows, and it shows the
receipts of earlier plans; the invariant says that no stored resolution has the receipt of
a plan that shows a resolution with that same receipt.  A tombstone keeps its receipt, so
what a revocation leaves behind has been shown by no plan made before it.  A submission
leaves the receipt alone, so the invariant also says that no plan shows a draft with the
authority that a submission would give it.

### What is only model-checked

- Liveness (`RebuildIsResolved`, `NodeGetsUp`, `IndexCatchesUp`, `ResolveIsTaken`,
  `AuthorisedIsRelayed`): TLAPS does not reason about fairness and `ENABLED`.
- `NeverStops`, `DisconnectRestoresParent` and `InventoryIsExact` of the ledger: that every
  undo meets the markers its block wrote follows the inputs of a block one by one, as a
  fold, and the rolling inventory is a sum over a set; facts about both need induction over
  data for every step of the fold.

## 5. Findings and observations

### Violated by the code

**`double_spend`.**  `ConnectBlock` asks `GetGoldRushPayoutStatus` about every input with
the *parent* of the block as tip.  If an earlier transaction of the block has spent the
payout, the view holds a spent marker of the block's own height, which has no ancestor
below the parent, and the status is `CORRUPT`: the node stops, where the base rules
would have rejected the block.  The comment in that function reserves this outcome for
a record "without either its positive coin or an exact spent tombstone"; here the exact
tombstone exists.  `NeverStops` is therefore checked on menus in which no block spends
one payout twice, and speaks of the blocks of those menus only.

**`index_rewind_assertion`.**  The sync thread rewinds from its own block, while
`m_best_block_index` is set only when the locator is written, so
`assert(current_tip == m_best_block_index)` (`index/base.cpp:250`) fails when a
reorganisation comes in between.  `ShadowIndex` models the end of the process
(`AssertionFails`), and the other properties hold with it.

### Observations

Behaviour that the models show and that no property calls wrong:

- A rebuild that was committed lifts the automation overrides in the process that
  commits (`init.cpp:1837`); `doc/upgrade-v4.md:468` speaks of the verified restart.
- A batch of the coins database that fails (`txdb.cpp:130`) and a later flush that
  succeeds would lose the erasures of the first under a consistency mark; that needs a
  LevelDB that accepts writes after a failed one, and is not modelled.
- A disconnected attestation is refused as a duplicate while its successor is in the
  mempool, and the recheck then drops the successor; a disconnected move whose input is
  the target of an attestation that came back before it is not added again.
- The index: a notification may be stale when it is handled (`index/base.cpp:316`); the
  tip of the index may not be in the block index after a crash (`shadowindex.cpp:850`) or
  be behind the locator (`index/base.cpp:253`); an RPC may read two moments of the chain
  (`rpc/shadow.cpp:164`); a record may be written without its payouts when the chain has
  moved on (`shadowindex.cpp:999`).  After `invalidateblock` the sync may end at the
  disconnected block, which is why `SettledIndexHasTip` says that the tip is on the
  index's chain.  A locator whose blocks are all missing falls back to the chain tip.
- Unloading a wallet twice at once: the second thread does nothing.

## 6. What is not modelled

- Ledger: the time-based lifecycle, the limit in seconds on the age of a solve that a
  signal names (`SHADOW_SOLVER_ACTIVITY_SECONDS`; the limit in blocks is there), the
  construction of the whitelist snapshot, sharded
  encodings, read-only queries.
- Cache: cursors, `Sync` (no caller in the node), `EmplaceCoinInternalDANGER`, memory
  accounting.
- Flush and rebuild: pruning, disk space checks, power failures, partial writes inside a
  database being built, a background chainstate under a snapshot, records of older
  releases.
- Demurrage: effective values of single coins, exemptions, malformed attestations, the
  purge of prerelease records, and `RollforwardDemurrageBlock`, which no caller reaches.
- Mempool: fees, sizes, packages, time locks, eviction from the disconnected pool.
- Index: the witness inventory, the contents of a record beyond whether its payouts were
  found, schema upgrades, RPC formatting, blocks after the Gold Rush.
- Wallet: how claims are classified (a standing that changes at will), adoption and
  repair of claim records, resolutions of older releases, fees, the relay clock, the
  mining gate; coin locks and recovery ambiguity are one flag; one operator with one
  plan, who submits only resolutions that this wallet has stored; staking, automatic signals and redelegation.
- Hashing, signatures, the staking kernel, quantum witness, eUTXO and RGB checks: pure
  functions of one transaction or block.
- Network, scheduler, RPC, GUI: inherited or input and output only.  The GUI's
  translation catalogues (`src/src/qt/locale`) are data.
