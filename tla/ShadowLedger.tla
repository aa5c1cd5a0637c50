----------------------------- MODULE ShadowLedger -----------------------------
(***************************************************************************)
(* The shadow ledger as blocks connect and disconnect (the Quantum Quasar  *)
(* parts of ConnectBlock and DisconnectBlock in validation.cpp, with       *)
(* ApplyShadowBlock and UndoShadowBlock in shadow.cpp).                    *)
(*                                                                         *)
(* All of the ledger is marker coins in the UTXO view; every variable but  *)
(* chain is one kind of marker.  A block is identified with the sequence   *)
(* of block contents from the snapshot block up to it, so its height is    *)
(* its length, its ancestors are its prefixes, and a marker keyed by a     *)
(* block hash is keyed by that sequence.                                   *)
(*                                                                         *)
(* The content of a block is a record                                      *)
(*   pos, staker   whether it is proof-of-stake, and the staking script    *)
(*   signals       QQSIGNAL announcements: target, payout, authorized, and *)
(*                 the age of the solve they name                          *)
(*   txs           transactions as in ShadowPowClaims, each note with the  *)
(*                 age of its origin and whether it is on this branch      *)
(*   spends        the payouts its transactions spend, in order, each      *)
(*                 named by origin height and index                        *)
(***************************************************************************)
EXTENDS ShadowPowClaims, ActiveSignals, GoldRushInventory

CONSTANTS
    Content,            \* the record of every block content
    MAX_HEIGHT,         \* bound: the highest block considered
    COINBASE_MATURITY,  \* nCoinbaseMaturity
    MAX_CLAIM_MARKERS   \* MAX_SHADOW_CLAIM_MARKERS_PER_BLOCK

Blocks == DOMAIN Content

(***************************************************************************)
(* The transactions of a block and their notes are sequences, and a note   *)
(* says which version it is and how old its origin.                        *)
(***************************************************************************)
ASSUME ContentAssumption ==
    \A b \in Blocks :
        /\ "txs" \in DOMAIN Content[b]
        /\ Content[b].txs \in Seq(Range(Content[b].txs))
        /\ \A i \in DOMAIN Content[b].txs :
              LET tx == Content[b].txs[i]
              IN /\ "notes" \in DOMAIN tx
                 /\ tx.notes \in Seq(Range(tx.notes))
                 /\ \A j \in DOMAIN tx.notes : tx.notes[j].version \in 0..4 /\ tx.notes[j].age \in Nat

VARIABLES
    chain,      \* the active chain after the snapshot block
    pool,       \* QQSPOOL: the pool state and the height that wrote it
    poolUndo,   \* the pool undo marker of every reward block
    signals,    \* QQSACTIVE: the active-signal state
    signalUndo, \* the active-signal undo record of every block that changed it
    solvers,    \* the solver markers
    buckets,    \* the logical-proof bucket of every canonical block
    store,      \* claim markers, payouts, spent markers and the inventory
    replay      \* QQRSTATE: the fingerprint of all of the above at the tip

vars == <<chain, pool, poolUndo, signals, signalUndo, solvers, buckets, store, replay>>

-----------------------------------------------------------------------------
\* The pool (ShadowPoolState): the two halves not yet paid, what was paid, and
\* how often and when each half was won.
EmptyPool ==
    [pow |-> 0, pos |-> 0, claimed |-> 0, powCount |-> 0, posCount |-> 0,
     lastPow |-> 0, lastPos |-> 0]

NoPool == [present |-> FALSE, height |-> 0, state |-> EmptyPool]

Obligation(state) == state.claimed + state.pow + state.pos

ShadowObligationWithinCap(state) == Obligation(state) <= MAX_EMISSION

\* The block's reward added to the two halves.
CreditReward(state, reward) ==
    [state EXCEPT !.pow = @ + reward \div 2, !.pos = @ + (reward - reward \div 2)]

PayPos(state, total, height) ==
    IF total = 0 THEN state
    ELSE [state EXCEPT !.claimed = @ + total, !.posCount = @ + 1, !.lastPos = height,
                       !.pos = 0]

\* Mutant: reimbursements without a winner are not taken from the half.
PayPow_KeepsReimbursed(state, total, winner, height) ==
    IF winner
    THEN [state EXCEPT !.claimed = @ + total, !.powCount = @ + 1, !.lastPow = height,
                       !.pow = 0]
    ELSE [state EXCEPT !.claimed = @ + total]

\* Only a winner empties the half and counts as a solve.
PayPow(state, total, winner, height) ==
    IF winner
    THEN [state EXCEPT !.claimed = @ + total, !.powCount = @ + 1, !.lastPow = height,
                       !.pow = 0]
    ELSE [state EXCEPT !.claimed = @ + total, !.pow = @ - total]

SumAmounts(payouts) == FoldLeft(LAMBDA sum, p : sum + p.amount, 0, payouts)

Put(f, key, value) == [k \in DOMAIN f \cup {key} |-> IF k = key THEN value ELSE f[k]]

Drop(f, key) == [k \in DOMAIN f \ {key} |-> f[k]]

ClaimCounts == [b \in DOMAIN poolUndo |-> Len(poolUndo[b].claims)]

-----------------------------------------------------------------------------
\* A note as its place in the chain makes it concrete.
ConcreteNote(block, note) ==
    LET origin == IF note.age < Len(block) THEN Len(block) - note.age ELSE 0
    IN [version |-> note.version, mode |-> note.mode, nonce |-> note.nonce,
        target |-> note.target, payout |-> note.payout, outpoint |-> note.outpoint,
        work |-> note.work, originHeight |-> origin,
        originPrev |-> IF note.onBranch /\ origin > 0 THEN Ancestor(Front(block), origin - 1)
                       ELSE <<0>>]

\* The content of a block as its parent makes it concrete.
Concrete(block) ==
    LET body == Content[Last(block)]
        parent == Front(block)
        height == Len(block)
    IN [body EXCEPT
          !.txs = [i \in DOMAIN body.txs |->
                     [body.txs[i] EXCEPT !.notes = [j \in DOMAIN @ |-> ConcreteNote(block, @[j])]]],
          !.signals = [i \in DOMAIN body.signals |->
                         [target |-> body.signals[i].target, payout |-> body.signals[i].payout,
                          authorized |-> body.signals[i].authorized,
                          solve |-> IF body.signals[i].age \in 1..height
                                    THEN Ancestor(parent, height - body.signals[i].age)
                                    ELSE <<0>>]]]

\* The payouts a block spends: {} for an outpoint that never existed.
SpentPayouts(block) ==
    LET refs == Content[Last(block)].spends
    IN [i \in DOMAIN refs |->
          {p \in store.records : /\ refs[i].height < Len(block)
                                 /\ p.block = Ancestor(block, refs[i].height)
                                 /\ p.index = refs[i].index}]

-----------------------------------------------------------------------------
(***************************************************************************)
(* The base block: its inputs, one by one.                                 *)
(***************************************************************************)
\* The checks ConnectBlock makes of an input that may be a payout, then
\* RecordSpentGoldRushPayouts and UpdateCoins.  The first input that fails
\* decides: a corrupt payout stops the node, any other failure rejects the block.
ConnectInput(step, block, payouts, input) ==
    IF step.outcome # "ok" THEN step
    ELSE IF payouts = {} THEN [step EXCEPT !.outcome = "invalid"]
    ELSE LET payout == CHOOSE p \in payouts : TRUE
             status == GetGoldRushPayoutStatus(step.store, ClaimCounts, payout, Front(block))
             record == RecordSpentGoldRushPayout([ok |-> TRUE, store |-> step.store],
                                                 ClaimCounts, block, payout, input)
         IN IF status = "CORRUPT" THEN [step EXCEPT !.outcome = "fatal"]
            ELSE IF \/ payout \notin step.store.coins
                    \/ Len(block) - Len(payout.block) < COINBASE_MATURITY
                    \/ ~IsQuantumWitnessSpendActive(Len(block))
                 THEN [step EXCEPT !.outcome = "invalid"]
            ELSE [outcome |-> IF record.ok THEN "ok" ELSE "fatal", store |-> record.store]

ConnectInputs(block) ==
    LET payouts == SpentPayouts(block)
    IN FoldLeft(LAMBDA step, i : ConnectInput(step, block, payouts[i], i),
                [outcome |-> "ok", store |-> store], [n \in DOMAIN payouts |-> n])

-----------------------------------------------------------------------------
(***************************************************************************)
(* The proof-of-work claims of a block in the state the ledger is in.      *)
(***************************************************************************)
\* Mutant: the window is one block short.
RecentBucketHeights_Short(tip) ==
    LET top   == IF Len(tip) < REWARD_END THEN Len(tip) ELSE REWARD_END
        first == top - LATE_ORIGIN_WINDOW + 2
    IN (IF first < COMPETING_CLAIMS_HEIGHT THEN COMPETING_CLAIMS_HEIGHT ELSE first)..top

\* Mutant: the window reaches back before the first bucket.
RecentBucketHeights_Unclamped(tip) ==
    LET top == IF Len(tip) < REWARD_END THEN Len(tip) ELSE REWARD_END
    IN (top - LATE_ORIGIN_WINDOW + 1)..top

\* The heights whose buckets still matter at a tip.
RecentBucketHeights(tip) ==
    LET top   == IF Len(tip) < REWARD_END THEN Len(tip) ELSE REWARD_END
        first == top - LATE_ORIGIN_WINDOW + 1
    IN (IF first < COMPETING_CLAIMS_HEIGHT THEN COMPETING_CLAIMS_HEIGHT ELSE first)..top

\* ReadRecentLogicalProofs: every bucket is there and no proof is in two.
RecentProofsReadable(tip) ==
    LET heights == RecentBucketHeights(tip)
        blocks  == {Ancestor(tip, h) : h \in heights}
    IN /\ blocks \subseteq DOMAIN buckets
       /\ \A b, c \in blocks : b # c => buckets[b] \cap buckets[c] = {}

RecentLogicalProofs(tip) == UNION {buckets[Ancestor(tip, h)] : h \in RecentBucketHeights(tip)}

\* The pool a block starts from: << state >>, or <<>> on a local error.
PredecessorPool(block) ==
    IF block \in DOMAIN poolUndo THEN <<poolUndo[block].previous>>
    ELSE IF Len(block) = REWARD_START
         THEN IF pool.present THEN <<>> ELSE <<EmptyPool>>
    ELSE IF pool.present /\ pool.height < Len(block) THEN <<pool.state>> ELSE <<>>

\* The earlier blocks of this branch that selected proofs name as their origin.
ReferencedOrigins(block, candidates, qqp4) ==
    {h \in 1..(Len(block) - 1) :
        /\ IF qqp4 THEN IsShadowQQP4Active(h) ELSE IsShadowCompetingClaimsActive(h)
        /\ Len(block) - h <= LATE_ORIGIN_WINDOW
        /\ \E c \in candidates : /\ c.proof.version = (IF qqp4 THEN 4 ELSE 3)
                                 /\ c.proof.originHeight = h
                                 /\ c.proof.originPrev = Ancestor(block, h - 1)}

OriginContext(block, h) ==
    [height |-> h, prev |-> Ancestor(block, h - 1),
     bits |-> RetargetedBits(poolUndo[Ancestor(block, h)].previous.lastPow, h)]

\* The context of a block before its late origins are known.
CurrentOriginContext(block, predecessor) ==
    [height |-> Len(block), prev |-> Front(block),
     pool |-> predecessor.pow + ShadowBaseReward(Len(block)) \div 2,
     bits |-> RetargetedBits(predecessor.lastPow, Len(block)),
     qqp4 |-> IsShadowQQP4Active(Len(block)),
     accounted |-> RecentLogicalProofs(Front(block)), late |-> {}]

PrepareLateOrigins(block, ctx, origins) ==
    IF \A h \in origins : Ancestor(block, h) \in DOMAIN poolUndo
    THEN [ok |-> TRUE, ctx |-> [ctx EXCEPT !.late = {OriginContext(block, h) : h \in origins}]]
    ELSE [ok |-> FALSE]

PrepareAtOrigin(block, body, ctx) ==
    PrepareLateOrigins(block, ctx,
        ReferencedOrigins(block, ScanBlock(body.pos, body.txs, ctx).candidates, ctx.qqp4))

PrepareShadowPowClaimAccounting(block, body) ==
    LET predecessor == PredecessorPool(block)
    IN IF predecessor = <<>> \/ ~RecentProofsReadable(Front(block)) THEN [ok |-> FALSE]
       ELSE PrepareAtOrigin(block, body, CurrentOriginContext(block, predecessor[1]))

FindPreparedPowShadowClaims(body, credited, prepared) ==
    IF ~prepared.ok \/ prepared.ctx.pool # credited.pow
    THEN [error |-> TRUE, credits |-> <<>>, winner |-> FALSE, accounting |-> <<>>]
    ELSE FindCanonicalPowShadowClaims(body.pos, body.txs, prepared.ctx)

FindPowShadowClaims(block, body, credited) ==
    IF IsShadowCompetingClaimsActive(Len(block))
    THEN FindPreparedPowShadowClaims(body, credited, PrepareShadowPowClaimAccounting(block, body))
    ELSE FindLegacyPowShadowClaims(body.pos, body.txs,
            [height |-> Len(block), prev |-> Front(block), pool |-> credited.pow,
             bits |-> RetargetedBits(credited.lastPow, Len(block)), qqp4 |-> FALSE])

-----------------------------------------------------------------------------
(***************************************************************************)
(* ApplyShadowBlock.                                                       *)
(***************************************************************************)
GetShadowSyntheticClaimLimit(height) ==
    LET derived == Cardinality(Whitelist) + MAX_POW_EVALS
    IN IF ~IsShadowCompetingClaimsActive(height) \/ MAX_CLAIM_MARKERS < derived
       THEN MAX_CLAIM_MARKERS ELSE derived

\* The claims of a block in marker order: stakers first, then proofs.
ClaimsToApply(block, posPayouts, powCredits) ==
    LET paid == posPayouts \o powCredits
    IN [i \in DOMAIN paid |->
          [block |-> block, index |-> i, payout |-> paid[i].payout, amount |-> paid[i].amount,
           mode |-> IF i <= Len(posPayouts) THEN "POS" ELSE "POW", undoPool |-> pool.state]]

\* The markers of a reward block, given who is active and what is credited to
\* whom; ok when every check of ApplyShadowBlockToCache passes.
CheckedEvaluation(block, view, credited, solver, entries, posPayouts, pow) ==
    LET height   == Len(block)
        posTotal == SumAmounts(posPayouts)
        powTotal == SumAmounts(pow.credits)
        post     == PayPow(PayPos(credited, posTotal, height), powTotal, pow.winner, height)
        proofs   == AccountedProofs(pow.accounting)
        claims   == ClaimsToApply(block, posPayouts, pow.credits)
        issued   == AddClaimMarkers(view, block, claims)
        changed  == ~signals.present \/ signals.entries # entries
    IN [ok |-> /\ pool.present => pool.height < height
               /\ ShadowObligationWithinCap(credited)
               /\ ActiveSignalPoolPairValid(pool.present, signals, Front(block))
               /\ Cardinality(DOMAIN entries) <= Cardinality(Whitelist)
               /\ ~pow.error
               /\ posTotal \in {0, credited.pos}
               /\ powTotal \in 0..credited.pow
               /\ pow.winner => powTotal = credited.pow
               /\ pow.credits # <<>> => powTotal > 0
               /\ ShadowObligationWithinCap(post)
               /\ Len(posPayouts) <= Cardinality(Whitelist)
               /\ Len(claims) <= GetShadowSyntheticClaimLimit(height)
               /\ changed => block \notin DOMAIN signalUndo
               /\ issued.ok
               /\ Cardinality(proofs) <= MAX_POW_EVALS
               /\ IsShadowCompetingClaimsActive(height) => block \notin DOMAIN buckets
               /\ block \notin DOMAIN poolUndo,
        solver |-> solver, entries |-> entries, changed |-> changed, proofs |-> proofs,
        claims |-> claims, post |-> post, store |-> issued.store]

\* The signals active in a block: those not expired, and its own.
ActiveEntries(block, announced) ==
    UpsertActiveSignals(FilterActiveSignals(signals.entries, Len(block)),
                        FindValidShadowSignalsInBlock(solvers, block, announced), Len(block))

PaymentEvaluation(block, view, body, credited, solver, entries) ==
    CheckedEvaluation(block, view, credited, solver, entries,
                      BuildPosPayouts(credited.pos, solver, entries),
                      FindPowShadowClaims(block, body, credited))

\* Everything ApplyShadowBlockToCache computes for a reward block whose inputs
\* have left the store as in view.
ShadowEvaluation(block, view) ==
    LET body == Concrete(block)
    IN PaymentEvaluation(block, view, body,
                         CreditReward(pool.state, ShadowBaseReward(Len(block))),
                         GetCurrentSolverScript(body.pos, body.staker),
                         ActiveEntries(block, body.signals))

ApplyShadowBlock(block, eval) ==
    /\ pool' = [present |-> TRUE, height |-> Len(block), state |-> eval.post]
    /\ poolUndo' = Put(poolUndo, block,
          [present |-> pool.present, height |-> pool.height, previous |-> pool.state,
           marker |-> Ancestor(block, pool.height), post |-> eval.post, claims |-> eval.claims])
    /\ solvers' = solvers \cup {[block |-> block, target |-> t] : t \in Range(eval.solver)}
    /\ IF eval.changed
       THEN /\ signals' = [present |-> TRUE, marker |-> block, entries |-> eval.entries]
            /\ signalUndo' = Put(signalUndo, block, ActiveSignalUndo(signals, block, eval.entries))
       ELSE UNCHANGED <<signals, signalUndo>>
    /\ buckets' = IF IsShadowCompetingClaimsActive(Len(block))
                  THEN Put(buckets, block, eval.proofs) ELSE buckets

-----------------------------------------------------------------------------
(***************************************************************************)
(* The replay-state marker.                                                *)
(***************************************************************************)
ReplayStateFingerprint(tip, pool_, signals_, buckets_, inventory) ==
    [tip |-> tip, pool |-> pool_, signals |-> signals_, inventory |-> inventory,
     window |-> IF IsShadowCompetingClaimsActive(Len(tip))
                THEN {<<b, buckets_[b]>> : b \in {Ancestor(tip, h) : h \in RecentBucketHeights(tip)}
                                                  \cap DOMAIN buckets_}
                ELSE {}]

HasCurrentShadowReplayState(tip) ==
    /\ ActiveSignalPoolPairValid(pool.present, signals, tip)
    /\ ValidateGoldRushInventorySummary(store.inventory, tip,
            IF pool.present THEN <<pool.state.claimed>> ELSE <<>>)
    /\ IsShadowCompetingClaimsActive(Len(tip)) => RecentProofsReadable(tip)
    /\ replay = ReplayStateFingerprint(tip, pool, signals, buckets, store.inventory)

-----------------------------------------------------------------------------
(***************************************************************************)
(* ConnectBlock.                                                           *)
(***************************************************************************)
\* What connecting a block comes to: "ok", "invalid" when the base block is
\* rejected, "fatal" when the node stops; and the markers to write.
EvaluatedConnection(block, eval) ==
    LET advance == AdvanceGoldRushInventoryTip(eval.store, block)
    IN [outcome |-> IF eval.ok /\ advance.ok THEN "ok" ELSE "fatal",
        eval |-> eval, store |-> advance.store]

InputsConnection(block, inputs) ==
    IF inputs.outcome # "ok" THEN [outcome |-> inputs.outcome]
    ELSE EvaluatedConnection(block,
            IF IsShadowGoldRushRewardActive(Len(block))
            THEN ShadowEvaluation(block, inputs.store)
            ELSE [ok |-> TRUE, store |-> inputs.store])

Connection(block) == InputsConnection(block, ConnectInputs(block))

WriteConnection(block, connection) ==
    /\ connection.outcome = "ok"
    /\ chain' = block
    /\ IF IsShadowGoldRushRewardActive(Len(block))
       THEN ApplyShadowBlock(block, connection.eval)
       ELSE UNCHANGED <<pool, poolUndo, signals, signalUndo, solvers, buckets>>
    /\ store' = connection.store
    /\ replay' = ReplayStateFingerprint(block, pool', signals', buckets', store'.inventory)

ConnectBlock(b) ==
    /\ Len(chain) < MAX_HEIGHT
    /\ WriteConnection(Append(chain, b), Connection(Append(chain, b)))

-----------------------------------------------------------------------------
(***************************************************************************)
(* DisconnectBlock.                                                        *)
(***************************************************************************)
\* UndoShadowBlock, with the store as undoing the spends left it.
ShadowUndo(block, view) ==
    LET undo     == poolUndo[block]
        parent   == Front(block)
        taken    == UndoClaimMarkers(view, ClaimCounts, block, undo.claims)
        sig      == UndoActiveSignalMarkers(signals,
                        IF block \in DOMAIN signalUndo THEN <<signalUndo[block]>> ELSE <<>>,
                        block, undo.present)
        restored == IF undo.present
                    THEN [present |-> TRUE, height |-> undo.height, state |-> undo.previous]
                    ELSE NoPool
    IN [ok |-> /\ IsShadowCompetingClaimsActive(Len(block)) => block \in DOMAIN buckets
               /\ pool.present /\ pool.height = Len(block)
               /\ ActiveSignalPoolPairValid(pool.present, signals, block)
               /\ block \in DOMAIN poolUndo
               /\ pool.state = undo.post
               /\ undo.present =>
                     undo.height < Len(block) /\ undo.marker = Ancestor(parent, undo.height)
               /\ taken.ok
               /\ sig.ok
               /\ ActiveSignalPoolPairValid(restored.present, sig.state, parent),
        pool |-> restored, signals |-> sig.state, store |-> taken.store]

\* The inventory rewound after the shadow block, and the coins returned.
RewoundDisconnection(block, payouts, undo) ==
    LET rewound == RewindGoldRushInventoryTip(undo.store, block)
    IN [ok |-> HasCurrentShadowReplayState(block) /\ undo.ok /\ rewound.ok,
        pool |-> undo.pool, signals |-> undo.signals,
        store |-> [rewound.store EXCEPT !.coins = @ \cup Range(payouts)]]

UnspentDisconnection(block, payouts, unspent) ==
    IF ~unspent.ok THEN [ok |-> FALSE]
    ELSE RewoundDisconnection(block, payouts,
            IF IsShadowGoldRushRewardActive(Len(block))
            THEN ShadowUndo(block, unspent.store)
            ELSE [ok |-> TRUE, pool |-> pool, signals |-> signals, store |-> unspent.store])

Disconnection(block) ==
    LET found   == SpentPayouts(block)
        payouts == [i \in DOMAIN found |-> CHOOSE p \in found[i] : TRUE]
    IN IF \E i \in DOMAIN found : found[i] = {} THEN [ok |-> FALSE]
       ELSE UnspentDisconnection(block, payouts,
                UndoSpentGoldRushPayouts(store, ClaimCounts, block, payouts))

WriteDisconnection(undone) ==
    /\ undone.ok
    /\ pool' = undone.pool
    /\ signals' = undone.signals
    /\ store' = undone.store

DisconnectBlock ==
    /\ chain # <<>>
    /\ WriteDisconnection(Disconnection(chain))
    /\ IF IsShadowGoldRushRewardActive(Len(chain))
       THEN /\ poolUndo' = Drop(poolUndo, chain)
            /\ signalUndo' = Drop(signalUndo, chain)
            /\ solvers' = solvers \ {[block |-> chain, target |-> t] :
                              t \in Range(GetCurrentSolverScript(Content[Last(chain)].pos,
                                                                 Content[Last(chain)].staker))}
            /\ buckets' = Drop(buckets, chain)
       ELSE UNCHANGED <<poolUndo, signalUndo, solvers, buckets>>
    /\ chain' = Front(chain)
    /\ replay' = ReplayStateFingerprint(chain', pool', signals', buckets', store'.inventory)

-----------------------------------------------------------------------------
Init ==
    /\ chain = <<>>
    /\ pool = NoPool
    /\ poolUndo = <<>>
    /\ signals = NoSignalState
    /\ signalUndo = <<>>
    /\ solvers = {}
    /\ buckets = <<>>
    /\ store = EmptyStore
    /\ replay = ReplayStateFingerprint(<<>>, pool, signals, buckets, store.inventory)

Next == DisconnectBlock \/ \E b \in Blocks : ConnectBlock(b)

Spec == Init /\ [][Next]_vars

-----------------------------------------------------------------------------
\* The values of the pool marker and of the undo records that restore it.
PoolStates ==
    [pow : 0..MAX_EMISSION, pos : 0..MAX_EMISSION, claimed : 0..MAX_EMISSION,
     powCount : Nat, posCount : Nat, lastPow : Nat, lastPos : Nat]

PoolMarkers == [present : BOOLEAN, height : Nat, state : PoolStates]

\* The markers have the shape their decoders accept: amounts within the emission
\* cap in every pool state, and every undo record and bucket keyed by a block.
TypeOK ==
    /\ chain \in Seq(Blocks)
    /\ pool \in PoolMarkers
    /\ DOMAIN poolUndo \subseteq Seq(Blocks)
    /\ \A b \in DOMAIN poolUndo :
          /\ poolUndo[b].present \in BOOLEAN
          /\ poolUndo[b].height \in Nat
          /\ poolUndo[b].previous \in PoolStates
          /\ poolUndo[b].post \in PoolStates
    /\ DOMAIN signalUndo \subseteq Seq(Blocks)
    /\ DOMAIN buckets \subseteq Seq(Blocks)

\* No internal check of ConnectBlock or DisconnectBlock ever fails: in every state
\* that blocks and reorganisations lead to, each block is either connected or
\* rejected as invalid, and the tip can be disconnected; the node never stops
\* for a rebuild of its chainstate.
NeverStops ==
    /\ Len(chain) < MAX_HEIGHT =>
          \A b \in Blocks : Connection(Append(chain, b)).outcome # "fatal"
    /\ chain # <<>> => Disconnection(chain).ok

\* What GetExpectedShadowObligation demands of a replayed chainstate: paid and
\* unpaid amounts of the pool always add up to the emission scheduled up to the
\* tip, whatever was claimed, left over or reorganised away.
EmissionIsConserved == Obligation(pool.state) = GetScheduledShadowEmissionThrough[Len(chain)]

\* Why the emission stays conserved: without a pool marker nothing is owed or
\* paid, and the pool state each undo record would restore is itself conserved at
\* the height it would be restored to.
EmissionInvariant ==
    /\ EmissionIsConserved
    /\ ~pool.present => pool.state = EmptyPool
    /\ \A b \in DOMAIN poolUndo :
          /\ Len(b) > 0
          /\ ~poolUndo[b].present => poolUndo[b].previous = EmptyPool
          /\ Obligation(poolUndo[b].previous) = GetScheduledShadowEmissionThrough[Len(b) - 1]

\* One logical proof is paid at most once on a branch: no QQP3 or QQP4 proof is in
\* the buckets of two blocks, although it may be carried again in any of the
\* LATE_ORIGIN_WINDOW blocks after its origin and buckets older than the window
\* are not read any more.
ProofIsPaidOnce ==
    \A b, c \in DOMAIN buckets : b # c => \A id \in buckets[b] \cap buckets[c] : id[1] < 3

\* A staker counts as active only on the strength of a solve of this very branch:
\* during the reward heights every entry of the active-signal state was announced
\* within the activity window, and its target had solved a block of the chain,
\* still marked, within the window before that.
ActiveMeansRecentSolve ==
    IsShadowGoldRushRewardActive(Len(chain)) =>
        \A t \in DOMAIN signals.entries :
            LET announced == signals.entries[t].height
            IN /\ Len(chain) - announced \in 0..SOLVER_ACTIVITY_WINDOW
               /\ \E s \in solvers : /\ s.target = t
                                     /\ IsPrefix(s.block, chain)
                                     /\ announced - Len(s.block) \in 1..SOLVER_ACTIVITY_WINDOW

\* What DeepAuditGoldRushClaimInventory audits: the rolling inventory agrees with
\* the claim and payout markers themselves, every payout ever credited on this
\* branch is either an unspent coin or has a spent marker of a block of this
\* branch, never both, and the nominal value issued is what the pool has paid.
InventoryIsExact ==
    LET inv == store.inventory
        spentPayouts == {s.payout : s \in store.spent}
        nominal(payouts) == MapThenSumSet(LAMBDA p : p.amount, payouts)
    IN /\ store.records = {PayoutOf(c) : c \in store.claims}
       /\ store.coins = store.records \ spentPayouts /\ spentPayouts \subseteq store.records
       /\ Cardinality(spentPayouts) = Cardinality(store.spent)
       /\ \A s \in store.spent : IsPrefix(s.block, chain)
       /\ \A b \in DOMAIN poolUndo : Range(poolUndo[b].claims) = {c \in store.claims : c.block = b}
       /\ inv.issued = store.records /\ inv.unspent = store.coins
       /\ inv.issuedCount = Cardinality(store.records)
       /\ inv.spentCount = Cardinality(store.spent)
       /\ inv.spentNominal = nominal(spentPayouts)
       /\ inv.issuedNominal = nominal(store.records)
       /\ inv.issuedNominal = pool.state.claimed

\* "A valid record without either its positive coin or an exact spent tombstone is
\* local chainstate corruption" (GetGoldRushPayoutStatus): ConnectBlock stops the
\* node over a payout only if the chainstate has such a record.
StopsOnlyOnCorruption ==
    Len(chain) < MAX_HEIGHT =>
        \A b \in Blocks :
            Connection(Append(chain, b)).outcome = "fatal" =>
                \E p \in store.records :
                    p \notin store.coins /\ \A s \in store.spent : s.payout # p
=============================================================================
