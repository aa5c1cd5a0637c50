---------------------------- MODULE ShadowPowClaims ----------------------------
(***************************************************************************)
(* The accounting of the QQSPROOF proof-of-work claims of one block        *)
(* (shadow.cpp): the rule of the first reward blocks, where the first      *)
(* valid claim takes the pool, and the canonical rule from                 *)
(* COMPETING_CLAIMS_HEIGHT on, where a rank that no block producer chooses *)
(* elects the winner and every other valid claim gets its fee back.        *)
(*                                                                         *)
(* A transaction is a record                                               *)
(*   txid     its place in the order of transaction hashes                 *)
(*   regular  neither coinbase nor coinstake                               *)
(*   fee      inputs minus outputs; negative when the sum is invalid       *)
(*   inputs   the legacy scripts its inputs spend                          *)
(*   bound    the outpoint it spends when it has exactly one input, or 0   *)
(*   notes    the sequence of QQSPROOF payloads in its outputs             *)
(* and a payload is a record                                               *)
(*   version  1..4 for QQP1..QQP4, 0 when DecodeProof refuses it           *)
(*   mode     "POW", "POS" or "UNKNOWN"                                    *)
(*   nonce, target, payout                                                 *)
(*   originHeight, originPrev   the origin QQP3 and QQP4 commit to         *)
(*   outpoint                   the input QQP4 commits to                  *)
(*   work     the leading zero bits of its Argon2id hash; 0 also stands    *)
(*            for a target that is no legacy script                        *)
(***************************************************************************)
EXTENDS ShadowSchedule, LedgerSequences

CONSTANT CanonicalRank(_, _, _)
    \* the hash of height, parent and proof identity, as a number

OriginBound(proof) == proof.version >= 3

InputBound(proof) == proof.version = 4

\* What the mode byte says, for a payload with a magic known at this time.
ClassifyProofPayloadMode(proof, qqp4) ==
    IF proof.version = 0 \/ (proof.version = 4 /\ ~qqp4)
    THEN "MALFORMED" ELSE proof.mode

\* The decoded content of a proof, without anything its carrier can vary.
LogicalPowProofId(proof) ==
    IF proof.version = 0 \/ proof.mode = "UNKNOWN" THEN <<0, proof.nonce>>
    ELSE << proof.version, proof.mode, proof.nonce, proof.target, proof.payout,
            IF OriginBound(proof) THEN proof.originHeight ELSE 0,
            IF OriginBound(proof) THEN proof.originPrev ELSE <<>>,
            IF InputBound(proof) THEN proof.outpoint ELSE 0 >>

\* The proof is a valid solution for the block after prev at height.
ValidateQQProofAtBits(proof, height, prev, bits, qqp4) ==
    /\ proof.version >= 2
    /\ proof.mode = "POW"
    /\ IF qqp4 THEN InputBound(proof) /\ IsShadowQQP4Active(height)
               ELSE ~InputBound(proof)
    /\ OriginBound(proof) =>
          /\ IsShadowCompetingClaimsActive(height)
          /\ proof.originHeight = height
          /\ proof.originPrev = prev
    /\ proof.work >= bits

TxSpendsFromScript(tx, script) == script \in tx.inputs

TxSpendsBoundOutpointFromScript(tx, outpoint, script) ==
    tx.bound = outpoint /\ script \in tx.inputs

-----------------------------------------------------------------------------
(***************************************************************************)
(* The rule before COMPETING_CLAIMS_HEIGHT.                                *)
(***************************************************************************)
\* Every note of a regular transaction in block order, with its transaction.
FeePayingNotes(txs) ==
    FoldLeft(LAMBDA notes, tx :
                IF tx.regular
                THEN notes \o [i \in 1..Len(tx.notes) |-> [tx |-> tx, proof |-> tx.notes[i]]]
                ELSE notes,
             <<>>, txs)

\* A payload on which an Argon2id evaluation is spent.
EvaluatedBeforeActivation(proof, ctx) ==
    ValidateQQProofAtBits([proof EXCEPT !.work = MAX_BITS], ctx.height, ctx.prev, 0, ctx.qqp4)

\* The first valid claim takes the whole pool.  The scan ends at a second
\* valid claim or when the evaluations are used up; what was credited stays.
FindLegacyPowShadowClaims(pos, txs, ctx) ==
    LET step(acc, note) ==
            IF acc.stopped \/ ~EvaluatedBeforeActivation(note.proof, ctx) THEN acc
            ELSE IF acc.evals >= MAX_POW_EVALS THEN [acc EXCEPT !.stopped = TRUE]
            ELSE IF /\ note.proof.work >= ctx.bits
                    /\ TxSpendsFromScript(note.tx, note.proof.target)
                    /\ ctx.pool > 0
                 THEN IF acc.credits = <<>>
                      THEN [acc EXCEPT !.evals = @ + 1,
                                       !.credits = << [payout |-> note.proof.payout,
                                                       amount |-> ctx.pool] >>]
                      ELSE [acc EXCEPT !.stopped = TRUE]
                 ELSE [acc EXCEPT !.evals = @ + 1]
        scan == FoldLeft(step, [evals |-> 0, stopped |-> FALSE, credits |-> <<>>],
                         IF pos THEN FeePayingNotes(txs) ELSE <<>>)
    IN [error |-> FALSE, credits |-> scan.credits,
        winner |-> scan.credits # <<>>, accounting |-> <<>>]

-----------------------------------------------------------------------------
(***************************************************************************)
(* The canonical rule.  The context ctx of a block has                     *)
(*   height, prev   the block's height and parent                          *)
(*   pool           the proof-of-work pool with the block's reward in it   *)
(*   bits           the target at the block                                *)
(*   qqp4           only QQP4 proofs count                                 *)
(*   accounted      the proof identities of the recent blocks' buckets     *)
(*   late           the earlier origins, each with height, prev and bits   *)
(***************************************************************************)
RankLess(ctx, id1, id2) ==
    CanonicalRank(ctx.height, ctx.prev, id1) < CanonicalRank(ctx.height, ctx.prev, id2)

\* Mutant: a full set keeps what it saw first.
InsertLogicalPowCandidate_KeepsFirstSeen(candidates, proof, ctx) ==
    LET id == LogicalPowProofId(proof)
    IN IF \E c \in candidates : c.id = id
       THEN {IF c.id = id THEN [c EXCEPT !.observed = @ + 1] ELSE c : c \in candidates}
       ELSE IF Cardinality(candidates) < MAX_POW_EVALS
            THEN candidates \cup {[id |-> id, proof |-> proof, observed |-> 1]}
       ELSE candidates

\* Mutant: a known identity is not counted again.
InsertLogicalPowCandidate_ForgetsCopies(candidates, proof, ctx) ==
    LET id  == LogicalPowProofId(proof)
        all == candidates \cup {[id |-> id, proof |-> proof, observed |-> 1]}
    IN IF \E c \in candidates : c.id = id THEN candidates
       ELSE {c \in all : Cardinality({d \in all : RankLess(ctx, d.id, c.id)}) < MAX_POW_EVALS}

\* One more candidate payload: a known identity is only counted, a new one is
\* kept while it is among the MAX_POW_EVALS lowest ranks seen so far.
InsertLogicalPowCandidate(candidates, proof, ctx) ==
    LET id  == LogicalPowProofId(proof)
        new == [id |-> id, proof |-> proof, observed |-> 1]
        worst == CHOOSE c \in candidates :
                    \A d \in candidates : d = c \/ RankLess(ctx, d.id, c.id)
    IN IF \E c \in candidates : c.id = id
       THEN {IF c.id = id THEN [c EXCEPT !.observed = @ + 1] ELSE c : c \in candidates}
       ELSE IF Cardinality(candidates) < MAX_POW_EVALS THEN candidates \cup {new}
       ELSE IF RankLess(ctx, id, worst.id) THEN (candidates \ {worst}) \cup {new}
       ELSE candidates

\* Before any transaction is scanned.
EmptyScan ==
    [candidates |-> {}, candidateCount |-> 0, observed |-> 0, invalidLocation |-> 0,
     malformed |-> 0, wrongMode |-> 0, unknownMode |-> 0]

\* One transaction: only the single note of a fee-paying transaction of a
\* proof-of-stake block can be a candidate.
ScanTransaction(scan, pos, tx, ctx) ==
    LET count == Len(tx.notes)
        seen  == [scan EXCEPT !.observed = @ + count]
        proof == tx.notes[1]
        mode  == ClassifyProofPayloadMode(proof, ctx.qqp4)
    IN IF ~(pos /\ tx.regular) THEN [seen EXCEPT !.invalidLocation = @ + count]
       ELSE IF count # 1 THEN [seen EXCEPT !.malformed = @ + count]
       ELSE IF mode = "POS" THEN [seen EXCEPT !.wrongMode = @ + 1]
       ELSE IF mode = "UNKNOWN" THEN [seen EXCEPT !.unknownMode = @ + 1]
       ELSE [seen EXCEPT !.candidateCount = @ + 1,
                         !.candidates = InsertLogicalPowCandidate(@, proof, ctx)]

ScanBlock(pos, txs, ctx) ==
    LET scan[n \in 0..Len(txs)] ==
            IF n = 0 THEN EmptyScan ELSE ScanTransaction(scan[n - 1], pos, txs[n], ctx)
    IN scan[Len(txs)]

\* The origin a proof is judged at: the block itself, or an earlier block of
\* the same branch.
LateOrigin(proof, ctx) == OriginBound(proof) /\ proof.originHeight < ctx.height

MatchingOrigins(proof, ctx) ==
    {o \in ctx.late : o.height = proof.originHeight /\ o.prev = proof.originPrev}

\* The classification of a candidate before its carriers are looked at.
ProofDisposition(c, ctx) ==
    LET proof == c.proof
        late  == LateOrigin(proof, ctx)
    IN IF c.id[1] = 0 \/ (ctx.qqp4 # InputBound(proof)) THEN "INVALID_PROOF"
       ELSE IF OriginBound(proof) /\ proof.originHeight > ctx.height THEN "ORIGIN_MISMATCH"
       ELSE IF late /\ ctx.height - proof.originHeight > LATE_ORIGIN_WINDOW
            THEN "ORIGIN_EXPIRED"
       ELSE IF OriginBound(proof) /\ ~late /\ proof.originPrev # ctx.prev
            THEN "ORIGIN_MISMATCH"
       ELSE IF late /\ MatchingOrigins(proof, ctx) = {} THEN "ORIGIN_MISMATCH"
       ELSE IF c.id \in ctx.accounted THEN "ALREADY_ACCOUNTED"
       ELSE LET origin == IF late THEN CHOOSE o \in MatchingOrigins(proof, ctx) : TRUE
                          ELSE [height |-> ctx.height, prev |-> ctx.prev, bits |-> ctx.bits]
            IN IF ValidateQQProofAtBits(proof, origin.height, origin.prev, origin.bits, ctx.qqp4)
               THEN "VALID" ELSE "INVALID_PROOF"

\* The transactions that carry a proof where it counts.
Carriers(pos, txs, id) ==
    {tx \in Range(txs) : /\ pos /\ tx.regular /\ Len(tx.notes) = 1
                         /\ LogicalPowProofId(tx.notes[1]) = id}

Reimbursement(tx) == IF tx.fee < CENT THEN tx.fee ELSE CENT

\* Among several carriers: the largest reimbursement, then the lowest hash.
ReimbursementCarrierBetter(tx1, tx2) ==
    \/ Reimbursement(tx1) > Reimbursement(tx2)
    \/ Reimbursement(tx1) = Reimbursement(tx2) /\ tx1.txid < tx2.txid

BestCarrier(carriers) ==
    CHOOSE tx \in carriers : \A o \in carriers : o = tx \/ ReimbursementCarrierBetter(tx, o)

\* Mutant: the best-paying copy is chosen before its inputs are looked at.
ClaimRow_BestFeeFirst(c, pos, txs, ctx) ==
    LET disposition == ProofDisposition(c, ctx)
        feeValid == {tx \in Carriers(pos, txs, c.id) : tx.fee >= 0}
        row(d, credit) == [id |-> c.id, disposition |-> d, payout |-> c.proof.payout,
                           credit |-> credit]
    IN IF disposition # "VALID" THEN row(disposition, 0)
       ELSE IF feeValid = {} THEN row("INVALID_BASE_FEE", 0)
       ELSE IF ~TxSpendsFromScript(BestCarrier(feeValid), c.proof.target)
            THEN row("INPUT_MISMATCH", 0)
       ELSE row(IF LateOrigin(c.proof, ctx) THEN "REIMBURSED_LATE" ELSE "REIMBURSED_LOSER",
                Reimbursement(BestCarrier(feeValid)))

\* The row of a candidate before the winner is known.
ClaimRow(c, pos, txs, ctx) ==
    LET disposition == ProofDisposition(c, ctx)
        feeValid == {tx \in Carriers(pos, txs, c.id) : tx.fee >= 0}
        eligible == {tx \in feeValid :
                        IF ctx.qqp4
                        THEN TxSpendsBoundOutpointFromScript(tx, c.proof.outpoint, c.proof.target)
                        ELSE TxSpendsFromScript(tx, c.proof.target)}
        row(d, credit) == [id |-> c.id, disposition |-> d, payout |-> c.proof.payout,
                           credit |-> credit]
    IN IF disposition # "VALID" THEN row(disposition, 0)
       ELSE IF feeValid = {} THEN row("INVALID_BASE_FEE", 0)
       ELSE IF eligible = {} THEN row("INPUT_MISMATCH", 0)
       ELSE row(IF LateOrigin(c.proof, ctx) THEN "REIMBURSED_LATE" ELSE "REIMBURSED_LOSER",
                Reimbursement(BestCarrier(eligible)))

CreditsOf(rows, S) == MapThenSumSet(LAMBDA i : rows[i].credit, S)

\* The scanned candidates in rank order, the winner elected: the first
\* claim with the block itself as origin takes what the reimbursements leave.
ElectWinner(rows, pool) ==
    LET current == {i \in DOMAIN rows : rows[i].disposition = "REIMBURSED_LOSER"}
        first   == CHOOSE i \in current : \A j \in current : i <= j
        losers  == {i \in DOMAIN rows : current = {} \/ i # first}
        reimbursed == CreditsOf(rows, losers)
    IN [error  |-> \/ reimbursed > pool
                   \/ current # {} /\ reimbursed >= pool,
        winner |-> current # {},
        rows   |-> [i \in DOMAIN rows |->
                      IF current # {} /\ i = first
                      THEN [rows[i] EXCEPT !.credit = pool - reimbursed, !.disposition = "WINNER"]
                      ELSE rows[i]]]

\* How many notes of the block a finished scan counts in each class.  The
\* code refuses to account a block whose classes do not add up.
SelectedObservations(candidates) ==
    MapThenSumSet(LAMBDA c : c.observed, candidates)

ClassifiedNotes(scan) ==
    LET selected == SelectedObservations(scan.candidates)
    IN scan.invalidLocation + scan.malformed + scan.wrongMode + scan.unknownMode
       + Cardinality(scan.candidates)                 \* one row per selected proof
       + (selected - Cardinality(scan.candidates))    \* duplicate_logical_proof_count
       + (scan.candidateCount - selected)             \* evaluation_limit_count

\* The outcome of a scan whose rows are elected.
AccountingResult(scan, elected) ==
    LET paid == SelectSeq(elected.rows, LAMBDA row : row.credit > 0)
    IN [error |-> \/ elected.error
                  \/ SelectedObservations(scan.candidates) > scan.candidateCount
                  \/ ClassifiedNotes(scan) # scan.observed,
        credits |-> [i \in DOMAIN paid |-> [payout |-> paid[i].payout,
                                            amount |-> paid[i].credit]],
        winner |-> elected.winner,
        accounting |-> elected.rows]

\* The candidates in rank order (sort_heap).  The code orders two candidates whose
\* rank hashes collide by identity; here their order is any one.
RankedCandidates(candidates, ctx) ==
    CHOOSE ranked \in Injection(1..Cardinality(candidates), candidates) :
        \A i, j \in DOMAIN ranked : i < j => ~RankLess(ctx, ranked[j].id, ranked[i].id)

\* The rows and credits of a scanned block.
AccountScan(scan, pos, txs, ctx) ==
    LET ranked == RankedCandidates(scan.candidates, ctx)
        rows   == [i \in DOMAIN ranked |-> ClaimRow(ranked[i], pos, txs, ctx)]
    IN AccountingResult(scan, ElectWinner(rows, ctx.pool))

FindCanonicalPowShadowClaims(pos, txs, ctx) ==
    IF ctx.pool <= 0
    THEN [error |-> FALSE, credits |-> <<>>, winner |-> FALSE, accounting |-> <<>>]
    ELSE AccountScan(ScanBlock(pos, txs, ctx), pos, txs, ctx)

\* The identities a block adds to its bucket: every proof that won or was
\* found reimbursable, also one whose fee is 0.
AccountedProofs(accounting) ==
    {row.id : row \in {r \in Range(accounting) :
                         r.disposition \in {"WINNER", "REIMBURSED_LOSER", "REIMBURSED_LATE"}}}
=============================================================================
