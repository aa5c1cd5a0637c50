--------------------------- MODULE CanonicalPowScan ---------------------------
(***************************************************************************)
(* FindCanonicalPowShadowClaimsImpl as it runs over one block: the         *)
(* transactions are scanned one by one into the bounded candidate set,     *)
(* then the selected proofs are classified and paid.                       *)
(***************************************************************************)
EXTENDS ShadowPowClaims

CONSTANTS
    Transactions,   \* the transactions a block is made of, with distinct txids
    Contexts,       \* the contexts a block is accounted in
    MaxBlockTxs     \* the longest block

\* The payloads that are alone in a transaction: only these can be candidates.
Payloads == {tx.notes[1] : tx \in {t \in Transactions : Len(t.notes) = 1}}

ASSUME TransactionsAssumption ==
    /\ IsFiniteSet(Transactions)
    /\ \A tx \in Transactions : Len(tx.notes) \in Nat

\* CanonicalPowCandidateLess is a strict total order on the identities: no two
\* of them share a rank.
ASSUME RankAssumption ==
    \A where \in Contexts : \A p, q \in Payloads :
        LET rank(x) == CanonicalRank(where.height, where.prev, LogicalPowProofId(x))
        IN /\ rank(p) \in Nat
           /\ rank(p) = rank(q) => LogicalPowProofId(p) = LogicalPowProofId(q)

\* The identity is the hash of the decoded content, which determines the rest.
ASSUME IdentityAssumption ==
    \A p, q \in Payloads : LogicalPowProofId(p) = LogicalPowProofId(q) => p = q

VARIABLES
    ctx,        \* the context of the block
    pos,        \* the block is a proof-of-stake block
    txs,        \* its transactions, in block order
    scanned,    \* how many of them have been scanned
    scan,       \* the candidates and counters so far
    result      \* <<>> until the block is accounted, then << the result >>

vars == <<ctx, pos, txs, scanned, scan, result>>

Orders(S) == {o \in [1..Cardinality(S) -> S] : Range(o) = S}

BlockOrders == UNION {Orders(S) : S \in {T \in SUBSET Transactions : Cardinality(T) <= MaxBlockTxs}}

Init ==
    /\ ctx \in Contexts
    /\ pos \in BOOLEAN
    /\ txs \in BlockOrders
    /\ scanned = 0
    /\ scan = EmptyScan
    /\ result = <<>>

ScanNext ==
    /\ scanned < Len(txs)
    /\ scan' = ScanTransaction(scan, pos, txs[scanned + 1], ctx)
    /\ scanned' = scanned + 1
    /\ UNCHANGED <<ctx, pos, txs, result>>

Account ==
    /\ scanned = Len(txs)
    /\ result = <<>>
    /\ result' = <<AccountScan(scan, pos, txs, ctx)>>
    /\ UNCHANGED <<ctx, pos, txs, scanned, scan>>

Next == ScanNext \/ Account

Spec == Init /\ [][Next]_vars

-----------------------------------------------------------------------------
\* The candidate payloads of the transactions scanned so far.
CandidateAt(i) ==
    /\ pos /\ txs[i].regular /\ Len(txs[i].notes) = 1
    /\ ClassifyProofPayloadMode(txs[i].notes[1], ctx.qqp4) \notin {"POS", "UNKNOWN"}

SeenAt(id) == {i \in 1..scanned : CandidateAt(i) /\ LogicalPowProofId(txs[i].notes[1]) = id}

SeenIds == {LogicalPowProofId(txs[i].notes[1]) : i \in {j \in 1..scanned : CandidateAt(j)}}

\* The bounded candidate set of InsertLogicalPowCandidate holds, at every
\* point of the scan, exactly the MAX_POW_EVALS distinct proofs of lowest rank
\* seen so far, each with the exact number of its carriers: an evicted proof
\* never comes back, and a proof that stays was counted from its first carrier.
SelectionIsCanonical ==
    LET selected == {c.id : c \in scan.candidates}
    IN /\ selected = {id \in SeenIds :
                        Cardinality({o \in SeenIds : RankLess(ctx, o, id)}) < MAX_POW_EVALS}
       /\ \A c \in scan.candidates : c.observed = Cardinality(SeenAt(c.id))

\* The accounting of a block does not depend on the order of its transactions:
\* whoever orders them can neither elect another winner nor move a credit.
OrderIndependent ==
    result # <<>> =>
        \A o \in Orders(Range(txs)) :
            AccountScan(ScanBlock(pos, o, ctx), pos, o, ctx) = result[1]

\* "An invalid copied wrapper can therefore never suppress a valid carrier":
\* once a selected proof is valid, one transaction that pays its fee and spends
\* the proof's target is enough for a row that is accounted, whatever other
\* transactions carry copies of the proof.
CopiesCannotSuppress ==
    result # <<>> =>
        \A c \in scan.candidates :
            /\ ProofDisposition(c, ctx) = "VALID"
            /\ \E tx \in Carriers(pos, txs, c.id) :
                  /\ tx.fee >= 0
                  /\ IF ctx.qqp4
                     THEN TxSpendsBoundOutpointFromScript(tx, c.proof.outpoint, c.proof.target)
                     ELSE TxSpendsFromScript(tx, c.proof.target)
            => c.id \in AccountedProofs(result[1].accounting)
=============================================================================
