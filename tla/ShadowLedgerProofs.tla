--------------------------- MODULE ShadowLedgerProofs ---------------------------
(***************************************************************************)
(* Type correctness, conservation of the emission, the solves behind       *)
(* active signals and the single payment of a proof, for every schedule,   *)
(* every whitelist, every rank function and every set of block contents.   *)
(***************************************************************************)
EXTENDS ShadowLedger, ShadowPowClaimsProofs

-----------------------------------------------------------------------------
(* The ledger. *)

\* Pool states without the emission cap, which a block may exceed halfway.
Amounts ==
    [pow : Nat, pos : Nat, claimed : Nat, powCount : Nat, posCount : Nat,
     lastPow : Nat, lastPos : Nat]

\* Crediting a block adds exactly its reward to what is owed, odd units included.
LEMMA CreditConserves ==
    ASSUME NEW s \in Amounts, NEW reward \in Nat
    PROVE  /\ CreditReward(s, reward) \in Amounts
           /\ Obligation(CreditReward(s, reward)) = Obligation(s) + reward
<1>. DEFINE c == CreditReward(s, reward)
<1>1. reward \div 2 \in Nat /\ reward - (reward \div 2) \in Nat
  OBVIOUS
<1>2. c = [pow |-> s.pow + reward \div 2, pos |-> s.pos + (reward - reward \div 2),
           claimed |-> s.claimed, powCount |-> s.powCount, posCount |-> s.posCount,
           lastPow |-> s.lastPow, lastPos |-> s.lastPos]
  <2>1. c = [s EXCEPT !.pow = s.pow + reward \div 2,
                      !.pos = s.pos + (reward - reward \div 2)]
    BY Zenon DEF CreditReward
  <2>. HIDE DEF c
  <2>. QED  BY <2>1, Zenon DEF Amounts
<1>. HIDE DEF c
<1>3. c \in Amounts /\ Obligation(c) = Obligation(s) + reward
  BY <1>1, <1>2 DEF Obligation, Amounts
<1>. QED  BY <1>3, Zenon DEF c

\* A payment of the whole proof-of-stake half, or none, moves value and loses none.
LEMMA PayPosConserves ==
    ASSUME NEW s \in Amounts, NEW total \in {0, s.pos}, NEW height \in Nat
    PROVE  /\ PayPos(s, total, height) \in Amounts
           /\ PayPos(s, total, height).pow = s.pow
           /\ Obligation(PayPos(s, total, height)) = Obligation(s)
<1>. DEFINE p == PayPos(s, total, height)
<1>1. CASE total = 0
  BY <1>1, Zenon DEF PayPos
<1>2. CASE total # 0
  <2>1. p = [pow |-> s.pow, pos |-> 0, claimed |-> s.claimed + total,
             powCount |-> s.powCount, posCount |-> s.posCount + 1,
             lastPow |-> s.lastPow, lastPos |-> height]
    BY <1>2, Zenon DEF PayPos, Amounts
  <2>. HIDE DEF p
  <2>2. total = s.pos
    BY <1>2, Zenon
  <2>3. p \in Amounts /\ p.pow = s.pow /\ Obligation(p) = Obligation(s)
    BY <2>1, <2>2 DEF Obligation, Amounts
  <2>. QED  BY <2>3, Zenon DEF p
<1>. QED  BY <1>1, <1>2, Zenon

\* So does a payment out of the proof-of-work half, of all of it to a winner or
\* of a part of it to reimbursements.
LEMMA PayPowConserves ==
    ASSUME NEW s \in Amounts, NEW total \in 0..s.pow, NEW winner, NEW height \in Nat,
           winner => total = s.pow
    PROVE  /\ PayPow(s, total, winner, height) \in Amounts
           /\ Obligation(PayPow(s, total, winner, height)) = Obligation(s)
<1>. DEFINE p == PayPow(s, total, winner, height)
<1>1. total \in Nat /\ s.pow - total \in Nat /\ s.claimed + total \in Nat
  BY DEF Amounts
<1>2. CASE winner
  <2>1. p = [pow |-> 0, pos |-> s.pos, claimed |-> s.claimed + total,
             powCount |-> s.powCount + 1, posCount |-> s.posCount,
             lastPow |-> height, lastPos |-> s.lastPos]
    BY <1>2, Zenon DEF PayPow, Amounts
  <2>. HIDE DEF p
  <2>2. p \in Amounts /\ Obligation(p) = Obligation(s)
    BY <1>1, <1>2, <2>1, SMTT(60) DEF Obligation, Amounts
  <2>. QED  BY <2>2, Zenon DEF p
<1>3. CASE ~winner
  <2>1. p = [pow |-> s.pow - total, pos |-> s.pos, claimed |-> s.claimed + total,
             powCount |-> s.powCount, posCount |-> s.posCount,
             lastPow |-> s.lastPow, lastPos |-> s.lastPos]
    BY <1>3, Zenon DEF PayPow, Amounts
  <2>. HIDE DEF p
  <2>2. p \in Amounts /\ Obligation(p) = Obligation(s)
    BY <1>1, <2>1 DEF Obligation, Amounts
  <2>. QED  BY <2>2, Zenon DEF p
<1>. QED  BY <1>2, <1>3, Zenon

\* A pool state is an amount record, and one within the cap is a pool state.
LEMMA CappedAmounts ==
    /\ PoolStates \subseteq Amounts
    /\ \A s \in Amounts : ShadowObligationWithinCap(s) => s \in PoolStates
<1>1. MAX_EMISSION \in Nat
  BY AmountAssumption, Zenon
<1>. QED  BY <1>1 DEF PoolStates, Amounts, ShadowObligationWithinCap, Obligation

\* What one reward block does to the pool: its reward is added to the obligation
\* and the result is within the emission cap.
LEMMA PaymentsConserve ==
    ASSUME NEW state \in PoolStates, NEW reward \in Nat, NEW height \in Nat,
           NEW posTotal, NEW powTotal, NEW winner, NEW credited, NEW post,
           credited = CreditReward(state, reward),
           post = PayPow(PayPos(credited, posTotal, height), powTotal, winner, height),
           posTotal \in {0, credited.pos},
           powTotal \in 0..credited.pow,
           winner => powTotal = credited.pow,
           ShadowObligationWithinCap(post)
    PROVE  /\ post \in PoolStates
           /\ Obligation(post) = Obligation(state) + reward
<1>. DEFINE afterPos == PayPos(credited, posTotal, height)
<1>1. credited \in Amounts /\ Obligation(credited) = Obligation(state) + reward
  BY CreditConserves, CappedAmounts, Zenon
<1>2. /\ afterPos \in Amounts /\ afterPos.pow = credited.pow
      /\ Obligation(afterPos) = Obligation(credited)
  BY <1>1, PayPosConserves, Zenon
<1>. HIDE DEF afterPos
<1>3. post = PayPow(afterPos, powTotal, winner, height)
  BY Zenon DEF afterPos
<1>4. post \in Amounts /\ Obligation(post) = Obligation(afterPos)
  BY <1>2, <1>3, PayPowConserves
<1>. QED  BY <1>1, <1>2, <1>4, CappedAmounts, Zenon

\* The checks of ApplyShadowBlockToCache let only conserved states through,
\* whatever the signals and the claims of the block come to.
LEMMA ChecksConserve ==
    ASSUME NEW block, NEW view, NEW solver, NEW entries, NEW posPayouts, NEW pow,
           NEW state \in PoolStates, NEW reward \in Nat, Len(block) \in Nat,
           NEW credited, credited = CreditReward(state, reward),
           CheckedEvaluation(block, view, credited, solver, entries, posPayouts, pow).ok
    PROVE  LET post == CheckedEvaluation(block, view, credited, solver, entries,
                                         posPayouts, pow).post
           IN post \in PoolStates /\ Obligation(post) = Obligation(state) + reward
<1>. DEFINE height   == Len(block)
            posTotal == SumAmounts(posPayouts)
            powTotal == SumAmounts(pow.credits)
            winner   == pow.winner
            post     == PayPow(PayPos(credited, posTotal, height), powTotal, winner, height)
<1>1. /\ posTotal \in {0, credited.pos}
      /\ powTotal \in 0..credited.pow
      /\ winner => powTotal = credited.pow
      /\ ShadowObligationWithinCap(post)
  BY Zenon DEF CheckedEvaluation
<1>2. CheckedEvaluation(block, view, credited, solver, entries, posPayouts, pow).post = post
  BY Zenon DEF CheckedEvaluation
<1>3. post = PayPow(PayPos(credited, posTotal, height), powTotal, winner, height)
      /\ height \in Nat
  BY Zenon
<1>. HIDE DEF posTotal, powTotal, winner, post, height
<1>4. post \in PoolStates /\ Obligation(post) = Obligation(state) + reward
  BY <1>1, <1>3, PaymentsConserve, SMTT(60)
<1>. QED  BY <1>2, <1>4, Zenon

\* ApplyShadowBlock writes only states that its checks have let through.
LEMMA EvaluationConserves ==
    ASSUME NEW block, NEW view, Len(block) \in Nat, pool.state \in PoolStates,
           ShadowEvaluation(block, view).ok
    PROVE  LET post == ShadowEvaluation(block, view).post
           IN /\ post \in PoolStates
              /\ Obligation(post) = Obligation(pool.state) + ShadowBaseReward(Len(block))
<1>. DEFINE credited == CreditReward(pool.state, ShadowBaseReward(Len(block)))
<1>1. PICK solver, entries, posPayouts, pow :
         ShadowEvaluation(block, view) =
            CheckedEvaluation(block, view, credited, solver, entries, posPayouts, pow)
  BY Zenon DEF ShadowEvaluation, PaymentEvaluation
<1>2. ShadowBaseReward(Len(block)) \in Nat
  BY ShadowBaseRewardType, Zenon
<1>3. credited = CreditReward(pool.state, ShadowBaseReward(Len(block)))
  BY Zenon
<1>. HIDE DEF credited
<1>. QED  BY <1>1, <1>2, <1>3, ChecksConserve

\* Outside the reward heights of the Gold Rush nothing is emitted: the lifecycle
\* covers the reward window.
LEMMA NoRewardWhenInactive ==
    ASSUME NEW h \in Nat, ~IsShadowGoldRushRewardActive(h)
    PROVE  ShadowBaseReward(h) = 0
<1>1. ~IsShadowGoldRushRewardHeight(h)
  <2>1. SUFFICES ASSUME IsShadowGoldRushRewardHeight(h) PROVE FALSE
    BY Zenon
  <2>2. h >= LIFECYCLE_START /\ h <= GOLD_RUSH_END
    BY <2>1, ScheduleAssumption DEF IsShadowGoldRushRewardHeight
  <2>3. GetQuantumLifecycleState(h) = "GOLD_RUSH"
    BY <2>2, ScheduleAssumption DEF GetQuantumLifecycleState
  <2>. QED  BY <2>1, <2>3, Zenon DEF IsShadowGoldRushRewardActive
<1>. QED  BY <1>1, Zenon DEF ShadowBaseReward

\* The parent of a block: one shorter, and a chain of blocks again.
LEMMA FrontOfChain ==
    ASSUME NEW S, NEW c \in Seq(S), c # <<>>
    PROVE  Front(c) \in Seq(S) /\ Len(c) \in Nat \ {0} /\ Len(Front(c)) = Len(c) - 1
<1>1. Len(c) \in Nat /\ Len(c) # 0
  OBVIOUS
<1>2. PICK n \in Nat : Len(c) = n + 1
  <2>1. Len(c) - 1 \in Nat /\ Len(c) = (Len(c) - 1) + 1
    BY <1>1
  <2>. QED  BY <2>1, Zenon
<1>3. \A i \in 1..n : c[i] \in S
  BY <1>2
<1>4. n \in Int /\ 1 \in Int /\ (IF 1 <= n THEN (n - 1) + 1 ELSE 0) = n /\ (n + 1) - 1 = n
  OBVIOUS
<1>5. SubSeq(c, 1, n) \in Seq(S) /\ Len(SubSeq(c, 1, n)) = n
  BY <1>3, <1>4
<1>. QED  BY <1>1, <1>2, <1>4, <1>5, Zenon DEF Front

-----------------------------------------------------------------------------
\* The inductive invariant: conservation is not inductive by itself, because a
\* disconnected block hands the pool back from its undo record.
Conserved == TypeOK /\ EmissionInvariant

\* It holds in the chainstate of the snapshot block.
LEMMA ConservedInit == Init => Conserved
<1>. SUFFICES ASSUME Init PROVE Conserved
  BY Zenon
<1>1. EmptyPool \in PoolStates /\ Obligation(EmptyPool) = 0
  BY AmountAssumption DEF EmptyPool, PoolStates, Obligation
<1>2. NoPool \in PoolMarkers /\ NoPool.state = EmptyPool
  BY <1>1, Zenon DEF NoPool, PoolMarkers
<1>3. chain \in Seq(Blocks) /\ Len(chain) = 0
  BY DEF Init
<1>4. DOMAIN poolUndo = {} /\ DOMAIN signalUndo = {} /\ DOMAIN buckets = {}
  BY DEF Init
<1>5. TypeOK
  BY <1>2, <1>3, <1>4, Zenon DEF Init, TypeOK
<1>6. EmissionInvariant
  BY <1>1, <1>2, <1>3, <1>4, EmissionUnfolds, Zenon DEF Init, EmissionInvariant, EmissionIsConserved
<1>. QED  BY <1>5, <1>6, Zenon DEF Conserved

\* Connecting a block preserves it.
LEMMA ConservedConnect ==
    ASSUME Conserved, NEW b \in Blocks, ConnectBlock(b)
    PROVE  Conserved'
<1>. DEFINE block == Append(chain, b)
            E     == GetScheduledShadowEmissionThrough
<1>1. /\ chain' = block /\ block \in Seq(Blocks) /\ Len(chain) \in Nat
      /\ Len(block) = Len(chain) + 1 /\ Len(block) \in Nat /\ Len(block) - 1 = Len(chain)
  BY DEF Conserved, TypeOK, ConnectBlock, WriteConnection
<1>2. E[Len(block)] = E[Len(chain)] + ShadowBaseReward(Len(block))
  BY <1>1, EmissionUnfolds, Zenon
<1>3. pool.state \in PoolStates /\ pool.height \in Nat /\ pool.present \in BOOLEAN
  BY Zenon DEF Conserved, TypeOK, PoolMarkers
<1>4. CASE ~IsShadowGoldRushRewardActive(Len(block))
  <2>1. UNCHANGED <<pool, poolUndo, signalUndo, buckets>>
    BY <1>4, Zenon DEF ConnectBlock, WriteConnection
  <2>2. ShadowBaseReward(Len(block)) = 0
    BY <1>1, <1>4, NoRewardWhenInactive, Zenon
  <2>3. TypeOK'
    BY <1>1, <2>1, Zenon DEF Conserved, TypeOK
  <2>4. Obligation(pool.state) = E[Len(chain)] /\ Obligation(pool.state) \in Nat
    BY <1>3, CappedAmounts, SMTT(60) DEF Conserved, EmissionInvariant, EmissionIsConserved,
                               Obligation, Amounts
  <2>5. EmissionIsConserved'
    BY <1>1, <1>2, <2>1, <2>2, <2>4 DEF EmissionIsConserved
  <2>6. EmissionInvariant'
    BY <2>1, <2>5, Zenon DEF Conserved, EmissionInvariant
  <2>. QED  BY <2>3, <2>6, Zenon DEF Conserved
<1>5. CASE IsShadowGoldRushRewardActive(Len(block))
  <2>. DEFINE eval == Connection(block).eval
  <2>1. PICK view : eval = ShadowEvaluation(block, view) /\ eval.ok
    BY <1>5, Zenon DEF ConnectBlock, WriteConnection, Connection, InputsConnection,
                EvaluatedConnection
  <2>2. ApplyShadowBlock(block, eval)
    BY <1>5, Zenon DEF ConnectBlock, WriteConnection
  <2>. HIDE DEF eval
  <2>3. /\ eval.post \in PoolStates
        /\ Obligation(eval.post) = Obligation(pool.state) + ShadowBaseReward(Len(block))
    BY <1>1, <1>3, <2>1, EvaluationConserves, Zenon
  <2>4. pool' = [present |-> TRUE, height |-> Len(block), state |-> eval.post]
    BY <2>2, Zenon DEF ApplyShadowBlock
  <2>5. PICK undo : /\ poolUndo' = Put(poolUndo, block, undo)
                    /\ undo.present = pool.present /\ undo.height = pool.height
                    /\ undo.previous = pool.state /\ undo.post = eval.post
    BY <2>2 DEF ApplyShadowBlock
  <2>6. /\ DOMAIN poolUndo' = DOMAIN poolUndo \cup {block}
        /\ poolUndo'[block] = undo
        /\ \A k \in DOMAIN poolUndo : k # block => poolUndo'[k] = poolUndo[k]
    BY <2>5, Zenon DEF Put
  <2>7. DOMAIN signalUndo' \subseteq Seq(Blocks) /\ DOMAIN buckets' \subseteq Seq(Blocks)
    <3>1. \/ signalUndo' = signalUndo
          \/ \E v : signalUndo' = Put(signalUndo, block, v)
      BY <2>2, Zenon DEF ApplyShadowBlock
    <3>2. buckets' = buckets \/ \E v : buckets' = Put(buckets, block, v)
      BY <2>2, Zenon DEF ApplyShadowBlock
    <3>3. DOMAIN signalUndo' \subseteq DOMAIN signalUndo \cup {block}
      BY <3>1, Zenon DEF Put
    <3>4. DOMAIN buckets' \subseteq DOMAIN buckets \cup {block}
      BY <3>2, Zenon DEF Put
    <3>. QED  BY <1>1, <3>3, <3>4, Zenon DEF Conserved, TypeOK
  <2>8. pool' \in PoolMarkers
    BY <1>1, <2>3, <2>4, Zenon DEF PoolMarkers
  <2>9. TypeOK'
    BY <1>1, <1>3, <2>3, <2>5, <2>6, <2>7, <2>8, ZenonT(60) DEF Conserved, TypeOK
  <2>10. EmissionIsConserved'
    BY <1>1, <1>2, <2>3, <2>4, Zenon DEF Conserved, EmissionInvariant, EmissionIsConserved
  <2>11. EmissionInvariant'
    <3>1. ASSUME NEW k \in DOMAIN poolUndo'
          PROVE  /\ Len(k) > 0
                 /\ ~poolUndo'[k].present => poolUndo'[k].previous = EmptyPool
                 /\ Obligation(poolUndo'[k].previous) = E[Len(k) - 1]
      <4>1. CASE k = block
        <5>1. Obligation(pool.state) = E[Len(block) - 1]
          BY <1>1, Zenon DEF Conserved, EmissionInvariant, EmissionIsConserved
        <5>2. ~pool.present => pool.state = EmptyPool
          BY Zenon DEF Conserved, EmissionInvariant
        <5>3. Len(block) > 0
          BY <1>1
        <5>. QED  BY <2>5, <2>6, <4>1, <5>1, <5>2, <5>3, Zenon
      <4>2. CASE k # block
        <5>1. k \in DOMAIN poolUndo /\ poolUndo'[k] = poolUndo[k]
          BY <2>6, <4>2, Zenon
        <5>. QED  BY <5>1, Zenon DEF Conserved, EmissionInvariant
      <4>. QED  BY <4>1, <4>2, Zenon
    <3>2. pool'.present
      BY <2>4, Zenon
    <3>. QED  BY <2>10, <3>1, <3>2, Zenon DEF EmissionInvariant
  <2>. QED  BY <2>9, <2>11, Zenon DEF Conserved
<1>. QED  BY <1>4, <1>5, Zenon

\* Disconnecting the tip preserves it: the pool that comes back was conserved when
\* the block was connected on top of it.
LEMMA ConservedDisconnect ==
    ASSUME Conserved, DisconnectBlock
    PROVE  Conserved'
<1>. DEFINE E == GetScheduledShadowEmissionThrough
<1>1. /\ chain' = Front(chain) /\ chain' \in Seq(Blocks) /\ Len(chain) \in Nat \ {0}
      /\ Len(chain') = Len(chain) - 1
  BY FrontOfChain, Zenon DEF Conserved, TypeOK, DisconnectBlock
<1>2. PICK n \in Nat : Len(chain) = n + 1 /\ Len(chain') = n
  <2>1. Len(chain) - 1 \in Nat /\ Len(chain) = (Len(chain) - 1) + 1
    BY <1>1
  <2>. QED  BY <1>1, <2>1, Zenon
<1>3. E[Len(chain)] = E[Len(chain')] + ShadowBaseReward(Len(chain))
  BY <1>2, EmissionUnfolds, Zenon
<1>4. Disconnection(chain).ok /\ pool' = Disconnection(chain).pool
  BY Zenon DEF DisconnectBlock, WriteDisconnection
<1>5. CASE ~IsShadowGoldRushRewardActive(Len(chain))
  <2>1. pool' = pool
    BY <1>4, <1>5, Zenon DEF Disconnection, UnspentDisconnection, RewoundDisconnection
  <2>2. UNCHANGED <<poolUndo, signalUndo, buckets>>
    BY <1>5, Zenon DEF DisconnectBlock
  <2>3. TypeOK'
    BY <1>1, <2>1, <2>2, Zenon DEF Conserved, TypeOK
  <2>4. ShadowBaseReward(Len(chain)) = 0
    BY <1>1, <1>5, NoRewardWhenInactive, Zenon
  <2>5. Obligation(pool.state) = E[Len(chain)]
    BY Zenon DEF Conserved, EmissionInvariant, EmissionIsConserved
  <2>6. E[Len(chain')] \in Nat
    BY <1>2, EmissionUnfolds, Zenon
  <2>7. EmissionIsConserved'
    BY <1>3, <2>1, <2>4, <2>5, <2>6, SMTT(60) DEF EmissionIsConserved
  <2>8. EmissionInvariant'
    BY <2>1, <2>2, <2>7, ZenonT(60) DEF Conserved, EmissionInvariant
  <2>. QED  BY <2>3, <2>8, Zenon DEF Conserved
<1>6. CASE IsShadowGoldRushRewardActive(Len(chain))
  <2>. DEFINE undo == poolUndo[chain]
  <2>1. /\ chain \in DOMAIN poolUndo
        /\ pool' = IF undo.present
                    THEN [present |-> TRUE, height |-> undo.height, state |-> undo.previous]
                    ELSE NoPool
    <3>1. PICK view : /\ ShadowUndo(chain, view).ok
                      /\ Disconnection(chain).pool = ShadowUndo(chain, view).pool
      BY <1>4, <1>6, Zenon DEF Disconnection, UnspentDisconnection, RewoundDisconnection
    <3>. QED  BY <1>4, <3>1, Zenon DEF ShadowUndo
  <2>2. /\ undo.present \in BOOLEAN /\ undo.height \in Nat /\ undo.previous \in PoolStates
        /\ ~undo.present => undo.previous = EmptyPool
        /\ Obligation(undo.previous) = E[Len(chain) - 1]
    BY <2>1, Zenon DEF Conserved, TypeOK, EmissionInvariant
  <2>3. pool' \in PoolMarkers /\ pool'.state = undo.previous /\ pool'.present = undo.present
    <3>1. EmptyPool \in PoolStates
      BY AmountAssumption DEF EmptyPool, PoolStates
    <3>. HIDE DEF undo
    <3>. QED  BY <2>1, <2>2, <3>1, ZenonT(60) DEF NoPool, PoolMarkers
  <2>4. /\ poolUndo' = Drop(poolUndo, chain) /\ signalUndo' = Drop(signalUndo, chain)
        /\ buckets' = Drop(buckets, chain)
    BY <1>6, Zenon DEF DisconnectBlock
  <2>5. /\ DOMAIN poolUndo' \subseteq DOMAIN poolUndo
        /\ \A k \in DOMAIN poolUndo' : poolUndo'[k] = poolUndo[k]
        /\ DOMAIN signalUndo' \subseteq DOMAIN signalUndo
        /\ DOMAIN buckets' \subseteq DOMAIN buckets
    BY <2>4, Zenon DEF Drop
  <2>6. TypeOK'
    BY <1>1, <2>3, <2>5, ZenonT(60) DEF Conserved, TypeOK
  <2>7. EmissionIsConserved'
    BY <1>1, <2>2, <2>3, Zenon DEF EmissionIsConserved
  <2>8. EmissionInvariant'
    BY <2>2, <2>3, <2>5, <2>7, ZenonT(60) DEF Conserved, EmissionInvariant
  <2>. QED  BY <2>6, <2>8, Zenon DEF Conserved
<1>. QED  BY <1>5, <1>6, Zenon

\* So it is an invariant of the ledger.
LEMMA ConservedAlways == Spec => []Conserved
<1>1. Conserved /\ [Next]_vars => Conserved'
  <2>1. Conserved /\ UNCHANGED vars => Conserved'
    BY Zenon DEF Conserved, TypeOK, EmissionInvariant, EmissionIsConserved, vars
  <2>. QED  BY <2>1, ConservedConnect, ConservedDisconnect, Zenon DEF Next
<1>. QED  BY <1>1, ConservedInit, PTL DEF Spec

\* Every pool state and every pool state an undo record holds stays within the
\* emission cap, whatever blocks connect and disconnect.
THEOREM TypeCorrect == Spec => []TypeOK
<1>1. Conserved => TypeOK
  BY ZenonT(60) DEF Conserved
<1>. QED  BY <1>1, ConservedAlways, PTL

\* ApplyShadowBlock and UndoShadowBlock conserve the emission: paid and unpaid
\* amounts always add up to what GetScheduledShadowEmissionThrough schedules up to
\* the tip, for every schedule, every block content and every reorganisation.
THEOREM EmissionConserved == Spec => []EmissionIsConserved
<1>1. Conserved => EmissionIsConserved
  BY Zenon DEF Conserved, EmissionInvariant
<1>. QED  BY <1>1, ConservedAlways, PTL

-----------------------------------------------------------------------------
(* Branches: a block is the sequence of contents up to it. *)

\* The first n contents of a block.
LEMMA InitialPart ==
    ASSUME NEW B, NEW c \in Seq(B), NEW n \in 0..Len(c)
    PROVE  /\ SubSeq(c, 1, n) \in Seq(B) /\ Len(SubSeq(c, 1, n)) = n
           /\ \A i \in 1..n : SubSeq(c, 1, n)[i] = c[i]
<1>1. n \in Int /\ 1 \in Int /\ n - 1 + 1 = n /\ Len(c) \in Nat /\ (1 <= n \/ n = 0)
  OBVIOUS
<1>2. \A i \in 1..n : c[i] \in B /\ 1 + i - 1 = i
  BY <1>1
<1>3. /\ SubSeq(c, 1, n) \in Seq(B) /\ Len(SubSeq(c, 1, n)) = IF 1 <= n THEN n - 1 + 1 ELSE 0
      /\ \A i \in 1..n - 1 + 1 : SubSeq(c, 1, n)[i] = c[1 + i - 1]
  BY <1>1, <1>2
<1>. QED  BY <1>1, <1>2, <1>3, Zenon

LEMMA PrefixMeans ==
    ASSUME NEW B, NEW s \in Seq(B), NEW c \in Seq(B)
    PROVE  IsPrefix(s, c) <=> Len(s) <= Len(c) /\ \A i \in 1..Len(s) : s[i] = c[i]
<1>1. Len(s) \in Nat /\ Len(c) \in Nat
  OBVIOUS
<1>2. CASE ~(Len(s) <= Len(c))
  BY <1>2, Zenon DEF IsPrefix
<1>3. CASE Len(s) <= Len(c)
  <2>1. PICK p : p = SubSeq(c, 1, Len(s))
    BY Zenon
  <2>2. p \in Seq(B) /\ Len(p) = Len(s) /\ \A i \in 1..Len(s) : p[i] = c[i]
    BY <1>1, <1>3, <2>1, InitialPart, SMTT(60)
  <2>3. IsPrefix(s, c) <=> s = p
    BY <1>3, <2>1, Zenon DEF IsPrefix
  <2>4. s = p <=> \A i \in 1..Len(s) : s[i] = c[i]
    <3>1. ASSUME \A i \in 1..Len(s) : s[i] = c[i] PROVE s = p
      BY <2>2, <3>1, SMTT(60)
    <3>. QED  BY <2>2, <3>1, Zenon
  <2>. QED  BY <1>3, <2>3, <2>4, Zenon
<1>. QED  BY <1>2, <1>3, Zenon

\* A child has the ancestors of its parent.
LEMMA PrefixOfChild ==
    ASSUME NEW B, NEW s \in Seq(B), NEW c \in Seq(B), NEW x \in B, IsPrefix(s, c)
    PROVE  IsPrefix(s, Append(c, x))
<1>1. /\ Append(c, x) \in Seq(B) /\ Len(Append(c, x)) = Len(c) + 1 /\ Len(c) \in Nat /\ Len(s) \in Nat
      /\ \A i \in 1..Len(c) : Append(c, x)[i] = c[i]
  OBVIOUS
<1>2. Len(s) <= Len(c) /\ \A i \in 1..Len(s) : s[i] = c[i]
  BY PrefixMeans
<1>3. Len(s) <= Len(c) + 1 /\ 1..Len(s) \subseteq 1..Len(c)
  BY <1>1, <1>2
<1>4. \A i \in 1..Len(s) : s[i] = Append(c, x)[i]
  BY <1>1, <1>2, <1>3, ZenonT(60)
<1>. QED  BY <1>1, <1>3, <1>4, PrefixMeans, Zenon

\* An ancestor is the block itself or an ancestor of the parent.
LEMMA PrefixOfParent ==
    ASSUME NEW B, NEW s \in Seq(B), NEW c \in Seq(B), c # <<>>, IsPrefix(s, c)
    PROVE  /\ s = c \/ Len(s) < Len(c)
           /\ Len(s) < Len(c) => IsPrefix(s, Front(c))
<1>1. Len(c) \in Nat \ {0} /\ Len(s) \in Nat /\ Len(c) - 1 \in 0..Len(c)
  BY FrontOfChain
<1>2. Len(s) <= Len(c) /\ \A i \in 1..Len(s) : s[i] = c[i]
  BY PrefixMeans
<1>3. ASSUME Len(s) = Len(c) PROVE s = c
  BY <1>2, <1>3
<1>4. ASSUME Len(s) < Len(c) PROVE IsPrefix(s, Front(c))
  <2>1. PICK p : p = Front(c)
    BY Zenon
  <2>2. p \in Seq(B) /\ Len(p) = Len(c) - 1 /\ \A i \in 1..(Len(c) - 1) : p[i] = c[i]
    BY <1>1, <2>1, InitialPart, Zenon DEF Front
  <2>3. Len(s) <= Len(p) /\ 1..Len(s) \subseteq 1..(Len(c) - 1)
    BY <1>1, <1>4, <2>2
  <2>4. \A i \in 1..Len(s) : s[i] = p[i]
    BY <1>2, <2>2, <2>3, Zenon
  <2>5. IsPrefix(s, p)
    BY <2>2, <2>3, <2>4, PrefixMeans, Zenon
  <2>. QED  BY <2>1, <2>5, Zenon
<1>. QED  BY <1>1, <1>2, <1>3, <1>4, SMTT(60)

LEMMA FrontOfAppend ==
    ASSUME NEW B, NEW c \in Seq(B), NEW x \in B
    PROVE  Front(Append(c, x)) = c
<1>1. PICK d : d = Append(c, x)
  BY Zenon
<1>2. /\ d \in Seq(B) /\ Len(d) = Len(c) + 1 /\ Len(c) \in Nat
      /\ \A i \in 1..Len(c) : d[i] = c[i]
  BY <1>1
<1>3. Len(d) - 1 = Len(c) /\ Len(c) \in 0..Len(d)
  BY <1>2
<1>4. PICK p : p = SubSeq(d, 1, Len(c))
  BY Zenon
<1>5. p \in Seq(B) /\ Len(p) = Len(c) /\ \A i \in 1..Len(c) : p[i] = d[i]
  BY <1>2, <1>3, <1>4, InitialPart, Zenon
<1>6. p = c
  <2>1. \A i \in 1..Len(p) : p[i] = c[i]
    BY <1>2, <1>5, Zenon
  <2>. QED  BY <1>5, <2>1
<1>. QED  BY <1>1, <1>3, <1>4, <1>6, Zenon DEF Front

-----------------------------------------------------------------------------
(* The active signals. *)

\* The height at which the active signals are judged: they stay as REWARD_END leaves them.
SignalHeight(block) == IF Len(block) < REWARD_END THEN Len(block) ELSE REWARD_END

\* An entry for t that was announced at a height rests on a solve of the branch of a block.
Solved(S, t, height, block) ==
    \E s \in S : /\ s.target = t /\ IsPrefix(s.block, block)
                 /\ height - Len(s.block) \in 1..SOLVER_ACTIVITY_WINDOW

Backed(S, entries, block) ==
    \A t \in DOMAIN entries :
        /\ entries[t].height \in Nat
        /\ SignalHeight(block) - entries[t].height \in 0..SOLVER_ACTIVITY_WINDOW
        /\ Solved(S, t, entries[t].height, block)

\* The signals of the tip and those that every undo record restores are backed by solver
\* markers; there are none before the rewards.
SignalInv ==
    /\ \A s \in solvers : s.block \in Seq(Blocks)
    /\ ~signals.present \/ Len(chain) < REWARD_START => signals.entries = <<>>
    /\ signals.marker \in Seq(Blocks) /\ Backed(solvers, signals.entries, chain)
    /\ \A b \in DOMAIN signalUndo :
          /\ IsShadowGoldRushRewardActive(Len(b)) /\ IsPrefix(b, chain)
          /\ signalUndo[b].pre.marker \in Seq(Blocks)
          /\ ~signalUndo[b].pre.present => signalUndo[b].pre.entries = <<>>
          /\ Backed(solvers, signalUndo[b].pre.entries, Front(b))

\* The rewards are active exactly between their heights.
LEMMA RewardHeights ==
    ASSUME NEW h \in Nat
    PROVE  IsShadowGoldRushRewardActive(h) <=> REWARD_START <= h /\ h <= REWARD_END
<1>1. ASSUME REWARD_START <= h, h <= REWARD_END PROVE GetQuantumLifecycleState(h) = "GOLD_RUSH"
  <2>1. h >= LIFECYCLE_START /\ h <= GOLD_RUSH_END
    BY <1>1, ScheduleAssumption
  <2>. QED  BY <2>1, ScheduleAssumption DEF GetQuantumLifecycleState
<1>. QED  BY <1>1, ScheduleAssumption, Zenon DEF IsShadowGoldRushRewardActive, IsShadowGoldRushRewardHeight

\* The solver markers of the ancestors are enough.
LEMMA BackedKept ==
    ASSUME NEW S, NEW T, NEW E, NEW block \in Seq(Blocks), \A s \in S : s.block \in Seq(Blocks),
           \A s \in S : Len(s.block) < Len(block) => s \in T, Backed(S, E, block)
    PROVE  Backed(T, E, block)
<1>. SUFFICES ASSUME NEW t \in DOMAIN E PROVE Solved(T, t, E[t].height, block)
  BY Zenon DEF Backed
<1>1. PICK a : a = E[t].height
  BY Zenon
<1>2. a \in Nat /\ SignalHeight(block) - a \in 0..SOLVER_ACTIVITY_WINDOW /\ Solved(S, t, a, block)
  BY <1>1, Zenon DEF Backed
<1>3. PICK s \in S : s.target = t /\ IsPrefix(s.block, block) /\ a - Len(s.block) \in 1..SOLVER_ACTIVITY_WINDOW
  BY <1>2, Zenon DEF Solved
<1>4. Len(s.block) < Len(block)
  <2>1. Len(s.block) \in Nat /\ Len(block) \in Nat
    OBVIOUS
  <2>2. a <= Len(block)
    <3>1. SignalHeight(block) \in Nat /\ SignalHeight(block) <= Len(block)
      BY <2>1, ScheduleAssumption DEF SignalHeight
    <3>2. a \in Nat /\ SignalHeight(block) - a \in 0..SOLVER_ACTIVITY_WINDOW
      BY <1>2, Zenon
    <3>. QED  BY <2>1, <3>1, <3>2, BoundAssumption, SMTT(60)
  <2>3. Len(s.block) < a
    BY <1>2, <1>3, <2>1, BoundAssumption, SMTT(60)
  <2>. QED  BY <1>2, <2>1, <2>2, <2>3, SMTT(60)
<1>. QED  BY <1>1, <1>3, <1>4, Zenon DEF Solved

\* The entries that were announced before a block are backed by its parent.
LEMMA BackedDown ==
    ASSUME NEW S, NEW E, NEW block \in Seq(Blocks), block # <<>>, \A s \in S : s.block \in Seq(Blocks),
           Backed(S, E, block), \A t \in DOMAIN E : E[t].height <= SignalHeight(Front(block))
    PROVE  Backed(S, E, Front(block))
<1>. SUFFICES ASSUME NEW t \in DOMAIN E
              PROVE  /\ E[t].height \in Nat
                     /\ SignalHeight(Front(block)) - E[t].height \in 0..SOLVER_ACTIVITY_WINDOW
                     /\ Solved(S, t, E[t].height, Front(block))
  BY Zenon DEF Backed
<1>1. PICK a : a = E[t].height
  BY Zenon
<1>2. /\ a \in Nat /\ SignalHeight(block) - a \in 0..SOLVER_ACTIVITY_WINDOW /\ Solved(S, t, a, block)
      /\ a <= SignalHeight(Front(block))
  BY <1>1, Zenon DEF Backed
<1>3. Len(block) \in Nat \ {0} /\ Len(Front(block)) = Len(block) - 1
  BY FrontOfChain, Zenon
<1>4. /\ SignalHeight(Front(block)) \in Nat /\ SignalHeight(Front(block)) <= SignalHeight(block)
      /\ SignalHeight(Front(block)) <= Len(block) - 1 /\ SignalHeight(block) \in Nat
  BY <1>3, ScheduleAssumption, SMTT(60) DEF SignalHeight
<1>5. SignalHeight(Front(block)) - a \in 0..SOLVER_ACTIVITY_WINDOW
  BY <1>2, <1>4, BoundAssumption, SMTT(60)
<1>6. PICK s \in S : s.target = t /\ IsPrefix(s.block, block) /\ a - Len(s.block) \in 1..SOLVER_ACTIVITY_WINDOW
  BY <1>2, Zenon DEF Solved
<1>7. Len(s.block) < Len(block)
  <2>1. Len(s.block) \in Nat
    OBVIOUS
  <2>2. Len(s.block) < a
    BY <1>2, <1>6, <2>1, BoundAssumption, SMTT(60)
  <2>. QED  BY <1>2, <1>3, <1>4, <2>1, <2>2
<1>8. IsPrefix(s.block, Front(block))
  BY <1>6, <1>7, PrefixOfParent, Zenon
<1>9. Solved(S, t, a, Front(block))
  BY <1>6, <1>8, Zenon DEF Solved
<1>. QED  BY <1>1, <1>2, <1>5, <1>9, Zenon

\* What a reward block makes of the entries of its parent.
LEMMA EntriesBacked ==
    ASSUME NEW block \in Seq(Blocks), NEW c \in Seq(Blocks), NEW b \in Blocks, block = Append(c, b),
           Len(block) <= REWARD_END, \A s \in solvers : s.block \in Seq(Blocks),
           Backed(solvers, signals.entries, c), NEW announced
    PROVE  Backed(solvers, ActiveEntries(block, announced), block)
<1>. DEFINE kept  == FilterActiveSignals(signals.entries, Len(block))
            found == FindValidShadowSignalsInBlock(solvers, block, announced)
<1>1. Len(c) \in Nat /\ Len(block) = Len(c) + 1 /\ Len(block) \in Nat /\ SignalHeight(block) = Len(block)
  <2>1. Len(c) \in Nat /\ Len(block) = Len(c) + 1
    OBVIOUS
  <2>. QED  BY <2>1, ScheduleAssumption DEF SignalHeight
<1>2. ASSUME NEW t \in DOMAIN found
      PROVE  Solved(solvers, t, Len(block), block)
  <2>1. PICK v : SignalReferencesRecentSolve(solvers, block, t, v.solve)
    BY <1>2, Zenon DEF FindValidShadowSignalsInBlock
  <2>2. PICK x : x = v.solve
    BY Zenon
  <2>3. /\ Len(x) < Len(block) /\ Len(block) - Len(x) <= SOLVER_ACTIVITY_WINDOW
        /\ x = SubSeq(block, 1, Len(x)) /\ [block |-> x, target |-> t] \in solvers
    BY <2>1, <2>2, Zenon DEF SignalReferencesRecentSolve, Ancestor
  <2>4. x \in Seq(Blocks) /\ Len(x) \in Nat
    BY <2>3
  <2>5. IsPrefix(x, block)
    BY <1>1, <2>3, <2>4, SMTT(60) DEF IsPrefix
  <2>6. Len(block) - Len(x) \in 1..SOLVER_ACTIVITY_WINDOW
    BY <1>1, <2>3, <2>4, BoundAssumption, SMTT(60)
  <2>. QED  BY <2>3, <2>5, <2>6, Zenon DEF Solved
<1>3. ASSUME NEW t \in DOMAIN kept
      PROVE  /\ kept[t].height \in Nat /\ Len(block) - kept[t].height \in 0..SOLVER_ACTIVITY_WINDOW
             /\ Solved(solvers, t, kept[t].height, block)
  <2>1. PICK a : a = signals.entries[t].height
    BY Zenon
  <2>2. /\ t \in DOMAIN signals.entries /\ kept[t].height = a
        /\ a <= Len(block) /\ Len(block) - a <= SOLVER_ACTIVITY_WINDOW
    BY <1>3, <2>1, Zenon DEF FilterActiveSignals, RestrictDomain, Restrict
  <2>3. a \in Nat /\ Solved(solvers, t, a, c)
    BY <2>1, <2>2, Zenon DEF Backed
  <2>4. Len(block) - a \in 0..SOLVER_ACTIVITY_WINDOW
    BY <1>1, <2>2, <2>3, BoundAssumption, SMTT(60)
  <2>5. Solved(solvers, t, a, block)
    BY <2>3, PrefixOfChild, Zenon DEF Solved
  <2>. QED  BY <2>2, <2>3, <2>4, <2>5, Zenon
<1>4. PICK E : E = ActiveEntries(block, announced)
  BY Zenon
<1>5. /\ DOMAIN E = DOMAIN kept \cup DOMAIN found
      /\ \A t \in DOMAIN E : E[t].height = IF t \in DOMAIN found THEN Len(block) ELSE kept[t].height
  BY <1>4, Zenon DEF ActiveEntries, UpsertActiveSignals
<1>. HIDE DEF kept, found
<1>6. ASSUME NEW t \in DOMAIN E
      PROVE  /\ E[t].height \in Nat /\ SignalHeight(block) - E[t].height \in 0..SOLVER_ACTIVITY_WINDOW
             /\ Solved(solvers, t, E[t].height, block)
  <2>1. CASE t \in DOMAIN found
    <3>1. E[t].height = Len(block)
      BY <1>5, <2>1, Zenon
    <3>2. Len(block) - Len(block) \in 0..SOLVER_ACTIVITY_WINDOW
      BY <1>1, BoundAssumption
    <3>. QED  BY <1>1, <1>2, <2>1, <3>1, <3>2, ZenonT(60)
  <2>2. CASE t \notin DOMAIN found
    <3>1. t \in DOMAIN kept /\ E[t].height = kept[t].height
      BY <1>5, <1>6, <2>2, Zenon
    <3>. QED  BY <1>1, <1>3, <3>1, Zenon
  <2>. QED  BY <2>1, <2>2, Zenon
<1>. QED  BY <1>4, <1>6, Zenon DEF Backed

\* Blocks beyond the rewards leave the signals backed.
LEMMA BackedUp ==
    ASSUME NEW S, NEW E, NEW c \in Seq(Blocks), NEW b \in Blocks, \A s \in S : s.block \in Seq(Blocks),
           Backed(S, E, c), SignalHeight(Append(c, b)) = SignalHeight(c)
    PROVE  Backed(S, E, Append(c, b))
<1>1. ASSUME NEW t, NEW a, Solved(S, t, a, c) PROVE Solved(S, t, a, Append(c, b))
  BY <1>1, PrefixOfChild, Zenon DEF Solved
<1>. QED  BY <1>1, Zenon DEF Backed

LEMMA NothingIsBacked == \A S, E, block : E = <<>> => Backed(S, E, block)
  BY DEF Backed

LEMMA ConnectSignals ==
    ASSUME Conserved, SignalInv, NEW b \in Blocks, ConnectBlock(b)
    PROVE  SignalInv'
<1>1. PICK c, block, E : c = chain /\ block = Append(chain, b) /\ E = signals.entries
  BY Zenon
<1>2. /\ c \in Seq(Blocks) /\ block \in Seq(Blocks) /\ chain' = block /\ Len(c) \in Nat
      /\ Len(block) = Len(c) + 1 /\ Front(block) = c
  <2>1. c \in Seq(Blocks) /\ chain' = block
    BY <1>1, Zenon DEF Conserved, TypeOK, ConnectBlock, WriteConnection
  <2>. QED  BY <1>1, <2>1, FrontOfAppend, SMTT(60)
<1>3. /\ \A s \in solvers : s.block \in Seq(Blocks)
      /\ signals.marker \in Seq(Blocks) /\ Backed(solvers, E, c)
      /\ ~signals.present \/ Len(c) < REWARD_START => E = <<>>
  BY <1>1, Zenon DEF SignalInv
<1>4. DOMAIN signalUndo \subseteq Seq(Blocks)
  BY Zenon DEF Conserved, TypeOK
<1>5. ASSUME NEW k \in DOMAIN signalUndo
      PROVE  IsPrefix(k, block)
  BY <1>1, <1>2, <1>4, PrefixOfChild, ZenonT(60) DEF SignalInv
<1>6. CASE ~IsShadowGoldRushRewardActive(Len(block))
  <2>1. UNCHANGED <<signals, signalUndo, solvers>>
    BY <1>1, <1>6, Zenon DEF ConnectBlock, WriteConnection
  <2>2. ~(REWARD_START <= Len(block) /\ Len(block) <= REWARD_END)
    BY <1>2, <1>6, RewardHeights, SMTT(60)
  <2>3. Len(block) < REWARD_START => E = <<>>
    BY <1>2, <1>3, ScheduleAssumption, SMTT(60)
  <2>4. Backed(solvers, E, block)
    <3>1. CASE Len(block) < REWARD_START
      BY <2>3, <3>1, NothingIsBacked, Zenon
    <3>2. CASE ~(Len(block) < REWARD_START)
      <4>1. SignalHeight(block) = SignalHeight(c)
        BY <1>2, <2>2, <3>2, ScheduleAssumption, SMTT(60) DEF SignalHeight
      <4>. QED  BY <1>1, <1>2, <1>3, <4>1, BackedUp, ZenonT(60)
    <3>. QED  BY <3>1, <3>2, Zenon
  <2>5. (~signals.present \/ Len(chain) < REWARD_START => signals.entries = <<>>)'
    BY <1>1, <1>2, <1>3, <2>1, <2>3, Zenon
  <2>6. (\A k \in DOMAIN signalUndo :
          /\ IsShadowGoldRushRewardActive(Len(k)) /\ IsPrefix(k, chain)
          /\ signalUndo[k].pre.marker \in Seq(Blocks)
          /\ ~signalUndo[k].pre.present => signalUndo[k].pre.entries = <<>>
          /\ Backed(solvers, signalUndo[k].pre.entries, Front(k)))'
    BY <1>2, <1>5, <2>1, Zenon DEF SignalInv
  <2>. QED  BY <1>1, <1>2, <1>3, <2>1, <2>4, <2>5, <2>6, ZenonT(60) DEF SignalInv
<1>7. CASE IsShadowGoldRushRewardActive(Len(block))
  <2>1. PICK eval : ApplyShadowBlock(block, eval) /\ \E view : eval = ShadowEvaluation(block, view)
    BY <1>1, <1>7, Zenon DEF ConnectBlock, WriteConnection, Connection, InputsConnection, EvaluatedConnection
  <2>2. PICK F : F = eval.entries
    BY Zenon
  <2>3. /\ \E announced : F = ActiveEntries(block, announced)
        /\ eval.changed \/ (signals.present /\ E = F)
    <3>1. PICK view : eval = ShadowEvaluation(block, view)
      BY <2>1, Zenon
    <3>2. PICK announced, credited, solver, posPayouts, pow :
             eval = CheckedEvaluation(block, view, credited, solver, ActiveEntries(block, announced),
                                      posPayouts, pow)
      BY <3>1, Zenon DEF ShadowEvaluation, PaymentEvaluation
    <3>3. PICK G : G = ActiveEntries(block, announced)
      BY Zenon
    <3>4. eval.entries = G /\ eval.changed = (~signals.present \/ signals.entries # G)
      BY <3>2, <3>3, Zenon DEF CheckedEvaluation
    <3>. QED  BY <1>1, <2>2, <3>3, <3>4, ZenonT(60)
  <2>4. REWARD_START <= Len(block) /\ Len(block) <= REWARD_END
    BY <1>2, <1>7, RewardHeights, SMTT(60)
  <2>5. Backed(solvers, F, block)
    <3>1. PICK announced : F = ActiveEntries(block, announced)
      BY <2>3, Zenon
    <3>. QED  BY <1>1, <1>2, <1>3, <2>4, <3>1, EntriesBacked, ZenonT(60)
  <2>6. /\ solvers \subseteq solvers' /\ \A s \in solvers' : s.block \in Seq(Blocks)
    <3>1. PICK X : solvers' = solvers \cup {[block |-> block, target |-> t] : t \in X}
      BY <2>1, Zenon DEF ApplyShadowBlock
    <3>. QED  BY <1>2, <1>3, <3>1, SMTT(60)
  <2>7. /\ signals'.present /\ signals'.entries = F /\ signals'.marker \in Seq(Blocks)
        /\ \/ signalUndo' = signalUndo
           \/ \E u : signalUndo' = Put(signalUndo, block, u) /\ u.pre = signals
    <3>1. CASE eval.changed
      <4>1. signals' = [present |-> TRUE, marker |-> block, entries |-> F]
        BY <2>1, <2>2, <3>1, Zenon DEF ApplyShadowBlock
      <4>2. \E u : signalUndo' = Put(signalUndo, block, u) /\ u.pre = signals
        <5>1. PICK u : u = ActiveSignalUndo(signals, block, eval.entries) /\ signalUndo' = Put(signalUndo, block, u)
          BY <2>1, <3>1, Zenon DEF ApplyShadowBlock
        <5>2. u.pre = signals
          BY <5>1, Zenon DEF ActiveSignalUndo
        <5>. QED  BY <5>1, <5>2, Zenon
      <4>. QED  BY <1>2, <4>1, <4>2, Zenon
    <3>2. CASE ~eval.changed
      <4>1. signals' = signals /\ signalUndo' = signalUndo
        BY <2>1, <3>2, Zenon DEF ApplyShadowBlock
      <4>. QED  BY <1>1, <1>3, <2>3, <3>2, <4>1, ZenonT(60)
    <3>. QED  BY <3>1, <3>2, Zenon
  <2>8. Backed(solvers', F, block)
    BY <1>2, <1>3, <2>5, <2>6, BackedKept, ZenonT(60)
  <2>9. ASSUME NEW k \in DOMAIN signalUndo'
        PROVE  /\ IsShadowGoldRushRewardActive(Len(k)) /\ IsPrefix(k, block)
               /\ signalUndo'[k].pre.marker \in Seq(Blocks)
               /\ ~signalUndo'[k].pre.present => signalUndo'[k].pre.entries = <<>>
               /\ Backed(solvers', signalUndo'[k].pre.entries, Front(k))
    <3>1. CASE k \in DOMAIN signalUndo /\ signalUndo'[k] = signalUndo[k]
      <4>1. /\ IsShadowGoldRushRewardActive(Len(k)) /\ IsPrefix(k, block) /\ k \in Seq(Blocks)
            /\ signalUndo[k].pre.marker \in Seq(Blocks)
            /\ ~signalUndo[k].pre.present => signalUndo[k].pre.entries = <<>>
            /\ Backed(solvers, signalUndo[k].pre.entries, Front(k))
        BY <1>4, <1>5, <3>1, Zenon DEF SignalInv
      <4>2. Front(k) \in Seq(Blocks)
        <5>1. Len(k) \in Nat /\ k # <<>>
          BY <4>1, RewardHeights, ScheduleAssumption, SMTT(60)
        <5>. QED  BY <4>1, <5>1, FrontOfChain, Zenon
      <4>3. PICK G : G = signalUndo[k].pre.entries
        BY Zenon
      <4>4. Backed(solvers', G, Front(k))
        BY <1>3, <2>6, <4>1, <4>2, <4>3, BackedKept, ZenonT(60)
      <4>. QED  BY <3>1, <4>1, <4>3, <4>4, ZenonT(60)
    <3>2. CASE k = block /\ signalUndo'[k].pre = signals
      <4>1. IsPrefix(block, block)
        BY <1>2 DEF IsPrefix
      <4>2. Backed(solvers', E, c)
        BY <1>2, <1>3, <2>6, BackedKept, ZenonT(60)
      <4>. QED  BY <1>1, <1>2, <1>3, <1>7, <3>2, <4>1, <4>2, ZenonT(60)
    <3>. QED  BY <2>7, <2>9, <3>1, <3>2, ZenonT(60) DEF Put
  <2>10. ~(Len(block) < REWARD_START)
    BY <1>2, <2>4, ScheduleAssumption
  <2>. QED  BY <1>2, <2>6, <2>7, <2>8, <2>9, <2>10, ZenonT(60) DEF SignalInv
<1>. QED  BY <1>6, <1>7, Zenon

LEMMA DisconnectSignals ==
    ASSUME Conserved, SignalInv, DisconnectBlock
    PROVE  SignalInv'
<1>1. PICK c, p, E : c = chain /\ p = Front(chain) /\ E = signals.entries
  BY Zenon
<1>2. /\ c \in Seq(Blocks) /\ c # <<>> /\ p \in Seq(Blocks) /\ chain' = p /\ Len(c) \in Nat \ {0}
      /\ Len(p) = Len(c) - 1
  BY <1>1, FrontOfChain, Zenon DEF Conserved, TypeOK, DisconnectBlock
<1>3. /\ \A s \in solvers : s.block \in Seq(Blocks)
      /\ signals.marker \in Seq(Blocks) /\ Backed(solvers, E, c)
      /\ ~signals.present \/ Len(c) < REWARD_START => E = <<>>
  BY <1>1, Zenon DEF SignalInv
<1>4. ASSUME NEW k \in DOMAIN signalUndo
      PROVE  /\ k \in Seq(Blocks) /\ k # <<>> /\ Len(k) \in Nat /\ IsPrefix(k, c)
             /\ IsShadowGoldRushRewardActive(Len(k)) /\ signalUndo[k].pre.marker \in Seq(Blocks)
             /\ ~signalUndo[k].pre.present => signalUndo[k].pre.entries = <<>>
             /\ Backed(solvers, signalUndo[k].pre.entries, Front(k))
  <2>1. /\ k \in Seq(Blocks) /\ IsPrefix(k, c) /\ IsShadowGoldRushRewardActive(Len(k))
        /\ signalUndo[k].pre.marker \in Seq(Blocks)
        /\ ~signalUndo[k].pre.present => signalUndo[k].pre.entries = <<>>
        /\ Backed(solvers, signalUndo[k].pre.entries, Front(k))
    BY <1>1, Zenon DEF Conserved, TypeOK, SignalInv
  <2>2. Len(k) \in Nat /\ k # <<>>
    BY <2>1, RewardHeights, ScheduleAssumption, SMTT(60)
  <2>. QED  BY <2>1, <2>2, Zenon
<1>5. Disconnection(c).ok /\ signals' = Disconnection(c).signals
  BY <1>1, Zenon DEF DisconnectBlock, WriteDisconnection
<1>6. CASE ~IsShadowGoldRushRewardActive(Len(c))
  <2>1. signals' = signals
    BY <1>5, <1>6, Zenon DEF Disconnection, UnspentDisconnection, RewoundDisconnection
  <2>2. signalUndo' = signalUndo /\ solvers' = solvers
    BY <1>1, <1>6, Zenon DEF DisconnectBlock
  <2>3. ~(REWARD_START <= Len(c) /\ Len(c) <= REWARD_END)
    BY <1>2, <1>6, RewardHeights, ZenonT(60)
  <2>4. Len(p) < REWARD_START => Len(c) < REWARD_START
    BY <1>2, <2>3, ScheduleAssumption
  <2>5. Backed(solvers, E, p)
    <3>1. CASE Len(c) < REWARD_START
      BY <1>3, <3>1, NothingIsBacked, Zenon
    <3>2. CASE ~(Len(c) < REWARD_START)
      <4>1. SignalHeight(p) = SignalHeight(c) /\ SignalHeight(c) \in Nat
        BY <1>2, <2>3, <3>2, ScheduleAssumption, SMTT(60) DEF SignalHeight
      <4>2. \A t \in DOMAIN E : E[t].height <= SignalHeight(p)
        BY <1>3, <4>1, BoundAssumption, SMTT(60) DEF Backed
      <4>. QED  BY <1>1, <1>2, <1>3, <4>2, BackedDown, ZenonT(60)
    <3>. QED  BY <3>1, <3>2, Zenon
  <2>6. ASSUME NEW k \in DOMAIN signalUndo PROVE IsPrefix(k, p)
    <3>1. k # c
      BY <1>4, <1>6, <2>6, Zenon
    <3>. QED  BY <1>1, <1>2, <1>4, <2>6, <3>1, PrefixOfParent, Zenon
  <2>7. ASSUME NEW k \in DOMAIN signalUndo'
        PROVE  /\ IsShadowGoldRushRewardActive(Len(k)) /\ IsPrefix(k, p)
               /\ signalUndo'[k].pre.marker \in Seq(Blocks)
               /\ ~signalUndo'[k].pre.present => signalUndo'[k].pre.entries = <<>>
               /\ Backed(solvers', signalUndo'[k].pre.entries, Front(k))
    BY <1>4, <2>2, <2>6, <2>7, ZenonT(60)
  <2>. QED  BY <1>1, <1>2, <1>3, <2>1, <2>2, <2>4, <2>5, <2>7, ZenonT(60) DEF SignalInv
<1>7. CASE IsShadowGoldRushRewardActive(Len(c))
  <2>1. REWARD_START <= Len(c) /\ Len(c) <= REWARD_END
    BY <1>2, <1>7, RewardHeights, Zenon
  <2>2. PICK sig, present, restored :
           /\ sig = UndoActiveSignalMarkers(signals, IF c \in DOMAIN signalUndo THEN <<signalUndo[c]>> ELSE <<>>,
                                            c, present)
           /\ sig.ok /\ signals' = sig.state
           /\ ActiveSignalPoolPairValid(pool.present, signals, c)
           /\ ActiveSignalPoolPairValid(restored, sig.state, p)
    <3>1. PICK view : /\ ShadowUndo(c, view).ok
                      /\ Disconnection(c).signals = ShadowUndo(c, view).signals
      BY <1>5, <1>7, Zenon DEF Disconnection, UnspentDisconnection, RewoundDisconnection
    <3>. QED  BY <1>1, <1>5, <3>1, ZenonT(60) DEF ShadowUndo
  <2>3. Len(p) < REWARD_START => ~signals'.present
    <3>1. signals'.present = HasAppliedShadowRewardTransition(Len(p))
      BY <2>2, Zenon DEF ActiveSignalPoolPairValid
    <3>2. Len(p) < REWARD_START => ~HasAppliedShadowRewardTransition(Len(p))
      BY <1>2, ScheduleAssumption DEF HasAppliedShadowRewardTransition
    <3>. QED  BY <3>1, <3>2, Zenon
  <2>4. /\ Backed(solvers, signals'.entries, p) /\ signals'.marker \in Seq(Blocks)
        /\ ~signals'.present => signals'.entries = <<>>
    <3>1. CASE c \in DOMAIN signalUndo
      <4>1. PICK u : u = signalUndo[c]
        BY Zenon
      <4>2. <<u>> # <<>> /\ <<u>>[1] = u
        BY Zenon
      <4>3. sig.state = u.pre
        BY <2>2, <3>1, <4>1, <4>2, Zenon DEF UndoActiveSignalMarkers
      <4>. QED  BY <1>1, <1>4, <2>2, <3>1, <4>1, <4>3, ZenonT(60)
    <3>2. CASE c \notin DOMAIN signalUndo
      <4>1. sig.state = signals /\ signals.present /\ Len(signals.marker) < Len(c)
        BY <2>2, <3>2, Zenon DEF UndoActiveSignalMarkers
      <4>2. \A t \in DOMAIN E : E[t].height <= Len(signals.marker)
        BY <1>1, <2>2, <4>1, ZenonT(60) DEF ActiveSignalPoolPairValid, SignalStateReadable
      <4>3. Len(signals.marker) \in Nat /\ SignalHeight(p) = Len(c) - 1
        BY <1>2, <1>3, <2>1, ScheduleAssumption, SMTT(60) DEF SignalHeight
      <4>4. ASSUME NEW t \in DOMAIN E PROVE E[t].height <= SignalHeight(p)
        <5>1. E[t].height \in Nat
          BY <1>3, <4>4, Zenon DEF Backed
        <5>. QED  BY <1>2, <4>1, <4>2, <4>3, <4>4, <5>1, SMTT(60)
      <4>5. Backed(solvers, E, p)
        BY <1>1, <1>2, <1>3, <4>4, BackedDown, ZenonT(60)
      <4>. QED  BY <1>1, <1>3, <2>2, <4>1, <4>5, ZenonT(60)
    <3>. QED  BY <3>1, <3>2, Zenon
  <2>5. /\ solvers' \subseteq solvers
        /\ \A s \in solvers : Len(s.block) < Len(c) => s \in solvers'
    <3>1. PICK X : solvers' = solvers \ {[block |-> c, target |-> t] : t \in X}
      BY <1>1, <1>7, SMTT(60) DEF DisconnectBlock
    <3>2. ~(Len(c) < Len(c))
      BY <1>2
    <3>. QED  BY <3>1, <3>2, SMTT(60)
  <2>6. ASSUME NEW q \in Seq(Blocks), Len(q) < Len(c), NEW G, Backed(solvers, G, q)
        PROVE  Backed(solvers', G, q)
    <3>1. ASSUME NEW s \in solvers, Len(s.block) < Len(q) PROVE s \in solvers'
      <4>1. Len(s.block) \in Nat /\ Len(q) \in Nat
        BY <1>3, <3>1, SMTT(60)
      <4>2. Len(s.block) < Len(c)
        BY <1>2, <2>6, <3>1, <4>1, SMTT(60)
      <4>. QED  BY <2>5, <4>2, Zenon
    <3>. QED  BY <1>3, <2>6, <3>1, BackedKept, ZenonT(60)
  <2>7. PICK F : F = signals'.entries
    BY Zenon
  <2>8. Backed(solvers', F, p)
    <3>1. Len(p) < Len(c)
      BY <1>2
    <3>. QED  BY <1>2, <2>4, <2>6, <2>7, <3>1, ZenonT(60)
  <2>9. ASSUME NEW k \in DOMAIN signalUndo'
        PROVE  /\ IsShadowGoldRushRewardActive(Len(k)) /\ IsPrefix(k, p)
               /\ signalUndo'[k].pre.marker \in Seq(Blocks)
               /\ ~signalUndo'[k].pre.present => signalUndo'[k].pre.entries = <<>>
               /\ Backed(solvers', signalUndo'[k].pre.entries, Front(k))
    <3>1. k \in DOMAIN signalUndo /\ k # c /\ signalUndo'[k] = signalUndo[k]
      BY <1>1, <1>7, <2>9, Zenon DEF DisconnectBlock, Drop
    <3>2. PICK G : G = signalUndo[k].pre.entries
      BY Zenon
    <3>3. Len(k) < Len(c) /\ IsPrefix(k, p)
      BY <1>1, <1>2, <1>4, <3>1, PrefixOfParent, ZenonT(60)
    <3>4. Front(k) \in Seq(Blocks) /\ Len(Front(k)) < Len(c)
      <4>1. Front(k) \in Seq(Blocks) /\ Len(Front(k)) = Len(k) - 1 /\ Len(k) \in Nat
        BY <1>4, <3>1, FrontOfChain, Zenon
      <4>. QED  BY <1>2, <3>3, <4>1, SMTT(60)
    <3>5. Backed(solvers', G, Front(k))
      BY <1>4, <2>6, <3>1, <3>2, <3>4, ZenonT(60)
    <3>. QED  BY <1>4, <3>1, <3>2, <3>3, <3>5, ZenonT(60)
  <2>10. \A s \in solvers' : s.block \in Seq(Blocks)
    BY <1>3, <2>5, Zenon
  <2>11. ~signals'.present \/ Len(chain') < REWARD_START => signals'.entries = <<>>
    BY <1>2, <2>3, <2>4, Zenon
  <2>. QED  BY <1>2, <2>4, <2>7, <2>8, <2>9, <2>10, <2>11, ZenonT(60) DEF SignalInv
<1>. QED  BY <1>6, <1>7, Zenon

\* A staker counts as active only on the strength of a solve of this very branch: on every chain
\* of blocks and through every reorganisation, the entries that FilterActiveSignals keeps and those
\* that UndoActiveSignalMarkers restores rest on solver markers that are still there.
THEOREM ActivityIsEarned == Spec => []ActiveMeansRecentSolve
<1>. DEFINE J == Conserved /\ SignalInv
<1>1. Init => J
  <2>. SUFFICES ASSUME Init PROVE SignalInv
    BY ConservedInit, Zenon
  <2>1. signals.entries = <<>> /\ signals.marker = <<>> /\ solvers = {} /\ DOMAIN signalUndo = {}
    BY DEF Init, NoSignalState
  <2>. QED  BY <2>1, NothingIsBacked DEF SignalInv
<1>2. J /\ [Next]_vars => J'
  <2>1. J /\ UNCHANGED vars => J'
    BY Zenon DEF Conserved, TypeOK, EmissionInvariant, EmissionIsConserved, SignalInv, vars
  <2>. QED  BY <2>1, ConservedConnect, ConservedDisconnect, ConnectSignals, DisconnectSignals, ZenonT(60) DEF Next
<1>3. J => ActiveMeansRecentSolve
  <2>. SUFFICES ASSUME J, IsShadowGoldRushRewardActive(Len(chain)), NEW t \in DOMAIN signals.entries
                PROVE  /\ Len(chain) - signals.entries[t].height \in 0..SOLVER_ACTIVITY_WINDOW
                       /\ Solved(solvers, t, signals.entries[t].height, chain)
    BY Zenon DEF ActiveMeansRecentSolve, Solved
  <2>1. Len(chain) \in Nat
    BY DEF Conserved, TypeOK
  <2>2. SignalHeight(chain) = Len(chain)
    BY <2>1, RewardHeights, ScheduleAssumption, SMTT(60) DEF SignalHeight
  <2>. QED  BY <2>2, Zenon DEF SignalInv, Backed
<1>. QED  BY <1>1, <1>2, <1>3, PTL DEF Spec

-----------------------------------------------------------------------------
(* The buckets of accounted proofs. *)

LEMMA SeqShape ==
    \A S : \A s \in Seq(S) : Len(s) \in Nat /\ DOMAIN s = 1..Len(s)
  OBVIOUS

LEMMA LenOfMapped ==
    ASSUME NEW n \in Nat, NEW V, NEW f \in [1..n -> V]
    PROVE  Len(f) = n
<1>1. f \in Seq(V)
  OBVIOUS
<1>2. Len(f) \in Nat /\ DOMAIN f = 1..Len(f)
  BY <1>1
<1>3. 1..n = 1..Len(f)
  BY <1>2, Zenon
<1>. QED  BY <1>2, <1>3

\* The proofs that a block carries alone in a transaction.
SingleProofs(block) ==
    {Concrete(block).txs[n].notes[1] :
        n \in {m \in 1..Len(Concrete(block).txs) : Len(Concrete(block).txs[m].notes) = 1}}

LEMMA ProofsAreNotes ==
    ASSUME NEW block \in Seq(Blocks), block # <<>>
    PROVE  /\ Len(Concrete(block).txs) \in Nat
           /\ \A p \in SingleProofs(block) : p.version \in Nat /\ p.originHeight \in Nat
<1>1. PICK body : body = Content[Last(block)]
  BY Zenon
<1>2. Len(block) \in Nat /\ Last(block) \in Blocks
  BY DEF Last
<1>3. /\ "txs" \in DOMAIN body /\ body.txs \in Seq(Range(body.txs))
      /\ \A i \in DOMAIN body.txs :
            /\ "notes" \in DOMAIN body.txs[i]
            /\ body.txs[i].notes \in Seq(Range(body.txs[i].notes))
            /\ \A j \in DOMAIN body.txs[i].notes :
                  body.txs[i].notes[j].version \in 0..4 /\ body.txs[i].notes[j].age \in Nat
  BY <1>1, <1>2, ContentAssumption, Zenon
<1>4. PICK txs, new :
         /\ txs = body.txs /\ new = Concrete(block).txs
         /\ new = [i \in DOMAIN txs |->
                     [txs[i] EXCEPT !.notes = [j \in DOMAIN txs[i].notes |->
                                                 ConcreteNote(block, txs[i].notes[j])]]]
  BY <1>1, <1>3, Zenon DEF Concrete
<1>5. PICK k \in Nat : DOMAIN txs = 1..k
  BY <1>3, <1>4
<1>6. Len(new) = k
  <2>1. \E V : new \in [1..k -> V]
    <3>1. new \in [1..k -> {new[i] : i \in 1..k}]
      BY <1>4, <1>5, ZenonT(60)
    <3>. QED  BY <3>1, Zenon
  <2>. QED  BY <2>1, LenOfMapped, Zenon
<1>7. ASSUME NEW p \in SingleProofs(block) PROVE p.version \in Nat /\ p.originHeight \in Nat
  <2>1. PICK n \in 1..k : Len(new[n].notes) = 1 /\ p = new[n].notes[1]
    BY <1>4, <1>6, <1>7, ZenonT(60) DEF SingleProofs
  <2>2. PICK notes : notes = txs[n].notes
    BY Zenon
  <2>3. new[n].notes = [j \in DOMAIN notes |-> ConcreteNote(block, notes[j])]
    BY <1>3, <1>4, <1>5, <2>1, <2>2
  <2>4. PICK m \in Nat : DOMAIN notes = 1..m
    <3>1. notes \in Seq(Range(notes))
      BY <1>3, <1>4, <1>5, <2>1, <2>2, Zenon
    <3>. QED  BY <3>1, SeqShape, Zenon
  <2>5. Len(new[n].notes) = m
    <3>1. PICK g : g = new[n].notes /\ g = [j \in 1..m |-> ConcreteNote(block, notes[j])]
      BY <2>3, <2>4, Zenon
    <3>2. g \in [1..m -> {g[j] : j \in 1..m}]
      BY <3>1, Zenon
    <3>3. \E V : g \in [1..m -> V]
      BY <3>2, Zenon
    <3>. QED  BY <3>1, <3>3, LenOfMapped, Zenon
  <2>6. 1 \in DOMAIN notes
    BY <2>1, <2>4, <2>5, SMTT(60)
  <2>7. PICK note : note = notes[1] /\ note.version \in 0..4 /\ note.age \in Nat
    BY <1>3, <1>4, <1>5, <2>1, <2>2, <2>6, ZenonT(60)
  <2>8. p = ConcreteNote(block, note)
    BY <2>1, <2>3, <2>6, <2>7, Zenon
  <2>9. Len(block) \in Nat /\ Len(block) # 0
    BY SeqShape, SMTT(60)
  <2>. QED  BY <2>7, <2>8, <2>9, SMTT(60) DEF ConcreteNote
<1>. QED  BY <1>4, <1>6, <1>7, Zenon

\* What a block may add to its bucket: a proof whose origin is no later than the block and within
\* the window, and which is in no recent bucket.
Fresh(id, block) ==
    ~(id[1] < 3) => /\ id[6] \in Nat /\ id[6] <= Len(block)
                    /\ Len(block) - id[6] <= LATE_ORIGIN_WINDOW
                    /\ id \notin RecentLogicalProofs(Front(block))

LEMMA AccountableIsFresh ==
    ASSUME NEW block \in Seq(Blocks), block # <<>>, NEW ctx, NEW id,
           ctx.height = Len(block), ctx.accounted = RecentLogicalProofs(Front(block)),
           Accountable(id, SingleProofs(block), ctx)
    PROVE  Fresh(id, block)
<1>1. PICK p \in SingleProofs(block) :
         /\ id = LogicalPowProofId(p)
         /\ id \notin ctx.accounted
         /\ OriginBound(p) => /\ ~(p.originHeight > ctx.height)
                              /\ p.originHeight < ctx.height =>
                                    ~(ctx.height - p.originHeight > LATE_ORIGIN_WINDOW)
  BY Zenon DEF Accountable
<1>2. p.version \in Nat /\ p.originHeight \in Nat /\ Len(block) \in Nat
  BY ProofsAreNotes
<1>3. SUFFICES ASSUME ~(id[1] < 3)
               PROVE  id[6] \in Nat /\ id[6] <= Len(block) /\ Len(block) - id[6] <= LATE_ORIGIN_WINDOW
  BY <1>1, Zenon DEF Fresh
<1>4. OriginBound(p) /\ id[6] = p.originHeight
  <2>1. CASE p.version = 0 \/ p.mode = "UNKNOWN"
    <3>1. id = <<0, p.nonce>>
      BY <1>1, <2>1, Zenon DEF LogicalPowProofId
    <3>. QED  BY <1>3, <3>1
  <2>2. CASE ~(p.version = 0 \/ p.mode = "UNKNOWN")
    <3>1. PICK prev, out, height :
             /\ id = <<p.version, p.mode, p.nonce, p.target, p.payout, height, prev, out>>
             /\ OriginBound(p) => height = p.originHeight
      BY <1>1, <2>2, Zenon DEF LogicalPowProofId
    <3>2. id[1] = p.version /\ id[6] = height
      BY <3>1, Zenon
    <3>. QED  BY <1>2, <1>3, <3>1, <3>2, SMTT(60) DEF OriginBound
  <2>. QED  BY <2>1, <2>2, Zenon
<1>. QED  BY <1>1, <1>2, <1>4, BoundAssumption, SMTT(60)

\* The proofs that ApplyShadowBlock puts in the bucket of a block are fresh.
LEMMA AccountedAreFresh ==
    ASSUME NEW block \in Seq(Blocks), block # <<>>, NEW credited,
           \A h, prev, id : CanonicalRank(h, prev, id) \in Nat,
           IsShadowCompetingClaimsActive(Len(block)),
           NEW id \in AccountedProofs(FindPowShadowClaims(block, Concrete(block), credited).accounting)
    PROVE  Fresh(id, block)
<1>1. PICK body, prepared, claims :
         /\ body = Concrete(block) /\ prepared = PrepareShadowPowClaimAccounting(block, body)
         /\ claims = FindPowShadowClaims(block, body, credited)
  BY Zenon
<1>2. claims.accounting # <<>>
  BY <1>1 DEF AccountedProofs, Range
<1>3. /\ prepared.ok
      /\ claims = FindCanonicalPowShadowClaims(body.pos, body.txs, prepared.ctx)
  BY <1>1, <1>2, Zenon DEF FindPowShadowClaims, FindPreparedPowShadowClaims
<1>4. PICK predecessor, ctx, late :
         /\ ctx = CurrentOriginContext(block, predecessor)
         /\ prepared.ctx = [ctx EXCEPT !.late = late]
  BY <1>1, <1>3, Zenon DEF PrepareShadowPowClaimAccounting, PrepareAtOrigin, PrepareLateOrigins
<1>5. prepared.ctx.height = Len(block) /\ prepared.ctx.accounted = RecentLogicalProofs(Front(block))
  BY <1>4, Zenon DEF CurrentOriginContext
<1>6. \A n \in 1..Len(body.txs) : Len(body.txs[n].notes) = 1 => body.txs[n].notes[1] \in SingleProofs(block)
  BY <1>1, Zenon DEF SingleProofs
<1>7. Len(body.txs) \in Nat
  BY <1>1, ProofsAreNotes, Zenon
<1>8. PICK final : final = prepared.ctx
  BY Zenon
<1>9. Accountable(id, SingleProofs(block), final)
  BY <1>1, <1>3, <1>6, <1>7, <1>8, CanonicalClaimsAreAccountable, ZenonT(60)
<1>. QED  BY <1>5, <1>8, <1>9, AccountableIsFresh, ZenonT(60)

\* Every bucket is that of a canonical block of the chain, its origin-bound proofs name an origin
\* no later than the block, and no two buckets share one.
PaidInv ==
    /\ \A b \in DOMAIN buckets :
          /\ IsShadowGoldRushRewardActive(Len(b)) /\ IsShadowCompetingClaimsActive(Len(b))
          /\ IsPrefix(b, chain)
          /\ \A id \in buckets[b] : ~(id[1] < 3) => id[6] \in Nat /\ id[6] <= Len(b)
    /\ ProofIsPaidOnce

\* A proof whose origin is within the window of a new block cannot be in a bucket too old for
\* ReadRecentLogicalProofs: that bucket would be older than the origin.
LEMMA OldBucketsDoNotMatter ==
    ASSUME PaidInv, NEW c \in Seq(Blocks), c = chain, NEW block \in Seq(Blocks), Front(block) = c,
           Len(block) = Len(c) + 1, Len(block) <= REWARD_END,
           NEW b \in DOMAIN buckets, b \in Seq(Blocks), NEW id \in buckets[b], Fresh(id, block)
    PROVE  id[1] < 3
<1>1. SUFFICES ASSUME ~(id[1] < 3) PROVE FALSE
  BY Zenon
<1>2. /\ id[6] \in Nat /\ id[6] <= Len(block) /\ Len(block) - id[6] <= LATE_ORIGIN_WINDOW
      /\ id \notin RecentLogicalProofs(c) /\ id[6] <= Len(b)
      /\ IsShadowCompetingClaimsActive(Len(b)) /\ IsPrefix(b, c)
  BY <1>1, Zenon DEF Fresh, PaidInv
<1>3. Len(b) \in Nat /\ Len(c) \in Nat /\ Len(b) <= Len(c)
  BY <1>2, PrefixMeans, SeqShape, Zenon
<1>4. Len(b) \in RecentBucketHeights(c)
  <2>1. PICK origin, n, m : origin = id[6] /\ n = Len(c) /\ m = Len(b)
    BY Zenon
  <2>2. /\ origin \in Nat /\ n \in Nat /\ m \in Nat /\ REWARD_END \in Nat /\ LATE_ORIGIN_WINDOW \in Nat
        /\ COMPETING_CLAIMS_HEIGHT \in Nat
    BY <1>2, <1>3, <2>1, ScheduleAssumption, BoundAssumption, ZenonT(60)
  <2>3. n + 1 <= REWARD_END /\ (n + 1) - origin <= LATE_ORIGIN_WINDOW /\ origin <= m /\ m <= n
    BY <1>2, <1>3, <2>1, Zenon
  <2>4. COMPETING_CLAIMS_HEIGHT <= m
    BY <1>2, <2>1, Zenon DEF IsShadowCompetingClaimsActive
  <2>5. n < REWARD_END /\ n - LATE_ORIGIN_WINDOW + 1 <= m
    BY <2>2, <2>3
  <2>. QED  BY <2>1, <2>2, <2>3, <2>4, <2>5, SMTT(60) DEF RecentBucketHeights
<1>5. Ancestor(c, Len(b)) = b
  BY <1>2, <1>3, Zenon DEF IsPrefix, Ancestor
<1>6. id \in RecentLogicalProofs(c)
  BY <1>4, <1>5, Zenon DEF RecentLogicalProofs
<1>. QED  BY <1>2, <1>6, Zenon

LEMMA ConnectPaid ==
    ASSUME Conserved, PaidInv, \A h, prev, id : CanonicalRank(h, prev, id) \in Nat,
           NEW b \in Blocks, ConnectBlock(b)
    PROVE  PaidInv'
<1>1. PICK c, block : c = chain /\ block = Append(chain, b)
  BY Zenon
<1>2. /\ c \in Seq(Blocks) /\ block \in Seq(Blocks) /\ chain' = block /\ Len(c) \in Nat
      /\ Len(block) = Len(c) + 1 /\ Front(block) = c
  <2>1. c \in Seq(Blocks) /\ chain' = block
    BY <1>1, Zenon DEF Conserved, TypeOK, ConnectBlock, WriteConnection
  <2>. QED  BY <1>1, <2>1, FrontOfAppend, SMTT(60)
<1>3. ASSUME NEW k \in DOMAIN buckets
      PROVE  /\ k \in Seq(Blocks) /\ IsPrefix(k, block) /\ k # block
             /\ IsShadowGoldRushRewardActive(Len(k)) /\ IsShadowCompetingClaimsActive(Len(k))
             /\ \A id \in buckets[k] : ~(id[1] < 3) => id[6] \in Nat /\ id[6] <= Len(k)
  <2>1. k \in Seq(Blocks) /\ IsPrefix(k, c)
    BY <1>1, Zenon DEF PaidInv, Conserved, TypeOK
  <2>2. IsPrefix(k, block)
    BY <1>1, <1>2, <2>1, PrefixOfChild, ZenonT(60)
  <2>3. Len(k) <= Len(c) /\ Len(k) \in Nat
    BY <1>2, <2>1, PrefixMeans, SMTT(60)
  <2>4. k # block
    BY <1>2, <2>3
  <2>. QED  BY <2>1, <2>2, <2>4, Zenon DEF PaidInv
<1>4. CASE buckets' = buckets
  <2>1. ProofIsPaidOnce'
    BY <1>4 DEF PaidInv, ProofIsPaidOnce
  <2>. QED  BY <1>2, <1>3, <1>4, <2>1, ZenonT(60) DEF PaidInv
<1>5. CASE IsShadowGoldRushRewardActive(Len(block)) /\ IsShadowCompetingClaimsActive(Len(block))
  <2>1. PICK eval : ApplyShadowBlock(block, eval) /\ \E view : eval = ShadowEvaluation(block, view)
    BY <1>1, <1>5, Zenon DEF ConnectBlock, WriteConnection, Connection, InputsConnection, EvaluatedConnection
  <2>2. PICK credited :
           eval.proofs = AccountedProofs(FindPowShadowClaims(block, Concrete(block), credited).accounting)
    <3>1. PICK view : eval = ShadowEvaluation(block, view)
      BY <2>1, Zenon
    <3>2. PICK credited, solver, entries, posPayouts, pow :
             /\ pow = FindPowShadowClaims(block, Concrete(block), credited)
             /\ eval = CheckedEvaluation(block, view, credited, solver, entries, posPayouts, pow)
      BY <3>1, Zenon DEF ShadowEvaluation, PaymentEvaluation
    <3>3. eval.proofs = AccountedProofs(pow.accounting)
      BY <3>2, Zenon DEF CheckedEvaluation
    <3>. QED  BY <3>2, <3>3, Zenon
  <2>3. PICK new : new = eval.proofs
    BY Zenon
  <2>4. block # <<>> /\ Len(block) <= REWARD_END
    <3>1. Len(block) <= REWARD_END
      BY <1>2, <1>5, RewardHeights, SMTT(60)
    <3>. QED  BY <1>2, <3>1, SMTT(60)
  <2>5. ASSUME NEW id \in new PROVE Fresh(id, block)
    BY <1>2, <1>5, <2>2, <2>3, <2>4, <2>5, AccountedAreFresh, ZenonT(60)
  <2>6. buckets' = Put(buckets, block, new)
    BY <1>5, <2>1, <2>3, Zenon DEF ApplyShadowBlock
  <2>7. ASSUME NEW k \in DOMAIN buckets'
        PROVE  \/ k = block /\ buckets'[k] = new
               \/ k \in DOMAIN buckets /\ buckets'[k] = buckets[k] /\ k # block
    BY <1>3, <2>6, <2>7, Zenon DEF Put
  <2>8. ASSUME NEW k \in DOMAIN buckets'
        PROVE  /\ IsShadowGoldRushRewardActive(Len(k)) /\ IsShadowCompetingClaimsActive(Len(k))
               /\ IsPrefix(k, block)
               /\ \A id \in buckets'[k] : ~(id[1] < 3) => id[6] \in Nat /\ id[6] <= Len(k)
    <3>1. CASE k = block /\ buckets'[k] = new
      <4>1. IsPrefix(block, block)
        BY <1>2 DEF IsPrefix
      <4>. QED  BY <1>5, <2>5, <3>1, <4>1, ZenonT(60) DEF Fresh
    <3>2. CASE k \in DOMAIN buckets /\ buckets'[k] = buckets[k]
      BY <1>3, <3>2, Zenon
    <3>. QED  BY <2>7, <2>8, <3>1, <3>2, Zenon
  <2>9. ASSUME NEW k \in DOMAIN buckets, NEW id \in new, id \in buckets[k] PROVE id[1] < 3
    <3>1. k \in Seq(Blocks) /\ Fresh(id, block)
      BY <1>3, <2>5, <2>9, Zenon
    <3>. QED  BY <1>1, <1>2, <2>4, <2>9, <3>1, OldBucketsDoNotMatter, ZenonT(60)
  <2>10. ASSUME NEW j \in DOMAIN buckets', NEW k \in DOMAIN buckets', j # k,
                NEW id \in buckets'[j] \cap buckets'[k]
         PROVE  id[1] < 3
    <3>1. CASE j = block
      BY <2>7, <2>9, <2>10, <3>1, Zenon
    <3>2. CASE k = block
      BY <2>7, <2>9, <2>10, <3>2, Zenon
    <3>3. CASE j # block /\ k # block
      BY <2>7, <2>10, <3>3, Zenon DEF PaidInv, ProofIsPaidOnce
    <3>. QED  BY <3>1, <3>2, <3>3, Zenon
  <2>11. ProofIsPaidOnce'
    BY <2>10, Zenon DEF ProofIsPaidOnce
  <2>. QED  BY <1>2, <2>8, <2>11, Zenon DEF PaidInv
<1>6. CASE ~(IsShadowGoldRushRewardActive(Len(block)) /\ IsShadowCompetingClaimsActive(Len(block)))
  <2>1. buckets' = buckets
    BY <1>1, <1>6, Zenon DEF ConnectBlock, WriteConnection, ApplyShadowBlock
  <2>. QED  BY <1>4, <2>1, Zenon
<1>. QED  BY <1>5, <1>6, Zenon

LEMMA DisconnectPaid ==
    ASSUME Conserved, PaidInv, DisconnectBlock
    PROVE  PaidInv'
<1>1. PICK c, p : c = chain /\ p = Front(chain)
  BY Zenon
<1>2. c \in Seq(Blocks) /\ c # <<>> /\ p \in Seq(Blocks) /\ chain' = p
  BY <1>1, FrontOfChain, Zenon DEF Conserved, TypeOK, DisconnectBlock
<1>3. ASSUME NEW k \in DOMAIN buckets'
      PROVE  k \in DOMAIN buckets /\ k # c /\ buckets'[k] = buckets[k]
  <2>1. CASE IsShadowGoldRushRewardActive(Len(c))
    BY <1>1, <1>3, <2>1, Zenon DEF DisconnectBlock, Drop
  <2>2. CASE ~IsShadowGoldRushRewardActive(Len(c))
    <3>1. buckets' = buckets
      BY <1>1, <2>2, Zenon DEF DisconnectBlock
    <3>2. k # c
      BY <1>3, <2>2, <3>1, Zenon DEF PaidInv
    <3>. QED  BY <1>3, <3>1, <3>2, Zenon
  <2>. QED  BY <2>1, <2>2, Zenon
<1>4. ASSUME NEW k \in DOMAIN buckets'
      PROVE  /\ IsShadowGoldRushRewardActive(Len(k)) /\ IsShadowCompetingClaimsActive(Len(k))
             /\ IsPrefix(k, p)
             /\ \A id \in buckets'[k] : ~(id[1] < 3) => id[6] \in Nat /\ id[6] <= Len(k)
  <2>1. k \in Seq(Blocks) /\ IsPrefix(k, c)
    BY <1>1, <1>3, <1>4, ZenonT(60) DEF PaidInv, Conserved, TypeOK
  <2>2. IsPrefix(k, p)
    BY <1>1, <1>2, <1>3, <1>4, <2>1, PrefixOfParent, ZenonT(60)
  <2>. QED  BY <1>3, <1>4, <2>2, ZenonT(60) DEF PaidInv
<1>5. ProofIsPaidOnce'
  <2>1. ASSUME NEW j \in DOMAIN buckets', NEW k \in DOMAIN buckets', j # k,
               NEW id \in buckets'[j] \cap buckets'[k]
        PROVE  id[1] < 3
    BY <1>3, <2>1, Zenon DEF PaidInv, ProofIsPaidOnce
  <2>. QED  BY <2>1, Zenon DEF ProofIsPaidOnce
<1>. QED  BY <1>2, <1>4, <1>5, Zenon DEF PaidInv

\* No origin-bound proof is paid in two blocks of a branch, for every window, schedule and content
\* and through every reorganisation, although ReadRecentLogicalProofs reads only the last
\* LATE_ORIGIN_WINDOW buckets.  The rank hashes are numbers; nothing else is assumed of them.
THEOREM ProofsArePaidOnce ==
    ASSUME \A h, prev, id : CanonicalRank(h, prev, id) \in Nat
    PROVE  Spec => []ProofIsPaidOnce
<1>. DEFINE J == Conserved /\ PaidInv
<1>1. Init => J
  <2>. SUFFICES ASSUME Init PROVE PaidInv
    BY ConservedInit, Zenon
  <2>1. DOMAIN buckets = {}
    BY DEF Init
  <2>. QED  BY <2>1, Zenon DEF PaidInv, ProofIsPaidOnce
<1>2. J /\ [Next]_vars => J'
  <2>1. J /\ UNCHANGED vars => J'
    BY Zenon DEF Conserved, TypeOK, EmissionInvariant, EmissionIsConserved, PaidInv, ProofIsPaidOnce, vars
  <2>2. ASSUME J, NEW b \in Blocks, ConnectBlock(b) PROVE J'
    BY <2>2, ConservedConnect, ConnectPaid, Zenon
  <2>3. ASSUME J, DisconnectBlock PROVE J'
    BY <2>3, ConservedDisconnect, DisconnectPaid, Zenon
  <2>. QED  BY <2>1, <2>2, <2>3, Zenon DEF Next
<1>3. J => ProofIsPaidOnce
  BY Zenon DEF PaidInv
<1>. QED  BY <1>1, <1>2, <1>3, PTL DEF Spec
=============================================================================
