------------------------- MODULE ShadowPowClaimsProofs -------------------------
(***************************************************************************)
(* The recursive functions of the schedule obey their equations, and a     *)
(* proof that the canonical accounting of a block pays was carried by the  *)
(* block, is not late and was not accounted before, for every schedule,    *)
(* every rank function and every sequence of transactions.                 *)
(***************************************************************************)
EXTENDS ShadowPowClaims, TLAPS, WellFoundedInduction, FiniteSetTheorems

-----------------------------------------------------------------------------
(* A function on the natural numbers defined by recursion exists and obeys its equation.  The step *)
(* of the recursion is given as a function, so that the facts are first-order and can be cited for *)
(* the recursive functions of ShadowSchedule. *)

\* A non-empty set of natural numbers has a least element.
LEMMA LeastNat ==
    ASSUME NEW T, T \subseteq Nat, T # {}
    PROVE  \E n \in T : \A m \in T : n <= m
<1>. DEFINE R == OpToRel(<, Nat)
<1>1. IsWellFoundedOn(R, Nat)
  BY NatLessThanWellFounded, Zenon
<1>2. \E x \in T : \A y \in T : ~(<<y, x>> \in R)
  <2>. HIDE DEF R
  <2>. QED  BY <1>1, WFMin, Zenon
<1>3. PICK x \in T : \A y \in T : ~(<<y, x>> \in R)
  BY <1>2, Zenon
<1>4. ASSUME NEW y \in T PROVE x <= y
  <2>1. x \in Nat /\ y \in Nat
    BY Zenon
  <2>2. ~(y < x)
    <3>1. SUFFICES ASSUME y < x PROVE FALSE
      BY Zenon
    <3>2. <<y, x>> \in R
      BY <2>1, <3>1, Zenon DEF OpToRel
    <3>. QED  BY <1>3, <3>2, Zenon
  <2>. QED  BY <2>1, <2>2
<1>. QED  BY <1>4, Zenon

\* The functions on 0..n that follow the recursion f[0] = b, f[k+1] = g[<<k, f[k]>>].
Attempts(b, g, n) ==
    {f \in [0..n -> Nat] : f[0] = b /\ \A k \in 0..(n - 1) : f[k + 1] = g[<<k, f[k]>>]}

\* Every initial segment has such a function.
LEMMA AttemptExists ==
    ASSUME NEW b \in Nat, NEW g \in [Nat \X Nat -> Nat], NEW n \in Nat
    PROVE  Attempts(b, g, n) # {}
<1>. DEFINE T == {m \in Nat : Attempts(b, g, m) = {}}
<1>1. SUFFICES ASSUME T # {} PROVE FALSE
  BY Zenon
<1>2. PICK m \in T : \A k \in T : m <= k
  <2>. HIDE DEF T
  <2>1. T \subseteq Nat
    BY Zenon DEF T
  <2>. QED  BY <1>1, <2>1, LeastNat, Zenon
<1>3. CASE m = 0
  <2>1. [k \in 0..0 |-> b] \in Attempts(b, g, 0)
    BY DEF Attempts
  <2>. QED  BY <1>3, <2>1, Zenon
<1>4. CASE m # 0
  <2>1. m \in Nat /\ m - 1 \in Nat
    BY <1>4
  <2>2. m - 1 \notin T
    BY <1>2, <2>1
  <2>3. PICK f \in Attempts(b, g, m - 1) : TRUE
    BY <2>1, <2>2, Zenon
  <2>4. /\ f \in [0..(m - 1) -> Nat] /\ f[0] = b
        /\ \A k \in 0..((m - 1) - 1) : f[k + 1] = g[<<k, f[k]>>]
    BY <2>3, Zenon DEF Attempts
  <2>. DEFINE h == [k \in 0..m |-> IF k = m THEN g[<<m - 1, f[m - 1]>>] ELSE f[k]]
  <2>5. h \in [0..m -> Nat]
    <3>1. f[m - 1] \in Nat
      BY <2>1, <2>4
    <3>2. g[<<m - 1, f[m - 1]>>] \in Nat
      BY <2>1, <3>1, Zenon
    <3>. QED  BY <2>1, <2>4, <3>2
  <2>6. h[0] = b
    BY <2>1, <2>4, <1>4
  <2>7. ASSUME NEW k \in 0..(m - 1) PROVE h[k + 1] = g[<<k, h[k]>>]
    <3>1. CASE k = m - 1
      <4>1. k + 1 = m /\ k # m /\ k \in 0..m /\ m \in 0..m
        BY <2>1, <3>1
      <4>2. h[m] = g[<<m - 1, f[m - 1]>>] /\ h[k] = f[k]
        BY <4>1, Zenon
      <4>. QED  BY <3>1, <4>1, <4>2, Zenon
    <3>2. CASE k # m - 1
      BY <2>1, <2>4, <3>2, SMTT(60)
    <3>. QED  BY <3>1, <3>2, Zenon
  <2>8. h \in Attempts(b, g, m)
    <3>. HIDE DEF h
    <3>. QED  BY <2>5, <2>6, <2>7, Zenon DEF Attempts
  <2>. QED  BY <2>8, Zenon
<1>. QED  BY <1>3, <1>4, Zenon

\* Two of them agree where both are defined.
LEMMA AttemptsAgree ==
    ASSUME NEW b \in Nat, NEW g \in [Nat \X Nat -> Nat], NEW n \in Nat, NEW m \in Nat,
           NEW e \in Attempts(b, g, n), NEW f \in Attempts(b, g, m),
           NEW i \in 0..n, i \in 0..m
    PROVE  e[i] = f[i]
<1>. DEFINE T == {k \in Nat : k <= n /\ k <= m /\ e[k] # f[k]}
<1>1. SUFFICES ASSUME T # {} PROVE FALSE
  OBVIOUS
<1>2. PICK k \in T : \A j \in T : k <= j
  <2>1. T \subseteq Nat
    BY Zenon
  <2>. HIDE DEF T
  <2>. QED  BY <1>1, <2>1, LeastNat, Zenon
<1>3. /\ e[0] = b /\ \A j \in 0..(n - 1) : e[j + 1] = g[<<j, e[j]>>]
      /\ f[0] = b /\ \A j \in 0..(m - 1) : f[j + 1] = g[<<j, f[j]>>]
  BY Zenon DEF Attempts
<1>4. k # 0
  BY <1>2, <1>3, Zenon
<1>5. /\ k - 1 \in Nat /\ k - 1 \in 0..(n - 1) /\ k - 1 \in 0..(m - 1)
      /\ k - 1 \notin T /\ k = (k - 1) + 1
  BY <1>2, <1>4
<1>6. e[k - 1] = f[k - 1]
  BY <1>5
<1>7. e[k] = g[<<k - 1, e[k - 1]>>] /\ f[k] = g[<<k - 1, f[k - 1]>>]
  BY <1>3, <1>5, Zenon
<1>. QED  BY <1>2, <1>6, <1>7, Zenon

\* Hence one function on all natural numbers follows the recursion.
THEOREM RecursionExists ==
    ASSUME NEW b \in Nat, NEW g \in [Nat \X Nat -> Nat]
    PROVE  \E f \in [Nat -> Nat] :
              f[0] = b /\ \A n \in Nat : f[n + 1] = g[<<n, f[n]>>]
<1>. DEFINE A(n) == CHOOSE e \in Attempts(b, g, n) : TRUE
            F == [n \in Nat |-> A(n)[n]]
<1>1. \A n \in Nat : A(n) \in Attempts(b, g, n)
  BY AttemptExists, Zenon
<1>2. \A n \in Nat : /\ A(n) \in [0..n -> Nat] /\ A(n)[0] = b
                     /\ \A k \in 0..(n - 1) : A(n)[k + 1] = g[<<k, A(n)[k]>>]
  <2>. HIDE DEF A
  <2>. QED  BY <1>1, Zenon DEF Attempts
<1>3. F \in [Nat -> Nat]
  <2>. HIDE DEF A
  <2>. QED  BY <1>2
<1>4. F[0] = b
  <2>. HIDE DEF A
  <2>. QED  BY <1>2, Zenon
<1>5. ASSUME NEW n \in Nat PROVE F[n + 1] = g[<<n, F[n]>>]
  <2>. HIDE DEF A
  <2>1. F[n + 1] = A(n + 1)[n + 1] /\ F[n] = A(n)[n]
    OBVIOUS
  <2>2. A(n + 1)[n + 1] = g[<<n, A(n + 1)[n]>>]
    <3>1. n + 1 \in Nat /\ n \in 0..((n + 1) - 1)
      OBVIOUS
    <3>. QED  BY <1>2, <3>1, Zenon
  <2>3. A(n + 1)[n] = A(n)[n]
    <3>1. /\ n + 1 \in Nat /\ n \in 0..(n + 1) /\ n \in 0..n
          /\ A(n + 1) \in Attempts(b, g, n + 1) /\ A(n) \in Attempts(b, g, n)
      BY <1>1
    <3>. QED  BY <3>1, AttemptsAgree
  <2>. QED  BY <2>1, <2>2, <2>3, Zenon
<1>. QED
  <2>. HIDE DEF F
  <2>. QED  BY <1>3, <1>4, <1>5, Zenon

-----------------------------------------------------------------------------
(* The recursive functions of the schedule. *)

\* (580 * COIN) >> n is a halving at each step, for every n.
LEMMA HalvedRewardUnfolds ==
    /\ HalvedReward \in [Nat -> Nat]
    /\ HalvedReward[0] = PHASE1_REWARD
    /\ \A n \in Nat : HalvedReward[n + 1] = HalvedReward[n] \div 2
<1>. DEFINE g == [p \in Nat \X Nat |-> p[2] \div 2]
            H == [n \in Nat |-> IF n = 0 THEN PHASE1_REWARD ELSE HalvedReward[n - 1] \div 2]
<1>1. g \in [Nat \X Nat -> Nat]
  <2>1. ASSUME NEW n \in Nat PROVE n \div 2 \in Nat
    OBVIOUS
  <2>. QED  BY <2>1, Zenon
<1>2. PHASE1_REWARD \in Nat
  BY AmountAssumption, Zenon
<1>3. PICK f \in [Nat -> Nat] : f[0] = PHASE1_REWARD /\ \A n \in Nat : f[n + 1] = g[<<n, f[n]>>]
  <2>. HIDE DEF g
  <2>. QED  BY <1>1, <1>2, RecursionExists, Zenon
<1>4. \A n \in Nat : f[n + 1] = f[n] \div 2
  BY <1>3, Zenon
<1>5. f = [n \in Nat |-> IF n = 0 THEN PHASE1_REWARD ELSE f[n - 1] \div 2]
  <2>1. ASSUME NEW n \in Nat
        PROVE  f[n] = IF n = 0 THEN PHASE1_REWARD ELSE f[n - 1] \div 2
    <3>1. CASE n = 0
      BY <1>3, <3>1, Zenon
    <3>2. CASE n # 0
      <4>1. n - 1 \in Nat /\ n = (n - 1) + 1
        BY <3>2
      <4>. QED  BY <1>4, <3>2, <4>1, Zenon
    <3>. QED  BY <3>1, <3>2, Zenon
  <2>. QED  BY <2>1, Zenon
<1>6. HalvedReward = H
  BY <1>5, Zenon DEF HalvedReward
<1>7. /\ HalvedReward[0] = PHASE1_REWARD
      /\ \A n \in Nat : HalvedReward[n + 1] = HalvedReward[n] \div 2
  <2>1. ASSUME NEW n \in Nat PROVE HalvedReward[n + 1] = HalvedReward[n] \div 2
    <3>1. n + 1 \in Nat /\ n + 1 # 0 /\ (n + 1) - 1 = n
      OBVIOUS
    <3>. QED  BY <1>6, <3>1, Zenon
  <2>. QED  BY <1>6, <2>1, Zenon
<1>8. ASSUME NEW n \in Nat PROVE HalvedReward[n] \in Nat
  <2>. DEFINE T == {k \in Nat : HalvedReward[k] \notin Nat}
  <2>1. SUFFICES ASSUME T # {} PROVE FALSE
    BY Zenon
  <2>2. PICK k \in T : \A j \in T : k <= j
    <3>1. T \subseteq Nat
      BY Zenon
    <3>. HIDE DEF T
    <3>. QED  BY <2>1, <3>1, LeastNat, Zenon
  <2>3. k # 0
    BY <1>2, <1>7, Zenon
  <2>4. k - 1 \in Nat /\ k - 1 \notin T /\ k = (k - 1) + 1
    BY <2>2, <2>3
  <2>5. HalvedReward[k] = HalvedReward[k - 1] \div 2 /\ HalvedReward[k - 1] \in Nat
    BY <1>7, <2>4, Zenon
  <2>6. HalvedReward[k] \in Nat
    BY <2>5
  <2>. QED  BY <2>2, <2>6, Zenon
<1>9. HalvedReward \in [Nat -> Nat]
  <2>1. HalvedReward = [n \in Nat |-> HalvedReward[n]]
    BY <1>6, Zenon
  <2>. QED  BY <1>8, <2>1, Zenon
<1>. QED  BY <1>7, <1>9, Zenon

\* A block's reward is a natural number, at every height.
LEMMA ShadowBaseRewardType ==
    ASSUME NEW h \in Nat
    PROVE  ShadowBaseReward(h) \in Nat
<1>1. CASE REWARD_START <= h /\ h <= PHASE1_END /\ h <= REWARD_END
  <2>1. (h - REWARD_START) \div HALVING_INTERVAL \in Nat
    <3>1. h - REWARD_START \in Nat /\ HALVING_INTERVAL \in Nat \ {0}
      BY <1>1, ScheduleAssumption
    <3>. QED  BY <3>1
  <2>2. HalvedReward[(h - REWARD_START) \div HALVING_INTERVAL] \in Nat
    BY <2>1, HalvedRewardUnfolds, Zenon
  <2>. QED  BY <1>1, <2>2, ScheduleAssumption, AmountAssumption, Zenon
            DEF ShadowBaseReward, IsShadowGoldRushRewardHeight
<1>2. CASE ~(REWARD_START <= h /\ h <= PHASE1_END /\ h <= REWARD_END)
  BY <1>2, ScheduleAssumption, AmountAssumption, Zenon
  DEF ShadowBaseReward, IsShadowGoldRushRewardHeight
<1>. QED  BY <1>1, <1>2, Zenon

\* The scheduled emission grows by each block's reward.
LEMMA EmissionUnfolds ==
    /\ \A h \in Nat : GetScheduledShadowEmissionThrough[h] \in Nat
    /\ GetScheduledShadowEmissionThrough[0] = 0
    /\ \A h \in Nat : GetScheduledShadowEmissionThrough[h + 1]
                        = GetScheduledShadowEmissionThrough[h] + ShadowBaseReward(h + 1)
<1>. DEFINE g == [p \in Nat \X Nat |-> p[2] + ShadowBaseReward(p[1] + 1)]
<1>1. g \in [Nat \X Nat -> Nat]
  <2>1. ASSUME NEW n \in Nat, NEW m \in Nat PROVE m + ShadowBaseReward(n + 1) \in Nat
    <3>1. n + 1 \in Nat
      OBVIOUS
    <3>2. ShadowBaseReward(n + 1) \in Nat
      BY <3>1, ShadowBaseRewardType, Zenon
    <3>. QED  BY <3>2
  <2>. QED  BY <2>1, Zenon
<1>2. PICK f \in [Nat -> Nat] : f[0] = 0 /\ \A n \in Nat : f[n + 1] = g[<<n, f[n]>>]
  <2>1. 0 \in Nat
    BY Zenon
  <2>. HIDE DEF g
  <2>. QED  BY <1>1, <2>1, RecursionExists, Zenon
<1>3. \A n \in Nat : f[n + 1] = f[n] + ShadowBaseReward(n + 1)
  BY <1>2, Zenon
<1>4. f = [n \in Nat |-> IF n = 0 THEN 0 ELSE f[n - 1] + ShadowBaseReward(n)]
  <2>1. ASSUME NEW n \in Nat
        PROVE  f[n] = IF n = 0 THEN 0 ELSE f[n - 1] + ShadowBaseReward(n)
    <3>1. CASE n = 0
      BY <1>2, <3>1, Zenon
    <3>2. CASE n # 0
      <4>1. n - 1 \in Nat /\ n = (n - 1) + 1
        BY <3>2
      <4>2. f[n] = f[n - 1] + ShadowBaseReward((n - 1) + 1)
        BY <1>3, <4>1, Zenon
      <4>. QED  BY <3>2, <4>1, <4>2, Zenon
    <3>. QED  BY <3>1, <3>2, Zenon
  <2>. QED  BY <2>1, Zenon
<1>5. GetScheduledShadowEmissionThrough =
        [n \in Nat |-> IF n = 0 THEN 0
                       ELSE GetScheduledShadowEmissionThrough[n - 1] + ShadowBaseReward(n)]
  BY <1>4, Zenon DEF GetScheduledShadowEmissionThrough
<1>6. ASSUME NEW n \in Nat
      PROVE  GetScheduledShadowEmissionThrough[n + 1]
               = GetScheduledShadowEmissionThrough[n] + ShadowBaseReward(n + 1)
  <2>1. n + 1 \in Nat /\ n + 1 # 0 /\ (n + 1) - 1 = n
    OBVIOUS
  <2>. QED  BY <1>5, <2>1, Zenon
<1>7. GetScheduledShadowEmissionThrough[0] = 0
  BY <1>5, Zenon
<1>8. \A n \in Nat : GetScheduledShadowEmissionThrough[n] \in Nat
  <2>. DEFINE T == {k \in Nat : GetScheduledShadowEmissionThrough[k] \notin Nat}
  <2>1. SUFFICES ASSUME T # {} PROVE FALSE
    BY Zenon
  <2>2. PICK k \in T : \A j \in T : k <= j
    <3>1. T \subseteq Nat
      BY Zenon
    <3>. HIDE DEF T
    <3>. QED  BY <2>1, <3>1, LeastNat, Zenon
  <2>3. k # 0
    BY <1>7, Zenon
  <2>4. k - 1 \in Nat /\ k - 1 \notin T /\ k = (k - 1) + 1
    BY <2>2, <2>3
  <2>5. /\ GetScheduledShadowEmissionThrough[k]
             = GetScheduledShadowEmissionThrough[k - 1] + ShadowBaseReward(k)
        /\ GetScheduledShadowEmissionThrough[k - 1] \in Nat
    BY <1>6, <2>4, Zenon
  <2>6. ShadowBaseReward(k) \in Nat
    BY ShadowBaseRewardType, Zenon
  <2>. QED  BY <2>2, <2>5, <2>6
<1>. QED  BY <1>6, <1>7, <1>8, Zenon

-----------------------------------------------------------------------------
(* The canonical accounting of one block: what InsertLogicalPowCandidate keeps, that the candidates *)
(* can be put in rank order, and what a row says of the proof that it accounts. *)

\* The candidates that the proofs in P give rise to.
CandidatesOf(P) ==
    {c \in [id : {LogicalPowProofId(p) : p \in P}, proof : P, observed : Nat] :
        c.id = LogicalPowProofId(c.proof)}

\* A finite set of things with a rank can be listed in rank order.
LEMMA RankOrderExists ==
    ASSUME NEW C, IsFiniteSet(C), NEW rank \in [C -> Nat]
    PROVE  \E s \in [1..Cardinality(C) -> C] :
              /\ \A i, j \in 1..Cardinality(C) : i # j => s[i] # s[j]
              /\ \A i, j \in 1..Cardinality(C) : i < j => rank[s[i]] <= rank[s[j]]
<1>. DEFINE Listed(S, n) == \E s \in [1..n -> S] :
                               /\ \A i, j \in 1..n : i # j => s[i] # s[j]
                               /\ \A i, j \in 1..n : i < j => rank[s[i]] <= rank[s[j]]
            T == {n \in Nat : \E S \in SUBSET C : Cardinality(S) = n /\ ~Listed(S, n)}
<1>1. Cardinality(C) \in Nat
  BY FS_CardinalityType, Zenon
<1>2. SUFFICES ASSUME T # {} PROVE FALSE
  <2>1. T = {} => Listed(C, Cardinality(C))
    <3>. HIDE DEF Listed
    <3>. QED  BY <1>1, Zenon
  <2>. QED  BY <2>1, Zenon
<1>3. PICK n \in T : \A m \in T : n <= m
  <2>1. T \subseteq Nat
    BY Zenon
  <2>. HIDE DEF T
  <2>. QED  BY <1>2, <2>1, LeastNat, Zenon
<1>4. PICK S \in SUBSET C : Cardinality(S) = n /\ ~Listed(S, n)
  <2>. HIDE DEF Listed
  <2>. QED  BY <1>3, Zenon
<1>5. IsFiniteSet(S) /\ n \in Nat
  BY <1>3, FS_Subset, Zenon
<1>6. CASE n = 0
  <2>1. [i \in 1..0 |-> 0] \in [1..0 -> S] /\ \A i \in 1..0 : FALSE
    OBVIOUS
  <2>2. Listed(S, 0)
    BY <2>1, Zenon
  <2>. HIDE DEF Listed
  <2>. QED  BY <1>4, <1>6, <2>2, Zenon
<1>7. CASE n # 0
  <2>1. S # {}
    BY <1>4, <1>7, FS_EmptySet, Zenon
  <2>2. PICK x \in S : \A y \in S : rank[x] <= rank[y]
    <3>. DEFINE R == {rank[y] : y \in S}
    <3>1. R \subseteq Nat /\ R # {}
      BY <2>1, Zenon
    <3>2. PICK r \in R : \A q \in R : r <= q
      <4>. HIDE DEF R
      <4>. QED  BY <3>1, LeastNat, Zenon
    <3>. QED  BY <3>2, Zenon
  <2>3. PICK Q : Q = S \ {x}
    BY Zenon
  <2>4. Q \in SUBSET C /\ Cardinality(Q) = n - 1 /\ n - 1 \in Nat
    <3>1. IsFiniteSet(Q) /\ Cardinality(Q) = Cardinality(S) - 1
      BY <1>5, <2>3, FS_RemoveElement, Zenon
    <3>. QED  BY <1>4, <1>5, <1>7, <2>3, <3>1
  <2>5. Listed(Q, n - 1)
    <3>1. n - 1 \notin T
      <4>. HIDE DEF T
      <4>. QED  BY <1>3, <1>5, <2>4
    <3>. HIDE DEF Listed
    <3>. QED  BY <2>4, <3>1, Zenon
  <2>6. PICK q \in [1..(n - 1) -> Q] :
              /\ \A i, j \in 1..(n - 1) : i # j => q[i] # q[j]
              /\ \A i, j \in 1..(n - 1) : i < j => rank[q[i]] <= rank[q[j]]
    BY <2>5, Zenon
  <2>. DEFINE s == [i \in 1..n |-> IF i = 1 THEN x ELSE q[i - 1]]
  <2>7. \A i \in 1..n : i # 1 => i - 1 \in 1..(n - 1)
    BY <1>5
  <2>8. \A i \in 1..n : i # 1 => q[i - 1] \in S /\ q[i - 1] # x
    BY <2>3, <2>6, <2>7, Zenon
  <2>9. s \in [1..n -> S]
    BY <2>8, Zenon
  <2>10. \A i, j \in 1..n : i # j => s[i] # s[j]
    <3>1. ASSUME NEW i \in 1..n, NEW j \in 1..n, i # j, i # 1, j # 1 PROVE q[i - 1] # q[j - 1]
      <4>1. i - 1 # j - 1
        BY <3>1
      <4>. QED  BY <2>6, <2>7, <3>1, <4>1, Zenon
    <3>. QED  BY <2>8, <3>1, Zenon
  <2>11. ASSUME NEW i \in 1..n, NEW j \in 1..n, i < j PROVE rank[s[i]] <= rank[s[j]]
    <3>1. j # 1
      BY <2>11
    <3>2. s[j] = q[j - 1] /\ q[j - 1] \in S
      BY <2>8, <3>1, Zenon
    <3>3. CASE i = 1
      BY <2>2, <3>2, <3>3, Zenon
    <3>4. CASE i # 1
      <4>1. s[i] = q[i - 1] /\ i - 1 < j - 1
        BY <2>11, <3>4
      <4>. QED  BY <2>6, <2>7, <3>1, <3>2, <3>4, <4>1, Zenon
    <3>. QED  BY <3>3, <3>4, Zenon
  <2>12. Listed(S, n)
    <3>. HIDE DEF s
    <3>. QED  BY <2>9, <2>10, <2>11, Zenon
  <2>. HIDE DEF Listed
  <2>. QED  BY <1>4, <2>12, Zenon
<1>. QED  BY <1>6, <1>7, Zenon

\* The rows are made of candidates.
LEMMA RankedAreCandidates ==
    ASSUME NEW C, IsFiniteSet(C), NEW ctx,
           \A c \in C : CanonicalRank(ctx.height, ctx.prev, c.id) \in Nat
    PROVE  RankedCandidates(C, ctx) \in Injection(1..Cardinality(C), C)
<1>. DEFINE rank == [c \in C |-> CanonicalRank(ctx.height, ctx.prev, c.id)]
<1>1. rank \in [C -> Nat]
  BY Zenon
<1>2. PICK s \in [1..Cardinality(C) -> C] :
              /\ \A i, j \in 1..Cardinality(C) : i # j => s[i] # s[j]
              /\ \A i, j \in 1..Cardinality(C) : i < j => rank[s[i]] <= rank[s[j]]
  <2>. HIDE DEF rank
  <2>. QED  BY <1>1, RankOrderExists, Zenon
<1>3. s \in Injection(1..Cardinality(C), C)
  BY <1>2, Zenon DEF Injection, IsInjective
<1>4. ASSUME NEW i \in DOMAIN s, NEW j \in DOMAIN s, i < j PROVE ~RankLess(ctx, s[j].id, s[i].id)
  <2>1. i \in 1..Cardinality(C) /\ j \in 1..Cardinality(C) /\ s[i] \in C /\ s[j] \in C
    BY <1>4, Zenon
  <2>2. rank[s[i]] <= rank[s[j]] /\ rank[s[i]] \in Nat /\ rank[s[j]] \in Nat
    <3>. HIDE DEF rank
    <3>. QED  BY <1>1, <1>2, <1>4, <2>1, Zenon
  <2>3. ~(rank[s[j]] < rank[s[i]])
    <3>. HIDE DEF rank
    <3>. QED  BY <2>2
  <2>. QED  BY <2>1, <2>3, Zenon DEF RankLess
<1>. QED  BY <1>3, <1>4, Zenon DEF RankedCandidates

\* One more payload leaves a finite set of candidates of the proofs seen.
LEMMA InsertKeepsCandidates ==
    ASSUME NEW P, NEW C \in SUBSET CandidatesOf(P), IsFiniteSet(C), NEW proof \in P, NEW ctx
    PROVE  /\ InsertLogicalPowCandidate(C, proof, ctx) \in SUBSET CandidatesOf(P)
           /\ IsFiniteSet(InsertLogicalPowCandidate(C, proof, ctx))
<1>1. PICK id, new, worst :
         /\ id = LogicalPowProofId(proof) /\ new = [id |-> id, proof |-> proof, observed |-> 1]
         /\ worst = CHOOSE c \in C : \A d \in C : d = c \/ RankLess(ctx, d.id, c.id)
  BY Zenon
<1>. DEFINE Count(c) == IF c.id = id THEN [c EXCEPT !.observed = @ + 1] ELSE c
            D == {Count(c) : c \in C}
<1>2. \/ InsertLogicalPowCandidate(C, proof, ctx) = D
      \/ InsertLogicalPowCandidate(C, proof, ctx) = C \cup {new}
      \/ InsertLogicalPowCandidate(C, proof, ctx) = (C \ {worst}) \cup {new}
      \/ InsertLogicalPowCandidate(C, proof, ctx) = C
  BY <1>1, ZenonT(60) DEF InsertLogicalPowCandidate
<1>3. new \in CandidatesOf(P)
  BY <1>1, Zenon DEF CandidatesOf
<1>4. D \in SUBSET CandidatesOf(P)
  <2>1. ASSUME NEW c \in C PROVE Count(c) \in CandidatesOf(P)
    <3>1. /\ c \in [id : {LogicalPowProofId(p) : p \in P}, proof : P, observed : Nat]
          /\ c.id = LogicalPowProofId(c.proof)
      BY <2>1, Zenon DEF CandidatesOf
    <3>2. PICK e : e = [c EXCEPT !.observed = @ + 1]
      BY Zenon
    <3>3. /\ e \in [id : {LogicalPowProofId(p) : p \in P}, proof : P, observed : Nat]
          /\ e.id = c.id /\ e.proof = c.proof
      BY <3>1, <3>2
    <3>4. e \in CandidatesOf(P)
      BY <3>1, <3>3, Zenon DEF CandidatesOf
    <3>. QED  BY <2>1, <3>2, <3>4, Zenon
  <2>. HIDE DEF Count
  <2>. QED  BY <2>1, Zenon
<1>5. IsFiniteSet(D)
  <2>. DEFINE f == [c \in C |-> Count(c)]
  <2>1. f \in Surjection(C, D)
    <3>. HIDE DEF Count
    <3>. QED  BY Zenon DEF Surjection
  <2>. HIDE DEF f, D
  <2>. QED  BY <2>1, FS_Surjection, Zenon
<1>6. IsFiniteSet(C \cup {new}) /\ IsFiniteSet((C \ {worst}) \cup {new})
  <2>1. IsFiniteSet(C \ {worst})
    BY FS_Subset, Zenon
  <2>. QED  BY <2>1, FS_AddElement, Zenon
<1>. QED
  <2>. HIDE DEF D
  <2>. QED  BY <1>2, <1>3, <1>4, <1>5, <1>6, Zenon

\* The state of a scan whose candidates are candidates of the proofs in P.
ScansOnly(scan, P) ==
    /\ "candidates" \in DOMAIN scan
    /\ scan.candidates \in SUBSET CandidatesOf(P)
    /\ IsFiniteSet(scan.candidates)

LEMMA TransactionScansOnly ==
    ASSUME NEW P, NEW scan, ScansOnly(scan, P), NEW pos, NEW tx, NEW ctx,
           Len(tx.notes) = 1 => tx.notes[1] \in P
    PROVE  ScansOnly(ScanTransaction(scan, pos, tx, ctx), P)
<1>1. PICK next, count, seen :
         /\ next = ScanTransaction(scan, pos, tx, ctx) /\ count = Len(tx.notes)
         /\ seen = [scan EXCEPT !.observed = @ + count]
  BY Zenon
<1>2. "candidates" \in DOMAIN seen /\ seen.candidates = scan.candidates
  BY <1>1, Zenon DEF ScansOnly
<1>3. \/ next = [seen EXCEPT !.invalidLocation = @ + count]
      \/ next = [seen EXCEPT !.malformed = @ + count]
      \/ next = [seen EXCEPT !.wrongMode = @ + 1]
      \/ next = [seen EXCEPT !.unknownMode = @ + 1]
      \/ /\ count = 1
         /\ next = [seen EXCEPT !.candidateCount = @ + 1,
                                !.candidates = InsertLogicalPowCandidate(@, tx.notes[1], ctx)]
  BY <1>1, Zenon DEF ScanTransaction
<1>4. /\ "candidates" \in DOMAIN next
      /\ \/ next.candidates = scan.candidates
         \/ count = 1 /\ next.candidates = InsertLogicalPowCandidate(scan.candidates, tx.notes[1], ctx)
  BY <1>2, <1>3, Zenon
<1>5. CASE next.candidates = scan.candidates
  BY <1>1, <1>4, <1>5, Zenon DEF ScansOnly
<1>6. CASE count = 1 /\ next.candidates = InsertLogicalPowCandidate(scan.candidates, tx.notes[1], ctx)
  <2>1. PICK C, proof : C = scan.candidates /\ proof = tx.notes[1]
    BY Zenon
  <2>2. C \in SUBSET CandidatesOf(P) /\ IsFiniteSet(C) /\ proof \in P
    BY <1>1, <1>6, <2>1, Zenon DEF ScansOnly
  <2>3. next.candidates \in SUBSET CandidatesOf(P) /\ IsFiniteSet(next.candidates)
    BY <1>6, <2>1, <2>2, InsertKeepsCandidates
  <2>. QED  BY <1>1, <1>4, <2>3, Zenon DEF ScansOnly
<1>. QED  BY <1>4, <1>5, <1>6, Zenon

\* The scan of a block is one ScanTransaction for every transaction, in block order.
ScanUnfolded(f, pos, txs, ctx) ==
    /\ f[0] = EmptyScan
    /\ \A n \in 1..Len(txs) : /\ n - 1 \in 0..Len(txs)
                              /\ f[n] = ScanTransaction(f[n - 1], pos, txs[n], ctx)
    /\ ScanBlock(pos, txs, ctx) = f[Len(txs)]

LEMMA BlockUnfolds ==
    ASSUME NEW pos, NEW txs, NEW ctx, Len(txs) \in Nat
    PROVE  \E f : ScanUnfolded(f, pos, txs, ctx)
<1>. DEFINE Step(s, n) == ScanTransaction(s, pos, txs[n], ctx)
            Follows(f, m) == f = [n \in 0..m |-> IF n = 0 THEN EmptyScan ELSE Step(f[n - 1], n)]
            T == {m \in Nat : ~ \E f : Follows(f, m)}
<1>1. T = {}
  <2>1. SUFFICES ASSUME T # {} PROVE FALSE
    BY Zenon
  <2>2. PICK m \in T : \A k \in T : m <= k
    <3>1. T \subseteq Nat
      BY Zenon
    <3>. HIDE DEF T
    <3>. QED  BY <2>1, <3>1, LeastNat, Zenon
  <2>3. m \in Nat /\ ~ \E f : Follows(f, m)
    <3>. HIDE DEF Follows
    <3>. QED  BY <2>2, Zenon
  <2>. HIDE DEF Step
  <2>4. CASE m = 0
    <3>. DEFINE f == [n \in 0..0 |-> EmptyScan]
    <3>1. Follows(f, 0)
      OBVIOUS
    <3>. QED  BY <2>3, <2>4, <3>1, Zenon
  <2>5. CASE m # 0
    <3>1. m - 1 \in Nat /\ m - 1 \notin T
      <4>. HIDE DEF T
      <4>. QED  BY <2>2, <2>3, <2>5
    <3>2. PICK f : Follows(f, m - 1)
      <4>. HIDE DEF Follows
      <4>. QED  BY <3>1, Zenon
    <3>3. /\ \A n \in 0..(m - 1) : f[n] = IF n = 0 THEN EmptyScan ELSE Step(f[n - 1], n)
      BY <3>2, Zenon
    <3>. DEFINE g == [n \in 0..m |-> IF n = m THEN Step(f[m - 1], m) ELSE f[n]]
    <3>4. ASSUME NEW n \in 0..m PROVE g[n] = IF n = 0 THEN EmptyScan ELSE Step(g[n - 1], n)
      <4>1. CASE n = m
        <5>1. m - 1 \in 0..m /\ m - 1 # m /\ m \in 0..m
          BY <3>1
        <5>2. g[m - 1] = f[m - 1] /\ g[m] = Step(f[m - 1], m)
          BY <5>1, Zenon
        <5>. QED  BY <2>5, <4>1, <5>2, Zenon
      <4>2. CASE n # m
        <5>1. n \in 0..(m - 1) /\ g[n] = f[n]
          BY <3>1, <4>2
        <5>2. n # 0 => n - 1 \in 0..m /\ n - 1 # m
          BY <3>1, <4>2
        <5>3. n # 0 => g[n - 1] = f[n - 1]
          BY <5>2, Zenon
        <5>. QED  BY <3>3, <5>1, <5>3, Zenon
      <4>. QED  BY <4>1, <4>2, Zenon
    <3>5. g = [n \in 0..m |-> g[n]]
      BY Zenon
    <3>6. Follows(g, m)
      <4>. HIDE DEF g
      <4>. QED  BY <3>4, <3>5, Zenon
    <3>. QED  BY <2>3, <3>6, Zenon
  <2>. QED  BY <2>4, <2>5, Zenon
<1>2. PICK N : N = Len(txs) /\ N \in Nat
  BY Zenon
<1>3. PICK f : f = CHOOSE h : Follows(h, N)
  BY Zenon
<1>4. Follows(f, N)
  <2>1. \E h : Follows(h, N)
    <3>. HIDE DEF Follows
    <3>. QED  BY <1>1, <1>2, Zenon
  <2>. HIDE DEF Follows
  <2>. QED  BY <1>3, <2>1, Zenon
<1>5. ScanBlock(pos, txs, ctx) = f[N]
  BY <1>2, <1>3, Zenon DEF ScanBlock
<1>6. /\ f[0] = EmptyScan
      /\ \A n \in 1..N : n - 1 \in 0..N /\ f[n] = ScanTransaction(f[n - 1], pos, txs[n], ctx)
  <2>1. \A n \in 0..N : f[n] = IF n = 0 THEN EmptyScan ELSE Step(f[n - 1], n)
    <3>. HIDE DEF Step
    <3>. QED  BY <1>4, Zenon
  <2>2. 0 \in 0..N /\ \A n \in 1..N : n \in 0..N /\ n # 0 /\ n - 1 \in 0..N
    BY <1>2
  <2>. QED  BY <2>1, <2>2, Zenon
<1>. QED
  <2>. HIDE DEF Step, Follows
  <2>. QED  BY <1>2, <1>5, <1>6, Zenon DEF ScanUnfolded

LEMMA BlockScansOnly ==
    ASSUME NEW P, NEW pos, NEW txs, NEW ctx, Len(txs) \in Nat,
           \A n \in 1..Len(txs) : Len(txs[n].notes) = 1 => txs[n].notes[1] \in P
    PROVE  ScansOnly(ScanBlock(pos, txs, ctx), P)
<1>2. PICK N : N = Len(txs) /\ N \in Nat
  BY Zenon
<1>6. PICK f : /\ f[0] = EmptyScan
               /\ \A n \in 1..N : /\ n - 1 \in 0..N
                                  /\ f[n] = ScanTransaction(f[n - 1], pos, txs[n], ctx)
               /\ ScanBlock(pos, txs, ctx) = f[N]
  <2>1. PICK f : ScanUnfolded(f, pos, txs, ctx)
    BY BlockUnfolds, Zenon
  <2>. QED  BY <1>2, <2>1, Zenon DEF ScanUnfolded
<1>. DEFINE U == {n \in Nat : n <= N /\ ~ScansOnly(f[n], P)}
<1>7. U = {}
  <2>1. SUFFICES ASSUME U # {} PROVE FALSE
    BY Zenon
  <2>2. PICK m \in U : \A k \in U : m <= k
    <3>1. U \subseteq Nat
      BY Zenon
    <3>. HIDE DEF U
    <3>. QED  BY <2>1, <3>1, LeastNat, Zenon
  <2>3. CASE m = 0
    <3>1. ScansOnly(EmptyScan, P)
      BY FS_EmptySet, Zenon DEF ScansOnly, EmptyScan
    <3>. QED  BY <1>6, <2>2, <2>3, <3>1, Zenon
  <2>4. CASE m # 0
    <3>1. m - 1 \in Nat /\ m - 1 <= N /\ m \in 1..N /\ ~(m <= m - 1)
      BY <1>2, <2>2, <2>4
    <3>2. m - 1 \notin U
      <4>. HIDE DEF U
      <4>. QED  BY <2>2, <3>1, Zenon
    <3>3. ScansOnly(f[m - 1], P)
      BY <3>1, <3>2, Zenon
    <3>4. ScansOnly(f[m], P)
      BY <1>2, <1>6, <3>1, <3>3, TransactionScansOnly
    <3>. QED  BY <2>2, <3>4, Zenon
  <2>. QED  BY <2>3, <2>4, Zenon
<1>. QED
  <2>1. N \notin U /\ N <= N
    <3>. HIDE DEF U
    <3>. QED  BY <1>2, <1>7
  <2>. QED  BY <1>2, <1>6, <2>1, Zenon

\* What an accounted row of the canonical rule says of its proof.
Accountable(id, P, ctx) ==
    \E p \in P : /\ id = LogicalPowProofId(p)
                 /\ id \notin ctx.accounted
                 /\ OriginBound(p) =>
                       /\ ~(p.originHeight > ctx.height)
                       /\ p.originHeight < ctx.height =>
                             ~(ctx.height - p.originHeight > LATE_ORIGIN_WINDOW)

Paid == {"WINNER", "REIMBURSED_LOSER", "REIMBURSED_LATE"}

LEMMA PaidRowIsAccountable ==
    ASSUME NEW P, NEW c \in CandidatesOf(P), NEW pos, NEW txs, NEW ctx,
           ClaimRow(c, pos, txs, ctx).disposition \in Paid
    PROVE  Accountable(ClaimRow(c, pos, txs, ctx).id, P, ctx)
<1>1. PICK disposition : disposition = ProofDisposition(c, ctx)
  BY Zenon
<1>2. disposition \in {"INVALID_PROOF", "ORIGIN_MISMATCH", "ORIGIN_EXPIRED", "ALREADY_ACCOUNTED", "VALID"}
  BY <1>1, Zenon DEF ProofDisposition
<1>3. /\ ClaimRow(c, pos, txs, ctx).id = c.id
      /\ disposition # "VALID" => ClaimRow(c, pos, txs, ctx).disposition = disposition
  BY <1>1, Zenon DEF ClaimRow
<1>4. disposition = "VALID"
  BY <1>2, <1>3, Zenon DEF Paid
<1>5. /\ c.id \notin ctx.accounted
      /\ ~(OriginBound(c.proof) /\ c.proof.originHeight > ctx.height)
      /\ ~(LateOrigin(c.proof, ctx) /\ ctx.height - c.proof.originHeight > LATE_ORIGIN_WINDOW)
  BY <1>1, <1>4, Zenon DEF ProofDisposition
<1>6. c.proof \in P /\ c.id = LogicalPowProofId(c.proof)
  BY Zenon DEF CandidatesOf
<1>. QED  BY <1>3, <1>5, <1>6, Zenon DEF Accountable, LateOrigin

\* The election changes neither an identity nor which rows are accounted.
LEMMA ElectionKeepsRows ==
    ASSUME NEW n \in Nat, NEW rows, DOMAIN rows = 1..n, NEW pool_,
           \A i \in 1..n : "id" \in DOMAIN rows[i] /\ "disposition" \in DOMAIN rows[i],
           NEW row \in Range(ElectWinner(rows, pool_).rows), row.disposition \in Paid
    PROVE  \E i \in 1..n : rows[i].disposition \in Paid /\ row.id = rows[i].id
<1>. DEFINE current == {i \in DOMAIN rows : rows[i].disposition = "REIMBURSED_LOSER"}
<1>1. PICK elected, first : /\ elected = ElectWinner(rows, pool_).rows
                            /\ first = CHOOSE i \in current : \A j \in current : i <= j
  BY Zenon
<1>2. PICK amount : amount = pool_ - CreditsOf(rows, {i \in DOMAIN rows : current = {} \/ i # first})
  BY Zenon
<1>3. elected = [i \in DOMAIN rows |->
                   IF current # {} /\ i = first
                   THEN [rows[i] EXCEPT !.credit = amount, !.disposition = "WINNER"]
                   ELSE rows[i]]
  BY <1>1, <1>2, Zenon DEF ElectWinner
<1>4. current # {} => first \in current
  <2>1. current \subseteq Nat
    OBVIOUS
  <2>2. current # {} => \E i \in current : \A j \in current : i <= j
    <3>. HIDE DEF current
    <3>. QED  BY <2>1, LeastNat, Zenon
  <2>. HIDE DEF current
  <2>. QED  BY <1>1, <2>2, Zenon
<1>5. PICK i \in 1..n : row = elected[i]
  <2>1. DOMAIN elected = 1..n
    BY <1>3, Zenon
  <2>. QED  BY <1>1, <2>1, Zenon DEF Range
<1>6. CASE current # {} /\ i = first
  <2>1. row = [rows[i] EXCEPT !.credit = amount, !.disposition = "WINNER"]
    BY <1>3, <1>5, <1>6, Zenon
  <2>2. row.id = rows[i].id
    BY <2>1, Zenon
  <2>3. rows[i].disposition \in Paid
    BY <1>4, <1>6, Zenon DEF Paid
  <2>. QED  BY <2>2, <2>3, Zenon
<1>7. CASE ~(current # {} /\ i = first)
  <2>1. row = rows[i]
    <3>. HIDE DEF current
    <3>. QED  BY <1>3, <1>5, <1>7, Zenon
  <2>. QED  BY <2>1, Zenon
<1>. QED  BY <1>6, <1>7, Zenon

LEMMA CanonicalClaimsAreAccountable ==
    ASSUME NEW P, NEW pos, NEW txs, NEW ctx, Len(txs) \in Nat,
           \A n \in 1..Len(txs) : Len(txs[n].notes) = 1 => txs[n].notes[1] \in P,
           \A h, prev, id : CanonicalRank(h, prev, id) \in Nat,
           NEW id \in AccountedProofs(FindCanonicalPowShadowClaims(pos, txs, ctx).accounting)
    PROVE  Accountable(id, P, ctx)
<1>1. PICK claims : claims = FindCanonicalPowShadowClaims(pos, txs, ctx)
  BY Zenon
<1>2. PICK row \in Range(claims.accounting) : row.disposition \in Paid /\ id = row.id
  BY <1>1, Zenon DEF AccountedProofs, Paid
<1>3. claims.accounting # <<>>
  <2>1. PICK i \in DOMAIN claims.accounting : TRUE
    BY <1>2, Zenon DEF Range
  <2>2. DOMAIN <<>> = {}
    OBVIOUS
  <2>. QED  BY <2>1, <2>2, Zenon
<1>4. PICK scan : scan = ScanBlock(pos, txs, ctx) /\ claims = AccountScan(scan, pos, txs, ctx)
  BY <1>1, <1>3, Zenon DEF FindCanonicalPowShadowClaims
<1>5. ScansOnly(scan, P)
  BY <1>4, BlockScansOnly, Zenon
<1>6. PICK C, ranked : C = scan.candidates /\ ranked = RankedCandidates(C, ctx)
  BY Zenon
<1>7. C \in SUBSET CandidatesOf(P) /\ IsFiniteSet(C) /\ ranked \in [1..Cardinality(C) -> C]
  BY <1>5, <1>6, RankedAreCandidates, Zenon DEF ScansOnly, Injection
<1>8. PICK n \in Nat : n = Cardinality(C)
  BY <1>7, FS_CardinalityType, Zenon
<1>9. PICK rows : rows = [i \in 1..n |-> ClaimRow(ranked[i], pos, txs, ctx)]
  BY Zenon
<1>10. claims.accounting = ElectWinner(rows, ctx.pool).rows
  <2>1. DOMAIN ranked = 1..n
    BY <1>7, <1>8, Zenon
  <2>2. claims = AccountingResult(scan, ElectWinner(rows, ctx.pool))
    BY <1>4, <1>6, <1>9, <2>1, Zenon DEF AccountScan
  <2>. QED  BY <2>2, Zenon DEF AccountingResult
<1>11. ASSUME NEW i \in 1..n PROVE "id" \in DOMAIN rows[i] /\ "disposition" \in DOMAIN rows[i]
  <2>1. PICK c : c = ranked[i] /\ rows[i] = ClaimRow(c, pos, txs, ctx)
    BY <1>9, Zenon
  <2>2. \E a, d, e, g : rows[i] = [id |-> a, disposition |-> d, payout |-> e, credit |-> g]
    BY <2>1, Zenon DEF ClaimRow
  <2>. QED  BY <2>2, Zenon
<1>12. PICK i \in 1..n : rows[i].disposition \in Paid /\ row.id = rows[i].id
  <2>1. DOMAIN rows = 1..n
    BY <1>9, Zenon
  <2>2. row \in Range(ElectWinner(rows, ctx.pool).rows) /\ row.disposition \in Paid
    BY <1>2, <1>10, Zenon
  <2>. QED  BY <1>11, <2>1, <2>2, ElectionKeepsRows
<1>13. PICK c : c = ranked[i] /\ c \in CandidatesOf(P) /\ rows[i] = ClaimRow(c, pos, txs, ctx)
  BY <1>7, <1>8, <1>9, Zenon
<1>. QED  BY <1>2, <1>12, <1>13, PaidRowIsAccountable, Zenon
=============================================================================
