------------------------ MODULE CanonicalPowScanProofs ------------------------
(***************************************************************************)
(* The bounded candidate set of a scan is the canonical selection, for     *)
(* every block, every rank function and every bound on the evaluations.    *)
(***************************************************************************)
EXTENDS CanonicalPowScan, ShadowPowClaimsProofs

-----------------------------------------------------------------------------
(* The M lowest of a finite set whose members have different ranks. *)

Low(I, r, x) == {o \in I : r[o] < r[x]}

Best(I, r, M) == {x \in I : Cardinality(Low(I, r, x)) < M}

Ranks(I, r) == \A a \in I : r[a] \in Nat /\ \A b \in I : r[a] = r[b] => a = b

LEMMA LowIsFinite ==
    ASSUME NEW I, IsFiniteSet(I), NEW r, NEW x
    PROVE  /\ IsFiniteSet(Low(I, r, x)) /\ Cardinality(Low(I, r, x)) \in Nat
           /\ Low(I, r, x) \in SUBSET I
<1>1. Low(I, r, x) \in SUBSET I
  BY Zenon DEF Low
<1>2. IsFiniteSet(Low(I, r, x))
  BY <1>1, FS_Subset, Zenon
<1>. QED  BY <1>1, <1>2, FS_CardinalityType, Zenon

\* A larger finite set has no fewer members, and more when it has a member that the other lacks.
LEMMA FewerMembers ==
    ASSUME NEW S, IsFiniteSet(S), NEW T \in SUBSET S
    PROVE  /\ Cardinality(T) \in Nat /\ Cardinality(S) \in Nat
           /\ Cardinality(T) <= Cardinality(S)
           /\ \A y \in S : y \notin T => Cardinality(T) < Cardinality(S)
<1>1. /\ IsFiniteSet(T) /\ Cardinality(T) <= Cardinality(S)
      /\ Cardinality(S) = Cardinality(T) => S = T
  BY FS_Subset
<1>2. Cardinality(T) \in Nat /\ Cardinality(S) \in Nat
  BY <1>1, FS_CardinalityType, Zenon
<1>3. ASSUME NEW y \in S, y \notin T PROVE Cardinality(T) < Cardinality(S)
  <2>1. Cardinality(S) # Cardinality(T)
    BY <1>1, <1>3, Zenon
  <2>. QED  BY <1>1, <1>2, <2>1
<1>. QED  BY <1>1, <1>2, <1>3, Zenon

\* The member above which there are the fewest is the greatest.
LEMMA GreatestRank ==
    ASSUME NEW B, IsFiniteSet(B), B # {}, NEW r, Ranks(B, r)
    PROVE  \E b \in B : \A a \in B : a = b \/ r[a] < r[b]
<1>. DEFINE Above(b) == {a \in B : r[b] < r[a]}
            N == {Cardinality(Above(b)) : b \in B}
<1>1. ASSUME NEW b \in B
      PROVE  IsFiniteSet(Above(b)) /\ Cardinality(Above(b)) \in Nat
  <2>1. Above(b) \in SUBSET B
    BY Zenon
  <2>. HIDE DEF Above
  <2>2. IsFiniteSet(Above(b))
    BY <2>1, FS_Subset, Zenon
  <2>. QED  BY <2>2, FS_CardinalityType, Zenon
<1>2. PICK n \in N : \A m \in N : n <= m
  <2>1. N \subseteq Nat /\ N # {}
    <3>. HIDE DEF Above
    <3>. QED  BY <1>1, Zenon
  <2>. HIDE DEF N
  <2>. QED  BY <2>1, LeastNat, Zenon
<1>3. PICK b \in B : n = Cardinality(Above(b))
  <2>. HIDE DEF Above
  <2>. QED  BY <1>2, Zenon
<1>4. ASSUME NEW a \in B, r[b] < r[a] PROVE FALSE
  <2>1. r[a] \in Nat /\ r[b] \in Nat /\ \A c \in B : r[c] \in Nat
    BY Zenon DEF Ranks
  <2>2. Above(a) \in SUBSET Above(b)
    BY <1>4, <2>1
  <2>3. a \in Above(b) /\ a \notin Above(a)
    BY <1>4, <2>1
  <2>4. Cardinality(Above(a)) \in N
    <3>. HIDE DEF Above
    <3>. QED  BY Zenon
  <2>. HIDE DEF Above, N
  <2>5. Cardinality(Above(a)) < Cardinality(Above(b))
    BY <1>1, <2>2, <2>3, FewerMembers, Zenon
  <2>6. Cardinality(Above(a)) \in Nat /\ Cardinality(Above(b)) \in Nat
    BY <1>1, Zenon
  <2>7. Cardinality(Above(b)) <= Cardinality(Above(a))
    BY <1>2, <1>3, <2>4, Zenon
  <2>. QED  BY <2>5, <2>6, <2>7
<1>5. ASSUME NEW a \in B PROVE a = b \/ r[a] < r[b]
  <2>1. r[a] \in Nat /\ r[b] \in Nat /\ ~(r[b] < r[a]) /\ (r[a] = r[b] => a = b)
    BY <1>4, Zenon DEF Ranks
  <2>. QED  BY <2>1
<1>. QED  BY <1>5, Zenon

\* What has a lower rank than one of the M lowest is one of them.
LEMMA BestIsDownward ==
    ASSUME NEW I, IsFiniteSet(I), NEW r, Ranks(I, r), NEW M \in Nat,
           NEW a \in Best(I, r, M), NEW b \in I, r[b] < r[a]
    PROVE  b \in Best(I, r, M)
<1>1. a \in I /\ Cardinality(Low(I, r, a)) < M
  BY Zenon DEF Best
<1>2. r[a] \in Nat /\ r[b] \in Nat /\ \A c \in I : r[c] \in Nat
  BY <1>1, Zenon DEF Ranks
<1>3. Low(I, r, b) \in SUBSET Low(I, r, a)
  BY <1>2 DEF Low
<1>4. IsFiniteSet(Low(I, r, a))
  BY LowIsFinite, Zenon
<1>5. /\ Cardinality(Low(I, r, b)) \in Nat /\ Cardinality(Low(I, r, a)) \in Nat
      /\ Cardinality(Low(I, r, b)) <= Cardinality(Low(I, r, a))
  BY <1>3, <1>4, FewerMembers, Zenon
<1>6. Cardinality(Low(I, r, b)) < M
  BY <1>1, <1>5
<1>. QED  BY <1>6, Zenon DEF Best

\* When fewer than M are selected, none was left out.
LEMMA FewAreAll ==
    ASSUME NEW I, IsFiniteSet(I), NEW r, Ranks(I, r), NEW M \in Nat,
           Cardinality(Best(I, r, M)) < M
    PROVE  Best(I, r, M) = I
<1>1. Best(I, r, M) \in SUBSET I
  BY Zenon DEF Best
<1>2. SUFFICES ASSUME NEW x \in I, x \notin Best(I, r, M) PROVE FALSE
  BY <1>1, Zenon
<1>. DEFINE Out == {r[y] : y \in {z \in I : z \notin Best(I, r, M)}}
<1>3. PICK n \in Out : \A m \in Out : n <= m
  <2>1. \A y \in I : r[y] \in Nat
    BY Zenon DEF Ranks
  <2>2. Out \subseteq Nat /\ r[x] \in Out
    BY <1>2, <2>1, Zenon
  <2>. HIDE DEF Out
  <2>. QED  BY <2>2, LeastNat, Zenon
<1>4. PICK u \in I : u \notin Best(I, r, M) /\ n = r[u]
  BY <1>3, Zenon
<1>5. ASSUME NEW o \in Low(I, r, u) PROVE o \in Best(I, r, M)
  <2>1. o \in I /\ r[o] < r[u] /\ r[o] \in Nat /\ r[u] \in Nat
    BY <1>4, Zenon DEF Low, Ranks
  <2>2. r[o] \in Out => r[u] <= r[o]
    <3>. HIDE DEF Out
    <3>. QED  BY <1>3, <1>4, Zenon
  <2>3. r[o] \notin Out
    <3>. HIDE DEF Out
    <3>. QED  BY <2>1, <2>2
  <2>. QED  BY <2>1, <2>3, Zenon
<1>6. IsFiniteSet(Best(I, r, M))
  BY <1>1, FS_Subset, Zenon
<1>7. Low(I, r, u) \in SUBSET Best(I, r, M)
  BY <1>5, Zenon
<1>8. /\ Cardinality(Low(I, r, u)) \in Nat /\ Cardinality(Best(I, r, M)) \in Nat
      /\ Cardinality(Low(I, r, u)) <= Cardinality(Best(I, r, M))
  BY <1>6, <1>7, FewerMembers, Zenon
<1>9. Cardinality(Low(I, r, u)) < M
  BY <1>8
<1>. QED  BY <1>4, <1>9, Zenon DEF Best

\* While there is room, a new member is selected and nothing else changes.
LEMMA BestWithRoom ==
    ASSUME NEW I, IsFiniteSet(I), NEW r, NEW M \in Nat, NEW x, x \notin I, Ranks(I \cup {x}, r),
           Cardinality(Best(I, r, M)) < M
    PROVE  Best(I \cup {x}, r, M) = Best(I, r, M) \cup {x}
<1>1. PICK J : J = I \cup {x}
  BY Zenon
<1>2. Best(I, r, M) = I
  BY FewAreAll, Zenon DEF Ranks
<1>3. IsFiniteSet(J) /\ Cardinality(J) = Cardinality(I) + 1 /\ Cardinality(I) \in Nat
  BY <1>1, FS_AddElement, FS_CardinalityType, Zenon
<1>4. ASSUME NEW y \in J PROVE Cardinality(Low(J, r, y)) < M
  <2>1. Low(J, r, y) \in SUBSET J
    BY Zenon DEF Low
  <2>2. y \notin Low(J, r, y)
    <3>1. r[y] \in Nat
      BY <1>1, Zenon DEF Ranks
    <3>. QED  BY <3>1 DEF Low
  <2>3. Cardinality(Low(J, r, y)) < Cardinality(J) /\ Cardinality(Low(J, r, y)) \in Nat
    BY <1>3, <2>1, <2>2, FewerMembers, Zenon
  <2>. QED  BY <1>2, <1>3, <2>3
<1>5. Best(J, r, M) = J
  BY <1>4, Zenon DEF Best
<1>. QED  BY <1>1, <1>2, <1>5, Zenon

\* A new member of lower rank than the worst of M selected ones takes its place.
LEMMA BestReplaces ==
    ASSUME NEW I, IsFiniteSet(I), NEW r, NEW M \in Nat, NEW x, x \notin I, Ranks(I \cup {x}, r),
           NEW B, B = Best(I, r, M), ~(Cardinality(B) < M),
           NEW w \in B, \A a \in B : a = w \/ r[a] < r[w], r[x] < r[w]
    PROVE  Best(I \cup {x}, r, M) = (B \ {w}) \cup {x}
<1>1. PICK J : J = I \cup {x}
  BY Zenon
<1>2. IsFiniteSet(J) /\ B \in SUBSET I /\ w \in I
  BY <1>1, FS_AddElement, Zenon DEF Best
<1>3. /\ \A a \in J : r[a] \in Nat
      /\ \A a \in J : \A b \in J : r[a] = r[b] => a = b
  BY <1>1, Zenon DEF Ranks
<1>4. ASSUME NEW y
      PROVE  /\ IsFiniteSet(Low(I, r, y)) /\ IsFiniteSet(Low(J, r, y))
             /\ Cardinality(Low(I, r, y)) \in Nat /\ Cardinality(Low(J, r, y)) \in Nat
  BY <1>2, LowIsFinite, Zenon
<1>5. Cardinality(Low(I, r, w)) < M
  BY Zenon DEF Best
<1>6. Cardinality(Low(J, r, x)) < M
  <2>1. Low(J, r, x) \in SUBSET Low(I, r, w)
    BY <1>1, <1>2, <1>3 DEF Low
  <2>2. Cardinality(Low(J, r, x)) <= Cardinality(Low(I, r, w))
    BY <1>4, <2>1, FewerMembers, Zenon
  <2>. QED  BY <1>4, <1>5, <2>2
<1>7. ~(Cardinality(Low(J, r, w)) < M)
  <2>1. PICK Q : Q = (B \ {w}) \cup {x}
    BY Zenon
  <2>2. Q \in SUBSET Low(J, r, w)
    BY <1>1, <1>2, <2>1, Zenon DEF Low
  <2>3. IsFiniteSet(B) /\ Cardinality(B) \in Nat
    BY <1>2, FS_Subset, FS_CardinalityType, Zenon
  <2>4. IsFiniteSet(B \ {w}) /\ Cardinality(B \ {w}) = Cardinality(B) - 1 /\ x \notin B \ {w}
    BY <1>2, <2>3, FS_RemoveElement, Zenon
  <2>5. Cardinality(Q) = Cardinality(B \ {w}) + 1
    BY <2>1, <2>4, FS_AddElement, Zenon
  <2>6. Cardinality(Q) <= Cardinality(Low(J, r, w))
    BY <1>4, <2>2, FewerMembers, Zenon
  <2>. QED  BY <1>4, <2>3, <2>4, <2>5, <2>6
<1>8. ASSUME NEW b \in B, b # w PROVE Cardinality(Low(J, r, b)) < M
  <2>1. b \in I /\ r[b] < r[w] /\ r[b] \in Nat
    BY <1>1, <1>2, <1>3, <1>8, Zenon
  <2>2. Low(I, r, b) \in SUBSET Low(I, r, w)
    BY <1>1, <1>2, <1>3, <2>1 DEF Low
  <2>3. b \in Low(I, r, w) /\ b \notin Low(I, r, b)
    BY <2>1 DEF Low
  <2>4. Cardinality(Low(I, r, b)) < Cardinality(Low(I, r, w))
    BY <1>4, <2>2, <2>3, FewerMembers, Zenon
  <2>5. PICK Q : Q = Low(I, r, b) \cup {x}
    BY Zenon
  <2>6. IsFiniteSet(Q) /\ Cardinality(Q) = Cardinality(Low(I, r, b)) + 1
    <3>1. x \notin Low(I, r, b)
      BY Zenon DEF Low
    <3>. QED  BY <1>4, <2>5, <3>1, FS_AddElement, Zenon
  <2>7. Low(J, r, b) \in SUBSET Q
    BY <1>1, <2>5, Zenon DEF Low
  <2>8. Cardinality(Low(J, r, b)) <= Cardinality(Q)
    BY <2>6, <2>7, FewerMembers, Zenon
  <2>. QED  BY <1>4, <1>5, <2>4, <2>6, <2>8
<1>9. ASSUME NEW u \in I, u \notin B PROVE ~(Cardinality(Low(J, r, u)) < M)
  <2>1. ~(Cardinality(Low(I, r, u)) < M)
    BY <1>9, Zenon DEF Best
  <2>2. Low(I, r, u) \in SUBSET Low(J, r, u)
    BY <1>1, Zenon DEF Low
  <2>3. Cardinality(Low(I, r, u)) <= Cardinality(Low(J, r, u))
    BY <1>4, <2>2, FewerMembers, Zenon
  <2>. QED  BY <1>4, <2>1, <2>3
<1>10. x # w
  BY <1>2, Zenon
<1>11. ASSUME NEW y PROVE y \in Best(J, r, M) <=> y \in (B \ {w}) \cup {x}
  BY <1>1, <1>2, <1>6, <1>7, <1>8, <1>9, <1>10, Zenon DEF Best
<1>. QED  BY <1>1, <1>11, Zenon

\* A new member of higher rank than M selected ones is left out.
LEMMA BestIgnores ==
    ASSUME NEW I, IsFiniteSet(I), NEW r, NEW M \in Nat, NEW x, x \notin I, Ranks(I \cup {x}, r),
           NEW B, B = Best(I, r, M), ~(Cardinality(B) < M), \A a \in B : r[a] < r[x]
    PROVE  Best(I \cup {x}, r, M) = B
<1>1. PICK J : J = I \cup {x}
  BY Zenon
<1>2. IsFiniteSet(J) /\ B \in SUBSET I
  BY <1>1, FS_AddElement, Zenon DEF Best
<1>3. \A a \in J : r[a] \in Nat
  BY <1>1, Zenon DEF Ranks
<1>4. ASSUME NEW y
      PROVE  /\ IsFiniteSet(Low(I, r, y)) /\ IsFiniteSet(Low(J, r, y))
             /\ Cardinality(Low(I, r, y)) \in Nat /\ Cardinality(Low(J, r, y)) \in Nat
  BY <1>2, LowIsFinite, Zenon
<1>5. ~(Cardinality(Low(J, r, x)) < M)
  <2>1. B \in SUBSET Low(J, r, x)
    BY <1>1, <1>2, Zenon DEF Low
  <2>2. Cardinality(B) <= Cardinality(Low(J, r, x)) /\ Cardinality(B) \in Nat
    BY <1>4, <2>1, FewerMembers, Zenon
  <2>. QED  BY <1>4, <2>2
<1>6. ASSUME NEW b \in B PROVE Cardinality(Low(J, r, b)) < M
  <2>1. r[b] \in Nat /\ r[x] \in Nat /\ r[b] < r[x]
    BY <1>1, <1>2, <1>3, Zenon
  <2>2. ~(r[x] < r[b])
    BY <2>1
  <2>3. Low(J, r, b) = Low(I, r, b)
    BY <1>1, <2>2, Zenon DEF Low
  <2>. QED  BY <2>3, Zenon DEF Best
<1>7. ASSUME NEW u \in I, u \notin B PROVE ~(Cardinality(Low(J, r, u)) < M)
  <2>1. ~(Cardinality(Low(I, r, u)) < M)
    BY <1>7, Zenon DEF Best
  <2>2. Low(I, r, u) \in SUBSET Low(J, r, u)
    BY <1>1, Zenon DEF Low
  <2>3. Cardinality(Low(I, r, u)) <= Cardinality(Low(J, r, u))
    BY <1>4, <2>2, FewerMembers, Zenon
  <2>. QED  BY <1>4, <2>1, <2>3
<1>8. ASSUME NEW y PROVE y \in Best(J, r, M) <=> y \in B
  BY <1>1, <1>2, <1>5, <1>6, <1>7, Zenon DEF Best
<1>. QED  BY <1>1, <1>8, Zenon

-----------------------------------------------------------------------------
(* InsertLogicalPowCandidate keeps the candidates of the MAX_POW_EVALS lowest identities. *)

Ids(C) == {c.id : c \in C}

IdsOf(P) == {LogicalPowProofId(p) : p \in P}

OnePerId(C) == \A c, d \in C : c.id = d.id => c = d

RankAt(k, P) == [id \in IdsOf(P) |-> CanonicalRank(k.height, k.prev, id)]

LEMMA IdsOfCandidates ==
    ASSUME NEW P, NEW C \in SUBSET CandidatesOf(P), IsFiniteSet(C), OnePerId(C)
    PROVE  /\ Ids(C) \in SUBSET IdsOf(P) /\ IsFiniteSet(Ids(C))
           /\ Cardinality(Ids(C)) = Cardinality(C)
<1>1. Ids(C) \in SUBSET IdsOf(P)
  BY Zenon DEF Ids, IdsOf, CandidatesOf
<1>2. PICK f : f = [c \in C |-> c.id]
  BY Zenon
<1>3. f \in Surjection(C, Ids(C)) /\ f \in Injection(C, Ids(C))
  BY <1>2, ZenonT(60) DEF Surjection, Injection, IsInjective, Ids, OnePerId
<1>4. IsFiniteSet(Ids(C)) /\ (Cardinality(Ids(C)) = Cardinality(C) <=> f \in Injection(C, Ids(C)))
  BY <1>3, FS_Surjection
<1>. QED  BY <1>1, <1>3, <1>4, Zenon

\* A known identity is counted, and nothing else changes.
LEMMA InsertKnown ==
    ASSUME NEW P, NEW C \in SUBSET CandidatesOf(P), OnePerId(C), NEW proof, NEW k,
           NEW id, id = LogicalPowProofId(proof), NEW b \in C, b.id = id,
           NEW D, D = InsertLogicalPowCandidate(C, proof, k)
    PROVE  /\ OnePerId(D) /\ Ids(D) = Ids(C)
           /\ \A d \in D : \/ d.id # id /\ d \in C
                           \/ d.id = id /\ d.observed = b.observed + 1
<1>. DEFINE Count(c) == IF c.id = id THEN [c EXCEPT !.observed = @ + 1] ELSE c
<1>1. D = {Count(c) : c \in C}
  BY Zenon DEF InsertLogicalPowCandidate
<1>2. ASSUME NEW c \in C PROVE Count(c).id = c.id /\ (c.id = id => Count(c).observed = c.observed + 1)
  <2>1. DOMAIN c = {"id", "proof", "observed"}
    BY Zenon DEF CandidatesOf
  <2>. QED  BY <2>1
<1>3. ASSUME NEW c \in C, c.id # id PROVE Count(c) = c
  BY <1>3, Zenon
<1>. HIDE DEF Count
<1>4. ASSUME NEW c \in D, NEW d \in D, c.id = d.id PROVE c = d
  <2>1. PICK u \in C, v \in C : c = Count(u) /\ d = Count(v)
    BY <1>1, Zenon
  <2>2. u.id = v.id
    BY <1>2, <1>4, <2>1, Zenon
  <2>. QED  BY <2>1, <2>2, Zenon DEF OnePerId
<1>5. Ids(D) = Ids(C)
  <2>1. ASSUME NEW y \in Ids(D) PROVE y \in Ids(C)
    <3>1. PICK u \in C : y = Count(u).id
      BY <1>1, Zenon DEF Ids
    <3>. QED  BY <1>2, <3>1, Zenon DEF Ids
  <2>2. ASSUME NEW y \in Ids(C) PROVE y \in Ids(D)
    <3>1. PICK u \in C : y = u.id
      BY Zenon DEF Ids
    <3>2. Count(u) \in D /\ y = Count(u).id
      BY <1>1, <1>2, <3>1, Zenon
    <3>. QED  BY <3>2, Zenon DEF Ids
  <2>. QED  BY <2>1, <2>2, Zenon
<1>6. ASSUME NEW d \in D
      PROVE  (d.id # id /\ d \in C) \/ (d.id = id /\ d.observed = b.observed + 1)
  <2>1. PICK c \in C : d = Count(c)
    BY <1>1, Zenon
  <2>2. CASE c.id = id
    <3>1. c = b
      BY <2>2, Zenon DEF OnePerId
    <3>. QED  BY <1>2, <2>1, <2>2, <3>1, Zenon
  <2>3. CASE c.id # id
    BY <1>3, <2>1, <2>3, Zenon
  <2>. QED  BY <2>2, <2>3, Zenon
<1>. QED  BY <1>4, <1>5, <1>6, Zenon DEF OnePerId

\* The heap's top is the candidate of the highest rank.
LEMMA WorstExists ==
    ASSUME NEW P, NEW C \in SUBSET CandidatesOf(P), IsFiniteSet(C), OnePerId(C), C # {},
           NEW k, NEW r, r = RankAt(k, P), Ranks(IdsOf(P), r),
           NEW worst, worst = CHOOSE c \in C : \A d \in C : d = c \/ RankLess(k, d.id, c.id)
    PROVE  worst \in C /\ \A d \in C : d = worst \/ r[d.id] < r[worst.id]
<1>1. IsFiniteSet(Ids(C)) /\ Ids(C) \in SUBSET IdsOf(P)
  BY IdsOfCandidates, Zenon
<1>2. Ids(C) # {} /\ Ranks(Ids(C), r)
  <2>1. Ids(C) # {}
    BY Zenon DEF Ids
  <2>2. Ranks(Ids(C), r)
    BY <1>1, Zenon DEF Ranks
  <2>. QED  BY <2>1, <2>2, Zenon
<1>3. PICK i \in Ids(C) : \A j \in Ids(C) : j = i \/ r[j] < r[i]
  BY <1>1, <1>2, GreatestRank, Zenon
<1>4. PICK c \in C : c.id = i
  BY <1>3, Zenon DEF Ids
<1>5. \A a, b \in IdsOf(P) : RankLess(k, a, b) <=> r[a] < r[b]
  BY Zenon DEF RankLess, RankAt
<1>6. \A d \in C : d.id \in Ids(C) /\ d.id \in IdsOf(P)
  BY <1>1, Zenon DEF Ids
<1>7. ASSUME NEW d \in C PROVE d = c \/ RankLess(k, d.id, c.id)
  BY <1>3, <1>4, <1>5, <1>6, Zenon DEF OnePerId
<1>8. worst \in C /\ \A d \in C : d = worst \/ RankLess(k, d.id, worst.id)
  BY <1>7, Zenon
<1>. QED  BY <1>5, <1>6, <1>8, Zenon

\* One more payload: the candidates stay those of the lowest identities seen, and a candidate is
\* counted once more or, when its identity is seen for the first time, once.
LEMMA InsertSelects ==
    ASSUME NEW P, NEW C \in SUBSET CandidatesOf(P), IsFiniteSet(C), OnePerId(C),
           NEW k, NEW r, r = RankAt(k, P), Ranks(IdsOf(P), r),
           NEW I \in SUBSET IdsOf(P), IsFiniteSet(I), Ids(C) = Best(I, r, MAX_POW_EVALS),
           NEW proof \in P, NEW id, id = LogicalPowProofId(proof),
           NEW D, D = InsertLogicalPowCandidate(C, proof, k)
    PROVE  /\ OnePerId(D)
           /\ Ids(D) = Best(I \cup {id}, r, MAX_POW_EVALS)
           /\ \A d \in D : \/ d.id # id /\ d \in C
                           \/ d.id = id /\ id \notin I /\ d.observed = 1
                           \/ d.id = id /\ \E c \in C : c.id = id /\ d.observed = c.observed + 1
<1>1. PICK M : M = MAX_POW_EVALS /\ M \in Nat /\ M # 0
  BY BoundAssumption
<1>2. PICK new, worst :
         /\ new = [id |-> id, proof |-> proof, observed |-> 1]
         /\ worst = CHOOSE c \in C : \A d \in C : d = c \/ RankLess(k, d.id, c.id)
         /\ new.id = id /\ new.observed = 1
  <2>1. PICK new : new = [id |-> id, proof |-> proof, observed |-> 1]
    BY Zenon
  <2>2. new.id = id /\ new.observed = 1
    BY <2>1, Zenon
  <2>. QED  BY <2>1, <2>2, Zenon
<1>3. /\ Ids(C) \in SUBSET IdsOf(P) /\ IsFiniteSet(Ids(C)) /\ Cardinality(Ids(C)) = Cardinality(C)
      /\ Ids(C) \in SUBSET I /\ id \in IdsOf(P)
  BY IdsOfCandidates, Zenon DEF Best, IdsOf
<1>4. Ranks(I, r) /\ Ranks(I \cup {id}, r)
  BY <1>3, Zenon DEF Ranks
<1>5. CASE \E c \in C : c.id = id
  <2>1. PICK b \in C : b.id = id
    BY <1>5, Zenon
  <2>2. /\ OnePerId(D) /\ Ids(D) = Ids(C)
        /\ \A d \in D : \/ d.id # id /\ d \in C
                        \/ d.id = id /\ d.observed = b.observed + 1
    BY <2>1, InsertKnown
  <2>3. I \cup {id} = I
    BY <1>3, <2>1, Zenon DEF Ids
  <2>. QED  BY <2>1, <2>2, <2>3, Zenon
<1>6. CASE ~(\E c \in C : c.id = id) /\ Cardinality(C) < M
  <2>1. D = C \cup {new}
    BY <1>1, <1>2, <1>6, Zenon DEF InsertLogicalPowCandidate
  <2>2. Best(I, r, M) = I
    BY <1>1, <1>3, <1>4, <1>6, FewAreAll, Zenon
  <2>3. id \notin I
    BY <1>1, <1>6, <2>2, Zenon DEF Ids
  <2>4. Best(I \cup {id}, r, M) = Ids(C) \cup {id}
    BY <1>1, <1>3, <1>4, <1>6, <2>3, BestWithRoom, SMTT(60)
  <2>5. Ids(D) = Ids(C) \cup {id}
    <3>1. \A y : y \in Ids(D) <=> y \in Ids(C) \cup {id}
      BY <1>2, <2>1, Zenon DEF Ids
    <3>. QED  BY <3>1, Zenon
  <2>6. OnePerId(D)
    <3>1. \A d \in D : d = new \/ (d \in C /\ d.id # id)
      BY <1>6, <2>1, Zenon
    <3>. QED  BY <1>2, <3>1, Zenon DEF OnePerId
  <2>7. ASSUME NEW d \in D PROVE (d.id # id /\ d \in C) \/ (d.id = id /\ d.observed = 1)
    BY <1>2, <1>6, <2>1, Zenon
  <2>. QED  BY <1>1, <2>3, <2>4, <2>5, <2>6, <2>7, Zenon
<1>7. CASE ~(\E c \in C : c.id = id) /\ ~(Cardinality(C) < M)
  <2>1. D = IF RankLess(k, id, worst.id) THEN (C \ {worst}) \cup {new} ELSE C
    BY <1>1, <1>2, <1>7, Zenon DEF InsertLogicalPowCandidate
  <2>2. C # {}
    <3>1. 0 < M
      BY <1>1
    <3>. QED  BY <1>7, <3>1, FS_EmptySet, Zenon
  <2>3. worst \in C /\ \A d \in C : d = worst \/ r[d.id] < r[worst.id]
    BY <1>2, <2>2, WorstExists
  <2>4. PICK w : w = worst.id /\ w \in Ids(C) /\ w # id
    BY <1>7, <2>3, Zenon DEF Ids
  <2>5. \A a \in Ids(C) : a = w \/ r[a] < r[w]
    BY <2>3, <2>4, Zenon DEF Ids
  <2>6. r[w] \in Nat /\ r[id] \in Nat /\ r[w] # r[id] /\ \A a \in Ids(C) : r[a] \in Nat
    BY <1>3, <2>4, Zenon DEF Ranks
  <2>7. RankLess(k, id, worst.id) <=> r[id] < r[w]
    BY <1>3, <2>4, Zenon DEF RankLess, RankAt
  <2>8. id \notin Ids(C)
    BY <1>7, Zenon DEF Ids
  <2>9. id \in I => ~(r[id] < r[w])
    BY <1>1, <1>4, <2>4, <2>8, BestIsDownward, SMTT(60)
  <2>10. CASE id \notin I /\ r[id] < r[w]
    <3>1. D = (C \ {worst}) \cup {new}
      BY <2>1, <2>7, <2>10, Zenon
    <3>2. Best(I \cup {id}, r, M) = (Ids(C) \ {w}) \cup {id}
      BY <1>1, <1>3, <1>4, <1>7, <2>4, <2>5, <2>10, BestReplaces, SMTT(60)
    <3>3. Ids(D) = (Ids(C) \ {w}) \cup {id}
      <4>1. ASSUME NEW y \in Ids(D) PROVE y \in (Ids(C) \ {w}) \cup {id}
        <5>1. PICK d \in D : y = d.id
          BY Zenon DEF Ids
        <5>2. CASE d = new
          BY <1>2, <5>1, <5>2, Zenon
        <5>3. CASE d \in C /\ d # worst
          BY <2>3, <2>4, <5>1, <5>3, Zenon DEF OnePerId, Ids
        <5>. QED  BY <3>1, <5>2, <5>3, Zenon
      <4>2. ASSUME NEW y \in (Ids(C) \ {w}) \cup {id} PROVE y \in Ids(D)
        <5>1. new \in D /\ new.id = id
          BY <1>2, <3>1, Zenon
        <5>2. CASE y \in Ids(C) /\ y # w
          <6>1. PICK c \in C : y = c.id
            BY <5>2, Zenon DEF Ids
          <6>2. c \in D
            BY <2>4, <3>1, <5>2, <6>1, Zenon
          <6>. QED  BY <6>1, <6>2, Zenon DEF Ids
        <5>. QED  BY <5>1, <5>2, Zenon DEF Ids
      <4>. QED  BY <4>1, <4>2, Zenon
    <3>4. OnePerId(D)
      <4>1. \A d \in D : d = new \/ (d \in C /\ d.id # id)
        BY <1>7, <3>1, Zenon
      <4>. QED  BY <1>2, <4>1, Zenon DEF OnePerId
    <3>5. ASSUME NEW d \in D PROVE (d.id # id /\ d \in C) \/ (d.id = id /\ d.observed = 1)
      BY <1>2, <1>7, <3>1, Zenon
    <3>. QED  BY <1>1, <2>10, <3>2, <3>3, <3>4, <3>5, Zenon
  <2>11. CASE id \notin I /\ ~(r[id] < r[w])
    <3>1. D = C
      BY <2>1, <2>7, <2>11, Zenon
    <3>2. \A a \in Ids(C) : r[a] < r[id]
      BY <2>5, <2>6, <2>11
    <3>3. Best(I \cup {id}, r, M) = Ids(C)
      BY <1>1, <1>3, <1>4, <1>7, <2>11, <3>2, BestIgnores, ZenonT(60)
    <3>. QED  BY <1>1, <1>7, <3>1, <3>3, Zenon
  <2>12. CASE id \in I
    <3>1. D = C /\ I \cup {id} = I
      BY <2>1, <2>7, <2>9, <2>12, Zenon
    <3>. QED  BY <1>7, <3>1, Zenon
  <2>. QED  BY <2>10, <2>11, <2>12, Zenon
<1>. QED  BY <1>5, <1>6, <1>7, Zenon

-----------------------------------------------------------------------------
(* The scan of the first n transactions of a block, as a function of the block. *)

Cand(p, t, k, i) ==
    /\ p /\ t[i].regular /\ Len(t[i].notes) = 1
    /\ ClassifyProofPayloadMode(t[i].notes[1], k.qqp4) \notin {"POS", "UNKNOWN"}

IdAt(t, i) == LogicalPowProofId(t[i].notes[1])

CandsAt(p, t, k, n) == {i \in 1..n : Cand(p, t, k, i)}

At(p, t, k, n, id) == {i \in CandsAt(p, t, k, n) : IdAt(t, i) = id}

Seen(p, t, k, n) == {IdAt(t, i) : i \in CandsAt(p, t, k, n)}

Scans ==
    [candidates : SUBSET CandidatesOf(Payloads), candidateCount : Nat, observed : Nat,
     invalidLocation : Nat, malformed : Nat, wrongMode : Nat, unknownMode : Nat]

Selected(C, p, t, k, n) ==
    /\ IsFiniteSet(C) /\ OnePerId(C)
    /\ Ids(C) = Best(Seen(p, t, k, n), RankAt(k, Payloads), MAX_POW_EVALS)
    /\ \A c \in C : c.observed = Cardinality(At(p, t, k, n, c.id))

Balanced(s) ==
    s.observed = s.invalidLocation + s.malformed + s.wrongMode + s.unknownMode + s.candidateCount

Canonical(s, p, t, k, n) ==
    /\ s \in Scans /\ Balanced(s)
    /\ Selected(s.candidates, p, t, k, n)
    /\ s.candidateCount = Cardinality(CandsAt(p, t, k, n))

Block(t, N) == t \in [1..N -> Transactions]

\* What the next transaction adds to the transactions scanned.
LEMMA NextCandidate ==
    ASSUME NEW p, NEW t, NEW k, NEW n \in Nat
    PROVE  /\ CandsAt(p, t, k, n + 1) = CandsAt(p, t, k, n) \cup
                                        (IF Cand(p, t, k, n + 1) THEN {n + 1} ELSE {})
           /\ n + 1 \notin CandsAt(p, t, k, n)
           /\ IsFiniteSet(CandsAt(p, t, k, n)) /\ Cardinality(CandsAt(p, t, k, n)) \in Nat
<1>1. n + 1 \notin 1..n /\ \A i : i \in 1..(n + 1) <=> i \in 1..n \/ i = n + 1
  OBVIOUS
<1>2. IsFiniteSet(1..n)
  BY FS_Interval
<1>3. CandsAt(p, t, k, n) \in SUBSET (1..n)
  BY Zenon DEF CandsAt
<1>4. IsFiniteSet(CandsAt(p, t, k, n)) /\ Cardinality(CandsAt(p, t, k, n)) \in Nat
  BY <1>2, <1>3, FS_Subset, FS_CardinalityType, Zenon
<1>5. \A i : i \in CandsAt(p, t, k, n + 1) <=>
                i \in CandsAt(p, t, k, n) \/ (Cand(p, t, k, n + 1) /\ i = n + 1)
  BY <1>1, Zenon DEF CandsAt
<1>6. CASE Cand(p, t, k, n + 1)
  <2>1. CandsAt(p, t, k, n + 1) = CandsAt(p, t, k, n) \cup {n + 1}
    BY <1>5, <1>6, Zenon
  <2>. QED  BY <1>1, <1>3, <1>4, <1>6, <2>1, Zenon
<1>7. CASE ~Cand(p, t, k, n + 1)
  <2>1. CandsAt(p, t, k, n + 1) = CandsAt(p, t, k, n)
    BY <1>5, <1>7, Zenon
  <2>. QED  BY <1>1, <1>3, <1>4, <1>7, <2>1, Zenon
<1>. QED  BY <1>6, <1>7, Zenon

\* The ranks of the payloads in a context of the model are numbers, all different.
LEMMA PayloadRanks ==
    ASSUME NEW k \in Contexts
    PROVE  Ranks(IdsOf(Payloads), RankAt(k, Payloads))
<1>. DEFINE r == RankAt(k, Payloads)
<1>1. ASSUME NEW a \in IdsOf(Payloads) PROVE r[a] \in Nat
  <2>1. PICK q \in Payloads : a = LogicalPowProofId(q)
    BY Zenon DEF IdsOf
  <2>. QED  BY <2>1, RankAssumption, Zenon DEF RankAt
<1>2. ASSUME NEW a \in IdsOf(Payloads), NEW b \in IdsOf(Payloads), r[a] = r[b] PROVE a = b
  <2>1. PICK q \in Payloads, s \in Payloads : a = LogicalPowProofId(q) /\ b = LogicalPowProofId(s)
    BY Zenon DEF IdsOf
  <2>. QED  BY <1>2, <2>1, RankAssumption, Zenon DEF RankAt
<1>. QED  BY <1>1, <1>2, Zenon DEF Ranks

\* The identities seen are finitely many identities of payloads.
LEMMA SeenIsFinite ==
    ASSUME NEW p, NEW N \in Nat, NEW t, Block(t, N), NEW k, NEW n \in Nat, n <= N
    PROVE  Seen(p, t, k, n) \in SUBSET IdsOf(Payloads) /\ IsFiniteSet(Seen(p, t, k, n))
<1>1. PICK A, S : A = CandsAt(p, t, k, n) /\ S = Seen(p, t, k, n)
  BY Zenon
<1>2. ASSUME NEW i \in A PROVE IdAt(t, i) \in IdsOf(Payloads)
  <2>1. i \in 1..n /\ Len(t[i].notes) = 1
    BY <1>1, Zenon DEF CandsAt, Cand
  <2>2. i \in 1..N
    BY <2>1
  <2>3. t[i] \in Transactions
    BY <2>2, Zenon DEF Block
  <2>4. t[i].notes[1] \in Payloads
    BY <2>1, <2>3, Zenon DEF Payloads
  <2>. QED  BY <2>4, Zenon DEF IdAt, IdsOf
<1>3. S \in SUBSET IdsOf(Payloads)
  BY <1>1, <1>2, Zenon DEF Seen
<1>4. PICK f : f = [i \in A |-> IdAt(t, i)]
  BY Zenon
<1>5. f \in Surjection(A, S)
  BY <1>1, <1>4, Zenon DEF Surjection, Seen
<1>6. IsFiniteSet(A)
  BY <1>1, NextCandidate, Zenon
<1>7. IsFiniteSet(S)
  BY <1>5, <1>6, FS_Surjection
<1>. QED  BY <1>1, <1>3, <1>7, Zenon

\* The counts of the identities after one more candidate.
LEMMA CountsNext ==
    ASSUME NEW p, NEW t, NEW k, NEW n \in Nat, Cand(p, t, k, n + 1), NEW id, id = IdAt(t, n + 1)
    PROVE  /\ Seen(p, t, k, n + 1) = Seen(p, t, k, n) \cup {id}
           /\ \A x : x # id => At(p, t, k, n + 1, x) = At(p, t, k, n, x)
           /\ Cardinality(At(p, t, k, n + 1, id)) = Cardinality(At(p, t, k, n, id)) + 1
           /\ id \notin Seen(p, t, k, n) => Cardinality(At(p, t, k, n + 1, id)) = 1
<1>1. PICK A, B : A = CandsAt(p, t, k, n) /\ B = CandsAt(p, t, k, n + 1)
  BY Zenon
<1>2. B = A \cup {n + 1} /\ n + 1 \notin A /\ IsFiniteSet(A)
  BY <1>1, NextCandidate, Zenon
<1>3. Seen(p, t, k, n + 1) = Seen(p, t, k, n) \cup {id}
  <2>1. Seen(p, t, k, n) = {IdAt(t, i) : i \in A} /\ Seen(p, t, k, n + 1) = {IdAt(t, i) : i \in B}
    BY <1>1, Zenon DEF Seen
  <2>2. \A y : y \in {IdAt(t, i) : i \in B} <=> y \in {IdAt(t, i) : i \in A} \/ y = id
    BY <1>2, Zenon
  <2>. QED  BY <2>1, <2>2, Zenon
<1>4. ASSUME NEW x
      PROVE  /\ At(p, t, k, n, x) = {i \in A : IdAt(t, i) = x}
             /\ At(p, t, k, n + 1, x) = {i \in B : IdAt(t, i) = x}
  BY <1>1, Zenon DEF At
<1>5. ASSUME NEW x, x # id PROVE At(p, t, k, n + 1, x) = At(p, t, k, n, x)
  <2>1. {i \in B : IdAt(t, i) = x} = {i \in A : IdAt(t, i) = x}
    BY <1>2, <1>5, Zenon
  <2>. QED  BY <1>4, <2>1, Zenon
<1>6. PICK E : E = At(p, t, k, n, id)
  BY Zenon
<1>7. At(p, t, k, n + 1, id) = E \cup {n + 1} /\ n + 1 \notin E /\ E \in SUBSET A
  <2>1. {i \in B : IdAt(t, i) = id} = {i \in A : IdAt(t, i) = id} \cup {n + 1}
    BY <1>2, Zenon
  <2>2. E = {i \in A : IdAt(t, i) = id}
    BY <1>1, <1>6, Zenon DEF At
  <2>3. n + 1 \notin E /\ E \in SUBSET A
    BY <1>2, <2>2, Zenon
  <2>. QED  BY <1>4, <2>1, <2>2, <2>3, Zenon
<1>8. IsFiniteSet(E)
  BY <1>2, <1>7, FS_Subset, Zenon
<1>9. Cardinality(At(p, t, k, n + 1, id)) = Cardinality(E) + 1
  BY <1>7, <1>8, FS_AddElement, Zenon
<1>10. ASSUME id \notin Seen(p, t, k, n) PROVE Cardinality(At(p, t, k, n + 1, id)) = 1
  <2>1. E = {}
    BY <1>4, <1>6, <1>10, Zenon DEF Seen, At
  <2>2. Cardinality(E) = 0
    BY <2>1, FS_EmptySet, Zenon
  <2>. QED  BY <1>9, <2>2
<1>. QED  BY <1>3, <1>5, <1>6, <1>9, <1>10, Zenon

\* One more candidate keeps the selection canonical.
LEMMA SelectedNext ==
    ASSUME NEW p, NEW N \in Nat, NEW t, Block(t, N), NEW k \in Contexts, NEW n \in Nat, n < N,
           NEW C \in SUBSET CandidatesOf(Payloads), Selected(C, p, t, k, n), Cand(p, t, k, n + 1),
           NEW D, D = InsertLogicalPowCandidate(C, t[n + 1].notes[1], k)
    PROVE  D \in SUBSET CandidatesOf(Payloads) /\ Selected(D, p, t, k, n + 1)
<1>1. PICK proof, id, r, I : /\ proof = t[n + 1].notes[1] /\ id = LogicalPowProofId(proof)
                             /\ r = RankAt(k, Payloads) /\ I = Seen(p, t, k, n)
  BY Zenon
<1>2. proof \in Payloads
  <2>1. n + 1 \in 1..N
    OBVIOUS
  <2>2. t[n + 1] \in Transactions /\ Len(t[n + 1].notes) = 1
    BY <2>1, Zenon DEF Block, Cand
  <2>. QED  BY <1>1, <2>2, Zenon DEF Payloads
<1>3. /\ IsFiniteSet(C) /\ OnePerId(C) /\ Ids(C) = Best(I, r, MAX_POW_EVALS)
      /\ \A c \in C : c.observed = Cardinality(At(p, t, k, n, c.id))
  BY <1>1, Zenon DEF Selected
<1>4. I \in SUBSET IdsOf(Payloads) /\ IsFiniteSet(I)
  <2>1. n <= N
    OBVIOUS
  <2>. QED  BY <1>1, <2>1, SeenIsFinite, Zenon
<1>5. Ranks(IdsOf(Payloads), r)
  BY <1>1, PayloadRanks, ZenonT(60)
<1>6. /\ OnePerId(D)
      /\ Ids(D) = Best(I \cup {id}, r, MAX_POW_EVALS)
      /\ \A d \in D : \/ d.id # id /\ d \in C
                      \/ d.id = id /\ id \notin I /\ d.observed = 1
                      \/ d.id = id /\ \E c \in C : c.id = id /\ d.observed = c.observed + 1
  BY <1>1, <1>2, <1>3, <1>4, <1>5, InsertSelects, SMTT(60)
<1>7. D \in SUBSET CandidatesOf(Payloads) /\ IsFiniteSet(D)
  BY <1>1, <1>2, <1>3, InsertKeepsCandidates, SMTT(60)
<1>8. /\ Seen(p, t, k, n + 1) = I \cup {id}
      /\ \A x : x # id => At(p, t, k, n + 1, x) = At(p, t, k, n, x)
      /\ Cardinality(At(p, t, k, n + 1, id)) = Cardinality(At(p, t, k, n, id)) + 1
      /\ id \notin I => Cardinality(At(p, t, k, n + 1, id)) = 1
  <2>1. id = IdAt(t, n + 1)
    BY <1>1, Zenon DEF IdAt
  <2>. QED  BY <1>1, <2>1, CountsNext
<1>9. ASSUME NEW d \in D PROVE d.observed = Cardinality(At(p, t, k, n + 1, d.id))
  <2>1. CASE d.id # id /\ d \in C
    BY <1>3, <1>8, <2>1, Zenon
  <2>2. CASE d.id = id /\ id \notin I /\ d.observed = 1
    BY <1>8, <2>2, Zenon
  <2>3. CASE d.id = id /\ \E c \in C : c.id = id /\ d.observed = c.observed + 1
    BY <1>3, <1>8, <2>3, Zenon
  <2>. QED  BY <1>6, <2>1, <2>2, <2>3, Zenon
<1>. QED  BY <1>1, <1>6, <1>7, <1>8, <1>9, Zenon DEF Selected

LEMMA EmptyIsCanonical ==
    ASSUME NEW p, NEW t, NEW k
    PROVE  Canonical(EmptyScan, p, t, k, 0)
<1>1. CandsAt(p, t, k, 0) = {}
  <2>1. 1..0 = {}
    OBVIOUS
  <2>. QED  BY <2>1, Zenon DEF CandsAt
<1>2. Seen(p, t, k, 0) = {}
  BY <1>1, Zenon DEF Seen
<1>3. Best({}, RankAt(k, Payloads), MAX_POW_EVALS) = {} /\ Ids({}) = {} /\ OnePerId({})
  BY Zenon DEF Best, Ids, OnePerId
<1>4. Selected({}, p, t, k, 0)
  BY <1>2, <1>3, FS_EmptySet, Zenon DEF Selected
<1>5. /\ EmptyScan.candidates = {} /\ EmptyScan.candidateCount = 0 /\ EmptyScan.observed = 0
      /\ EmptyScan.invalidLocation = 0 /\ EmptyScan.malformed = 0 /\ EmptyScan.wrongMode = 0
      /\ EmptyScan.unknownMode = 0 /\ EmptyScan \in Scans
  BY DEF EmptyScan, Scans
<1>6. Balanced(EmptyScan)
  BY <1>5 DEF Balanced
<1>7. EmptyScan.candidateCount = Cardinality(CandsAt(p, t, k, 0))
  BY <1>1, <1>5, FS_EmptySet, Zenon
<1>. QED  BY <1>4, <1>5, <1>6, <1>7, Zenon DEF Canonical

\* The record of a scan from its fields.
ScanOf(C, cc, o, il, ma, wm, um) ==
    [candidates |-> C, candidateCount |-> cc, observed |-> o, invalidLocation |-> il,
     malformed |-> ma, wrongMode |-> wm, unknownMode |-> um]

LEMMA ScanFields ==
    ASSUME NEW C \in SUBSET CandidatesOf(Payloads), NEW cc \in Nat, NEW o \in Nat, NEW il \in Nat,
           NEW ma \in Nat, NEW wm \in Nat, NEW um \in Nat,
           NEW s, s = ScanOf(C, cc, o, il, ma, wm, um)
    PROVE  /\ s \in Scans /\ s.candidates = C /\ s.candidateCount = cc
           /\ Balanced(s) <=> o = il + ma + wm + um + cc
<1>1. s \in Scans
  BY Zenon DEF Scans, ScanOf
<1>2. /\ s.candidates = C /\ s.candidateCount = cc /\ s.observed = o /\ s.invalidLocation = il
      /\ s.malformed = ma /\ s.wrongMode = wm /\ s.unknownMode = um
  BY Zenon DEF ScanOf
<1>. QED  BY <1>1, <1>2, Zenon DEF Balanced

\* One more transaction keeps the scan canonical.
LEMMA TransactionNext ==
    ASSUME NEW p, NEW N \in Nat, NEW t, Block(t, N), NEW k \in Contexts, NEW n \in Nat, n < N,
           NEW s, Canonical(s, p, t, k, n), NEW s2, s2 = ScanTransaction(s, p, t[n + 1], k)
    PROVE  Canonical(s2, p, t, k, n + 1)
<1>1. PICK count, seen, C, mode :
         /\ count = Len(t[n + 1].notes) /\ seen = [s EXCEPT !.observed = @ + count]
         /\ C = s.candidates /\ mode = ClassifyProofPayloadMode(t[n + 1].notes[1], k.qqp4)
  BY Zenon
<1>2. s \in Scans /\ Balanced(s) /\ Selected(C, p, t, k, n)
  BY <1>1, Zenon DEF Canonical
<1>3. s.candidateCount = Cardinality(CandsAt(p, t, k, n)) /\ C \in SUBSET CandidatesOf(Payloads)
  BY <1>1, Zenon DEF Canonical, Scans
<1>4. count \in Nat
  <2>1. n + 1 \in 1..N
    OBVIOUS
  <2>2. t[n + 1] \in Transactions
    BY <2>1, Zenon DEF Block
  <2>. QED  BY <1>1, <2>2, TransactionsAssumption, Zenon
<1>7. PICK cc, o, il, ma, wm, um :
         /\ s = ScanOf(C, cc, o, il, ma, wm, um)
         /\ seen = ScanOf(C, cc, o + count, il, ma, wm, um)
         /\ cc \in Nat /\ o \in Nat /\ il \in Nat /\ ma \in Nat /\ wm \in Nat /\ um \in Nat
  <2>1. PICK cc, o, il, ma, wm, um :
           /\ cc = s.candidateCount /\ o = s.observed /\ il = s.invalidLocation
           /\ ma = s.malformed /\ wm = s.wrongMode /\ um = s.unknownMode
    BY Zenon
  <2>2. cc \in Nat /\ o \in Nat /\ il \in Nat /\ ma \in Nat /\ wm \in Nat /\ um \in Nat
    BY <1>2, <2>1, Zenon DEF Scans
  <2>3. s = ScanOf(C, cc, o, il, ma, wm, um)
    BY <1>1, <1>2, <2>1 DEF Scans, ScanOf
  <2>4. seen = ScanOf(C, cc, o + count, il, ma, wm, um)
    BY <1>1, <2>3, SMTT(60) DEF ScanOf
  <2>. QED  BY <2>2, <2>3, <2>4, Zenon
<1>8. o = il + ma + wm + um + cc /\ s.candidateCount = cc
  BY <1>2, <1>3, <1>7, ScanFields
<1>5. CASE ~Cand(p, t, k, n + 1)
  <2>1. \/ s2 = [seen EXCEPT !.invalidLocation = @ + count]
        \/ s2 = [seen EXCEPT !.malformed = @ + count]
        \/ count = 1 /\ s2 = [seen EXCEPT !.wrongMode = @ + 1]
        \/ count = 1 /\ s2 = [seen EXCEPT !.unknownMode = @ + 1]
    BY <1>1, <1>5, Zenon DEF ScanTransaction, Cand
  <2>2. s2 \in Scans /\ s2.candidates = C /\ s2.candidateCount = cc /\ Balanced(s2)
    <3>1. CASE s2 = [seen EXCEPT !.invalidLocation = @ + count]
      <4>1. s2 = ScanOf(C, cc, o + count, il + count, ma, wm, um)
        BY <1>7, <3>1 DEF ScanOf
      <4>2. il + count \in Nat /\ o + count \in Nat /\ o + count = (il + count) + ma + wm + um + cc
        BY <1>4, <1>7, <1>8, <3>1, SMTT(60)
      <4>. QED  BY <1>3, <1>7, <4>1, <4>2, ScanFields, SMTT(60)
    <3>2. CASE s2 = [seen EXCEPT !.malformed = @ + count]
      <4>1. s2 = ScanOf(C, cc, o + count, il, ma + count, wm, um)
        BY <1>7, <3>2 DEF ScanOf
      <4>2. ma + count \in Nat /\ o + count \in Nat /\ o + count = il + (ma + count) + wm + um + cc
        BY <1>4, <1>7, <1>8, <3>2, SMTT(60)
      <4>. QED  BY <1>3, <1>7, <4>1, <4>2, ScanFields, SMTT(60)
    <3>3. CASE count = 1 /\ s2 = [seen EXCEPT !.wrongMode = @ + 1]
      <4>1. s2 = ScanOf(C, cc, o + count, il, ma, wm + 1, um)
        BY <1>7, <3>3, SMTT(60) DEF ScanOf
      <4>2. wm + 1 \in Nat /\ o + count \in Nat /\ o + count = il + ma + (wm + 1) + um + cc
        BY <1>4, <1>7, <1>8, <3>3, SMTT(60)
      <4>. QED  BY <1>3, <1>7, <4>1, <4>2, ScanFields, SMTT(60)
    <3>4. CASE count = 1 /\ s2 = [seen EXCEPT !.unknownMode = @ + 1]
      <4>1. s2 = ScanOf(C, cc, o + count, il, ma, wm, um + 1)
        BY <1>7, <3>4, SMTT(60) DEF ScanOf
      <4>2. um + 1 \in Nat /\ o + count \in Nat /\ o + count = il + ma + wm + (um + 1) + cc
        BY <1>4, <1>7, <1>8, <3>4, SMTT(60)
      <4>. QED  BY <1>3, <1>7, <4>1, <4>2, ScanFields, SMTT(60)
    <3>. QED  BY <2>1, <3>1, <3>2, <3>3, <3>4, ZenonT(60)
  <2>3. CandsAt(p, t, k, n + 1) = CandsAt(p, t, k, n)
    <3>1. CandsAt(p, t, k, n + 1) = CandsAt(p, t, k, n) \cup
                                    (IF Cand(p, t, k, n + 1) THEN {n + 1} ELSE {})
      BY NextCandidate, Zenon
    <3>. QED  BY <1>5, <3>1, Zenon
  <2>4. Selected(C, p, t, k, n + 1)
    BY <1>2, <2>3, Zenon DEF Selected, Seen, At
  <2>. QED  BY <1>3, <1>8, <2>2, <2>3, <2>4, Zenon DEF Canonical
<1>6. CASE Cand(p, t, k, n + 1)
  <2>1. PICK D : D = InsertLogicalPowCandidate(C, t[n + 1].notes[1], k)
    BY Zenon
  <2>2. count = 1 /\ s2 = [seen EXCEPT !.candidateCount = @ + 1, !.candidates = D]
    <3>1. seen.candidates = C
      BY <1>7, Zenon DEF ScanOf
    <3>2. /\ count = 1
          /\ s2 = [seen EXCEPT !.candidateCount = @ + 1,
                               !.candidates = InsertLogicalPowCandidate(@, t[n + 1].notes[1], k)]
      BY <1>1, <1>6, ZenonT(60) DEF ScanTransaction, Cand
    <3>. QED  BY <2>1, <3>1, <3>2, Zenon
  <2>3. D \in SUBSET CandidatesOf(Payloads) /\ Selected(D, p, t, k, n + 1)
    BY <1>2, <1>3, <1>6, <2>1, SelectedNext, SMTT(60)
  <2>4. /\ s2 \in Scans /\ s2.candidates = D /\ s2.candidateCount = s.candidateCount + 1
        /\ Balanced(s2)
    <3>1. s2 = ScanOf(D, cc + 1, o + count, il, ma, wm, um)
      BY <1>7, <2>2, Zenon DEF ScanOf
    <3>2. /\ cc + 1 \in Nat /\ o + count \in Nat
          /\ o + count = il + ma + wm + um + (cc + 1)
      BY <1>4, <1>7, <1>8, <2>2
    <3>. QED  BY <1>7, <1>8, <2>3, <3>1, <3>2, ScanFields, SMTT(60)
  <2>5. Cardinality(CandsAt(p, t, k, n + 1)) = s.candidateCount + 1
    <3>1. CandsAt(p, t, k, n + 1) = CandsAt(p, t, k, n) \cup {n + 1}
      BY <1>6, NextCandidate, Zenon
    <3>2. n + 1 \notin CandsAt(p, t, k, n) /\ IsFiniteSet(CandsAt(p, t, k, n))
      BY NextCandidate, Zenon
    <3>3. Cardinality(CandsAt(p, t, k, n) \cup {n + 1}) = Cardinality(CandsAt(p, t, k, n)) + 1
      BY <3>2, FS_AddElement, Zenon
    <3>. QED  BY <1>3, <3>1, <3>3, Zenon
  <2>. QED  BY <2>3, <2>4, <2>5, Zenon DEF Canonical
<1>. QED  BY <1>5, <1>6, Zenon

-----------------------------------------------------------------------------
(* The state machine. *)

\* A block lists distinct transactions.
LEMMA BlockShape ==
    ASSUME NEW t \in BlockOrders
    PROVE  Len(t) \in Nat /\ Block(t, Len(t))
<1>1. PICK S \in SUBSET Transactions : t \in Orders(S)
  BY Zenon DEF BlockOrders
<1>2. IsFiniteSet(S)
  BY FS_Subset, TransactionsAssumption, Zenon
<1>3. PICK N \in Nat : N = Cardinality(S)
  BY <1>2, FS_CardinalityType, Zenon
<1>4. t \in [1..N -> S]
  BY <1>1, <1>3, Zenon DEF Orders
<1>5. Len(t) = N
  BY <1>4
<1>. QED  BY <1>4, <1>5, Zenon DEF Block

ScanInv ==
    /\ ctx \in Contexts /\ txs \in BlockOrders
    /\ scanned \in Nat /\ scanned <= Len(txs)
    /\ Canonical(scan, pos, txs, ctx, scanned)
    /\ \/ result = <<>>
       \/ scanned = Len(txs) /\ result = <<AccountScan(scan, pos, txs, ctx)>>

LEMMA ScanInit == Init => ScanInv
<1>1. SUFFICES ASSUME Init PROVE ScanInv
  BY Zenon
<1>2. ctx \in Contexts /\ txs \in BlockOrders /\ scanned = 0 /\ scan = EmptyScan /\ result = <<>>
  BY <1>1, Zenon DEF Init
<1>3. Len(txs) \in Nat
  BY <1>2, BlockShape, Zenon
<1>4. scanned \in Nat /\ scanned <= Len(txs)
  BY <1>2, <1>3
<1>5. Canonical(scan, pos, txs, ctx, scanned)
  BY <1>2, EmptyIsCanonical, Zenon
<1>. QED  BY <1>2, <1>4, <1>5, Zenon DEF ScanInv

LEMMA ScanStep == ScanInv /\ [Next]_vars => ScanInv'
<1>1. SUFFICES ASSUME ScanInv, [Next]_vars PROVE ScanInv'
  BY Zenon
<1>2. Len(txs) \in Nat /\ Block(txs, Len(txs))
  BY <1>1, BlockShape, Zenon DEF ScanInv
<1>3. CASE ScanNext
  <2>1. /\ scanned < Len(txs) /\ scanned' = scanned + 1
        /\ scan' = ScanTransaction(scan, pos, txs[scanned + 1], ctx)
        /\ ctx' = ctx /\ pos' = pos /\ txs' = txs /\ result' = result
    BY <1>3, Zenon DEF ScanNext
  <2>2. scanned' \in Nat /\ scanned' <= Len(txs')
    BY <1>1, <1>2, <2>1 DEF ScanInv
  <2>3. PICK p, N, t, k, n, s, s2 :
           /\ p = pos /\ N = Len(txs) /\ t = txs /\ k = ctx /\ n = scanned /\ s = scan
           /\ s2 = scan'
    BY Zenon
  <2>4. /\ N \in Nat /\ Block(t, N) /\ k \in Contexts /\ n \in Nat /\ n < N
        /\ Canonical(s, p, t, k, n) /\ s2 = ScanTransaction(s, p, t[n + 1], k)
    BY <1>1, <1>2, <2>1, <2>3, Zenon DEF ScanInv
  <2>5. Canonical(s2, p, t, k, n + 1)
    BY <2>4, TransactionNext, Zenon
  <2>6. result = <<>>
    <3>1. scanned # Len(txs)
      BY <1>1, <1>2, <2>1 DEF ScanInv
    <3>. QED  BY <1>1, <3>1, Zenon DEF ScanInv
  <2>7. Canonical(scan, pos, txs, ctx, scanned)'
    BY <2>1, <2>3, <2>5, Zenon
  <2>. QED  BY <1>1, <2>1, <2>2, <2>6, <2>7, Zenon DEF ScanInv
<1>4. CASE Account
  <2>1. /\ scanned = Len(txs) /\ result' = <<AccountScan(scan, pos, txs, ctx)>>
        /\ ctx' = ctx /\ pos' = pos /\ txs' = txs /\ scanned' = scanned /\ scan' = scan
    BY <1>4, Zenon DEF Account
  <2>. QED  BY <1>1, <2>1, Zenon DEF ScanInv
<1>5. CASE UNCHANGED vars
  BY <1>1, <1>5, Zenon DEF ScanInv, vars
<1>. QED  BY <1>1, <1>3, <1>4, <1>5, Zenon DEF Next

LEMMA ScanAlways == Spec => []ScanInv
  BY ScanInit, ScanStep, PTL DEF Spec

\* The selection of the invariant is the one that the property states.
LEMMA SelectionFollows == ScanInv => SelectionIsCanonical
<1>1. SUFFICES ASSUME ScanInv PROVE SelectionIsCanonical
  BY Zenon
<1>2. PICK r, I, A : /\ r = RankAt(ctx, Payloads) /\ I = Seen(pos, txs, ctx, scanned)
                     /\ A = CandsAt(pos, txs, ctx, scanned)
  BY Zenon
<1>3. I \in SUBSET IdsOf(Payloads)
  BY <1>1, <1>2, BlockShape, SeenIsFinite, Zenon DEF ScanInv
<1>4. \A i : CandidateAt(i) <=> Cand(pos, txs, ctx, i)
  BY Zenon DEF CandidateAt, Cand
<1>5. SeenIds = I
  <2>1. {j \in 1..scanned : CandidateAt(j)} = A
    BY <1>2, <1>4, Zenon DEF CandsAt
  <2>. QED  BY <1>2, <2>1, Zenon DEF SeenIds, Seen, IdAt
<1>6. ASSUME NEW id PROVE SeenAt(id) = At(pos, txs, ctx, scanned, id)
  BY <1>4, Zenon DEF SeenAt, At, CandsAt, IdAt
<1>7. \A a, b \in I : RankLess(ctx, a, b) <=> r[a] < r[b]
  BY <1>2, <1>3, Zenon DEF RankLess, RankAt
<1>8. \A id \in I : {o \in I : RankLess(ctx, o, id)} = Low(I, r, id)
  BY <1>7, Zenon DEF Low
<1>9. {id \in I : Cardinality({o \in I : RankLess(ctx, o, id)}) < MAX_POW_EVALS}
        = Best(I, r, MAX_POW_EVALS)
  BY <1>8, Zenon DEF Best
<1>10. /\ Ids(scan.candidates) = Best(I, r, MAX_POW_EVALS)
       /\ \A c \in scan.candidates : c.observed = Cardinality(At(pos, txs, ctx, scanned, c.id))
  BY <1>1, <1>2, Zenon DEF ScanInv, Canonical, Selected
<1>. QED  BY <1>5, <1>6, <1>9, <1>10, Zenon DEF SelectionIsCanonical, Ids

\* SelectionIsCanonical: whatever transactions the block has and in whatever order they are
\* scanned, InsertLogicalPowCandidate keeps exactly the MAX_POW_EVALS proofs of lowest rank, with
\* exact counts.
THEOREM ScanIsCanonical == Spec => []SelectionIsCanonical
  BY ScanAlways, SelectionFollows, PTL

-----------------------------------------------------------------------------
(* The accounting of a finished scan. *)

\* Every candidate has a place in the rank order.
LEMMA RankedIsOnto ==
    ASSUME NEW C, IsFiniteSet(C), NEW k, \A c \in C : CanonicalRank(k.height, k.prev, c.id) \in Nat,
           NEW n, n = Cardinality(C)
    PROVE  /\ n \in Nat /\ RankedCandidates(C, k) \in [1..n -> C]
           /\ \A c \in C : \E i \in 1..n : RankedCandidates(C, k)[i] = c
<1>1. n \in Nat
  BY FS_CardinalityType, Zenon
<1>2. PICK f : f = RankedCandidates(C, k)
  BY Zenon
<1>3. f \in Injection(1..n, C)
  BY <1>2, RankedAreCandidates, Zenon
<1>4. Cardinality(1..n) = n
  BY <1>1, FS_Interval
<1>5. f \in Surjection(1..n, C)
  BY <1>3, <1>4, FS_Injection, SMTT(60)
<1>6. f \in [1..n -> C] /\ \A c \in C : \E i \in 1..n : f[i] = c
  BY <1>3, <1>5, Zenon DEF Injection, Surjection
<1>. QED  BY <1>1, <1>2, <1>6, Zenon

\* The rows that the election starts from.
RowsOf(C, p, t, k) ==
    [i \in DOMAIN RankedCandidates(C, k) |-> ClaimRow(RankedCandidates(C, k)[i], p, t, k)]

LEMMA AccountingOf ==
    ASSUME NEW s, NEW p, NEW t, NEW k
    PROVE  AccountScan(s, p, t, k) =
              AccountingResult(s, ElectWinner(RowsOf(s.candidates, p, t, k), k.pool))
  BY Zenon DEF AccountScan, RowsOf

\* A row is paid when the proof is valid and one carrier pays a fee and spends the target.
Eligible(tx, c, k) ==
    /\ tx.fee >= 0
    /\ IF k.qqp4 THEN TxSpendsBoundOutpointFromScript(tx, c.proof.outpoint, c.proof.target)
                 ELSE TxSpendsFromScript(tx, c.proof.target)

LEMMA EligibleIsPaid ==
    ASSUME NEW c, NEW p, NEW t, NEW k, ProofDisposition(c, k) = "VALID",
           NEW tx \in Carriers(p, t, c.id), Eligible(tx, c, k)
    PROVE  ClaimRow(c, p, t, k).id = c.id /\ ClaimRow(c, p, t, k).disposition \in Paid
<1>. DEFINE feeValid == {o \in Carriers(p, t, c.id) : o.fee >= 0}
            eligible == {o \in feeValid :
                           IF k.qqp4
                           THEN TxSpendsBoundOutpointFromScript(o, c.proof.outpoint, c.proof.target)
                           ELSE TxSpendsFromScript(o, c.proof.target)}
<1>1. tx \in feeValid /\ tx \in eligible
  BY Zenon DEF Eligible
<1>2. feeValid # {} /\ eligible # {}
  BY <1>1, Zenon
<1>3. ClaimRow(c, p, t, k) =
         [id |-> c.id,
          disposition |-> IF LateOrigin(c.proof, k) THEN "REIMBURSED_LATE" ELSE "REIMBURSED_LOSER",
          payout |-> c.proof.payout, credit |-> Reimbursement(BestCarrier(eligible))]
  BY <1>2, Zenon DEF ClaimRow
<1>4. PICK d, e : /\ d = IF LateOrigin(c.proof, k) THEN "REIMBURSED_LATE" ELSE "REIMBURSED_LOSER"
                  /\ e = Reimbursement(BestCarrier(eligible))
  BY Zenon
<1>5. d \in Paid
  BY <1>4, Zenon DEF Paid
<1>6. ClaimRow(c, p, t, k) = [id |-> c.id, disposition |-> d, payout |-> c.proof.payout, credit |-> e]
  BY <1>3, <1>4, Zenon
<1>. QED
  <2>1. PICK row : row = [id |-> c.id, disposition |-> d, payout |-> c.proof.payout, credit |-> e]
    BY Zenon
  <2>2. row.id = c.id /\ row.disposition = d
    BY <2>1
  <2>. QED  BY <1>5, <1>6, <2>1, <2>2, Zenon

\* The election does not take a payment away.
LEMMA ElectionPays ==
    ASSUME NEW n \in Nat, NEW rows, DOMAIN rows = 1..n, NEW pool, NEW i \in 1..n,
           "id" \in DOMAIN rows[i], "disposition" \in DOMAIN rows[i], rows[i].disposition \in Paid,
           NEW elected, elected = ElectWinner(rows, pool).rows
    PROVE  /\ DOMAIN elected = 1..n
           /\ elected[i].id = rows[i].id /\ elected[i].disposition \in Paid
<1>. DEFINE current == {j \in DOMAIN rows : rows[j].disposition = "REIMBURSED_LOSER"}
<1>1. PICK first, amount :
         /\ first = CHOOSE j \in current : \A l \in current : j <= l
         /\ amount = pool - CreditsOf(rows, {j \in DOMAIN rows : current = {} \/ j # first})
  BY Zenon
<1>2. elected = [j \in DOMAIN rows |->
                   IF current # {} /\ j = first
                   THEN [rows[j] EXCEPT !.credit = amount, !.disposition = "WINNER"]
                   ELSE rows[j]]
  BY <1>1, Zenon DEF ElectWinner
<1>. HIDE DEF current
<1>3. DOMAIN elected = 1..n
  BY <1>2, Zenon
<1>4. CASE current # {} /\ i = first
  <2>1. elected[i] = [rows[i] EXCEPT !.credit = amount, !.disposition = "WINNER"]
    BY <1>2, <1>4, Zenon
  <2>2. elected[i].id = rows[i].id /\ elected[i].disposition = "WINNER"
    BY <2>1
  <2>. QED  BY <1>3, <2>2, Zenon DEF Paid
<1>5. CASE ~(current # {} /\ i = first)
  BY <1>2, <1>3, <1>5, Zenon
<1>. QED  BY <1>4, <1>5, Zenon

LEMMA PaidAreAccounted ==
    ASSUME NEW C, IsFiniteSet(C), NEW k, \A c \in C : CanonicalRank(k.height, k.prev, c.id) \in Nat,
           NEW c \in C, NEW p, NEW t, NEW s, s.candidates = C, ProofDisposition(c, k) = "VALID",
           NEW tx \in Carriers(p, t, c.id), Eligible(tx, c, k)
    PROVE  c.id \in AccountedProofs(AccountScan(s, p, t, k).accounting)
<1>1. PICK n, ranked, rows, elected :
         /\ n = Cardinality(C) /\ ranked = RankedCandidates(C, k) /\ rows = RowsOf(C, p, t, k)
         /\ elected = ElectWinner(rows, k.pool).rows
  BY Zenon
<1>2. n \in Nat /\ ranked \in [1..n -> C]
  BY <1>1, RankedIsOnto, Zenon
<1>3. PICK i \in 1..n : ranked[i] = c
  <2>1. \A d \in C : \E i \in 1..n : RankedCandidates(C, k)[i] = d
    BY <1>1, RankedIsOnto
  <2>. QED  BY <1>1, <2>1, ZenonT(60)
<1>4. DOMAIN rows = 1..n /\ rows[i] = ClaimRow(c, p, t, k)
  BY <1>1, <1>2, <1>3, Zenon DEF RowsOf
<1>5. rows[i].id = c.id /\ rows[i].disposition \in Paid
  <2>1. ClaimRow(c, p, t, k).id = c.id /\ ClaimRow(c, p, t, k).disposition \in Paid
    BY EligibleIsPaid
  <2>. QED  BY <1>4, <2>1, ZenonT(60)
<1>6. "id" \in DOMAIN rows[i] /\ "disposition" \in DOMAIN rows[i]
  <2>1. \E a, d, e, g : rows[i] = [id |-> a, disposition |-> d, payout |-> e, credit |-> g]
    BY <1>4, ZenonT(60) DEF ClaimRow
  <2>. QED  BY <2>1, Zenon
<1>7. DOMAIN elected = 1..n /\ elected[i].id = c.id /\ elected[i].disposition \in Paid
  BY <1>1, <1>2, <1>4, <1>5, <1>6, ElectionPays, SMTT(60)
<1>8. AccountScan(s, p, t, k).accounting = elected
  BY <1>1, AccountingOf, Zenon DEF AccountingResult
<1>9. elected[i] \in Range(elected)
  BY <1>7, Zenon DEF Range
<1>. QED  BY <1>7, <1>8, <1>9, Zenon DEF AccountedProofs, Paid

\* CopiesCannotSuppress: whatever copies of a valid proof the block carries, one carrier that pays
\* its fee and spends the target gets the proof accounted.
THEOREM ValidCarrierIsAccounted == Spec => []CopiesCannotSuppress
<1>1. ScanInv => CopiesCannotSuppress
  <2>1. SUFFICES ASSUME ScanInv, result # <<>>, NEW c \in scan.candidates,
                        ProofDisposition(c, ctx) = "VALID",
                        NEW tx \in Carriers(pos, txs, c.id), Eligible(tx, c, ctx)
                 PROVE  c.id \in AccountedProofs(result[1].accounting)
    BY Zenon DEF CopiesCannotSuppress, Eligible
  <2>2. result[1] = AccountScan(scan, pos, txs, ctx)
    BY <2>1 DEF ScanInv
  <2>3. PICK C : C = scan.candidates
    BY Zenon
  <2>4. IsFiniteSet(C) /\ C \in SUBSET CandidatesOf(Payloads) /\ ctx \in Contexts
    BY <2>1, <2>3, Zenon DEF ScanInv, Canonical, Selected, Scans
  <2>5. ASSUME NEW d \in C PROVE CanonicalRank(ctx.height, ctx.prev, d.id) \in Nat
    <3>1. d.proof \in Payloads /\ d.id = LogicalPowProofId(d.proof)
      BY <2>4, Zenon DEF CandidatesOf
    <3>. QED  BY <2>4, <3>1, RankAssumption, Zenon
  <2>. QED  BY <2>1, <2>2, <2>3, <2>4, <2>5, PaidAreAccounted, SMTT(60)
<1>. QED  BY <1>1, ScanAlways, PTL

-----------------------------------------------------------------------------
(* The classes of the notes add up. *)

AnyOf(T) == CHOOSE x \in T : TRUE

SumStep(f, T) == IF T = {} THEN 0 ELSE AnyOf(T).observed + f[T \ {AnyOf(T)}]

\* SelectedObservations adds the counts of the candidates one by one.
LEMMA SumUnfolds ==
    ASSUME NEW C, IsFiniteSet(C)
    PROVE  \E f : SelectedObservations(C) = f[C] /\ \A T \in SUBSET C : f[T] = SumStep(f, T)
<1>. DEFINE Small(m) == {T \in SUBSET C : Cardinality(T) <= m}
            Follows(f, m) == f = [T \in Small(m) |-> SumStep(f, T)]
            B == {m \in Nat : ~ \E f : Follows(f, m)}
<1>1. ASSUME NEW T \in SUBSET C PROVE IsFiniteSet(T) /\ Cardinality(T) \in Nat
  BY FS_Subset, FS_CardinalityType, Zenon
<1>2. ASSUME NEW T \in SUBSET C, T # {}
      PROVE  /\ AnyOf(T) \in T /\ T \ {AnyOf(T)} \in SUBSET C
             /\ Cardinality(T \ {AnyOf(T)}) = Cardinality(T) - 1
  <2>1. AnyOf(T) \in T
    BY <1>2, Zenon DEF AnyOf
  <2>2. Cardinality(T \ {AnyOf(T)}) = Cardinality(T) - 1
    BY <1>1, <2>1, FS_RemoveElement, Zenon
  <2>. QED  BY <2>1, <2>2, Zenon
<1>3. B = {}
  <2>1. SUFFICES ASSUME B # {} PROVE FALSE
    BY Zenon
  <2>2. PICK m \in B : \A l \in B : m <= l
    <3>1. B \subseteq Nat
      BY Zenon
    <3>. HIDE DEF B
    <3>. QED  BY <2>1, <3>1, LeastNat, Zenon
  <2>3. m \in Nat /\ ~ \E f : Follows(f, m)
    <3>. HIDE DEF Follows
    <3>. QED  BY <2>2, Zenon
  <2>4. CASE m = 0
    <3>. DEFINE g == [T \in Small(0) |-> 0]
    <3>1. ASSUME NEW T \in Small(0) PROVE T = {}
      <4>1. T \in SUBSET C /\ Cardinality(T) <= 0
        BY Zenon
      <4>2. Cardinality(T) = 0
        BY <1>1, <4>1
      <4>. QED  BY <1>1, <4>1, <4>2, FS_EmptySet, Zenon
    <3>. HIDE DEF Small
    <3>2. \A T \in Small(0) : SumStep(g, T) = 0
      BY <3>1, Zenon DEF SumStep
    <3>3. Follows(g, 0)
      BY <3>2, Zenon
    <3>. QED  BY <2>3, <2>4, <3>3, Zenon
  <2>5. CASE m # 0
    <3>1. m - 1 \in Nat /\ m - 1 \notin B
      <4>. HIDE DEF B
      <4>. QED  BY <2>2, <2>3, <2>5
    <3>2. PICK f : Follows(f, m - 1)
      <4>. HIDE DEF Follows
      <4>. QED  BY <3>1, Zenon
    <3>. DEFINE g == [T \in Small(m) |-> SumStep(f, T)]
    <3>3. ASSUME NEW T \in Small(m) PROVE SumStep(g, T) = SumStep(f, T)
      <4>1. CASE T = {}
        BY <4>1, Zenon DEF SumStep
      <4>2. CASE T # {}
        <5>1. PICK U : U = T \ {AnyOf(T)}
          BY Zenon
        <5>2. U \in SUBSET C /\ Cardinality(U) = Cardinality(T) - 1 /\ Cardinality(T) <= m
          BY <1>2, <4>2, <5>1, Zenon
        <5>3. Cardinality(U) <= m - 1 /\ Cardinality(U) <= m
          BY <1>1, <2>3, <5>2, SMTT(60)
        <5>4. U \in Small(m - 1) /\ U \in Small(m)
          BY <5>2, <5>3, Zenon
        <5>. HIDE DEF Small
        <5>5. g[U] = SumStep(f, U) /\ f[U] = SumStep(f, U)
          BY <3>2, <5>4, Zenon
        <5>. HIDE DEF g
        <5>. QED  BY <4>2, <5>1, <5>5, Zenon DEF SumStep
      <4>. QED  BY <4>1, <4>2, Zenon
    <3>4. Follows(g, m)
      <4>. HIDE DEF Small
      <4>. QED  BY <3>3, Zenon
    <3>. QED  BY <2>3, <3>4, Zenon
  <2>. QED  BY <2>4, <2>5, Zenon
<1>4. PICK n \in Nat : n = Cardinality(C)
  BY FS_CardinalityType, Zenon
<1>5. Small(n) = SUBSET C
  BY <1>4, FS_Subset, Zenon
<1>6. PICK h : Follows(h, n)
  <2>. HIDE DEF Follows
  <2>. QED  BY <1>3, Zenon
<1>7. PICK f : f = CHOOSE e : e = [T \in SUBSET C |-> SumStep(e, T)]
  BY Zenon
<1>8. f = [T \in SUBSET C |-> SumStep(f, T)]
  <2>1. h = [T \in SUBSET C |-> SumStep(h, T)]
    <3>. HIDE DEF Small
    <3>. QED  BY <1>5, <1>6, Zenon
  <2>. QED  BY <1>7, <2>1, Zenon
<1>9. SelectedObservations(C) = f[C]
  BY <1>7, Zenon DEF SelectedObservations, MapThenSumSet, MapThenFoldSet, SumStep, AnyOf
<1>10. \A T \in SUBSET C : f[T] = SumStep(f, T)
  BY <1>8, Zenon
<1>. QED  BY <1>9, <1>10, Zenon

\* The counts of the selected candidates add up to no more than the candidates seen.
LEMMA SelectedCount ==
    ASSUME NEW C, NEW p, NEW t, NEW k, NEW n \in Nat, Selected(C, p, t, k, n)
    PROVE  /\ SelectedObservations(C) \in Nat
           /\ SelectedObservations(C) <= Cardinality(CandsAt(p, t, k, n))
<1>1. PICK A : A = CandsAt(p, t, k, n) /\ IsFiniteSet(A)
  BY NextCandidate, Zenon
<1>2. IsFiniteSet(C) /\ OnePerId(C) /\ \A c \in C : c.observed = Cardinality(At(p, t, k, n, c.id))
  BY Zenon DEF Selected
<1>3. PICK f : SelectedObservations(C) = f[C] /\ \A T \in SUBSET C : f[T] = SumStep(f, T)
  BY <1>2, SumUnfolds, Zenon
<1>. DEFINE Of(T) == {i \in A : IdAt(t, i) \in Ids(T)}
            Bad == {Cardinality(T) : T \in {U \in SUBSET C : f[U] # Cardinality(Of(U))}}
<1>4. ASSUME NEW T PROVE IsFiniteSet(Of(T)) /\ Cardinality(Of(T)) \in Nat /\ Of(T) \in SUBSET A
  <2>1. Of(T) \in SUBSET A
    BY Zenon
  <2>. HIDE DEF Of
  <2>2. IsFiniteSet(Of(T))
    BY <1>1, <2>1, FS_Subset, Zenon
  <2>. QED  BY <2>1, <2>2, FS_CardinalityType, Zenon
<1>5. ASSUME NEW T \in SUBSET C PROVE IsFiniteSet(T) /\ Cardinality(T) \in Nat
  BY <1>2, FS_Subset, FS_CardinalityType, Zenon
<1>6. Bad = {}
  <2>1. SUFFICES ASSUME Bad # {} PROVE FALSE
    BY Zenon
  <2>2. PICK m \in Bad : \A l \in Bad : m <= l
    <3>1. Bad \subseteq Nat
      <4>. HIDE DEF Of
      <4>. QED  BY <1>5, Zenon
    <3>. HIDE DEF Bad
    <3>. QED  BY <2>1, <3>1, LeastNat, Zenon
  <2>3. PICK T \in SUBSET C : m = Cardinality(T) /\ f[T] # Cardinality(Of(T))
    <3>. HIDE DEF Of
    <3>. QED  BY <2>2, Zenon
  <2>4. CASE T = {}
    <3>1. f[T] = 0
      BY <1>3, <2>4, Zenon DEF SumStep
    <3>2. Of({}) = {}
      BY Zenon DEF Ids
    <3>. HIDE DEF Of
    <3>. QED  BY <2>3, <2>4, <3>1, <3>2, FS_EmptySet, ZenonT(60)
  <2>5. CASE T # {}
    <3>1. PICK x, U, E : x = AnyOf(T) /\ U = T \ {x} /\ E = At(p, t, k, n, x.id)
      BY Zenon
    <3>2. x \in T /\ x \in C /\ U \in SUBSET C
      BY <2>5, <3>1, Zenon DEF AnyOf
    <3>3. f[T] = x.observed + f[U] /\ x.observed = Cardinality(E)
      BY <1>2, <1>3, <2>5, <3>1, <3>2, ZenonT(60) DEF SumStep
    <3>4. Cardinality(U) = Cardinality(T) - 1
      BY <1>5, <3>1, <3>2, FS_RemoveElement, ZenonT(60)
    <3>5. f[U] = Cardinality(Of(U))
      <4>1. Cardinality(U) \notin Bad
        <5>1. Cardinality(U) \in Nat /\ Cardinality(T) \in Nat
          BY <1>5, <3>2, ZenonT(60)
        <5>2. ~(m <= Cardinality(U))
          BY <2>3, <3>4, <5>1, SMTT(60)
        <5>. HIDE DEF Bad
        <5>. QED  BY <2>2, <5>2, Zenon
      <4>. HIDE DEF Of
      <4>. QED  BY <3>2, <4>1, Zenon
    <3>6. E = {i \in A : IdAt(t, i) = x.id}
      BY <1>1, <3>1, Zenon DEF At
    <3>7. E \in SUBSET A
      BY <3>6, Zenon
    <3>8. IsFiniteSet(E) /\ Cardinality(E) \in Nat
      BY <1>1, <3>7, FS_Subset, FS_CardinalityType, ZenonT(60)
    <3>9. x.id \notin Ids(U)
      BY <1>2, <3>1, <3>2, Zenon DEF Ids, OnePerId
    <3>10. \A y : y \in Ids(T) <=> y \in Ids(U) \/ y = x.id
      BY <3>1, <3>2, Zenon DEF Ids
    <3>11. Of(T) = Of(U) \cup E
      BY <3>6, <3>10, Zenon
    <3>12. Of(U) \cap E = {}
      BY <3>6, <3>9, Zenon
    <3>. HIDE DEF Of
    <3>13. Cardinality(Of(U) \cup E) = Cardinality(Of(U)) + Cardinality(E)
      <4>1. Cardinality(Of(U) \cup E) = Cardinality(Of(U)) + Cardinality(E) - Cardinality(Of(U) \cap E)
        BY <1>4, <3>8, FS_Union, SMTT(60)
      <4>2. Cardinality(Of(U) \cap E) = 0
        BY <3>12, FS_EmptySet, ZenonT(60)
      <4>. QED  BY <1>4, <3>8, <4>1, <4>2, SMTT(60)
    <3>14. f[T] = Cardinality(Of(T))
      BY <1>4, <3>3, <3>5, <3>8, <3>11, <3>13, SMTT(60)
    <3>. QED  BY <2>3, <3>14, Zenon
  <2>. QED  BY <2>4, <2>5, Zenon
<1>7. f[C] = Cardinality(Of(C))
  <2>. HIDE DEF Of
  <2>. QED  BY <1>6, Zenon
<1>8. Cardinality(Of(C)) <= Cardinality(A)
  <2>. HIDE DEF Of
  <2>. QED  BY <1>1, <1>4, FewerMembers, Zenon
<1>. HIDE DEF Of
<1>. QED  BY <1>1, <1>3, <1>4, <1>7, <1>8, ZenonT(60)

\* A canonical scan passes the checks of the code on its own counters.
LEMMA NotesAddUp ==
    ASSUME NEW s, NEW p, NEW t, NEW k, NEW n \in Nat, Canonical(s, p, t, k, n)
    PROVE  /\ ~(SelectedObservations(s.candidates) > s.candidateCount)
           /\ ClassifiedNotes(s) = s.observed
<1>1. PICK sel, size : sel = SelectedObservations(s.candidates) /\ size = Cardinality(s.candidates)
  BY Zenon
<1>2. /\ sel \in Nat /\ size \in Nat /\ sel <= s.candidateCount
  BY <1>1, SelectedCount, FS_CardinalityType, Zenon DEF Canonical, Selected
<1>3. /\ s.candidateCount \in Nat /\ s.observed \in Nat /\ s.invalidLocation \in Nat
      /\ s.malformed \in Nat /\ s.wrongMode \in Nat /\ s.unknownMode \in Nat
  BY Zenon DEF Canonical, Scans
<1>4. s.observed = s.invalidLocation + s.malformed + s.wrongMode + s.unknownMode + s.candidateCount
  BY Zenon DEF Canonical, Balanced
<1>5. ClassifiedNotes(s) = s.invalidLocation + s.malformed + s.wrongMode + s.unknownMode
                           + size + (sel - size) + (s.candidateCount - sel)
  BY <1>1, Zenon DEF ClassifiedNotes
<1>. QED  BY <1>1, <1>2, <1>3, <1>4, <1>5, SMTT(60)

-----------------------------------------------------------------------------
(* The order of the transactions. *)

\* A block lists each of its transactions once.
Lists(t, N, S) == /\ N \in Nat /\ t \in [1..N -> S]
                  /\ \A tx \in S : \E i \in 1..N : t[i] = tx
                  /\ \A i, j \in 1..N : t[i] = t[j] => i = j

LEMMA OrdersList ==
    ASSUME NEW S \in SUBSET Transactions, NEW t \in Orders(S)
    PROVE  Lists(t, Len(t), S) /\ Range(t) = S
<1>1. IsFiniteSet(S)
  BY FS_Subset, TransactionsAssumption, Zenon
<1>2. PICK N \in Nat : N = Cardinality(S)
  BY <1>1, FS_CardinalityType, Zenon
<1>3. t \in [1..N -> S] /\ Range(t) = S
  BY <1>2, Zenon DEF Orders
<1>4. Len(t) = N
  BY <1>3
<1>5. \A tx \in S : \E i \in 1..N : t[i] = tx
  BY <1>3, Zenon DEF Range
<1>6. t \in Surjection(1..N, S)
  BY <1>3, <1>5, Zenon DEF Surjection
<1>7. IsFiniteSet(1..N) /\ Cardinality(1..N) = N
  BY FS_Interval
<1>8. t \in Injection(1..N, S)
  BY <1>2, <1>6, <1>7, FS_SurjSameCardinalityImpliesInj, Zenon
<1>9. \A i, j \in 1..N : t[i] = t[j] => i = j
  BY <1>8, Zenon DEF Injection, IsInjective
<1>. QED  BY <1>3, <1>4, <1>5, <1>9, Zenon DEF Lists

\* As many places hold transactions of a set as the set has members.
LEMMA PlacesOf ==
    ASSUME NEW t, NEW N, NEW S, Lists(t, N, S), NEW Q \in SUBSET S
    PROVE  Cardinality({i \in 1..N : t[i] \in Q}) = Cardinality(Q)
<1>1. PICK X, f : X = {i \in 1..N : t[i] \in Q} /\ f = [i \in X |-> t[i]]
  BY Zenon
<1>2. N \in Nat /\ X \in SUBSET (1..N)
  BY <1>1, Zenon DEF Lists
<1>3. IsFiniteSet(X)
  <2>1. IsFiniteSet(1..N)
    BY <1>2, FS_Interval
  <2>. QED  BY <1>2, <2>1, FS_Subset, Zenon
<1>4. f \in [X -> Q]
  BY <1>1, Zenon
<1>5. ASSUME NEW tx \in Q PROVE \E i \in X : f[i] = tx
  <2>1. PICK i \in 1..N : t[i] = tx
    BY Zenon DEF Lists
  <2>. QED  BY <1>1, <2>1, Zenon
<1>6. ASSUME NEW i \in X, NEW j \in X, f[i] = f[j] PROVE i = j
  BY <1>1, <1>2, <1>6, Zenon DEF Lists
<1>7. f \in Surjection(X, Q) /\ f \in Injection(X, Q)
  BY <1>4, <1>5, <1>6, Zenon DEF Surjection, Injection, IsInjective
<1>8. Cardinality(Q) = Cardinality(X) <=> f \in Injection(X, Q)
  BY <1>3, <1>7, FS_Surjection
<1>. QED  BY <1>1, <1>7, <1>8, Zenon

CandTx(p, k, tx) ==
    /\ p /\ tx.regular /\ Len(tx.notes) = 1
    /\ ClassifyProofPayloadMode(tx.notes[1], k.qqp4) \notin {"POS", "UNKNOWN"}

IdsIn(Q) == {LogicalPowProofId(tx.notes[1]) : tx \in Q}

WithId(Q, id) == {tx \in Q : LogicalPowProofId(tx.notes[1]) = id}

\* What a scan selects by depends on the set of the transactions only.
LEMMA CountsOfSet ==
    ASSUME NEW p, NEW t, NEW N, NEW S, Lists(t, N, S), NEW k,
           NEW Q, Q = {tx \in S : CandTx(p, k, tx)}
    PROVE  /\ Cardinality(CandsAt(p, t, k, N)) = Cardinality(Q)
           /\ Seen(p, t, k, N) = IdsIn(Q)
           /\ \A id : Cardinality(At(p, t, k, N, id)) = Cardinality(WithId(Q, id))
<1>1. \A i \in 1..N : t[i] \in S
  BY Zenon DEF Lists
<1>2. \A i : Cand(p, t, k, i) <=> CandTx(p, k, t[i])
  BY Zenon DEF Cand, CandTx
<1>3. CandsAt(p, t, k, N) = {i \in 1..N : t[i] \in Q}
  BY <1>1, <1>2, Zenon DEF CandsAt
<1>4. Cardinality(CandsAt(p, t, k, N)) = Cardinality(Q)
  <2>1. Q \in SUBSET S
    BY Zenon
  <2>. QED  BY <1>3, <2>1, PlacesOf
<1>5. Seen(p, t, k, N) = IdsIn(Q)
  <2>1. ASSUME NEW y \in Seen(p, t, k, N)
        PROVE  y \in IdsIn(Q)
    <3>1. PICK i \in CandsAt(p, t, k, N) : y = LogicalPowProofId(t[i].notes[1])
      BY Zenon DEF Seen, IdAt
    <3>2. t[i] \in Q
      BY <1>3, <3>1, Zenon
    <3>. QED  BY <3>1, <3>2, Zenon DEF IdsIn
  <2>2. ASSUME NEW y \in IdsIn(Q)
        PROVE  y \in Seen(p, t, k, N)
    <3>1. PICK tx \in Q : y = LogicalPowProofId(tx.notes[1])
      BY Zenon DEF IdsIn
    <3>2. PICK i \in 1..N : t[i] = tx
      BY <3>1, Zenon DEF Lists
    <3>3. i \in CandsAt(p, t, k, N)
      BY <1>3, <3>1, <3>2, ZenonT(60)
    <3>. QED  BY <3>1, <3>2, <3>3, Zenon DEF Seen, IdAt
  <2>. QED  BY <2>1, <2>2, Zenon
<1>6. ASSUME NEW id
      PROVE  Cardinality(At(p, t, k, N, id)) = Cardinality(WithId(Q, id))
  <2>1. PICK R : R = WithId(Q, id)
    BY Zenon
  <2>2. At(p, t, k, N, id) = {i \in 1..N : t[i] \in R}
    BY <1>3, <2>1, Zenon DEF At, IdAt, WithId
  <2>3. R \in SUBSET S
    BY <2>1, Zenon DEF WithId
  <2>. QED  BY <2>1, <2>2, <2>3, PlacesOf, SMTT(60)
<1>. QED  BY <1>4, <1>5, <1>6, Zenon

\* Two orders of the same transactions select the same candidates.
LEMMA SameSelection ==
    ASSUME NEW p, NEW k, NEW t, NEW N, NEW u, NEW M, NEW S, Lists(t, N, S), Lists(u, M, S),
           NEW C \in SUBSET CandidatesOf(Payloads), Selected(C, p, t, k, N),
           NEW D \in SUBSET CandidatesOf(Payloads), Selected(D, p, u, k, M)
    PROVE  C \subseteq D
<1>1. PICK Q : Q = {tx \in S : CandTx(p, k, tx)}
  BY Zenon
<1>2. /\ Seen(p, t, k, N) = Seen(p, u, k, M)
      /\ \A id : Cardinality(At(p, t, k, N, id)) = Cardinality(At(p, u, k, M, id))
  <2>1. Seen(p, t, k, N) = IdsIn(Q)
    BY <1>1, CountsOfSet, SMTT(60)
  <2>2. Seen(p, u, k, M) = IdsIn(Q)
    BY <1>1, CountsOfSet
  <2>3. ASSUME NEW id PROVE Cardinality(At(p, t, k, N, id)) = Cardinality(At(p, u, k, M, id))
    <3>1. Cardinality(At(p, t, k, N, id)) = Cardinality(WithId(Q, id))
      BY <1>1, CountsOfSet, SMTT(60)
    <3>2. Cardinality(At(p, u, k, M, id)) = Cardinality(WithId(Q, id))
      BY <1>1, CountsOfSet
    <3>. QED  BY <3>1, <3>2, ZenonT(60)
  <2>. QED  BY <2>1, <2>2, <2>3, ZenonT(60)
<1>3. ASSUME NEW c \in C PROVE c \in D
  <2>1. Ids(C) = Ids(D)
    BY <1>2, Zenon DEF Selected
  <2>2. PICK d \in D : d.id = c.id
    <3>1. c.id \in Ids(C)
      BY Zenon DEF Ids
    <3>2. c.id \in Ids(D)
      BY <2>1, <3>1, Zenon
    <3>. QED  BY <3>2, Zenon DEF Ids
  <2>3. d.observed = c.observed
    BY <1>2, <2>2, Zenon DEF Selected
  <2>4. /\ c \in [id : IdsOf(Payloads), proof : Payloads, observed : Nat]
        /\ d \in [id : IdsOf(Payloads), proof : Payloads, observed : Nat]
        /\ c.id = LogicalPowProofId(c.proof) /\ d.id = LogicalPowProofId(d.proof)
    BY Zenon DEF CandidatesOf, IdsOf
  <2>5. d.proof = c.proof
    <3>1. c.proof \in Payloads /\ d.proof \in Payloads
      BY <2>4, Zenon
    <3>. QED  BY <2>2, <2>4, <3>1, IdentityAssumption, ZenonT(60)
  <2>6. c = d
    BY <2>2, <2>3, <2>4, <2>5, SMTT(60)
  <2>. QED  BY <2>6, Zenon
<1>. QED  BY <1>3, Zenon

\* ScanBlock scans a block canonically.
LEMMA BlockIsCanonical ==
    ASSUME NEW p, NEW k \in Contexts, NEW t, NEW N \in Nat, N = Len(t), Block(t, N)
    PROVE  Canonical(ScanBlock(p, t, k), p, t, k, N)
<1>1. PICK f : /\ f[0] = EmptyScan
               /\ \A n \in 1..N : /\ n - 1 \in 0..N
                                  /\ f[n] = ScanTransaction(f[n - 1], p, t[n], k)
               /\ ScanBlock(p, t, k) = f[N]
  <2>1. PICK f : ScanUnfolded(f, p, t, k)
    BY BlockUnfolds, Zenon
  <2>. QED  BY <2>1, Zenon DEF ScanUnfolded
<1>. DEFINE U == {n \in Nat : n <= N /\ ~Canonical(f[n], p, t, k, n)}
<1>2. U = {}
  <2>1. SUFFICES ASSUME U # {} PROVE FALSE
    BY Zenon
  <2>2. PICK m \in U : \A l \in U : m <= l
    <3>1. U \subseteq Nat
      BY Zenon
    <3>. HIDE DEF U
    <3>. QED  BY <2>1, <3>1, LeastNat, Zenon
  <2>3. m \in Nat /\ m <= N /\ ~Canonical(f[m], p, t, k, m)
    BY <2>2, Zenon
  <2>4. CASE m = 0
    BY <1>1, <2>3, <2>4, EmptyIsCanonical, ZenonT(60)
  <2>5. CASE m # 0
    <3>1. PICK n \in Nat : n = m - 1
      BY <2>3, <2>5, SMTT(60)
    <3>2. n < N /\ n <= N /\ n + 1 = m /\ m \in 1..N /\ ~(m <= n)
      BY <2>3, <2>5, <3>1, SMTT(60)
    <3>3. n \notin U
      <4>. HIDE DEF U
      <4>. QED  BY <2>2, <3>2, Zenon
    <3>4. Canonical(f[n], p, t, k, n)
      BY <3>2, <3>3, Zenon
    <3>5. f[m] = ScanTransaction(f[n], p, t[n + 1], k)
      BY <1>1, <3>1, <3>2, ZenonT(60)
    <3>6. Canonical(f[m], p, t, k, n + 1)
      BY <3>2, <3>4, <3>5, TransactionNext, ZenonT(60)
    <3>. QED  BY <2>3, <3>2, <3>6, ZenonT(60)
  <2>. QED  BY <2>4, <2>5, Zenon
<1>3. N \notin U /\ N <= N
  <2>. HIDE DEF U
  <2>. QED  BY <1>2
<1>. QED  BY <1>1, <1>3, Zenon

\* A row depends on the set of the transactions only.
LEMMA SameRow ==
    ASSUME NEW c, NEW p, NEW t, NEW u, NEW k, Range(t) = Range(u)
    PROVE  ClaimRow(c, p, t, k) = ClaimRow(c, p, u, k)
<1>1. Carriers(p, t, c.id) = Carriers(p, u, c.id)
  BY Zenon DEF Carriers
<1>. QED  BY <1>1, Zenon DEF ClaimRow

\* Canonical scans of two orders of the same transactions account the block alike.
LEMMA SameAccount ==
    ASSUME NEW p, NEW k, NEW t, NEW N, NEW u, NEW M, NEW S, Lists(t, N, S), Lists(u, M, S),
           Range(t) = Range(u),
           NEW s1, Canonical(s1, p, t, k, N), NEW s2, Canonical(s2, p, u, k, M)
    PROVE  AccountScan(s1, p, t, k) = AccountScan(s2, p, u, k)
<1>1. PICK C : C = s1.candidates
  BY Zenon
<1>2. /\ s1.candidates \in SUBSET CandidatesOf(Payloads) /\ Selected(s1.candidates, p, t, k, N)
      /\ s2.candidates \in SUBSET CandidatesOf(Payloads) /\ Selected(s2.candidates, p, u, k, M)
  BY Zenon DEF Canonical, Scans
<1>3. s2.candidates = C
  <2>1. s1.candidates \subseteq s2.candidates
    BY <1>2, SameSelection, SMTT(60)
  <2>2. s2.candidates \subseteq s1.candidates
    BY <1>2, SameSelection
  <2>. QED  BY <1>1, <2>1, <2>2, ZenonT(60)
<1>4. s1.candidateCount = s2.candidateCount
  <2>1. PICK Q : Q = {tx \in S : CandTx(p, k, tx)}
    BY Zenon
  <2>2. Cardinality(CandsAt(p, t, k, N)) = Cardinality(Q)
    BY <2>1, CountsOfSet, SMTT(60)
  <2>3. Cardinality(CandsAt(p, u, k, M)) = Cardinality(Q)
    BY <2>1, CountsOfSet
  <2>. QED  BY <2>2, <2>3, Zenon DEF Canonical
<1>5. RowsOf(C, p, t, k) = RowsOf(C, p, u, k)
  <2>1. \A c : ClaimRow(c, p, t, k) = ClaimRow(c, p, u, k)
    BY SameRow, Zenon
  <2>. QED  BY <2>1, Zenon DEF RowsOf
<1>6. PICK e : e = ElectWinner(RowsOf(C, p, t, k), k.pool)
  BY Zenon
<1>7. /\ AccountScan(s1, p, t, k) = AccountingResult(s1, e)
      /\ AccountScan(s2, p, u, k) = AccountingResult(s2, e)
  <2>1. AccountScan(s1, p, t, k) =
           AccountingResult(s1, ElectWinner(RowsOf(s1.candidates, p, t, k), k.pool))
    BY AccountingOf, Zenon
  <2>2. AccountScan(s2, p, u, k) =
           AccountingResult(s2, ElectWinner(RowsOf(s2.candidates, p, u, k), k.pool))
    BY AccountingOf, Zenon
  <2>. QED  BY <1>1, <1>3, <1>5, <1>6, <2>1, <2>2, ZenonT(60)
<1>8. ClassifiedNotes(s1) = s1.observed /\ ClassifiedNotes(s2) = s2.observed
  BY NotesAddUp, Zenon DEF Lists
<1>9. AccountingResult(s1, e) = AccountingResult(s2, e)
  BY <1>1, <1>3, <1>4, <1>8, ZenonT(60) DEF AccountingResult
<1>. QED  BY <1>7, <1>9, Zenon

\* OrderIndependent: the rows, the winner and the credits of a block are the same for every order
\* of its transactions.
THEOREM AccountingIgnoresOrder == Spec => []OrderIndependent
<1>1. ScanInv => OrderIndependent
  <2>1. SUFFICES ASSUME ScanInv, result # <<>>, NEW o \in Orders(Range(txs))
                 PROVE  AccountScan(ScanBlock(pos, o, ctx), pos, o, ctx) = result[1]
    BY Zenon DEF OrderIndependent
  <2>2. PICK p, k, t, s : p = pos /\ k = ctx /\ t = txs /\ s = scan
    BY Zenon
  <2>3. result[1] = AccountScan(s, p, t, k) /\ scanned = Len(t)
    BY <2>1, <2>2 DEF ScanInv
  <2>4. PICK S \in SUBSET Transactions : t \in Orders(S)
    BY <2>1, <2>2, Zenon DEF ScanInv, BlockOrders
  <2>5. Lists(t, Len(t), S) /\ Range(t) = S
    BY <2>4, OrdersList, Zenon
  <2>6. o \in Orders(S)
    BY <2>1, <2>2, <2>5, Zenon
  <2>7. Lists(o, Len(o), S) /\ Range(o) = S
    BY <2>6, OrdersList, Zenon
  <2>8. Canonical(s, p, t, k, Len(t)) /\ k \in Contexts
    BY <2>1, <2>2, <2>3, Zenon DEF ScanInv
  <2>9. Len(o) \in Nat /\ Block(o, Len(o))
    BY <2>7, Zenon DEF Lists, Block
  <2>10. Canonical(ScanBlock(p, o, k), p, o, k, Len(o))
    BY <2>8, <2>9, BlockIsCanonical, Zenon
  <2>11. AccountScan(s, p, t, k) = AccountScan(ScanBlock(p, o, k), p, o, k)
    BY <2>5, <2>7, <2>8, <2>10, SameAccount, SMTT(60)
  <2>. QED  BY <2>2, <2>3, <2>11, Zenon
<1>. QED  BY <1>1, ScanAlways, PTL

\* The counters by which the code refuses to account a block always add up: the accounting fails
\* only when the reimbursements exceed the pool.
THEOREM CountersAddUp ==
    Spec => [](ClassifiedNotes(scan) = scan.observed
               /\ ~(SelectedObservations(scan.candidates) > scan.candidateCount))
<1>1. ScanInv => /\ ClassifiedNotes(scan) = scan.observed
                 /\ ~(SelectedObservations(scan.candidates) > scan.candidateCount)
  BY NotesAddUp, Zenon DEF ScanInv
<1>. QED  BY <1>1, ScanAlways, PTL
=============================================================================
