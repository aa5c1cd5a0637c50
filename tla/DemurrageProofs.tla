---------------------------- MODULE DemurrageProofs ----------------------------
(***************************************************************************)
(* For every number of keys, coins and attestations, every schedule and    *)
(* every sequence of blocks and reorganisations: the record of a key is    *)
(* what a replay of the active chain gives, the inventory is exact, no     *)
(* valid block stops the node, and only an attestation revives a coin.     *)
(* What the mempool holds after a tip change the next block may carry.     *)
(***************************************************************************)
EXTENDS DemurrageMempool, TLAPS, FiniteSetTheorems

-----------------------------------------------------------------------------
(* The inductive invariant. *)

\* The active heights up to n at which the key was attested.
Attested(k, n) == {h \in 1 .. n : IsDemurrageActive(h) /\ AttestationFor(k, chain[h]) # {}}

\* The record of the attestation of a key at a height of the chain.
IsRecord(r, k, h) ==
    /\ r \in Records
    /\ r.height = h /\ r.block = SubSeq(chain, 1, h)
    /\ r.tx \in AttestationFor(k, chain[h])
    /\ IsSeriesStart(r.coverage, Attested(k, h))

\* What the chain up to the height n leaves as the record of a key.
FromChain(r, k, n) ==
    IF Attested(k, n) = {} THEN r = None
    ELSE \E h \in Attested(k, n) : (\A g \in Attested(k, n) : g <= h) /\ IsRecord(r, k, h)

Signatures == [key : Keys, target : Coins, previous : Records \cup {None}]

TypeInv ==
    /\ chain \in Hashes /\ Len(chain) \in 0 .. MaxHeight
    /\ latest \in [Keys -> Records \cup {None}]
    /\ signed \in [Attestations -> Signatures \cup {None}]

\* The attestations of a block refer to the records of its parent, one for each key.
BlockInv(h) ==
    /\ \A a \in AttestationsOf(chain[h]) : signed[a] # None
    /\ IsDemurrageActive(h) =>
         \A a \in AttestationsOf(chain[h]) :
            /\ FromChain(signed[a].previous, signed[a].key, h - 1)
            /\ \A b \in AttestationsOf(chain[h]) : signed[a].key = signed[b].key => a = b

RecordInv ==
    /\ \A k \in Keys : FromChain(latest[k], k, Height)
    /\ \A h \in 1 .. Height : BlockInv(h)

IInv == TypeInv /\ RecordInv /\ InventoryMatchesRecords
-----------------------------------------------------------------------------
(* Series of attestations. *)

\* A series has one start.
LEMMA SeriesUnique ==
    ASSUME NEW S, S \subseteq Int, NEW s, NEW t, IsSeriesStart(s, S), IsSeriesStart(t, S)
    PROVE  s = t
<1>1. ASSUME NEW x \in S, NEW y \in S, IsSeriesStart(x, S), IsSeriesStart(y, S), x < y PROVE FALSE
  <2>1. PICK q \in S : x < q /\ q <= y /\ \A p \in S : p < q => q - p >= Zero
    BY <1>1, Zenon DEF IsSeriesStart
  <2>2. PICK p \in S : x <= p /\ p < q /\ q - p < Zero
    BY <1>1, <2>1, Zenon DEF IsSeriesStart
  <2>3. q - p >= Zero
    BY <2>1, <2>2, Zenon
  <2>4. p \in Int /\ q \in Int /\ Zero \in Int
    BY ScheduleAssumption
  <2>. QED  BY <2>2, <2>3, <2>4
<1>2. s \in S /\ t \in S /\ s \in Int /\ t \in Int
  BY Zenon DEF IsSeriesStart
<1>. QED  BY <1>1, <1>2

\* The first attestation starts its series.
LEMMA SeriesBegins ==
    ASSUME NEW m \in Int
    PROVE  IsSeriesStart(m, {m})
  BY DEF IsSeriesStart

\* A later attestation goes on with the last series, or starts one when it comes too late.
LEMMA SeriesGrows ==
    ASSUME NEW S, S \subseteq Int, NEW m \in Int, \A h \in S : h < m,
           NEW l \in S, \A g \in S : g <= l, NEW s, IsSeriesStart(s, S)
    PROVE  IsSeriesStart(IF m - l < Zero THEN s ELSE m, S \cup {m})
<1>. USE ScheduleAssumption
<1>1. CASE m - l < Zero
  <2>1. s \in S /\ s <= l /\ l < m /\ s \in Int /\ l \in Int
    BY Zenon DEF IsSeriesStart
  <2>2. ASSUME NEW h \in S \cup {m}, h > s
        PROVE  \E p \in S \cup {m} : s <= p /\ p < h /\ h - p < Zero
    BY <1>1, <2>1, <2>2, Zenon DEF IsSeriesStart
  <2>3. ASSUME NEW h \in S \cup {m}, h < s
        PROVE  \E q \in S \cup {m} : h < q /\ q <= s /\ \A p \in S \cup {m} : p < q => q - p >= Zero
    <3>1. h \in S
      BY <2>1, <2>3
    <3>2. PICK q \in S : h < q /\ q <= s /\ \A p \in S : p < q => q - p >= Zero
      BY <2>3, <3>1, Zenon DEF IsSeriesStart
    <3>3. q \in Int /\ ~(m < q)
      BY <2>1, <3>2
    <3>. QED  BY <3>2, <3>3, Zenon
  <2>. QED  BY <1>1, <2>1, <2>2, <2>3, Zenon DEF IsSeriesStart
<1>2. CASE ~(m - l < Zero)
  <2>1. ASSUME NEW h \in S \cup {m} PROVE ~(h > m)
    BY <2>1
  <2>2. \A p \in S \cup {m} : p < m => m - p >= Zero
    <3>1. ASSUME NEW p \in S PROVE m - p >= Zero
      <4>1. p \in Int /\ l \in Int /\ p <= l
        BY Zenon
      <4>. QED  BY <1>2, <4>1
    <3>. QED  BY <3>1
  <2>3. ASSUME NEW h \in S \cup {m}, h < m
        PROVE  \E q \in S \cup {m} : h < q /\ q <= m /\ \A p \in S \cup {m} : p < q => q - p >= Zero
    BY <2>2, <2>3
  <2>. QED  BY <1>2, <2>1, <2>3, Zenon DEF IsSeriesStart
<1>. QED  BY <1>1, <1>2, Zenon

-----------------------------------------------------------------------------
(* Prefixes of the chain. *)

LEMMA SameSequence ==
    \A S : \A s, t \in Seq(S) : Len(s) = Len(t) /\ (\A i \in 1 .. Len(s) : s[i] = t[i]) => s = t
  OBVIOUS

\* A block that is added leaves the prefixes alone.
LEMMA AppendPrefix ==
    ASSUME NEW S, NEW s \in Seq(S), NEW e \in S, NEW h \in 0 .. Len(s)
    PROVE  /\ Append(s, e) \in Seq(S) /\ Len(Append(s, e)) = Len(s) + 1
           /\ Append(s, e)[Len(s) + 1] = e
           /\ \A i \in 1 .. Len(s) : Append(s, e)[i] = s[i]
           /\ SubSeq(Append(s, e), 1, h) = SubSeq(s, 1, h)
<1>. DEFINE t == Append(s, e)
<1>1. /\ t \in Seq(S) /\ Len(t) = Len(s) + 1 /\ t[Len(s) + 1] = e
      /\ \A i \in 1 .. Len(s) : t[i] = s[i]
  OBVIOUS
<1>. HIDE DEF t
<1>2. Len(s) \in Nat /\ h \in Nat /\ 1 \in Int /\ h \in Int /\ h - 1 + 1 = h
  OBVIOUS
<1>3. (\A i \in 1 .. h : s[i] \in S) /\ (\A i \in 1 .. h : t[i] \in S)
  BY <1>1, <1>2
<1>4. /\ SubSeq(s, 1, h) \in Seq(S) /\ Len(SubSeq(s, 1, h)) = h
      /\ \A i \in 1 .. h : SubSeq(s, 1, h)[i] = s[i]
  <2>1. /\ SubSeq(s, 1, h) \in Seq(S) /\ Len(SubSeq(s, 1, h)) = IF 1 <= h THEN h - 1 + 1 ELSE 0
        /\ \A i \in 1 .. h - 1 + 1 : SubSeq(s, 1, h)[i] = s[1 + i - 1]
    BY <1>2, <1>3
  <2>. QED  BY <1>2, <2>1
<1>5. /\ SubSeq(t, 1, h) \in Seq(S) /\ Len(SubSeq(t, 1, h)) = h
      /\ \A i \in 1 .. h : SubSeq(t, 1, h)[i] = t[i]
  <2>1. /\ SubSeq(t, 1, h) \in Seq(S) /\ Len(SubSeq(t, 1, h)) = IF 1 <= h THEN h - 1 + 1 ELSE 0
        /\ \A i \in 1 .. h - 1 + 1 : SubSeq(t, 1, h)[i] = t[1 + i - 1]
    BY <1>2, <1>3
  <2>. QED  BY <1>2, <2>1
<1>6. SubSeq(t, 1, h) = SubSeq(s, 1, h)
  <2>1. \A i \in 1 .. h : SubSeq(t, 1, h)[i] = SubSeq(s, 1, h)[i]
    BY <1>1, <1>2, <1>4, <1>5
  <2>. QED  BY <1>4, <1>5, <2>1, SameSequence, Zenon
<1>. QED  BY <1>1, <1>6, Zenon DEF t

\* A prefix of a sequence, and the prefixes of a prefix.
LEMMA PrefixIsSeq ==
    ASSUME NEW S, NEW s \in Seq(S), NEW h \in 0 .. Len(s)
    PROVE  /\ SubSeq(s, 1, h) \in Seq(S) /\ Len(SubSeq(s, 1, h)) = h
           /\ \A i \in 1 .. h : SubSeq(s, 1, h)[i] = s[i]
<1>1. Len(s) \in Nat /\ h \in Nat /\ 1 \in Int /\ h \in Int /\ h - 1 + 1 = h
  OBVIOUS
<1>2. \A i \in 1 .. h : s[i] \in S
  BY <1>1
<1>3. /\ SubSeq(s, 1, h) \in Seq(S) /\ Len(SubSeq(s, 1, h)) = IF 1 <= h THEN h - 1 + 1 ELSE 0
      /\ \A i \in 1 .. h - 1 + 1 : SubSeq(s, 1, h)[i] = s[1 + i - 1]
  BY <1>1, <1>2
<1>. QED  BY <1>1, <1>3

LEMMA PrefixOfPrefix ==
    ASSUME NEW S, NEW s \in Seq(S), NEW n \in 0 .. Len(s), NEW h \in 0 .. n
    PROVE  SubSeq(SubSeq(s, 1, n), 1, h) = SubSeq(s, 1, h)
<1>. DEFINE t == SubSeq(s, 1, n)
<1>1. t \in Seq(S) /\ Len(t) = n /\ \A i \in 1 .. n : t[i] = s[i]
  BY PrefixIsSeq, Zenon
<1>2. n \in Nat /\ h \in 0 .. Len(t) /\ h \in 0 .. Len(s) /\ h \in Nat
  BY <1>1
<1>. HIDE DEF t
<1>3. /\ SubSeq(s, 1, h) \in Seq(S) /\ Len(SubSeq(s, 1, h)) = h
      /\ \A i \in 1 .. h : SubSeq(s, 1, h)[i] = s[i]
  BY <1>2, PrefixIsSeq, Zenon
<1>4. /\ SubSeq(t, 1, h) \in Seq(S) /\ Len(SubSeq(t, 1, h)) = h
      /\ \A i \in 1 .. h : SubSeq(t, 1, h)[i] = t[i]
  BY <1>1, <1>2, PrefixIsSeq, Zenon
<1>5. \A i \in 1 .. h : SubSeq(t, 1, h)[i] = SubSeq(s, 1, h)[i]
  BY <1>1, <1>2, <1>3, <1>4
<1>6. SubSeq(t, 1, h) = SubSeq(s, 1, h)
  BY <1>3, <1>4, <1>5, SameSequence, Zenon
<1>. QED  BY <1>6, Zenon DEF t

LEMMA WholePrefix ==
    ASSUME NEW S, NEW s \in Seq(S)
    PROVE  SubSeq(s, 1, Len(s)) = s
<1>1. Len(s) \in 0 .. Len(s)
  OBVIOUS
<1>2. /\ SubSeq(s, 1, Len(s)) \in Seq(S) /\ Len(SubSeq(s, 1, Len(s))) = Len(s)
      /\ \A i \in 1 .. Len(s) : SubSeq(s, 1, Len(s))[i] = s[i]
  BY <1>1, PrefixIsSeq, Zenon
<1>. QED  BY <1>2

-----------------------------------------------------------------------------
(* What the chain leaves as the record of a key. *)

\* A step that leaves the first n blocks and their attestations alone leaves their records alone.
LEMMA SameRecords ==
    ASSUME NEW n \in Nat, NEW k \in Keys,
           \A h \in 1 .. n : SubSeq(chain, 1, h)' = SubSeq(chain, 1, h),
           \A h \in 1 .. n : IsDemurrageActive(h) =>
                AttestationFor(k, chain[h])' = AttestationFor(k, chain[h])
    PROVE  \A m \in 0 .. n : /\ Attested(k, m)' = Attested(k, m)
                             /\ \A r : FromChain(r, k, m)' <=> FromChain(r, k, m)
<1>. SUFFICES ASSUME NEW m \in 0 .. n
              PROVE  /\ Attested(k, m)' = Attested(k, m)
                     /\ \A r : FromChain(r, k, m)' <=> FromChain(r, k, m)
  BY Zenon
<1>1. ASSUME NEW j \in 0 .. n PROVE Attested(k, j)' = Attested(k, j)
  <2>1. \A h \in 1 .. j : IsDemurrageActive(h) =>
            AttestationFor(k, chain[h])' = AttestationFor(k, chain[h])
    OBVIOUS
  <2>. QED  BY <2>1, Zenon DEF Attested
<1>2. ASSUME NEW r, NEW h \in Attested(k, m) PROVE IsRecord(r, k, h)' <=> IsRecord(r, k, h)
  <2>1. h \in 1 .. n /\ h \in 0 .. n /\ IsDemurrageActive(h)
    BY DEF Attested
  <2>2. Attested(k, h)' = Attested(k, h)
    BY <1>1, <2>1, Zenon
  <2>3. /\ SubSeq(chain, 1, h)' = SubSeq(chain, 1, h)
        /\ AttestationFor(k, chain[h])' = AttestationFor(k, chain[h])
    BY <2>1, Zenon
  <2>. QED  BY <2>2, <2>3, Zenon DEF IsRecord
<1>3. ASSUME NEW r PROVE FromChain(r, k, m)' <=> FromChain(r, k, m)
  <2>1. Attested(k, m)' = Attested(k, m)
    BY <1>1, Zenon
  <2>. QED  BY <1>2, <2>1, Zenon DEF FromChain
<1>. QED  BY <1>1, <1>3, Zenon

\* A step that leaves a block, its attestations and the records below it alone.
LEMMA BlockStays ==
    ASSUME TypeInv, NEW h \in Nat, BlockInv(h), chain'[h] = chain[h],
           \A a \in AttestationsOf(chain[h]) : signed'[a] = signed[a],
           \A k \in Keys : \A r : FromChain(r, k, h - 1)' <=> FromChain(r, k, h - 1)
    PROVE  BlockInv(h)'
<1>1. AttestationsOf(chain[h])' = AttestationsOf(chain[h])
  BY Zenon DEF AttestationsOf
<1>2. ASSUME NEW a \in AttestationsOf(chain[h]), IsDemurrageActive(h)
      PROVE  FromChain(signed[a].previous, signed[a].key, h - 1)'
  <2>1. signed[a] # None /\ a \in Attestations /\ FromChain(signed[a].previous, signed[a].key, h - 1)
    BY <1>2, Zenon DEF BlockInv, AttestationsOf
  <2>2. signed[a].key \in Keys
    BY <2>1, Zenon DEF TypeInv, Signatures
  <2>3. PICK q, j : q = signed[a].previous /\ j = signed[a].key
    BY Zenon
  <2>4. FromChain(q, j, h - 1)'
    BY <2>1, <2>2, <2>3, Zenon
  <2>. QED  BY <2>3, <2>4, Zenon
<1>. QED  BY <1>1, <1>2, Zenon DEF BlockInv

\* The record of a key names the last attestation and the start of its series.
LEMMA RecordShape ==
    ASSUME NEW k \in Keys, NEW n \in Nat, NEW r, FromChain(r, k, n)
    PROVE  \/ Attested(k, n) = {} /\ r = None
           \/ /\ r \in Records /\ r # None
              /\ r.height \in Attested(k, n) /\ \A g \in Attested(k, n) : g <= r.height
              /\ r.block = SubSeq(chain, 1, r.height)
              /\ r.tx \in AttestationFor(k, chain[r.height])
              /\ IsSeriesStart(r.coverage, Attested(k, n))
<1>1. CASE Attested(k, n) = {}
  BY <1>1, Zenon DEF FromChain
<1>2. CASE Attested(k, n) # {}
  <2>1. PICK h \in Attested(k, n) : (\A g \in Attested(k, n) : g <= h) /\ IsRecord(r, k, h)
    BY <1>2, Zenon DEF FromChain
  <2>2. Attested(k, h) = Attested(k, n)
    <3>1. h \in 1 .. n
      BY Zenon DEF Attested
    <3>2. \A g \in Attested(k, n) : g \in 1 .. h
      BY <2>1, <3>1 DEF Attested
    <3>. QED  BY <3>1, <3>2 DEF Attested
  <2>3. r \in Records /\ r.height = h
    BY <2>1, Zenon DEF IsRecord
  <2>4. r # None
    BY <2>3, RecordAssumption, Zenon
  <2>. QED  BY <2>1, <2>2, <2>3, <2>4, Zenon DEF IsRecord
<1>. QED  BY <1>1, <1>2, Zenon

\* An attestation that refers to the record of the chain below it goes on with the last series of
\* its key, or starts one.
LEMMA CoverageIsSeriesStart ==
    ASSUME NEW S, S \subseteq Int, NEW h \in Int, \A g \in S : g < h,
           NEW attestation,
           \/ S = {} /\ attestation.previous = None
           \/ /\ attestation.previous # None /\ attestation.previous.height \in S
              /\ \A g \in S : g <= attestation.previous.height
              /\ IsSeriesStart(attestation.previous.coverage, S)
    PROVE  IsSeriesStart(AttestationCoverageStart(attestation, h), S \cup {h})
<1>1. CASE S = {} /\ attestation.previous = None
  <2>1. AttestationCoverageStart(attestation, h) = h /\ S \cup {h} = {h}
    BY <1>1, Zenon DEF AttestationCoverageStart
  <2>. QED  BY <2>1, SeriesBegins, Zenon
<1>2. CASE /\ attestation.previous # None /\ attestation.previous.height \in S
           /\ \A g \in S : g <= attestation.previous.height
           /\ IsSeriesStart(attestation.previous.coverage, S)
  <2>. DEFINE l == attestation.previous.height
              c == attestation.previous.coverage
  <2>1. AttestationCoverageStart(attestation, h) = IF h - l < Zero THEN c ELSE h
    BY <1>2, Zenon DEF AttestationCoverageStart
  <2>2. l \in S /\ (\A g \in S : g <= l) /\ IsSeriesStart(c, S)
    BY <1>2, Zenon
  <2>. HIDE DEF l, c
  <2>3. IsSeriesStart(IF h - l < Zero THEN c ELSE h, S \cup {h})
    BY <2>2, SeriesGrows, Zenon
  <2>. QED  BY <2>1, <2>3, Zenon
<1>. QED  BY <1>1, <1>2, Zenon

\* The heights at which a key is attested are below the tip.
LEMMA AttestedBound ==
    ASSUME NEW k, NEW n \in Nat
    PROVE  /\ Attested(k, n) \subseteq Int /\ \A g \in Attested(k, n) : g < n + 1
           /\ Attested(k, n + 1) =
                IF IsDemurrageActive(n + 1) /\ AttestationFor(k, chain[n + 1]) # {}
                THEN Attested(k, n) \cup {n + 1} ELSE Attested(k, n)
           /\ ~IsDemurrageActive(n) => Attested(k, n) = {}
<1>1. Attested(k, n) \subseteq Int /\ \A g \in Attested(k, n) : g < n + 1
  BY DEF Attested
<1>2. \A h \in Int : h \in 1 .. (n + 1) <=> h \in 1 .. n \/ h = n + 1
  OBVIOUS
<1>3. ASSUME ~IsDemurrageActive(n) PROVE Attested(k, n) = {}
  BY <1>3, ScheduleAssumption DEF Attested, IsDemurrageActive
<1>4. CASE IsDemurrageActive(n + 1) /\ AttestationFor(k, chain[n + 1]) # {}
  BY <1>1, <1>2, <1>3, <1>4 DEF Attested
<1>5. CASE ~(IsDemurrageActive(n + 1) /\ AttestationFor(k, chain[n + 1]) # {})
  BY <1>1, <1>2, <1>3, <1>5 DEF Attested
<1>. QED  BY <1>1, <1>3, <1>4, <1>5, Zenon
-----------------------------------------------------------------------------
(* The inventory of the records. *)

Live(map) == {i \in Keys : map[i] # None}

\* There is one leaf for each key that has a record.
LEMMA LeavesCount ==
    ASSUME NEW map
    PROVE  /\ IsFiniteSet(Live(map)) /\ Cardinality(Live(map)) \in Nat
           /\ Cardinality(Leaves(map)) = Cardinality(Live(map))
<1>1. IsFiniteSet(Live(map)) /\ Cardinality(Live(map)) \in Nat
  <2>1. Live(map) \in SUBSET Keys
    BY Zenon DEF Live
  <2>2. IsFiniteSet(Live(map))
    BY <2>1, RecordAssumption, FS_Subset, Zenon
  <2>. QED  BY <2>2, FS_CardinalityType, Zenon
<1>. DEFINE f == [k \in Live(map) |-> <<k, map[k]>>]
<1>2. f \in [Live(map) -> Leaves(map)]
  BY Zenon DEF Leaves, Live
<1>3. \A x \in Leaves(map) : \E k \in Live(map) : f[k] = x
  BY Zenon DEF Leaves, Live
<1>4. \A j, k \in Live(map) : f[j] = f[k] => j = k
  BY Zenon
<1>5. f \in Bijection(Live(map), Leaves(map))
  <2>. HIDE DEF f
  <2>. QED  BY <1>2, <1>3, <1>4, Zenon DEF Bijection, Injection, Surjection, IsInjective
<1>6. ExistsBijection(Live(map), Leaves(map))
  BY <1>5, Zenon DEF ExistsBijection
<1>. QED  BY <1>1, <1>6, FS_Bijection, Zenon

\* The count grows by the keys that had no record.
LEMMA CountGrows ==
    ASSUME NEW m, NEW n, NEW F \in SUBSET Keys,
           Live(n) = Live(m) \cup F, Live(m) \cap F = {}
    PROVE  /\ Cardinality(Leaves(n)) = Cardinality(Leaves(m)) + Cardinality(F)
           /\ Cardinality(F) \in Nat
<1>1. IsFiniteSet(F) /\ Cardinality(F) \in Nat
  <2>1. IsFiniteSet(F)
    BY RecordAssumption, FS_Subset, Zenon
  <2>. QED  BY <2>1, FS_CardinalityType, Zenon
<1>2. IsFiniteSet(Live(m)) /\ Cardinality(Live(m)) \in Nat
  BY LeavesCount, Zenon
<1>3. Cardinality(Live(m) \cup F) = Cardinality(Live(m)) + Cardinality(F) - Cardinality(Live(m) \cap F)
  BY <1>1, <1>2, FS_Union, Zenon
<1>4. Cardinality(Live(m) \cap F) = 0
  BY FS_EmptySet, Zenon
<1>5. Cardinality(Live(n)) = Cardinality(Live(m)) + Cardinality(F)
  BY <1>1, <1>2, <1>3, <1>4
<1>. QED  BY <1>1, <1>5, LeavesCount, Zenon

\* The pairs and the missing records of the keys R.
Pairs(m, R) == {<<k, m[k]>> : k \in R}
Missing(m, R) == {k \in R : m[k] = None}

\* Only the records of R differ, and all of them are there in n.
Replaces(m, n, R) == (\A k \in Keys \ R : n[k] = m[k]) /\ \A k \in R : n[k] # None

\* ApplyAttestationInventoryTransition for the keys R, which get a record.
LEMMA InventoryGrows ==
    ASSUME NEW m, NEW n, NEW R \in SUBSET Keys, Replaces(m, n, R)
    PROVE  /\ Leaves(n) = (Leaves(m) \ Pairs(m, R)) \cup Pairs(n, R)
           /\ Cardinality(Leaves(n)) = Cardinality(Leaves(m)) + Cardinality(Missing(m, R))
<1>. DEFINE F == Missing(m, R)
            old == Pairs(m, R)
            new == Pairs(n, R)
<1>. USE DEF Replaces, Pairs, Missing
<1>1. ASSUME NEW x
      PROVE  x \in Leaves(n) <=> x \in (Leaves(m) \ old) \cup new
  <2>1. ASSUME x \in Leaves(n)
        PROVE  x \in (Leaves(m) \ old) \cup new
    <3>1. PICK k \in Keys : n[k] # None /\ x = <<k, n[k]>>
      BY <2>1, Zenon DEF Leaves
    <3>2. CASE k \in R
      BY <3>1, <3>2, Zenon
    <3>3. CASE k \notin R
      <4>1. x \in Leaves(m)
        BY <3>1, <3>3, Zenon DEF Leaves
      <4>2. \A j \in R : x # <<j, m[j]>>
        BY <3>1, <3>3, Zenon
      <4>. QED  BY <4>1, <4>2, Zenon
    <3>. QED  BY <3>2, <3>3, Zenon
  <2>2. ASSUME x \in Leaves(m) \ old PROVE x \in Leaves(n)
    <3>1. PICK k \in Keys : m[k] # None /\ x = <<k, m[k]>>
      BY <2>2, Zenon DEF Leaves
    <3>2. k \notin R
      BY <2>2, <3>1, Zenon
    <3>. QED  BY <3>1, <3>2, Zenon DEF Leaves
  <2>3. ASSUME x \in new PROVE x \in Leaves(n)
    BY <2>3, Zenon DEF Leaves
  <2>. QED  BY <2>1, <2>2, <2>3, Zenon
<1>2. Cardinality(Leaves(n)) = Cardinality(Leaves(m)) + Cardinality(F)
  <2>1. F \in SUBSET Keys /\ Live(n) = Live(m) \cup F /\ Live(m) \cap F = {}
    BY Zenon DEF Live
  <2>. HIDE DEF F
  <2>. QED  BY <2>1, CountGrows, Zenon
<1>. QED  BY <1>1, <1>2, Zenon

\* The transition back, for keys that had a record.
LEMMA InventoryShrinks ==
    ASSUME NEW m, NEW n, NEW R \in SUBSET Keys, Replaces(n, m, R)
    PROVE  /\ Leaves(n) = (Leaves(m) \ Pairs(m, R)) \cup Pairs(n, R \ Missing(n, R))
           /\ Cardinality(Leaves(n)) = Cardinality(Leaves(m)) - Cardinality(Missing(n, R))
           /\ Cardinality(Leaves(n)) \in Nat
<1>. DEFINE F == Missing(n, R)
            old == Pairs(m, R)
            new == Pairs(n, R \ F)
<1>. USE DEF Replaces, Pairs, Missing
<1>1. ASSUME NEW x
      PROVE  x \in Leaves(n) <=> x \in (Leaves(m) \ old) \cup new
  <2>1. ASSUME x \in Leaves(n)
        PROVE  x \in (Leaves(m) \ old) \cup new
    <3>1. PICK k \in Keys : n[k] # None /\ x = <<k, n[k]>>
      BY <2>1, Zenon DEF Leaves
    <3>2. CASE k \in R
      BY <3>1, <3>2, Zenon
    <3>3. CASE k \notin R
      <4>1. x \in Leaves(m)
        BY <3>1, <3>3, Zenon DEF Leaves
      <4>2. \A j \in R : x # <<j, m[j]>>
        BY <3>1, <3>3, Zenon
      <4>. QED  BY <4>1, <4>2, Zenon
    <3>. QED  BY <3>2, <3>3, Zenon
  <2>2. ASSUME x \in Leaves(m) \ old PROVE x \in Leaves(n)
    <3>1. PICK k \in Keys : m[k] # None /\ x = <<k, m[k]>>
      BY <2>2, Zenon DEF Leaves
    <3>2. k \notin R
      BY <2>2, <3>1, Zenon
    <3>. QED  BY <3>1, <3>2, Zenon DEF Leaves
  <2>3. ASSUME x \in new PROVE x \in Leaves(n)
    BY <2>3, Zenon DEF Leaves
  <2>. QED  BY <2>1, <2>2, <2>3, Zenon
<1>2. /\ Cardinality(Leaves(m)) = Cardinality(Leaves(n)) + Cardinality(F) /\ Cardinality(F) \in Nat
  <2>1. F \in SUBSET Keys /\ Live(m) = Live(n) \cup F /\ Live(n) \cap F = {}
    BY Zenon DEF Live
  <2>. HIDE DEF F
  <2>. QED  BY <2>1, CountGrows, Zenon
<1>3. Cardinality(Leaves(n)) \in Nat /\ Cardinality(Leaves(m)) \in Nat
  BY LeavesCount, Zenon
<1>4. Cardinality(Leaves(n)) = Cardinality(Leaves(m)) - Cardinality(F)
  <2>. HIDE DEF F
  <2>. QED  BY <1>2, <1>3
<1>. QED  BY <1>1, <1>3, <1>4, Zenon
-----------------------------------------------------------------------------
(* The invariant. *)

LEMMA InitIInv == Init => IInv
<1>. SUFFICES ASSUME Init PROVE IInv
  BY Zenon
<1>. USE DEF Init
<1>1. chain \in Hashes /\ Len(chain) = 0 /\ Height = 0
  BY DEF Hashes, Height
<1>2. TypeInv
  BY <1>1, ScheduleAssumption DEF TypeInv
<1>3. \A k \in Keys : Attested(k, 0) = {}
  BY DEF Attested
<1>4. RecordInv
  BY <1>1, <1>3 DEF RecordInv, FromChain
<1>5. Leaves(latest) = {} /\ Cardinality(Leaves(latest)) = 0
  BY FS_EmptySet, Zenon DEF Leaves
<1>6. InventoryMatchesRecords
  <2>1. IsDemurrageActive(Height + 1) <=> IsDemurrageActive(1)
    BY <1>1
  <2>. QED  BY <1>5, <2>1, Zenon DEF InventoryMatchesRecords, EmptyInventory
<1>. QED  BY <1>2, <1>4, <1>6, Zenon DEF IInv

\* The chain after a block is connected.
LEMMA ConnectChain ==
    ASSUME IInv, NEW block \in SUBSET (Attestations \cup Moves), ConnectBlock(block), NEW n, n = Height
    PROVE  /\ n \in Nat /\ Height' = n + 1 /\ n + 1 \in 1 .. MaxHeight /\ n + 1 \in 0 .. MaxHeight
           /\ chain' = Append(chain, block) /\ Len(chain') = n + 1
           /\ chain' \in Hashes /\ chain'[n + 1] = block /\ signed' = signed
           /\ \A h \in 1 .. n : chain'[h] = chain[h] /\ SubSeq(chain, 1, h)' = SubSeq(chain, 1, h)
           /\ SubSeq(chain, 1, n + 1)' = chain'
<1>1. chain \in Seq(SUBSET (Attestations \cup Moves)) /\ Len(chain) \in Nat /\ n = Len(chain) /\ n < MaxHeight
  BY DEF IInv, TypeInv, Hashes, Height, ConnectBlock, Valid
<1>2. chain' = Append(chain, block) /\ signed' = signed
  BY Zenon DEF ConnectBlock
<1>3. /\ chain' \in Seq(SUBSET (Attestations \cup Moves)) /\ Len(chain') = n + 1 /\ chain'[n + 1] = block
      /\ \A h \in 1 .. n : chain'[h] = chain[h] /\ SubSeq(chain', 1, h) = SubSeq(chain, 1, h)
  BY <1>1, <1>2, AppendPrefix
<1>4. SubSeq(chain', 1, n + 1) = chain'
  BY <1>3, WholePrefix, Zenon
<1>5. Height' = Len(chain') /\ n + 1 \in 1 .. MaxHeight /\ n + 1 \in 0 .. MaxHeight
  BY <1>1, ScheduleAssumption DEF Height
<1>. QED  BY <1>1, <1>2, <1>3, <1>4, <1>5, Zenon DEF Hashes

\* What the block below leaves as records is left alone.
LEMMA ConnectBelow ==
    ASSUME IInv, NEW block \in SUBSET (Attestations \cup Moves), ConnectBlock(block), NEW n, n = Height,
           NEW k \in Keys
    PROVE  \A m \in 0 .. n : /\ Attested(k, m)' = Attested(k, m)
                             /\ \A r : FromChain(r, k, m)' <=> FromChain(r, k, m)
<1>1. /\ n \in Nat
      /\ \A h \in 1 .. n : chain'[h] = chain[h] /\ SubSeq(chain, 1, h)' = SubSeq(chain, 1, h)
      /\ signed' = signed
  BY ConnectChain, Zenon
<1>2. \A h \in 1 .. n : AttestationFor(k, chain[h])' = AttestationFor(k, chain[h])
  BY <1>1, Zenon DEF AttestationFor, AttestationsOf
<1>. QED  BY <1>1, <1>2, SameRecords, Zenon

\* The record that ApplyDemurrageBlock writes for a key that the block attests.
LEMMA ConnectRecord ==
    ASSUME IInv, NEW block \in SUBSET (Attestations \cup Moves), ConnectBlock(block), NEW n, n = Height,
           IsDemurrageActive(n + 1), NEW k \in Keys, NEW a \in AttestationFor(k, block),
           NEW r, r = RecordOf(a, Append(chain, block))
    PROVE  r \in Records /\ FromChain(r, k, n + 1)'
<1>1. /\ n \in Nat /\ chain' = Append(chain, block) /\ Len(chain') = n + 1 /\ n + 1 \in 1 .. MaxHeight
      /\ chain' \in Hashes /\ chain'[n + 1] = block /\ signed' = signed /\ SubSeq(chain, 1, n + 1)' = chain'
  BY ConnectChain, Zenon
<1>2. a \in Attestations /\ a \in block /\ signed[a].key = k /\ signed[a].previous = latest[k]
  BY Zenon DEF ConnectBlock, Valid, CheckDemurrageAttestations, PreviousAllowed, AttestationFor, AttestationsOf
<1>3. AttestationFor(k, chain[n + 1])' = AttestationFor(k, block)
  BY <1>1, Zenon DEF AttestationFor, AttestationsOf
<1>4. Attested(k, n)' = Attested(k, n)
  <2>1. n \in 0 .. n
    BY <1>1
  <2>. QED  BY <2>1, ConnectBelow, Zenon
<1>5. Attested(k, n) \subseteq Int /\ \A g \in Attested(k, n) : g < n + 1
  BY <1>1, AttestedBound, Zenon
<1>6. Attested(k, n + 1)' = Attested(k, n) \cup {n + 1}
  <2>1. ASSUME NEW h
        PROVE  h \in Attested(k, n + 1)' <=> h \in Attested(k, n)' \/ h = n + 1
    <3>1. h \in 1 .. (n + 1) <=> h \in 1 .. n \/ h = n + 1
      BY <1>1
    <3>2. AttestationFor(k, chain[n + 1])' # {}
      BY <1>3, Zenon
    <3>. QED  BY <3>1, <3>2, Zenon DEF Attested
  <2>. QED  BY <1>4, <2>1
<1>7. IsSeriesStart(AttestationCoverageStart(signed[a], n + 1), Attested(k, n) \cup {n + 1})
  <2>1. FromChain(latest[k], k, n)
    BY Zenon DEF IInv, RecordInv
  <2>2. \/ Attested(k, n) = {} /\ latest[k] = None
        \/ /\ latest[k] \in Records /\ latest[k] # None
           /\ latest[k].height \in Attested(k, n) /\ \A g \in Attested(k, n) : g <= latest[k].height
           /\ IsSeriesStart(latest[k].coverage, Attested(k, n))
    BY <1>1, <2>1, RecordShape
  <2>3. n + 1 \in Int
    BY <1>1
  <2>. QED  BY <1>2, <1>5, <2>2, <2>3, CoverageIsSeriesStart, Zenon
<1>8. /\ r = [height |-> n + 1, coverage |-> AttestationCoverageStart(signed[a], n + 1), block |-> chain', tx |-> a]
  BY <1>1, Zenon DEF RecordOf
<1>9. AttestationCoverageStart(signed[a], n + 1) \in 1 .. MaxHeight
  <2>1. AttestationCoverageStart(signed[a], n + 1) \in Attested(k, n) \cup {n + 1}
    BY <1>7, Zenon DEF IsSeriesStart
  <2>2. \A g \in Attested(k, n) : g \in 1 .. n
    BY Zenon DEF Attested
  <2>3. 1 .. n \subseteq 1 .. MaxHeight
    BY <1>1, ScheduleAssumption
  <2>. QED  BY <1>1, <2>1, <2>2, <2>3, Zenon
<1>10. r \in Records
  BY <1>1, <1>2, <1>8, <1>9 DEF Records
<1>11. IsRecord(r, k, n + 1)'
  <2>1. r.height = n + 1 /\ r.block = SubSeq(chain, 1, n + 1)' /\ r.tx = a
        /\ r.coverage = AttestationCoverageStart(signed[a], n + 1)
    BY <1>1, <1>8
  <2>2. r.tx \in AttestationFor(k, chain[n + 1])'
    BY <1>3, <2>1, Zenon
  <2>3. IsSeriesStart(r.coverage, Attested(k, n + 1)')
    BY <1>6, <1>7, <2>1, Zenon
  <2>. QED  BY <1>10, <2>1, <2>2, <2>3, Zenon DEF IsRecord
<1>12. FromChain(r, k, n + 1)'
  <2>1. n + 1 \in Attested(k, n + 1)'
    BY <1>6, Zenon
  <2>2. \A g \in Attested(k, n + 1)' : g <= n + 1
    BY <1>1, <1>5, <1>6
  <2>. QED  BY <1>11, <2>1, <2>2, Zenon DEF FromChain
<1>. QED  BY <1>10, <1>12, Zenon

\* The record of every key after a block is connected.
LEMMA ConnectLatest ==
    ASSUME IInv, NEW block \in SUBSET (Attestations \cup Moves), ConnectBlock(block), NEW n, n = Height,
           NEW k \in Keys
    PROVE  latest'[k] \in Records \cup {None} /\ FromChain(latest[k], k, n + 1)'
<1>1. /\ n \in Nat /\ chain'[n + 1] = block /\ signed' = signed /\ n \in 0 .. n
  BY ConnectChain
<1>2. FromChain(latest[k], k, n) /\ latest[k] \in Records \cup {None}
  BY Zenon DEF IInv, RecordInv, TypeInv
<1>4. AttestationFor(k, chain[n + 1])' = AttestationFor(k, block)
  BY <1>1, Zenon DEF AttestationFor, AttestationsOf
<1>5. CASE IsDemurrageActive(n + 1) /\ AttestationFor(k, block) # {}
  <2>. DEFINE a == CHOOSE a \in AttestationFor(k, block) : TRUE
  <2>1. a \in AttestationFor(k, block)
    BY <1>5, Zenon
  <2>2. latest'[k] = RecordOf(a, Append(chain, block))
    BY <1>5, Zenon DEF ConnectBlock, ApplyDemurrageBlock, LatestAfter
  <2>. HIDE DEF a
  <2>3. PICK r : r = RecordOf(a, Append(chain, block))
    BY Zenon
  <2>4. r \in Records /\ FromChain(r, k, n + 1)'
    BY <1>5, <2>1, <2>3, ConnectRecord, Zenon
  <2>. QED  BY <2>2, <2>3, <2>4, Zenon
<1>6. CASE ~(IsDemurrageActive(n + 1) /\ AttestationFor(k, block) # {})
  <2>1. latest'[k] = latest[k]
    BY <1>6, Zenon DEF ConnectBlock, ApplyDemurrageBlock, LatestAfter
  <2>2. Attested(k, n + 1)' = Attested(k, n)'
    <3>1. ASSUME NEW h
          PROVE  h \in Attested(k, n + 1)' <=> h \in Attested(k, n)'
      <4>1. h \in 1 .. (n + 1) <=> h \in 1 .. n \/ h = n + 1
        BY <1>1
      <4>2. ~(IsDemurrageActive(n + 1) /\ AttestationFor(k, chain[n + 1])' # {})
        BY <1>4, <1>6, Zenon
      <4>. QED  BY <4>1, <4>2, Zenon DEF Attested
    <3>. QED  BY <3>1, Zenon
  <2>3. PICK r : r = latest[k] /\ FromChain(r, k, n)
    BY <1>2, Zenon
  <2>4. \A q : FromChain(q, k, n)' <=> FromChain(q, k, n)
    BY <1>1, ConnectBelow, Zenon
  <2>5. \A q : FromChain(q, k, n + 1)' <=> FromChain(q, k, n)'
    BY <2>2, Zenon DEF FromChain
  <2>6. FromChain(r, k, n + 1)'
    BY <2>3, <2>4, <2>5, Zenon
  <2>. QED  BY <1>2, <2>1, <2>3, <2>6, Zenon
<1>. QED  BY <1>5, <1>6, Zenon

LEMMA ConnectRecords ==
    ASSUME IInv, NEW block \in SUBSET (Attestations \cup Moves), ConnectBlock(block)
    PROVE  TypeInv' /\ RecordInv'
<1>1. PICK n : n = Height
  BY Zenon
<1>2. /\ n \in Nat /\ Height' = n + 1 /\ n + 1 \in 0 .. MaxHeight /\ Len(chain') = n + 1
      /\ chain' \in Hashes /\ chain'[n + 1] = block /\ signed' = signed
      /\ \A h \in 1 .. n : chain'[h] = chain[h]
  BY <1>1, ConnectChain, Zenon
<1>3. \A k \in Keys : latest'[k] \in Records \cup {None} /\ FromChain(latest[k], k, n + 1)'
  BY <1>1, ConnectLatest, Zenon
<1>4. latest' \in [Keys -> Records \cup {None}]
  <2>1. latest' = [k \in Keys |-> latest'[k]]
    BY Zenon DEF ConnectBlock, ApplyDemurrageBlock, LatestAfter, IInv, TypeInv
  <2>. QED  BY <1>3, <2>1, Zenon
<1>5. TypeInv'
  BY <1>2, <1>4, Zenon DEF IInv, TypeInv
<1>6. \A k \in Keys : \A m \in 0 .. n : \A r : FromChain(r, k, m)' <=> FromChain(r, k, m)
  BY <1>1, ConnectBelow, Zenon
<1>7. ASSUME NEW h \in 1 .. n PROVE BlockInv(h)'
  <2>1. BlockInv(h) /\ chain'[h] = chain[h] /\ h - 1 \in 0 .. n
    BY <1>1, <1>2 DEF IInv, RecordInv
  <2>2. \A k \in Keys : \A r : FromChain(r, k, h - 1)' <=> FromChain(r, k, h - 1)
    BY <1>6, <2>1, Zenon
  <2>3. TypeInv /\ h \in Nat /\ \A a \in AttestationsOf(chain[h]) : signed'[a] = signed[a]
    BY <1>2 DEF IInv
  <2>. QED  BY <2>1, <2>2, <2>3, BlockStays, Zenon
<1>8. BlockInv(n + 1)'
  <2>1. AttestationsOf(chain[n + 1])' = AttestationsOf(block)
    BY <1>2, Zenon DEF AttestationsOf
  <2>2. \A a \in AttestationsOf(block) : signed[a] # None
    BY Zenon DEF ConnectBlock, Valid
  <2>3. ASSUME IsDemurrageActive(n + 1), NEW a \in AttestationsOf(block)
        PROVE  /\ FromChain(signed[a].previous, signed[a].key, (n + 1) - 1)'
               /\ \A b \in AttestationsOf(block) : signed[a].key = signed[b].key => a = b
    <3>1. /\ signed[a].previous = latest[signed[a].key]
          /\ \A b \in AttestationsOf(block) : signed[a].key = signed[b].key => a = b
      BY <1>1, <2>3, Zenon DEF ConnectBlock, Valid, CheckDemurrageAttestations, PreviousAllowed
    <3>2. signed[a].key \in Keys
      BY <2>2, Zenon DEF IInv, TypeInv, Signatures, AttestationsOf
    <3>3. PICK q, j : q = signed[a].previous /\ j = signed[a].key
      BY Zenon
    <3>4. FromChain(q, j, n)
      BY <1>1, <3>1, <3>2, <3>3, Zenon DEF IInv, RecordInv
    <3>5. n \in 0 .. n /\ (n + 1) - 1 = n
      BY <1>2
    <3>6. FromChain(q, j, n)'
      BY <1>6, <3>2, <3>3, <3>4, <3>5, Zenon
    <3>. QED  BY <1>2, <3>1, <3>3, <3>5, <3>6, Zenon
  <2>. QED  BY <1>2, <2>1, <2>2, <2>3, Zenon DEF BlockInv
<1>9. RecordInv'
  <2>1. \A h \in 1 .. (n + 1) : BlockInv(h)'
    BY <1>2, <1>7, <1>8
  <2>2. \A k \in Keys : FromChain(latest[k], k, Height)'
    BY <1>2, <1>3, Zenon
  <2>. QED  BY <1>2, <2>1, <2>2, Zenon DEF RecordInv
<1>. QED  BY <1>5, <1>9, Zenon

\* The inventory after a block is connected.
LEMMA ConnectInventory ==
    ASSUME IInv, NEW block \in SUBSET (Attestations \cup Moves), ConnectBlock(block)
    PROVE  InventoryMatchesRecords'
<1>1. PICK n : n = Height
  BY Zenon
<1>2. n \in Nat /\ Height' = n + 1 /\ chain' = Append(chain, block)
  BY <1>1, ConnectChain, Zenon
<1>3. CASE IsDemurrageActive(n + 1)
  <2>1. latest' = LatestAfter(block) /\ inventory' = InventoryAfter(block)
    BY <1>1, <1>3, Zenon DEF ConnectBlock, ApplyDemurrageBlock
  <2>2. inventory = [tip |-> chain, live |-> Leaves(latest), count |-> Cardinality(Leaves(latest))]
    BY <1>1, <1>3, Zenon DEF IInv, InventoryMatchesRecords
  <2>. DEFINE R == {k \in Keys : AttestationFor(k, block) # {}}
              F == {k \in R : latest[k] = None}
  <2>3. \A k \in Keys \ R : latest'[k] = latest[k]
    BY <2>1, Zenon DEF LatestAfter
  <2>4. ASSUME NEW k \in R PROVE latest'[k] # None
    <3>1. PICK a : a = CHOOSE att \in AttestationFor(k, block) : TRUE
      BY Zenon
    <3>2. a \in AttestationFor(k, block)
      BY <3>1, Zenon
    <3>3. latest'[k] = RecordOf(a, Append(chain, block))
      BY <2>1, <3>1, Zenon DEF LatestAfter
    <3>4. RecordOf(a, Append(chain, block)) \in Records
      BY <1>1, <1>3, <3>2, ConnectRecord, Zenon
    <3>. QED  BY <3>3, <3>4, RecordAssumption, Zenon
  <2>5. inventory' = [tip |-> chain',
                      live |-> (Leaves(latest) \ {<<k, latest[k]>> : k \in R}) \cup {<<k, latest'[k]>> : k \in R},
                      count |-> Cardinality(Leaves(latest)) + Cardinality(F)]
    BY <1>2, <2>1, <2>2, Zenon DEF InventoryAfter
  <2>6. R \in SUBSET Keys
    BY Zenon
  <2>. HIDE DEF R
  <2>7. /\ Leaves(latest') = (Leaves(latest) \ {<<k, latest[k]>> : k \in R}) \cup {<<k, latest'[k]>> : k \in R}
        /\ Cardinality(Leaves(latest')) = Cardinality(Leaves(latest)) + Cardinality(F)
    <3>1. PICK m, l : m = latest /\ l = latest'
      BY Zenon
    <3>2. Replaces(m, l, R)
      BY <2>3, <2>4, <3>1, Zenon DEF Replaces
    <3>3. /\ Leaves(l) = (Leaves(m) \ Pairs(m, R)) \cup Pairs(l, R)
          /\ Cardinality(Leaves(l)) = Cardinality(Leaves(m)) + Cardinality(Missing(m, R))
      BY <2>6, <3>2, InventoryGrows, Zenon
    <3>. QED  BY <3>1, <3>3, Zenon DEF Pairs, Missing
  <2>8. inventory' = [tip |-> chain', live |-> Leaves(latest'), count |-> Cardinality(Leaves(latest'))]
    BY <2>5, <2>7, Zenon
  <2>9. Leaves(latest)' = Leaves(latest')
    BY Zenon DEF Leaves
  <2>10. IsDemurrageActive(Height + 1)'
    BY <1>2, <1>3, ScheduleAssumption DEF IsDemurrageActive
  <2>. QED  BY <2>8, <2>9, <2>10, Zenon DEF InventoryMatchesRecords
<1>4. CASE ~IsDemurrageActive(n + 1)
  <2>1. /\ latest' = latest
        /\ inventory' = IF IsDemurrageActive(n + 2) THEN EmptyInventory(Append(chain, block)) ELSE inventory
    BY <1>1, <1>4, Zenon DEF ConnectBlock, ApplyDemurrageBlock
  <2>2. inventory = None
    BY <1>1, <1>4, Zenon DEF IInv, InventoryMatchesRecords
  <2>3. ASSUME NEW k \in Keys PROVE latest[k] = None
    <3>1. ~IsDemurrageActive(n)
      BY <1>2, <1>4, ScheduleAssumption DEF IsDemurrageActive
    <3>2. Attested(k, n) = {}
      BY <1>2, <3>1, AttestedBound, Zenon
    <3>. QED  BY <1>1, <3>2, Zenon DEF IInv, RecordInv, FromChain
  <2>4. Leaves(latest)' = {} /\ Cardinality(Leaves(latest)') = 0
    BY <2>1, <2>3, FS_EmptySet, Zenon DEF Leaves
  <2>5. IsDemurrageActive(Height + 1)' <=> IsDemurrageActive(n + 2)
    BY <1>2 DEF IsDemurrageActive
  <2>. QED  BY <1>2, <2>1, <2>2, <2>4, <2>5, Zenon DEF InventoryMatchesRecords, EmptyInventory
<1>. QED  BY <1>3, <1>4, Zenon

\* The tip of a chain.
LEMMA TipChain ==
    ASSUME IInv, NEW n, n = Height, n > 0
    PROVE  /\ n \in Nat /\ n \in 1 .. n /\ n - 1 \in Nat /\ (n - 1) + 1 = n /\ n \in 1 .. MaxHeight
           /\ chain \in Seq(SUBSET (Attestations \cup Moves)) /\ n = Len(chain)
           /\ Tip = chain[n] /\ Below = SubSeq(chain, 1, n - 1)
           /\ SubSeq(chain, 1, n) = chain
<1>1. chain \in Seq(SUBSET (Attestations \cup Moves)) /\ n = Len(chain) /\ n \in 0 .. MaxHeight
  BY Zenon DEF IInv, TypeInv, Hashes, Height
<1>2. SubSeq(chain, 1, n) = chain
  BY <1>1, WholePrefix, Zenon
<1>. QED  BY <1>1, <1>2, ScheduleAssumption DEF Tip, Below

\* The attestations of the tip are the latest of their keys.
LEMMA TipAttestation ==
    ASSUME IInv, NEW n, n = Height, n > 0, IsDemurrageActive(n), NEW a \in AttestationsOf(Tip),
           NEW k, k = signed[a].key
    PROVE  /\ signed[a] \in Signatures /\ k \in Keys /\ AttestationFor(k, Tip) = {a}
           /\ FromChain(signed[a].previous, k, n - 1)
           /\ latest[k] = RecordOf(a, chain) /\ latest[k] \in Records
<1>1. /\ n \in Nat /\ n \in 1 .. n /\ n - 1 \in Nat /\ (n - 1) + 1 = n /\ n \in 1 .. MaxHeight
      /\ n = Len(chain) /\ Tip = chain[n] /\ SubSeq(chain, 1, n) = chain
  BY TipChain, Zenon
<1>2. BlockInv(n)
  BY <1>1, Zenon DEF IInv, RecordInv
<1>3. a \in Attestations /\ signed[a] # None
  BY <1>1, <1>2, Zenon DEF BlockInv, AttestationsOf
<1>4. signed[a] \in Signatures /\ k \in Keys /\ signed[a].previous \in Records \cup {None}
  BY <1>3, Zenon DEF IInv, TypeInv, Signatures
<1>5. /\ FromChain(signed[a].previous, k, n - 1)
      /\ \A b \in AttestationsOf(Tip) : signed[b].key = k => a = b
  BY <1>1, <1>2, Zenon DEF BlockInv
<1>6. AttestationFor(k, Tip) = {a}
  BY <1>5, Zenon DEF AttestationFor
<1>7. FromChain(latest[k], k, n) /\ n \in Attested(k, n)
  BY <1>1, <1>4, <1>6, Zenon DEF IInv, RecordInv, Attested
<1>. DEFINE S == Attested(k, n - 1)
            r == latest[k]
            p == signed[a].previous
<1>8. /\ S \subseteq Int /\ \A g \in S : g < n
  BY <1>1, AttestedBound, ZenonT(60)
<1>9. Attested(k, n) = S \cup {n}
  <2>1. Attested(k, (n - 1) + 1) =
          IF IsDemurrageActive((n - 1) + 1) /\ AttestationFor(k, chain[(n - 1) + 1]) # {}
          THEN Attested(k, n - 1) \cup {(n - 1) + 1} ELSE Attested(k, n - 1)
    BY <1>1, AttestedBound, Zenon
  <2>. QED  BY <1>1, <1>6, <2>1, Zenon
<1>10. /\ r \in Records /\ r.height \in Attested(k, n) /\ \A g \in Attested(k, n) : g <= r.height
       /\ r.block = SubSeq(chain, 1, r.height) /\ r.tx \in AttestationFor(k, chain[r.height])
       /\ IsSeriesStart(r.coverage, S \cup {n})
  <2>1. \/ Attested(k, n) = {} /\ latest[k] = None
        \/ /\ latest[k] \in Records /\ latest[k] # None
           /\ latest[k].height \in Attested(k, n) /\ \A g \in Attested(k, n) : g <= latest[k].height
           /\ latest[k].block = SubSeq(chain, 1, latest[k].height)
           /\ latest[k].tx \in AttestationFor(k, chain[latest[k].height])
           /\ IsSeriesStart(latest[k].coverage, Attested(k, n))
    BY <1>1, <1>4, <1>7, RecordShape, Zenon
  <2>. QED  BY <1>7, <1>9, <2>1, Zenon
<1>11. r.height = n
  <2>1. r.height \in 1 .. n /\ n <= r.height
    BY <1>7, <1>10, Zenon DEF Attested
  <2>. QED  BY <1>1, <2>1
<1>12. r.block = chain /\ r.tx = a
  BY <1>1, <1>6, <1>10, <1>11, Zenon
<1>13. IsSeriesStart(AttestationCoverageStart(signed[a], n), S \cup {n})
  <2>1. \/ S = {} /\ p = None
        \/ p # None /\ p.height \in S /\ (\A g \in S : g <= p.height) /\ IsSeriesStart(p.coverage, S)
    BY <1>1, <1>4, <1>5, RecordShape, Zenon
  <2>2. n \in Int
    BY <1>1
  <2>. HIDE DEF S
  <2>. QED  BY <1>8, <2>1, <2>2, CoverageIsSeriesStart, Zenon
<1>14. r.coverage = AttestationCoverageStart(signed[a], n)
  <2>1. S \cup {n} \subseteq Int
    BY <1>1, <1>8
  <2>. HIDE DEF S, r
  <2>. QED  BY <1>10, <1>13, <2>1, SeriesUnique, Zenon
<1>15. r = [height |-> r.height, coverage |-> r.coverage, block |-> r.block, tx |-> r.tx]
  BY <1>10, Zenon DEF Records
<1>16. r = RecordOf(a, chain)
  BY <1>1, <1>11, <1>12, <1>14, <1>15, Zenon DEF RecordOf
<1>. QED  BY <1>4, <1>5, <1>6, <1>10, <1>16, Zenon

\* What UndoDemurrageBlock leaves is what the chain below the tip leaves.
LEMMA BelowRecords ==
    ASSUME IInv, NEW n, n = Height, n > 0, NEW k \in Keys, NEW r,
           r = IF IsDemurrageActive(n) THEN LatestBefore[k] ELSE latest[k]
    PROVE  r \in Records \cup {None} /\ FromChain(r, k, n - 1)
<1>1. /\ n \in Nat /\ n \in 1 .. n /\ n - 1 \in Nat /\ (n - 1) + 1 = n /\ n = Len(chain) /\ Tip = chain[n]
  BY TipChain, Zenon
<1>2. FromChain(latest[k], k, n) /\ latest[k] \in Records \cup {None}
  BY Zenon DEF IInv, RecordInv, TypeInv
<1>3. Attested(k, n) = IF IsDemurrageActive(n) /\ AttestationFor(k, Tip) # {}
                       THEN Attested(k, n - 1) \cup {n} ELSE Attested(k, n - 1)
  <2>1. Attested(k, (n - 1) + 1) =
          IF IsDemurrageActive((n - 1) + 1) /\ AttestationFor(k, chain[(n - 1) + 1]) # {}
          THEN Attested(k, n - 1) \cup {(n - 1) + 1} ELSE Attested(k, n - 1)
    BY <1>1, AttestedBound, Zenon
  <2>. QED  BY <1>1, <2>1, Zenon
<1>4. CASE ~IsDemurrageActive(n) \/ AttestationFor(k, Tip) = {}
  <2>1. r = latest[k]
    BY <1>4, Zenon DEF LatestBefore
  <2>2. Attested(k, n) = Attested(k, n - 1)
    BY <1>3, <1>4, Zenon
  <2>. QED  BY <1>2, <2>1, <2>2, Zenon DEF FromChain
<1>5. CASE IsDemurrageActive(n) /\ AttestationFor(k, Tip) # {}
  <2>1. PICK a : a = CHOOSE att \in AttestationFor(k, Tip) : TRUE
    BY Zenon
  <2>2. a \in AttestationFor(k, Tip)
    BY <1>5, <2>1, Zenon
  <2>3. a \in AttestationsOf(Tip) /\ signed[a].key = k
    BY <2>2, Zenon DEF AttestationFor
  <2>4. r = signed[a].previous
    BY <1>5, <2>1, Zenon DEF LatestBefore
  <2>5. signed[a] \in Signatures /\ FromChain(signed[a].previous, k, n - 1)
    BY <1>5, <2>3, TipAttestation, Zenon
  <2>. QED  BY <2>4, <2>5, Zenon DEF Signatures
<1>. QED  BY <1>4, <1>5, Zenon

\* Without a record there is no leaf.
LEMMA NoLeaves ==
    ASSUME NEW map, \A k \in Keys : map[k] = None
    PROVE  Leaves(map) = {} /\ Cardinality(Leaves(map)) = 0
  BY FS_EmptySet, Zenon DEF Leaves

\* The inventory names the tip, and is empty at the block before the activation.
LEMMA InventoryHere ==
    ASSUME IInv, NEW n, n = Height, IsDemurrageActive(n + 1)
    PROVE  InventoryAt(chain) /\ (IsDemurrageActive(n) \/ InventoryIsEmpty)
<1>1. inventory = [tip |-> chain, live |-> Leaves(latest), count |-> Cardinality(Leaves(latest))]
  BY Zenon DEF IInv, InventoryMatchesRecords
<1>2. inventory # None
  <2>1. Cardinality(Leaves(latest)) \in Nat
    BY LeavesCount, Zenon
  <2>2. Leaves(latest) \in SUBSET (Keys \X Records)
    <3>1. ASSUME NEW k \in Keys, latest[k] # None PROVE latest[k] \in Records
      BY <3>1, Zenon DEF IInv, TypeInv
    <3>. QED  BY <3>1 DEF Leaves
  <2>3. chain \in Hashes
    BY Zenon DEF IInv, TypeInv
  <2>4. inventory \in Inventories
    BY <1>1, <2>1, <2>2, <2>3, Zenon DEF Inventories
  <2>. QED  BY <2>4, RecordAssumption, Zenon
<1>3. ASSUME ~IsDemurrageActive(n) PROVE InventoryIsEmpty
  <2>1. n \in Nat
    BY DEF IInv, TypeInv, Height
  <2>2. \A k \in Keys : latest[k] = None
    BY <1>3, <2>1, AttestedBound, Zenon DEF IInv, RecordInv, FromChain
  <2>3. Leaves(latest) = {} /\ Cardinality(Leaves(latest)) = 0
    BY <2>2, NoLeaves, Zenon
  <2>. QED  BY <1>1, <2>3, Zenon DEF InventoryIsEmpty
<1>. QED  BY <1>1, <1>2, <1>3, Zenon DEF InventoryAt

\* The inventory of the records that UndoDemurrageBlock restores.
LEMMA UndoInventory ==
    ASSUME IInv, NEW n, n = Height, n > 0, IsDemurrageActive(n)
    PROVE  /\ InventoryBefore = [tip |-> Below, live |-> Leaves(LatestBefore),
                                 count |-> Cardinality(Leaves(LatestBefore))]
           /\ Cardinality(Leaves(LatestBefore)) \in Nat
<1>1. inventory = [tip |-> chain, live |-> Leaves(latest), count |-> Cardinality(Leaves(latest))]
  <2>1. IsDemurrageActive(n + 1)
    BY TipChain, ScheduleAssumption DEF IsDemurrageActive
  <2>. QED  BY <2>1, Zenon DEF IInv, InventoryMatchesRecords
<1>. DEFINE R == {k \in Keys : AttestationFor(k, Tip) # {}}
<1>2. PICK m, l : m = latest /\ l = LatestBefore
  BY Zenon
<1>3. R \in SUBSET Keys /\ \A k \in Keys \ R : m[k] = l[k]
  BY <1>2, Zenon DEF LatestBefore
<1>4. ASSUME NEW k \in R PROVE m[k] # None
  <2>1. PICK a \in AttestationsOf(Tip) : signed[a].key = k
    BY Zenon DEF AttestationFor
  <2>2. latest[k] \in Records
    BY <2>1, TipAttestation, Zenon
  <2>. QED  BY <1>2, <2>2, RecordAssumption, Zenon
<1>5. InventoryBefore = [tip |-> Below,
                         live |-> (Leaves(m) \ Pairs(m, R)) \cup Pairs(l, R \ Missing(l, R)),
                         count |-> Cardinality(Leaves(m)) - Cardinality(Missing(l, R))]
  BY <1>1, <1>2, Zenon DEF InventoryBefore, Pairs, Missing
<1>. HIDE DEF R
<1>6. Replaces(l, m, R)
  BY <1>3, <1>4, Zenon DEF Replaces
<1>7. /\ Leaves(l) = (Leaves(m) \ Pairs(m, R)) \cup Pairs(l, R \ Missing(l, R))
      /\ Cardinality(Leaves(l)) = Cardinality(Leaves(m)) - Cardinality(Missing(l, R))
      /\ Cardinality(Leaves(l)) \in Nat
  BY <1>3, <1>6, InventoryShrinks, Zenon
<1>. QED  BY <1>2, <1>5, <1>7, Zenon

\* DisconnectBlock never finds the records or the inventory of the tip wrong.
LEMMA TipIsUndoable ==
    ASSUME IInv, Height > 0
    PROVE  Undoable
<1>1. PICK n : n = Height
  BY Zenon
<1>2. n \in Nat /\ n - 1 \in Nat /\ Tip = chain[n] /\ n = Len(chain)
  BY <1>1, TipChain, Zenon
<1>3. HasCurrentDemurrageInventory
  <2>1. IsDemurrageActive(n) => IsDemurrageActive(n + 1)
    BY <1>2, ScheduleAssumption DEF IsDemurrageActive
  <2>2. IsDemurrageActive(n + 1) => InventoryAt(chain) /\ (IsDemurrageActive(n) \/ InventoryIsEmpty)
    BY <1>1, InventoryHere, Zenon
  <2>3. ~IsDemurrageActive(n + 1) => inventory = None
    BY <1>1, Zenon DEF IInv, InventoryMatchesRecords
  <2>. QED  BY <1>1, <2>1, <2>2, <2>3, Zenon DEF HasCurrentDemurrageInventory
<1>4. ASSUME IsDemurrageActive(n), NEW a \in AttestationsOf(Tip) PROVE UndoableAttestation(a)
  <2>1. PICK k, p : k = signed[a].key /\ p = signed[a].previous
    BY Zenon
  <2>2. k \in Keys /\ FromChain(p, k, n - 1) /\ latest[k] = RecordOf(a, chain)
    BY <1>1, <1>4, <2>1, TipAttestation, Zenon
  <2>3. p # None => p.height \in Attested(k, n - 1) /\ p.block = SubSeq(chain, 1, p.height)
    BY <1>2, <2>2, RecordShape, Zenon
  <2>4. p # None => p.height \in 1 .. n /\ p.height < n
    BY <1>2, <2>3 DEF Attested
  <2>. QED  BY <1>1, <2>1, <2>2, <2>3, <2>4, Zenon DEF UndoableAttestation, SourceOnChain
<1>5. ASSUME IsDemurrageActive(n)
      PROVE  /\ InventoryBefore.count >= 0
             /\ IsDemurrageActive(n - 1) \/ (InventoryBefore.live = {} /\ InventoryBefore.count = 0)
  <2>1. /\ InventoryBefore = [tip |-> Below, live |-> Leaves(LatestBefore),
                              count |-> Cardinality(Leaves(LatestBefore))]
        /\ Cardinality(Leaves(LatestBefore)) \in Nat
    BY <1>1, <1>5, UndoInventory, Zenon
  <2>2. ASSUME ~IsDemurrageActive(n - 1)
        PROVE  Leaves(LatestBefore) = {} /\ Cardinality(Leaves(LatestBefore)) = 0
    <3>1. ASSUME NEW k \in Keys PROVE LatestBefore[k] = None
      <4>1. FromChain(LatestBefore[k], k, n - 1)
        BY <1>1, <1>5, BelowRecords, Zenon
      <4>2. Attested(k, n - 1) = {}
        BY <1>2, <2>2, AttestedBound, Zenon
      <4>. QED  BY <4>1, <4>2, Zenon DEF FromChain
    <3>. QED  BY <3>1, NoLeaves, Zenon
  <2>. QED  BY <2>1, <2>2
<1>. QED  BY <1>1, <1>3, <1>4, <1>5, Zenon DEF Undoable

LEMMA DisconnectKeeps ==
    ASSUME IInv, DisconnectBlock
    PROVE  IInv'
<1>1. PICK n : n = Height
  BY Zenon
<1>2. /\ n > 0 /\ n \in Nat /\ n - 1 \in Nat /\ (n - 1) + 1 = n /\ n \in 1 .. MaxHeight
      /\ chain \in Seq(SUBSET (Attestations \cup Moves)) /\ n = Len(chain)
      /\ chain' = SubSeq(chain, 1, n - 1) /\ chain' = Below /\ signed' = signed
  BY <1>1, TipChain, Zenon DEF DisconnectBlock
<1>3. n - 1 \in 0 .. Len(chain)
  BY <1>2
<1>4. /\ chain' \in Hashes /\ Len(chain') = n - 1 /\ Height' = n - 1
      /\ \A h \in 1 .. (n - 1) : chain'[h] = chain[h]
  BY <1>2, <1>3, PrefixIsSeq DEF Hashes, Height
<1>5. ASSUME NEW h \in 1 .. (n - 1) PROVE SubSeq(chain, 1, h)' = SubSeq(chain, 1, h)
  <2>1. h \in 0 .. (n - 1)
    BY <1>2
  <2>. QED  BY <1>2, <1>3, <2>1, PrefixOfPrefix, Zenon
<1>6. ASSUME NEW k \in Keys
      PROVE  \A m \in 0 .. (n - 1) : \A r : FromChain(r, k, m)' <=> FromChain(r, k, m)
  <2>1. \A h \in 1 .. (n - 1) : AttestationFor(k, chain[h])' = AttestationFor(k, chain[h])
    BY <1>2, <1>4, Zenon DEF AttestationFor, AttestationsOf
  <2>. QED  BY <1>2, <1>5, <2>1, SameRecords, Zenon
<1>7. latest' = IF IsDemurrageActive(n) THEN LatestBefore ELSE latest
  BY <1>1, Zenon DEF DisconnectBlock, UndoDemurrageBlock
<1>8. ASSUME NEW k \in Keys
      PROVE  latest'[k] \in Records \cup {None} /\ FromChain(latest[k], k, n - 1)'
  <2>1. PICK q : q = latest'[k]
    BY Zenon
  <2>2. q = IF IsDemurrageActive(n) THEN LatestBefore[k] ELSE latest[k]
    BY <1>7, <2>1, Zenon
  <2>3. q \in Records \cup {None} /\ FromChain(q, k, n - 1)
    BY <1>1, <1>2, <2>2, BelowRecords, Zenon
  <2>4. FromChain(q, k, n - 1)'
    BY <1>2, <1>6, <2>3
  <2>. QED  BY <2>1, <2>3, <2>4, Zenon
<1>9. TypeInv'
  <2>1. latest' = [k \in Keys |-> latest'[k]]
    <3>1. LatestBefore = [k \in Keys |-> LatestBefore[k]]
      BY DEF LatestBefore
    <3>2. latest = [k \in Keys |-> latest[k]]
      BY Zenon DEF IInv, TypeInv
    <3>. QED  BY <1>7, <3>1, <3>2, Zenon
  <2>2. latest' \in [Keys -> Records \cup {None}]
    BY <1>8, <2>1, ZenonT(60)
  <2>3. Len(chain') \in 0 .. MaxHeight
    BY <1>2, <1>4, ScheduleAssumption
  <2>. QED  BY <1>2, <1>4, <2>2, <2>3, Zenon DEF IInv, TypeInv
<1>10. ASSUME NEW h \in 1 .. (n - 1) PROVE BlockInv(h)'
  <2>1. BlockInv(h) /\ chain'[h] = chain[h] /\ h - 1 \in 0 .. (n - 1) /\ h \in Nat
    BY <1>1, <1>2, <1>4 DEF IInv, RecordInv
  <2>2. \A k \in Keys : \A r : FromChain(r, k, h - 1)' <=> FromChain(r, k, h - 1)
    BY <1>6, <2>1, Zenon
  <2>3. TypeInv /\ \A a \in AttestationsOf(chain[h]) : signed'[a] = signed[a]
    BY <1>2, Zenon DEF IInv
  <2>. QED  BY <2>1, <2>2, <2>3, BlockStays, ZenonT(60)
<1>11. RecordInv'
  <2>1. \A k \in Keys : FromChain(latest[k], k, Height)'
    BY <1>4, <1>8, Zenon
  <2>. QED  BY <1>4, <1>10, <2>1, Zenon DEF RecordInv
<1>12. InventoryMatchesRecords'
  <2>1. IsDemurrageActive(Height + 1)' <=> IsDemurrageActive(n)
    BY <1>2, <1>4, Zenon DEF IsDemurrageActive
  <2>2. CASE IsDemurrageActive(n)
    <3>1. inventory' = [tip |-> Below, live |-> Leaves(LatestBefore), count |-> Cardinality(Leaves(LatestBefore))]
      BY <1>1, <1>2, <2>2, UndoInventory, ZenonT(60) DEF DisconnectBlock, UndoDemurrageBlock
    <3>2. Leaves(latest)' = Leaves(LatestBefore)
      BY <1>7, <2>2, Zenon DEF Leaves
    <3>. QED  BY <1>2, <2>1, <2>2, <3>1, <3>2, Zenon DEF InventoryMatchesRecords
  <2>3. CASE ~IsDemurrageActive(n)
    BY <1>1, <2>1, <2>3, ZenonT(60) DEF InventoryMatchesRecords, DisconnectBlock, UndoDemurrageBlock
  <2>. QED  BY <2>2, <2>3, Zenon
<1>. QED  BY <1>9, <1>11, <1>12, Zenon DEF IInv

\* A new signature is of a transaction that is in no block of the chain.
LEMMA CreateKeeps ==
    ASSUME IInv, NEW a \in Attestations, NEW c \in Coins, CreateDemurrageAttestationTransaction(a, c)
    PROVE  IInv'
<1>. DEFINE sig == [key |-> Owner[c], target |-> c, previous |-> latest[Owner[c]]]
<1>1. /\ signed[a] = None /\ signed' = [signed EXCEPT ![a] = sig]
      /\ chain' = chain /\ latest' = latest /\ inventory' = inventory
  BY Zenon DEF CreateDemurrageAttestationTransaction
<1>2. sig \in Signatures
  BY CoinAssumption, Zenon DEF IInv, TypeInv, Signatures
<1>. HIDE DEF sig
<1>3. TypeInv'
  BY <1>1, <1>2, Zenon DEF IInv, TypeInv
<1>4. PICK n : n = Height /\ n \in Nat
  BY DEF IInv, TypeInv, Height
<1>5. ASSUME NEW h \in 1 .. n
      PROVE  BlockInv(h) /\ (\A b \in AttestationsOf(chain[h]) : signed'[b] = signed[b])
  <2>1. BlockInv(h)
    BY <1>4, Zenon DEF IInv, RecordInv
  <2>2. a \notin AttestationsOf(chain[h])
    BY <1>1, <2>1, Zenon DEF BlockInv
  <2>3. AttestationsOf(chain[h]) \subseteq Attestations
    BY Zenon DEF AttestationsOf
  <2>. QED  BY <1>1, <2>1, <2>2, <2>3, Zenon DEF IInv, TypeInv
<1>6. ASSUME NEW k \in Keys
      PROVE  \A m \in 0 .. n : \A r : FromChain(r, k, m)' <=> FromChain(r, k, m)
  <2>1. ASSUME NEW h \in 1 .. n PROVE AttestationFor(k, chain[h])' = AttestationFor(k, chain[h])
    BY <1>1, <1>5, Zenon DEF AttestationFor, AttestationsOf
  <2>2. \A h \in 1 .. n : SubSeq(chain, 1, h)' = SubSeq(chain, 1, h)
    BY <1>1, Zenon
  <2>. QED  BY <1>4, <2>1, <2>2, SameRecords, Zenon
<1>7. ASSUME NEW k \in Keys PROVE FromChain(latest[k], k, n)'
  <2>1. PICK q : q = latest[k]
    BY Zenon
  <2>2. FromChain(q, k, n)
    BY <1>4, <2>1, Zenon DEF IInv, RecordInv
  <2>3. FromChain(q, k, n)'
    BY <1>4, <1>6, <2>2
  <2>. QED  BY <1>1, <2>1, <2>3, Zenon
<1>8. ASSUME NEW h \in 1 .. n PROVE BlockInv(h)'
  <2>1. h - 1 \in 0 .. n /\ h \in Nat /\ TypeInv /\ chain'[h] = chain[h]
    BY <1>1, <1>4 DEF IInv
  <2>2. \A k \in Keys : \A r : FromChain(r, k, h - 1)' <=> FromChain(r, k, h - 1)
    BY <1>6, <2>1, Zenon
  <2>. QED  BY <1>5, <2>1, <2>2, BlockStays, Zenon
<1>9. RecordInv'
  <2>1. Height' = n
    BY <1>1, <1>4, Zenon DEF Height
  <2>. QED  BY <1>7, <1>8, <2>1, Zenon DEF RecordInv
<1>10. InventoryMatchesRecords'
  BY <1>1, Zenon DEF IInv, InventoryMatchesRecords, Height, Leaves
<1>. QED  BY <1>3, <1>9, <1>10, Zenon DEF IInv

LEMMA NextIInv == IInv /\ [Next]_vars => IInv'
<1>. SUFFICES ASSUME IInv, [Next]_vars PROVE IInv'
  BY Zenon
<1>1. ASSUME NEW a \in Attestations, NEW c \in Coins, CreateDemurrageAttestationTransaction(a, c) PROVE IInv'
  BY <1>1, CreateKeeps, Zenon
<1>2. ASSUME NEW block \in SUBSET (Attestations \cup Moves), ConnectBlock(block) PROVE IInv'
  BY <1>2, ConnectRecords, ConnectInventory, Zenon DEF IInv
<1>3. CASE DisconnectBlock
  BY <1>3, DisconnectKeeps, Zenon
<1>4. CASE UNCHANGED vars
  <2>1. chain' = chain /\ latest' = latest /\ signed' = signed /\ inventory' = inventory
    BY <1>4, Zenon DEF vars
  <2>2. TypeInv'
    BY <2>1, Zenon DEF IInv, TypeInv
  <2>3. ASSUME NEW r, NEW k, NEW n PROVE FromChain(r, k, n)' <=> FromChain(r, k, n)
    BY <2>1 DEF FromChain, IsRecord, Attested, AttestationFor, AttestationsOf
  <2>4. ASSUME NEW k \in Keys, NEW n, n = Height PROVE FromChain(latest[k], k, n)'
    <3>1. PICK q : q = latest[k]
      BY Zenon
    <3>2. FromChain(q, k, n)
      BY <2>4, <3>1, Zenon DEF IInv, RecordInv
    <3>. QED  BY <2>1, <2>3, <3>1, <3>2, Zenon
  <2>5. ASSUME NEW n, n = Height, NEW h \in 1 .. n PROVE BlockInv(h)'
    <3>1. BlockInv(h)
      BY <2>5, Zenon DEF IInv, RecordInv
    <3>2. h \in Nat /\ n \in Nat
      BY <2>5 DEF IInv, TypeInv, Height
    <3>3. TypeInv /\ chain'[h] = chain[h] /\ \A a \in AttestationsOf(chain[h]) : signed'[a] = signed[a]
      BY <2>1, Zenon DEF IInv
    <3>4. \A k \in Keys : \A r : FromChain(r, k, h - 1)' <=> FromChain(r, k, h - 1)
      BY <2>3, Zenon
    <3>. QED  BY <3>1, <3>2, <3>3, <3>4, BlockStays, Zenon
  <2>6. RecordInv'
    <3>1. Height' = Height
      BY <2>1, Zenon DEF Height
    <3>. QED  BY <2>4, <2>5, <3>1, Zenon DEF RecordInv
  <2>7. InventoryMatchesRecords'
    BY <2>1, Zenon DEF IInv, InventoryMatchesRecords, Height, Leaves
  <2>. QED  BY <2>2, <2>6, <2>7, Zenon DEF IInv
<1>. QED  BY <1>1, <1>2, <1>3, <1>4, Zenon DEF Next

LEMMA Invariance == Spec => []IInv
  BY InitIInv, NextIInv, PTL DEF Spec
-----------------------------------------------------------------------------
(* What the invariant gives. *)

LEMMA RecordsAreTheChains == IInv => LatestIsTheChains
<1>. SUFFICES ASSUME IInv, NEW k \in Keys
              PROVE  IF AttestedAt(k) = {} THEN latest[k] = None
                     ELSE LET last == CHOOSE h \in AttestedAt(k) : \A g \in AttestedAt(k) : g <= h
                          IN  /\ latest[k] # None
                              /\ latest[k].height = last
                              /\ latest[k].block = SubSeq(chain, 1, last)
                              /\ latest[k].tx \in AttestationFor(k, chain[last])
                              /\ latest[k].coverage = SeriesStart(AttestedAt(k))
  BY Zenon DEF LatestIsTheChains
<1>1. PICK n, r : n = Height /\ n \in Nat /\ r = latest[k]
  BY DEF IInv, TypeInv, Height
<1>2. AttestedAt(k) = Attested(k, n) /\ AttestedAt(k) \subseteq Int
  BY <1>1 DEF AttestedAt, Attested
<1>3. FromChain(r, k, n)
  BY <1>1, Zenon DEF IInv, RecordInv
<1>4. \/ Attested(k, n) = {} /\ r = None
      \/ /\ r \in Records /\ r # None
         /\ r.height \in Attested(k, n) /\ \A g \in Attested(k, n) : g <= r.height
         /\ r.block = SubSeq(chain, 1, r.height)
         /\ r.tx \in AttestationFor(k, chain[r.height])
         /\ IsSeriesStart(r.coverage, Attested(k, n))
  BY <1>1, <1>3, RecordShape, Zenon
<1>5. CASE AttestedAt(k) = {}
  BY <1>1, <1>2, <1>4, <1>5, Zenon
<1>6. CASE AttestedAt(k) # {}
  <2>. DEFINE S == AttestedAt(k)
              last == CHOOSE h \in S : \A g \in S : g <= h
              start == CHOOSE s \in S : IsSeriesStart(s, S)
  <2>1. r.height \in S /\ (\A g \in S : g <= r.height) /\ IsSeriesStart(r.coverage, S) /\ r.coverage \in S
    BY <1>2, <1>4, <1>6, Zenon DEF IsSeriesStart
  <2>2. S \subseteq Int
    BY <1>2, Zenon
  <2>. HIDE DEF S
  <2>3. last \in S /\ \A g \in S : g <= last
    BY <2>1, Zenon
  <2>4. start \in S /\ IsSeriesStart(start, S)
    BY <2>1, Zenon
  <2>. HIDE DEF last, start
  <2>5. last = r.height
    <3>1. last <= r.height /\ r.height <= last
      BY <2>1, <2>3, Zenon
    <3>2. last \in Int /\ r.height \in Int
      BY <2>1, <2>2, <2>3, Zenon
    <3>. QED  BY <3>1, <3>2
  <2>6. start = r.coverage
    BY <2>1, <2>2, <2>4, SeriesUnique, Zenon
  <2>7. start = SeriesStart(S)
    BY Zenon DEF start, SeriesStart
  <2>. QED  BY <1>1, <1>2, <1>4, <1>6, <2>5, <2>6, <2>7, ZenonT(60) DEF S, last
<1>. QED  BY <1>5, <1>6, Zenon

LEMMA NothingHalts == IInv => NeverHalts
<1>. SUFFICES ASSUME IInv PROVE NeverHalts
  BY Zenon
<1>1. PICK n : n = Height /\ n \in Nat
  BY DEF IInv, TypeInv, Height
<1>2. CanApplyDemurrageInventory
  BY <1>1, InventoryHere, Zenon
     DEF CanApplyDemurrageInventory, InventoryAnchoredForApply, IInv, InventoryMatchesRecords
<1>3. ASSUME NEW block \in SUBSET (Attestations \cup Moves), Valid(block), IsDemurrageActive(n + 1)
      PROVE  SourcesOnChain(block)
  <2>. SUFFICES ASSUME NEW a \in AttestationsOf(block), signed[a].previous # None
                PROVE  SourceOnChain(signed[a].previous)
    BY Zenon DEF SourcesOnChain
  <2>1. signed[a] # None /\ a \in Attestations /\ signed[a].previous = latest[signed[a].key]
    BY <1>1, <1>3, Zenon DEF Valid, CheckDemurrageAttestations, PreviousAllowed, AttestationsOf
  <2>2. PICK k, r : k = signed[a].key /\ r = latest[k] /\ r = signed[a].previous /\ k \in Keys
    BY <2>1, Zenon DEF IInv, TypeInv, Signatures
  <2>3. FromChain(r, k, n)
    BY <1>1, <2>2, Zenon DEF IInv, RecordInv
  <2>4. r.height \in Attested(k, n) /\ r.block = SubSeq(chain, 1, r.height)
    BY <1>1, <2>2, <2>3, RecordShape, Zenon
  <2>5. r.height \in 1 .. n
    BY <2>4, Zenon DEF Attested
  <2>. QED  BY <1>1, <2>2, <2>4, <2>5, Zenon DEF SourceOnChain
<1>. QED  BY <1>1, <1>2, <1>3, TipIsUndoable, Zenon DEF NeverHalts, Applicable

\* The QQALIVE record of a key is what a replay of the active chain would give, over any
\* reorganisation: ApplyDemurrageBlock and UndoDemurrageBlock undo each other.
THEOREM RecordsFollowTheChain == Spec => []LatestIsTheChains
  BY Invariance, RecordsAreTheChains, PTL

\* DeepAuditDemurrageInventory succeeds at every tip: the transitions of the rolling inventory
\* keep it equal to the records of the coins database.
THEOREM InventoryIsExact == Spec => []InventoryMatchesRecords
<1>1. IInv => InventoryMatchesRecords
  BY Zenon DEF IInv
<1>. QED  BY Invariance, <1>1, PTL

\* No valid block stops the node: the checks of the local demurrage state that ConnectBlock and
\* DisconnectBlock make never fail.
THEOREM NodeNeverHalts == Spec => []NeverHalts
  BY Invariance, NothingHalts, PTL
-----------------------------------------------------------------------------
(* The invariant of the coins. *)

\* A coin that exists was issued, or created by a move of one of the first n blocks.
Born(c, n) == Issued[c] # None \/ \E i \in 1 .. n : c \in CreatedBy(chain[i])

Births == (0 .. MaxHeight) \cup {None}

Undos == UNION {[D -> Births] : D \in SUBSET Coins}

\* The undo data of a block has the coins that it spends, of blocks below it.
UndoInv(i) ==
    \A c \in SpentBy(chain[i]) : undo[i][c] \in Births /\ (undo[i][c] # None => Born(c, i - 1))

CoinInv ==
    /\ coins \in [Coins -> Births]
    /\ \A c \in Coins : coins[c] # None => Born(c, Height)
    /\ undo \in Seq(Undos) /\ Len(undo) = Len(chain)
    /\ \A i \in 1 .. Height : UndoInv(i)
-----------------------------------------------------------------------------
(* The value of a coin. *)

\* Products and quotients of naturals.
LEMMA ProductGrows ==
    ASSUME NEW x \in Nat, NEW y \in Nat, NEW z \in Nat, x <= y
    PROVE  x * z <= y * z /\ x * z \in Nat /\ y * z \in Nat
<1>1. PICK d \in Nat : y = x + d
  <2>1. y - x \in Nat /\ y = x + (y - x)
    OBVIOUS
  <2>. QED  BY <2>1, Zenon
<1>2. y * z = x * z + d * z
  BY <1>1
<1>3. d * z \in Nat /\ x * z \in Nat
  OBVIOUS
<1>4. y * z \in Nat
  OBVIOUS
<1>. QED  BY <1>2, <1>3, <1>4

LEMMA Quotient ==
    ASSUME NEW a \in Nat, NEW b \in Nat \ {0}, NEW q, q = a \div b
    PROVE  q \in Nat /\ q * b <= a /\ a < (q + 1) * b
<1>1. q \in Int /\ q * b <= a /\ a < (q + 1) * b
  OBVIOUS
<1>2. q >= 0
  OBVIOUS
<1>. QED BY <1>1, <1>2

LEMMA QuotientBelow ==
    ASSUME NEW a \in Nat, NEW b \in Nat \ {0}, NEW c \in Nat, a < c * b
    PROVE  a \div b < c
<1>1. PICK q : q = a \div b
  BY Zenon
<1>2. q \in Nat /\ q * b <= a
  BY <1>1, Quotient, Zenon
<1>3. ASSUME c <= q PROVE FALSE
  <2>1. c * b <= q * b /\ c * b \in Nat /\ q * b \in Nat
    BY <1>2, <1>3, ProductGrows, Zenon
  <2>. QED  BY <1>2, <2>1
<1>. QED  BY <1>1, <1>2, <1>3

LEMMA QuotientGrows ==
    ASSUME NEW a \in Nat, NEW c \in Nat, NEW b \in Nat \ {0}, a <= c
    PROVE  a \div b <= c \div b
<1>1. PICK q : q = c \div b
  BY Zenon
<1>2. q \in Nat /\ c < (q + 1) * b /\ q + 1 \in Nat
  BY <1>1, Quotient
<1>3. (q + 1) * b \in Nat
  BY <1>2
<1>4. a \div b < q + 1
  BY <1>2, <1>3, QuotientBelow
<1>5. a \div b \in Nat
  BY Quotient, Zenon
<1>. QED  BY <1>1, <1>2, <1>4, <1>5, SMTT(60)

\* The part of the period of decay that has passed stays below the whole.
LEMMA DecayStep ==
    ASSUME NEW i \in Nat, Grace < i, i < Zero, NEW t, t = ((i - Grace) * DEMURRAGE_PPM) \div (Zero - Grace)
    PROVE  /\ t \in Nat /\ t < DEMURRAGE_PPM
           /\ (t * t) \div DEMURRAGE_PPM \in Nat /\ (t * t) \div DEMURRAGE_PPM < DEMURRAGE_PPM
<1>1. PICK x, P, w : x = i - Grace /\ P = DEMURRAGE_PPM /\ w = Zero - Grace
  BY Zenon
<1>2. x \in Nat /\ P \in Nat \ {0} /\ P \in Nat /\ w \in Nat \ {0} /\ w \in Nat /\ x + 1 <= w /\ x + 1 \in Nat
  BY <1>1, ScheduleAssumption
<1>3. x * P \in Nat /\ x * P < P * w
  <2>1. (x + 1) * P <= w * P /\ w * P \in Nat
    BY <1>2, ProductGrows, Zenon
  <2>2. (x + 1) * P = x * P + P /\ w * P = P * w /\ x * P \in Nat
    BY <1>2
  <2>. QED  BY <1>2, <2>1, <2>2
<1>4. t = (x * P) \div w
  BY <1>1, Zenon
<1>5. t \in Nat
  BY <1>2, <1>3, <1>4, Quotient, Zenon
<1>6. t < P
  BY <1>2, <1>3, <1>4, QuotientBelow, Zenon
<1>7. t * t \in Nat /\ t * t < P * P
  <2>1. t + 1 <= P /\ t <= P /\ t + 1 \in Nat
    BY <1>2, <1>5, <1>6
  <2>2. t * t <= P * t /\ t * t \in Nat
    BY <1>2, <1>5, <2>1, ProductGrows, Zenon
  <2>3. (t + 1) * P <= P * P /\ P * P \in Nat
    BY <1>2, <2>1, ProductGrows, Zenon
  <2>4. (t + 1) * P = P * t + P /\ P * t \in Nat
    BY <1>2, <1>5
  <2>. QED  BY <1>2, <2>2, <2>3, <2>4, SMTT(60)
<1>8. (t * t) \div P \in Nat /\ (t * t) \div P < P
  BY <1>2, <1>7, Quotient, QuotientBelow, Zenon
<1>. QED  BY <1>1, <1>5, <1>6, <1>8, Zenon

\* The remaining value is a share, and it is lost only when the key was idle for Zero blocks.
LEMMA RemainingShare ==
    ASSUME NEW i \in Nat
    PROVE  /\ DemurrageRemainingPpm(i) \in 0 .. DEMURRAGE_PPM
           /\ DemurrageRemainingPpm(i) = 0 <=> i >= Zero
<1>1. CASE i <= Grace
  BY <1>1, ScheduleAssumption DEF DemurrageRemainingPpm
<1>2. CASE i >= Zero
  BY <1>2, ScheduleAssumption DEF DemurrageRemainingPpm
<1>3. CASE Grace < i /\ i < Zero
  <2>1. PICK t : t = ((i - Grace) * DEMURRAGE_PPM) \div (Zero - Grace)
    BY Zenon
  <2>2. (t * t) \div DEMURRAGE_PPM \in Nat /\ (t * t) \div DEMURRAGE_PPM < DEMURRAGE_PPM
    BY <1>3, <2>1, DecayStep, Zenon
  <2>3. DemurrageRemainingPpm(i) = DEMURRAGE_PPM - (t * t) \div DEMURRAGE_PPM
    BY <1>3, <2>1, ScheduleAssumption, SMTT(60) DEF DemurrageRemainingPpm
  <2>. QED  BY <1>3, <2>2, <2>3, ScheduleAssumption, SMTT(60)
<1>. QED  BY <1>1, <1>2, <1>3, ScheduleAssumption, SMTT(60)

\* The remaining value never grows while the key stays idle.
LEMMA RemainingFalls ==
    ASSUME NEW i \in Nat, NEW j \in Nat, i <= j
    PROVE  DemurrageRemainingPpm(j) <= DemurrageRemainingPpm(i)
<1>1. /\ DemurrageRemainingPpm(i) \in 0 .. DEMURRAGE_PPM /\ DemurrageRemainingPpm(j) \in 0 .. DEMURRAGE_PPM
      /\ DemurrageRemainingPpm(j) = 0 <=> j >= Zero
  BY RemainingShare, Zenon
<1>2. CASE i <= Grace
  BY <1>1, <1>2, ScheduleAssumption, SMTT(60) DEF DemurrageRemainingPpm
<1>3. CASE j >= Zero
  BY <1>1, <1>3, ScheduleAssumption, SMTT(60)
<1>4. CASE Grace < i /\ j < Zero
  <2>1. PICK P, w, t, u : /\ P = DEMURRAGE_PPM /\ w = Zero - Grace
                          /\ t = ((i - Grace) * P) \div w /\ u = ((j - Grace) * P) \div w
    BY Zenon
  <2>2. P \in Nat \ {0} /\ P \in Nat /\ w \in Nat \ {0} /\ i - Grace \in Nat /\ j - Grace \in Nat /\ i - Grace <= j - Grace
        /\ Grace < j /\ i < Zero
    BY <1>4, <2>1, ScheduleAssumption, SMTT(60)
  <2>3. (i - Grace) * P <= (j - Grace) * P /\ (i - Grace) * P \in Nat /\ (j - Grace) * P \in Nat
    BY <2>2, ProductGrows, Zenon
  <2>4. t \in Nat /\ u \in Nat /\ (t * t) \div P \in Nat /\ (u * u) \div P \in Nat
    BY <1>4, <2>1, <2>2, DecayStep, Zenon
  <2>5. t <= u
    BY <2>1, <2>2, <2>3, QuotientGrows, Zenon
  <2>6. t * t <= u * u /\ t * t \in Nat /\ u * u \in Nat
    <3>1. t * t <= u * t /\ t * t \in Nat
      BY <2>4, <2>5, ProductGrows, Zenon
    <3>2. t * u <= u * u /\ u * u \in Nat
      BY <2>4, <2>5, ProductGrows, Zenon
    <3>3. t * u = u * t /\ t * u \in Nat
      BY <2>4
    <3>. QED  BY <3>1, <3>2, <3>3
  <2>7. (t * t) \div P <= (u * u) \div P
    BY <2>2, <2>6, QuotientGrows, ZenonT(60)
  <2>8. DemurrageRemainingPpm(i) = P - (t * t) \div P /\ DemurrageRemainingPpm(j) = P - (u * u) \div P
    BY <1>4, <2>1, <2>2, ScheduleAssumption, SMTT(60) DEF DemurrageRemainingPpm
  <2>. QED  BY <2>2, <2>4, <2>7, <2>8, SMTT(60)
<1>. QED  BY <1>2, <1>3, <1>4, ScheduleAssumption, SMTT(60)

\* What LastActive and EvaluateDemurrage return.
LEMMA LastActiveType ==
    ASSUME NEW h \in Nat, NEW r \in Records \cup {None}
    PROVE  /\ ActivityStart(h) \in Nat /\ LastActive(h, r) \in Nat /\ ActivityStart(h) <= LastActive(h, r)
<1>1. ActivityStart(h) \in Nat
  BY ScheduleAssumption, Zenon DEF ActivityStart, MaxOf
<1>2. r # None => r.height \in Nat
  BY ScheduleAssumption DEF Records
<1>. QED  BY <1>1, <1>2 DEF LastActive, Covers, MaxOf

LEMMA ValueFalls ==
    ASSUME NEW h \in Nat, NEW r \in Records \cup {None}, NEW m \in Nat
    PROVE  /\ EvaluateDemurrage(h, r, m) \in 0 .. DEMURRAGE_PPM
           /\ EvaluateDemurrage(h, r, m + 1) \in 0 .. DEMURRAGE_PPM
           /\ EvaluateDemurrage(h, r, m + 1) <= EvaluateDemurrage(h, r, m)
<1>1. PICK l : l = LastActive(h, r) /\ l \in Nat
  BY LastActiveType, Zenon
<1>2. PICK i, j : i = MaxOf(0, m - l) /\ j = MaxOf(0, (m + 1) - l)
  BY Zenon
<1>3. i \in Nat /\ j \in Nat /\ i <= j
  BY <1>1, <1>2 DEF MaxOf
<1>4. /\ DemurrageRemainingPpm(i) \in 0 .. DEMURRAGE_PPM /\ DemurrageRemainingPpm(j) \in 0 .. DEMURRAGE_PPM
      /\ DemurrageRemainingPpm(j) <= DemurrageRemainingPpm(i)
  BY <1>3, RemainingShare, RemainingFalls, Zenon
<1>5. /\ EvaluateDemurrage(h, r, m) = IF IsDemurrageActive(m) THEN DemurrageRemainingPpm(i) ELSE DEMURRAGE_PPM
      /\ EvaluateDemurrage(h, r, m + 1) = IF IsDemurrageActive(m + 1) THEN DemurrageRemainingPpm(j) ELSE DEMURRAGE_PPM
  BY <1>1, <1>2, Zenon DEF EvaluateDemurrage
<1>6. IsDemurrageActive(m) => IsDemurrageActive(m + 1)
  BY ScheduleAssumption DEF IsDemurrageActive
<1>. QED  BY <1>4, <1>5, <1>6, ScheduleAssumption, SMTT(60)

\* A value is lost when the key was idle for Zero blocks.
LEMMA LostValue ==
    ASSUME NEW h \in Nat, NEW r \in Records \cup {None}, NEW m \in Nat, IsDemurrageActive(m)
    PROVE  EvaluateDemurrage(h, r, m) = 0 <=> m - LastActive(h, r) >= Zero
<1>1. PICK l : l = LastActive(h, r) /\ l \in Nat
  BY LastActiveType, Zenon
<1>2. PICK i : i = MaxOf(0, m - l)
  BY Zenon
<1>3. i \in Nat /\ (i >= Zero <=> m - l >= Zero)
  BY <1>1, <1>2, ScheduleAssumption, SMTT(60) DEF MaxOf
<1>4. EvaluateDemurrage(h, r, m) = DemurrageRemainingPpm(i)
  BY <1>1, <1>2, Zenon DEF EvaluateDemurrage
<1>. QED  BY <1>1, <1>3, <1>4, RemainingShare, Zenon

\* An attestation comes too late for a coin that has lost its value: the series it goes on with
\* does not reach the coin.
LEMMA LostStaysLost ==
    ASSUME NEW h \in Nat, NEW r \in Records \cup {None}, NEW m \in Nat, IsDemurrageActive(m),
           EvaluateDemurrage(h, r, m) = 0,
           NEW q \in Records, q.height = m,
           q.coverage = IF r # None /\ m - r.height < Zero THEN r.coverage ELSE m
    PROVE  EvaluateDemurrage(h, q, m + 1) = 0
<1>1. PICK s, l : /\ s = ActivityStart(h) /\ l = LastActive(h, r) /\ s \in Nat /\ l \in Nat
                  /\ s <= l /\ m - l >= Zero
  BY LastActiveType, LostValue, Zenon
<1>2. Zero \in Nat /\ q # None /\ IsDemurrageActive(m + 1)
  BY RecordAssumption, ScheduleAssumption DEF IsDemurrageActive
<1>3. ~Covers(q, h)
  <2>1. CASE r # None /\ m - r.height < Zero
    <3>1. r.height \in Nat /\ r.coverage \in Int
      BY <2>1, ScheduleAssumption, SMTT(60) DEF Records
    <3>2. ~Covers(r, h)
      BY <1>1, <1>2, <2>1, <3>1, SMTT(60) DEF LastActive, MaxOf
    <3>. QED  BY <1>2, <2>1, <3>2, ZenonT(60) DEF Covers
  <2>2. CASE ~(r # None /\ m - r.height < Zero)
    BY <1>1, <1>2, <2>2, SMTT(60) DEF Covers
  <2>. QED  BY <2>1, <2>2, Zenon
<1>4. LastActive(h, q) = s
  BY <1>1, <1>3, Zenon DEF LastActive
<1>5. (m + 1) - s >= Zero /\ m + 1 \in Nat
  BY <1>1, <1>2
<1>. QED  BY <1>2, <1>4, <1>5, LostValue, SMTT(60)
-----------------------------------------------------------------------------
(* Coins. *)

\* Blocks that are left alone leave the births of coins alone.
LEMMA SameBirths ==
    ASSUME NEW n \in Nat, \A h \in 1 .. n : chain'[h] = chain[h]
    PROVE  /\ \A c : \A m \in 0 .. n : Born(c, m)' <=> Born(c, m)
           /\ \A h \in 1 .. n : SpentBy(chain[h])' = SpentBy(chain[h])
<1>1. \A h \in 1 .. n : CreatedBy(chain[h])' = CreatedBy(chain[h]) /\ SpentBy(chain[h])' = SpentBy(chain[h])
  BY Zenon DEF CreatedBy, SpentBy, MovesOf
<1>2. ASSUME NEW c, NEW m \in 0 .. n PROVE Born(c, m)' <=> Born(c, m)
  <2>1. \A h \in 1 .. m : h \in 1 .. n
    OBVIOUS
  <2>. QED  BY <1>1, <2>1, Zenon DEF Born
<1>. QED  BY <1>1, <1>2, Zenon

\* Transactions that are not in the chain create no coin that is there: moves create different
\* coins.
LEMMA CreatedIsNew ==
    ASSUME IInv, CoinInv, NEW block, Fresh(block), NEW c \in Coins, coins[c] # None
    PROVE  c \notin CreatedBy(block)
<1>. SUFFICES ASSUME NEW m \in Moves, m \in block, c = Out[m] PROVE FALSE
  BY Zenon DEF CreatedBy, MovesOf
<1>1. Issued[c] = None
  BY CoinAssumption, Zenon
<1>2. PICK i \in 1 .. Height : c \in CreatedBy(chain[i])
  BY <1>1, Zenon DEF CoinInv, Born
<1>3. PICK k \in Moves : k \in chain[i] /\ c = Out[k]
  BY <1>2, Zenon DEF CreatedBy, MovesOf
<1>4. k = m
  BY <1>3, CoinAssumption, Zenon
<1>. QED  BY <1>3, <1>4, Zenon DEF Fresh, Height

LEMMA InitCoinInv == Init => CoinInv
<1>. SUFFICES ASSUME Init PROVE CoinInv
  BY Zenon
<1>1. coins = Issued /\ undo = <<>> /\ chain = <<>> /\ Height = 0
  BY Zenon DEF Init, Height
<1>2. coins \in [Coins -> Births]
  <2>1. 0 \in 0 .. MaxHeight
    BY ScheduleAssumption
  <2>. QED  BY <1>1, <2>1, CoinAssumption, Zenon DEF Births
<1>3. undo \in Seq(Undos) /\ Len(undo) = Len(chain)
  BY <1>1
<1>4. \A c \in Coins : coins[c] # None => Born(c, Height)
  BY <1>1, Zenon DEF Born
<1>5. \A i \in 1 .. Height : UndoInv(i)
  BY <1>1
<1>. QED  BY <1>2, <1>3, <1>4, <1>5, ZenonT(60) DEF CoinInv

LEMMA ConnectCoins ==
    ASSUME IInv, CoinInv, NEW block \in SUBSET (Attestations \cup Moves), ConnectBlock(block)
    PROVE  CoinInv'
<1>1. PICK n : n = Height
  BY Zenon
<1>2. /\ n \in Nat /\ Height' = n + 1 /\ n + 1 \in 0 .. MaxHeight /\ Len(chain') = n + 1
      /\ n = Len(chain) /\ chain'[n + 1] = block
      /\ \A h \in 1 .. n : chain'[h] = chain[h]
  BY <1>1, ConnectChain, Zenon DEF Height
<1>3. /\ \A c : \A m \in 0 .. n : Born(c, m)' <=> Born(c, m)
      /\ \A h \in 1 .. n : SpentBy(chain[h])' = SpentBy(chain[h])
  BY <1>2, SameBirths, Zenon
<1>4. ASSUME NEW c, Born(c, n) PROVE Born(c, n)' /\ Born(c, n + 1)'
  <2>1. Born(c, n)'
    BY <1>2, <1>3, <1>4
  <2>2. 1 .. n \subseteq 1 .. (n + 1)
    BY <1>2
  <2>. QED  BY <2>1, <2>2, Zenon DEF Born
<1>5. ASSUME NEW c \in CreatedBy(block) PROVE Born(c, n + 1)'
  <2>1. CreatedBy(chain[n + 1])' = CreatedBy(block) /\ n + 1 \in 1 .. (n + 1)
    BY <1>2 DEF CreatedBy, MovesOf
  <2>. QED  BY <2>1, Zenon DEF Born
<1>6. coins' = CoinsAfter(block)
  BY Zenon DEF ConnectBlock
<1>7. coins' \in [Coins -> Births]
  <2>1. n + 1 \in Births /\ None \in Births
    BY <1>2, Zenon DEF Births
  <2>. QED  BY <1>1, <1>6, <2>1, Zenon DEF CoinsAfter, CoinInv
<1>8. ASSUME NEW c \in Coins, coins'[c] # None PROVE Born(c, Height)'
  <2>1. c \in CreatedBy(block) \/ (coins[c] # None)
    BY <1>6, <1>8, Zenon DEF CoinsAfter
  <2>2. coins[c] # None => Born(c, n)
    BY <1>1, Zenon DEF CoinInv
  <2>3. Born(c, n + 1)'
    BY <1>4, <1>5, <2>1, <2>2, Zenon
  <2>. QED  BY <1>2, <2>3, Zenon
<1>. DEFINE u == [c \in SpentBy(block) |-> coins[c]]
<1>9. SpentBy(block) \subseteq Coins
  BY CoinAssumption DEF SpentBy, MovesOf
<1>10. u \in Undos
  <2>1. u \in [SpentBy(block) -> Births]
    BY <1>9, Zenon DEF CoinInv
  <2>. QED  BY <1>9, <2>1, Zenon DEF Undos
<1>11. \A c \in SpentBy(block) : u[c] = coins[c]
  BY Zenon
<1>12. undo' = Append(undo, u)
  BY Zenon DEF ConnectBlock
<1>. HIDE DEF u
<1>13. /\ undo' \in Seq(Undos) /\ Len(undo') = n + 1 /\ undo'[n + 1] = u
       /\ \A i \in 1 .. n : undo'[i] = undo[i]
  <2>1. undo \in Seq(Undos) /\ Len(undo) = n /\ 0 \in 0 .. Len(undo)
    BY <1>2 DEF CoinInv
  <2>. QED  BY <1>10, <1>12, <2>1, AppendPrefix, SMTT(60)
<1>14. ASSUME NEW i \in 1 .. n PROVE UndoInv(i)'
  <2>1. UndoInv(i) /\ i - 1 \in 0 .. n
    BY <1>1, <1>2 DEF CoinInv
  <2>. QED  BY <1>3, <1>13, <2>1, Zenon DEF UndoInv
<1>15. UndoInv(n + 1)'
  <2>1. SpentBy(chain[n + 1])' = SpentBy(block) /\ (n + 1) - 1 = n
    BY <1>2 DEF SpentBy, MovesOf
  <2>2. ASSUME NEW c \in SpentBy(block) PROVE u[c] \in Births /\ (u[c] # None => Born(c, n)')
    BY <1>1, <1>4, <1>9, <1>11, Zenon DEF CoinInv
  <2>. QED  BY <1>13, <2>1, <2>2, Zenon DEF UndoInv
<1>16. \A i \in 1 .. (n + 1) : UndoInv(i)'
  BY <1>2, <1>14, <1>15
<1>. QED  BY <1>2, <1>7, <1>8, <1>13, <1>16, ZenonT(60) DEF CoinInv

LEMMA DisconnectCoins ==
    ASSUME IInv, CoinInv, DisconnectBlock
    PROVE  CoinInv'
<1>1. PICK n : n = Height
  BY Zenon
<1>2. /\ n > 0 /\ n \in Nat /\ n - 1 \in Nat /\ n \in 1 .. n /\ Tip = chain[n]
      /\ chain \in Seq(SUBSET (Attestations \cup Moves)) /\ n = Len(chain)
      /\ chain' = SubSeq(chain, 1, n - 1)
  BY <1>1, TipChain, Zenon DEF DisconnectBlock
<1>3. n - 1 \in 0 .. Len(chain)
  BY <1>2
<1>4. Len(chain') = n - 1 /\ Height' = n - 1 /\ \A h \in 1 .. (n - 1) : chain'[h] = chain[h]
  BY <1>2, <1>3, PrefixIsSeq, Zenon DEF Height
<1>5. /\ \A c : \A m \in 0 .. (n - 1) : Born(c, m)' <=> Born(c, m)
      /\ \A h \in 1 .. (n - 1) : SpentBy(chain[h])' = SpentBy(chain[h])
  BY <1>2, <1>4, SameBirths, Zenon
<1>6. undo \in Seq(Undos) /\ Len(undo) = n /\ UndoInv(n)
  BY <1>1, <1>2, Zenon DEF CoinInv
<1>7. undo' \in Seq(Undos) /\ Len(undo') = n - 1 /\ \A i \in 1 .. (n - 1) : undo'[i] = undo[i]
  <2>1. undo' = SubSeq(undo, 1, n - 1) /\ n - 1 \in 0 .. Len(undo)
    BY <1>2, <1>3, <1>6, Zenon DEF DisconnectBlock
  <2>. QED  BY <1>6, <2>1, PrefixIsSeq, Zenon
<1>8. coins' = CoinsBefore
  BY Zenon DEF DisconnectBlock
<1>9. ASSUME NEW c \in Coins
      PROVE  coins'[c] \in Births /\ (coins'[c] # None => Born(c, n - 1))
  <2>1. CASE c \in CreatedBy(Tip)
    BY <1>8, <2>1, Zenon DEF CoinsBefore, Births
  <2>2. CASE c \notin CreatedBy(Tip) /\ c \in SpentBy(Tip)
    BY <1>2, <1>6, <1>8, <2>2, Zenon DEF CoinsBefore, UndoInv
  <2>3. CASE c \notin CreatedBy(Tip) /\ c \notin SpentBy(Tip)
    <3>1. coins'[c] = coins[c] /\ coins[c] \in Births
      BY <1>8, <2>3, Zenon DEF CoinsBefore, CoinInv
    <3>2. ASSUME coins[c] # None PROVE Born(c, n - 1)
      <4>1. Born(c, n)
        BY <1>1, <3>2, Zenon DEF CoinInv
      <4>2. \A i \in 1 .. n : i # n => i \in 1 .. (n - 1)
        BY <1>2
      <4>. QED  BY <1>2, <2>3, <4>1, <4>2, Zenon DEF Born
    <3>. QED  BY <3>1, <3>2, Zenon
  <2>. QED  BY <2>1, <2>2, <2>3, Zenon
<1>10. coins' \in [Coins -> Births]
  <2>1. coins' = [c \in Coins |-> coins'[c]]
    BY <1>8, Zenon DEF CoinsBefore
  <2>. QED  BY <1>9, <2>1, Zenon
<1>11. \A c \in Coins : coins'[c] # None => Born(c, Height)'
  <2>1. \A c \in Coins : coins'[c] # None => Born(c, n - 1)'
    BY <1>2, <1>5, <1>9, SMTT(60)
  <2>. QED  BY <1>4, <2>1, Zenon
<1>12. ASSUME NEW i \in 1 .. (n - 1) PROVE UndoInv(i)'
  <2>1. UndoInv(i) /\ i - 1 \in 0 .. (n - 1)
    BY <1>1, <1>2 DEF CoinInv
  <2>. QED  BY <1>5, <1>7, <2>1, Zenon DEF UndoInv
<1>. QED  BY <1>4, <1>7, <1>10, <1>11, <1>12, Zenon DEF CoinInv

LEMMA NextCoinInv == IInv /\ CoinInv /\ [Next]_vars => CoinInv'
<1>. SUFFICES ASSUME IInv, CoinInv, [Next]_vars PROVE CoinInv'
  BY Zenon
<1>1. ASSUME NEW block \in SUBSET (Attestations \cup Moves), ConnectBlock(block) PROVE CoinInv'
  BY <1>1, ConnectCoins, Zenon
<1>2. CASE DisconnectBlock
  BY <1>2, DisconnectCoins, Zenon
<1>3. CASE UNCHANGED <<chain, coins, undo>>
  <2>1. PICK n : n = Height /\ n \in Nat
    BY DEF IInv, TypeInv, Height
  <2>2. Height' = n /\ Len(chain') = Len(chain) /\ \A h \in 1 .. n : chain'[h] = chain[h]
    BY <1>3, <2>1, Zenon DEF Height
  <2>3. /\ \A c : \A m \in 0 .. n : Born(c, m)' <=> Born(c, m)
        /\ \A h \in 1 .. n : SpentBy(chain[h])' = SpentBy(chain[h])
    BY <2>1, <2>2, SameBirths, Zenon
  <2>4. ASSUME NEW i \in 1 .. n PROVE UndoInv(i)'
    <3>1. UndoInv(i) /\ i - 1 \in 0 .. n
      BY <2>1 DEF CoinInv
    <3>. QED  BY <1>3, <2>3, <3>1, Zenon DEF UndoInv
  <2>5. \A c \in Coins : coins'[c] # None => Born(c, Height)'
    <3>1. \A c \in Coins : coins[c] # None => Born(c, n)
      BY <2>1, Zenon DEF CoinInv
    <3>2. \A c \in Coins : coins'[c] # None => Born(c, n)'
      BY <1>3, <2>1, <2>3, <3>1, SMTT(60)
    <3>. QED  BY <2>2, <3>2, Zenon
  <2>. QED  BY <1>3, <2>2, <2>4, <2>5, Zenon DEF CoinInv
<1>. QED  BY <1>1, <1>2, <1>3, Zenon DEF Next, vars, CreateDemurrageAttestationTransaction

\* The record of a key that a block attests.
LEMMA AttestedRecord ==
    ASSUME IInv, NEW block \in SUBSET (Attestations \cup Moves), ConnectBlock(block), NEW n, n = Height,
           IsDemurrageActive(n + 1), NEW k \in Keys, AttestationFor(k, block) # {}
    PROVE  /\ latest'[k] \in Records /\ latest'[k].height = n + 1
           /\ latest'[k].coverage = IF latest[k] # None /\ (n + 1) - latest[k].height < Zero
                                    THEN latest[k].coverage ELSE n + 1
<1>1. PICK a : a = CHOOSE att \in AttestationFor(k, block) : TRUE
  BY Zenon
<1>2. a \in AttestationFor(k, block)
  BY <1>1, Zenon
<1>3. PICK r : r = RecordOf(a, Append(chain, block))
  BY Zenon
<1>4. r \in Records
  BY <1>2, <1>3, ConnectRecord, Zenon
<1>5. latest'[k] = r
  BY <1>1, <1>3, Zenon DEF ConnectBlock, ApplyDemurrageBlock, LatestAfter
<1>6. signed[a].previous = latest[k]
  BY <1>2, Zenon DEF ConnectBlock, Valid, CheckDemurrageAttestations, PreviousAllowed, AttestationFor, AttestationsOf
<1>7. Len(Append(chain, block)) = n + 1
  BY ConnectChain, Zenon
<1>. QED  BY <1>3, <1>4, <1>5, <1>6, <1>7, SMTT(60) DEF RecordOf, AttestationCoverageStart

LEMMA RevivalNeedsAttestation ==
    ASSUME IInv, CoinInv, NEW block \in SUBSET (Attestations \cup Moves), ConnectBlock(block),
           NEW c \in Coins, coins[c] # None, coins'[c] = None \/ Remaining(c)' > Remaining(c)
    PROVE  Remaining(c) > 0 /\ (coins'[c] # None => AttestationFor(Owner[c], block) # {})
<1>1. PICK n, k, h, r, q : /\ n = Height /\ k = Owner[c] /\ h = coins[c]
                           /\ r = latest[k] /\ q = latest'[k]
  BY ZenonT(60)
<1>2. n \in Nat /\ Height' = n + 1 /\ n + 1 \in Nat
  BY <1>1, ConnectChain
<1>3. k \in Keys /\ h \in Nat /\ r \in Records \cup {None} /\ q \in Records \cup {None}
  <2>1. k \in Keys /\ r \in Records \cup {None}
    BY <1>1, CoinAssumption, ZenonT(60) DEF IInv, TypeInv
  <2>2. h \in Nat
    BY <1>1, ScheduleAssumption DEF CoinInv, Births
  <2>3. q \in Records \cup {None}
    BY <1>1, <2>1, ConnectRecords, Zenon DEF TypeInv
  <2>. QED  BY <2>1, <2>2, <2>3, Zenon
<1>4. Remaining(c) = EvaluateDemurrage(h, r, n + 1) /\ Remaining(c) \in 0 .. DEMURRAGE_PPM
  <2>1. Remaining(c) = EvaluateDemurrage(h, r, n + 1)
    BY <1>1, Zenon DEF Remaining
  <2>. QED  BY <1>2, <1>3, <2>1, ValueFalls, ZenonT(60)
<1>5. c \notin CreatedBy(block)
  BY CreatedIsNew, ZenonT(60) DEF ConnectBlock, Valid
<1>6. CASE coins'[c] = None
  <2>1. c \in SpentBy(block)
    BY <1>5, <1>6, Zenon DEF ConnectBlock, CoinsAfter
  <2>2. PICK m \in MovesOf(block) : In[m] = c
    BY <2>1, Zenon DEF SpentBy
  <2>3. ~IsLocked(c, Height + 1)
    BY <1>5, <2>2, Zenon DEF ConnectBlock, Valid, MovesAllowed, CreatedBy
  <2>4. Remaining(c) # 0
    BY <2>3, ZenonT(60) DEF IsLocked, Remaining
  <2>. QED  BY <1>4, <1>6, <2>4, ScheduleAssumption, SMTT(60)
<1>7. CASE coins'[c] # None /\ Remaining(c)' > Remaining(c)
  <2>1. coins'[c] = h
    BY <1>1, <1>5, <1>7, Zenon DEF ConnectBlock, CoinsAfter
  <2>2. Remaining(c)' = EvaluateDemurrage(h, q, (n + 1) + 1)
    BY <1>1, <1>2, <2>1, ZenonT(60) DEF Remaining
  <2>3. ASSUME q = r PROVE FALSE
    <3>1. /\ EvaluateDemurrage(h, r, (n + 1) + 1) <= EvaluateDemurrage(h, r, n + 1)
          /\ EvaluateDemurrage(h, r, (n + 1) + 1) \in 0 .. DEMURRAGE_PPM
      BY <1>2, <1>3, ValueFalls, Zenon
    <3>. QED  BY <1>4, <1>7, <2>2, <2>3, <3>1, ScheduleAssumption, SMTT(60)
  <2>4. IsDemurrageActive(n + 1) /\ AttestationFor(k, block) # {}
    BY <1>1, <1>3, <2>3, ZenonT(60) DEF ConnectBlock, ApplyDemurrageBlock, LatestAfter
  <2>5. ASSUME Remaining(c) = 0 PROVE FALSE
    <3>1. /\ q \in Records /\ q.height = n + 1
          /\ q.coverage = IF r # None /\ (n + 1) - r.height < Zero THEN r.coverage ELSE n + 1
      BY <1>1, <1>3, <2>4, AttestedRecord, ZenonT(60)
    <3>2. EvaluateDemurrage(h, q, (n + 1) + 1) = 0
      BY <1>2, <1>3, <1>4, <2>4, <2>5, <3>1, LostStaysLost, SMTT(60)
    <3>. QED  BY <1>7, <2>2, <2>5, <3>2, SMTT(60)
  <2>. QED  BY <1>1, <1>4, <2>4, <2>5, ScheduleAssumption, SMTT(60)
<1>. QED  BY <1>6, <1>7, Zenon

\* The variables have their types.
THEOREM TypeCorrect == Spec => []TypeOK
<1>1. IInv /\ CoinInv => TypeOK
  <2>. SUFFICES ASSUME IInv, CoinInv PROVE TypeOK
    BY Zenon
  <2>1. inventory \in Inventories \cup {None}
    <3>1. CASE IsDemurrageActive(Height + 1)
      <4>1. inventory = [tip |-> chain, live |-> Leaves(latest), count |-> Cardinality(Leaves(latest))]
        BY <3>1, Zenon DEF IInv, InventoryMatchesRecords
      <4>2. Cardinality(Leaves(latest)) \in Nat
        BY LeavesCount, Zenon
      <4>3. Leaves(latest) \in SUBSET (Keys \X Records)
        <5>1. ASSUME NEW k \in Keys, latest[k] # None PROVE latest[k] \in Records
          BY <5>1, Zenon DEF IInv, TypeInv
        <5>. QED  BY <5>1 DEF Leaves
      <4>4. chain \in Hashes
        BY Zenon DEF IInv, TypeInv
      <4>. QED  BY <4>1, <4>2, <4>3, <4>4, Zenon DEF Inventories
    <3>. QED  BY <3>1, Zenon DEF IInv, InventoryMatchesRecords
  <2>. QED  BY <2>1, Zenon DEF TypeOK, IInv, TypeInv, CoinInv, Births, Signatures
<1>. QED  BY <1>1, InitIInv, NextIInv, InitCoinInv, NextCoinInv, PTL DEF Spec

\* Between two blocks a coin gains value only by an attestation of its key, and a coin that has
\* lost all of its value never gets it back and never moves: AttestationCoverageStart goes on with
\* a series only while it has not broken off.
THEOREM RevivalIsAttested == Spec => OnlyAttestationRevives
<1>1. ASSUME IInv, CoinInv, [Next]_vars
      PROVE  [\A c \in Coins :
                /\ coins[c] # None /\ Height' = Height + 1
                /\ coins'[c] = None \/ Remaining(c)' > Remaining(c)
                => /\ Remaining(c) > 0
                   /\ coins'[c] # None => AttestationFor(Owner[c], chain'[Height']) # {}]_vars
  <2>1. PICK n : n = Height /\ n \in Nat
    BY <1>1 DEF IInv, TypeInv, Height
  <2>2. CASE Height' # Height + 1
    BY <2>2, Zenon
  <2>3. ASSUME NEW block \in SUBSET (Attestations \cup Moves), ConnectBlock(block)
        PROVE  \A c \in Coins :
                /\ coins[c] # None /\ Height' = Height + 1
                /\ coins'[c] = None \/ Remaining(c)' > Remaining(c)
                => /\ Remaining(c) > 0
                   /\ coins'[c] # None => AttestationFor(Owner[c], chain'[Height']) # {}
    <3>1. chain'[Height'] = block
      BY <1>1, <2>1, <2>3, ConnectChain, Zenon
    <3>. QED  BY <1>1, <2>3, <3>1, RevivalNeedsAttestation, ZenonT(60)
  <2>4. DisconnectBlock => Height' # Height + 1
    <3>. SUFFICES ASSUME DisconnectBlock PROVE Height' # Height + 1
      BY Zenon
    <3>1. /\ chain \in Seq(SUBSET (Attestations \cup Moves)) /\ n = Len(chain) /\ n > 0
          /\ chain' = SubSeq(chain, 1, n - 1) /\ n - 1 \in 0 .. n
      BY <1>1, <2>1, TipChain, SMTT(60) DEF DisconnectBlock
    <3>2. Len(chain') = n - 1
      BY <3>1, PrefixIsSeq, Zenon
    <3>. QED  BY <2>1, <3>2 DEF Height
  <2>5. (UNCHANGED chain) => Height' # Height + 1
    BY <2>1 DEF Height
  <2>. QED  BY <1>1, <2>2, <2>3, <2>4, <2>5, ZenonT(60) DEF Next, vars, CreateDemurrageAttestationTransaction
<1>. QED  BY <1>1, InitIInv, NextIInv, InitCoinInv, NextCoinInv, PTL DEF Spec, OnlyAttestationRevives
-----------------------------------------------------------------------------
(* The mempool. *)

\* What every pool of the node satisfies, between two blocks of a reorganisation too.
Sound(pool) ==
    /\ Fresh(pool)
    /\ \A a \in AttestationsOf(pool) : signed[a] # None
    /\ \A m, n \in MovesOf(pool) : In[m] = In[n] => m = n
    /\ \A a, b \in AttestationsOf(pool) : signed[a].key = signed[b].key => a = b

\* What the recheck at the end of a tip change leaves.
Rechecked(pool) ==
    /\ \A m \in MovesOf(pool) : InputAllowed(In[m], View(pool))
    /\ \A a \in AttestationsOf(pool) :
          /\ IsDemurrageActive(Height + 1) /\ AttestationAllowed(a, View(pool))
          /\ coins[signed[a].target] # None /\ signed[a].target \notin SpentBy(pool)

MempoolInv == Sound(mempool) /\ (phase = "idle" => Rechecked(mempool))

\* WithDescendants has txs and is closed under the children in the pool.
LEMMA Descendants ==
    ASSUME NEW txs, NEW pool, NEW W, W = WithDescendants(txs, pool)
    PROVE  /\ txs \subseteq W
           /\ \A m \in MovesOf(pool), n \in MovesOf(W) : In[m] = Out[n] => m \in W
<1>1. txs \subseteq W
  BY Zenon DEF WithDescendants
<1>2. ASSUME NEW m \in MovesOf(pool), NEW n \in MovesOf(W), In[m] = Out[n] PROVE m \in W
  <2>1. m \in txs \cup pool
    BY Zenon DEF MovesOf
  <2>2. ASSUME NEW S \in SUBSET (txs \cup pool), txs \subseteq S, Children(S, pool) \subseteq S PROVE m \in S
    <3>1. n \in S /\ n \in Moves
      BY <2>2, Zenon DEF WithDescendants, MovesOf
    <3>2. In[m] \in CreatedBy(S)
      BY <1>2, <3>1, Zenon DEF CreatedBy, MovesOf
    <3>. QED  BY <2>2, <3>2, Zenon DEF Children
  <2>. QED  BY <2>1, <2>2, Zenon DEF WithDescendants
<1>. QED  BY <1>1, <1>2, Zenon

\* A part of a sound pool is sound.
LEMMA PartIsSound ==
    ASSUME NEW pool, Sound(pool), NEW q, q \subseteq pool
    PROVE  Sound(q)
<1>1. AttestationsOf(q) \subseteq AttestationsOf(pool) /\ MovesOf(q) \subseteq MovesOf(pool)
  BY Zenon DEF AttestationsOf, MovesOf
<1>2. Fresh(q)
  BY Zenon DEF Sound, Fresh
<1>. QED  BY <1>1, <1>2, Zenon DEF Sound

\* MemPoolAccept keeps a pool sound: it refuses a second spend and a second attestation of a key.
LEMMA AcceptedIsSound ==
    ASSUME NEW pool, Sound(pool), NEW t, Accepted(t, pool), NEW q, q = pool \cup {t}
    PROVE  Sound(q)
<1>1. Fresh(q)
  BY Zenon DEF Sound, Accepted, Fresh
<1>2. CASE t \in Moves
  <2>1. t \notin Attestations /\ In[t] \notin SpentBy(pool)
    BY <1>2, CoinAssumption, Zenon DEF Accepted, MoveAccepted
  <2>2. AttestationsOf(q) = AttestationsOf(pool) /\ MovesOf(q) = MovesOf(pool) \cup {t}
    BY <1>2, <2>1, Zenon DEF AttestationsOf, MovesOf
  <2>3. \A m \in MovesOf(pool) : In[m] # In[t]
    BY <2>1, Zenon DEF SpentBy
  <2>. QED  BY <1>1, <2>2, <2>3, Zenon DEF Sound
<1>3. CASE t \notin Moves
  <2>1. signed[t] # None /\ signed[t].key \notin AttestedKeys(pool)
    BY <1>3, Zenon DEF Accepted, AttestationAccepted
  <2>2. AttestationsOf(q) \subseteq AttestationsOf(pool) \cup {t} /\ MovesOf(q) = MovesOf(pool)
    BY <1>3, Zenon DEF AttestationsOf, MovesOf
  <2>3. \A a \in AttestationsOf(pool) : signed[a].key # signed[t].key
    BY <2>1, Zenon DEF AttestedKeys
  <2>. QED  BY <1>1, <2>1, <2>2, <2>3, ZenonT(60) DEF Sound
<1>. QED  BY <1>2, <1>3, Zenon

\* An output of the mempool has its full value.
LEMMA MempoolCoinIsAllowed ==
    ASSUME IInv, NEW r \in Records \cup {None}
    PROVE  EvaluateDemurrage(MEMPOOL_HEIGHT, r, Height + 1) # 0
<1>1. PICK n : n = Height /\ n \in 0 .. MaxHeight
  BY Zenon DEF IInv, TypeInv, Height
<1>2. n + 1 \in Nat /\ MEMPOOL_HEIGHT \in Nat /\ n + 1 <= MEMPOOL_HEIGHT
  BY <1>1, ScheduleAssumption DEF MEMPOOL_HEIGHT
<1>3. CASE IsDemurrageActive(n + 1)
  <2>1. PICK l : l = LastActive(MEMPOOL_HEIGHT, r) /\ l \in Nat /\ ActivityStart(MEMPOOL_HEIGHT) <= l
    BY <1>2, LastActiveType, Zenon
  <2>2. MEMPOOL_HEIGHT <= l
    BY <1>2, <2>1, ScheduleAssumption, SMTT(60) DEF ActivityStart, MaxOf
  <2>3. ~((n + 1) - l >= Zero)
    BY <1>2, <2>1, <2>2, ScheduleAssumption, SMTT(60)
  <2>. QED  BY <1>1, <1>2, <1>3, <2>1, <2>3, LostValue, ZenonT(60)
<1>4. CASE ~IsDemurrageActive(n + 1)
  BY <1>1, <1>4, ScheduleAssumption, Zenon DEF EvaluateDemurrage
<1>. QED  BY <1>3, <1>4, Zenon

\* A larger pool offers more.
LEMMA ViewGrows ==
    ASSUME IInv, NEW pool, NEW q, pool \subseteq q, NEW c \in Coins, NEW k \in Keys,
           View(pool)[c] # None, EvaluateDemurrage(View(pool)[c], latest[k], Height + 1) # 0
    PROVE  View(q)[c] # None /\ EvaluateDemurrage(View(q)[c], latest[k], Height + 1) # 0
<1>1. CASE c \in CreatedBy(q)
  <2>1. View(q)[c] = MEMPOOL_HEIGHT
    BY <1>1, Zenon DEF View
  <2>2. MEMPOOL_HEIGHT # None
    BY ScheduleAssumption, CoinAssumption DEF MEMPOOL_HEIGHT
  <2>3. latest[k] \in Records \cup {None}
    BY Zenon DEF IInv, TypeInv
  <2>. QED  BY <2>1, <2>2, <2>3, MempoolCoinIsAllowed, ZenonT(60)
<1>2. CASE c \notin CreatedBy(q)
  <2>1. c \notin CreatedBy(pool)
    BY <1>2, Zenon DEF CreatedBy, MovesOf
  <2>. QED  BY <1>2, <2>1, Zenon DEF View
<1>. QED  BY <1>1, <1>2, Zenon

\* A transaction that MemPoolAccept lets in leaves the others of a rechecked pool minable.
LEMMA AcceptedIsRechecked ==
    ASSUME IInv, NEW pool, Sound(pool), Rechecked(pool), NEW t, Accepted(t, pool), NEW q, q = pool \cup {t}
    PROVE  Rechecked(q)
<1>1. ASSUME NEW m \in MovesOf(pool) \cup (MovesOf(q) \cap {t}) PROVE InputAllowed(In[m], View(q))
  <2>1. InputAllowed(In[m], View(pool))
    BY Zenon DEF Rechecked, Accepted, MoveAccepted, MovesOf
  <2>2. m \in Moves
    BY Zenon DEF MovesOf
  <2>3. In[m] \in Coins /\ Owner[In[m]] \in Keys
    BY <2>2, CoinAssumption, Zenon
  <2>. QED  BY <2>1, <2>3, ViewGrows, Zenon DEF InputAllowed
<1>2. ASSUME NEW a \in AttestationsOf(q)
      PROVE  /\ IsDemurrageActive(Height + 1) /\ AttestationAllowed(a, View(q))
             /\ coins[signed[a].target] # None /\ signed[a].target \notin SpentBy(q)
  <2>1. /\ a \in Attestations /\ signed[a] # None /\ IsDemurrageActive(Height + 1)
        /\ AttestationAllowed(a, View(pool))
        /\ coins[signed[a].target] # None /\ signed[a].target \notin SpentBy(pool)
    <3>1. CASE a \in AttestationsOf(pool)
      BY <3>1, Zenon DEF Sound, Rechecked, AttestationsOf
    <3>2. CASE a \notin AttestationsOf(pool)
      <4>1. a = t /\ a \in Attestations /\ t \notin Moves
        BY <3>2, CoinAssumption, ZenonT(60) DEF AttestationsOf
      <4>. QED  BY <4>1, Zenon DEF Accepted, AttestationAccepted
    <3>. QED  BY <3>1, <3>2, Zenon
  <2>2. signed[a].target \in Coins /\ signed[a].key \in Keys
    BY <2>1, Zenon DEF IInv, TypeInv, Signatures
  <2>3. AttestationAllowed(a, View(q))
    BY <2>1, <2>2, ViewGrows, Zenon DEF AttestationAllowed, TargetAllowed
  <2>4. signed[a].target \notin SpentBy(q)
    <3>1. CASE t \in Moves
      <4>1. a \in AttestationsOf(pool)
        BY <3>1, CoinAssumption, Zenon DEF AttestationsOf
      <4>2. In[t] # signed[a].target
        BY <3>1, <4>1, Zenon DEF Accepted, MoveAccepted, Targets
      <4>. QED  BY <2>1, <4>2, Zenon DEF SpentBy, MovesOf
    <3>2. CASE t \notin Moves
      BY <2>1, <3>2, Zenon DEF SpentBy, MovesOf
    <3>. QED  BY <3>1, <3>2, Zenon
  <2>. QED  BY <2>1, <2>3, <2>4, Zenon
<1>3. MovesOf(q) = MovesOf(pool) \cup (MovesOf(q) \cap {t})
  BY Zenon DEF MovesOf
<1>. QED  BY <1>1, <1>2, <1>3, Zenon DEF Rechecked

\* The recheck at the end of a tip change: a transaction that stays has the inputs it had, since
\* the descendants of what is removed are removed with it.
LEMMA RecheckWorks ==
    ASSUME IInv, CoinInv, NEW pool, Sound(pool), NEW q, q = RemoveForReorg(pool)
    PROVE  Sound(q) /\ Rechecked(q)
<1>. DEFINE bad == InvalidLifecycle(pool) \cup InvalidInputs(pool)
            W == WithDescendants(bad, pool)
<1>1. q = pool \ W
  BY Zenon DEF RemoveForReorg, RemoveRecursive
<1>2. bad \subseteq W /\ \A m \in MovesOf(pool), n \in MovesOf(W) : In[m] = Out[n] => m \in W
  <2>. HIDE DEF bad
  <2>. QED  BY Descendants, ZenonT(60)
<1>3. \A t \in q : t \in pool /\ t \notin W /\ t \notin InvalidLifecycle(pool) /\ t \notin InvalidInputs(pool)
  BY <1>1, <1>2, Zenon
<1>. HIDE DEF W, bad
<1>4. Sound(q)
  BY <1>1, PartIsSound, Zenon
<1>5. ASSUME NEW m \in MovesOf(q) PROVE InputAllowed(In[m], View(q))
  <2>1. m \in MovesOf(pool) /\ m \notin W /\ m \notin InvalidInputs(pool) /\ m \in Moves
    BY <1>3, Zenon DEF MovesOf
  <2>2. InputAllowed(In[m], View(pool)) /\ In[m] \in Coins
    BY <2>1, CoinAssumption, Zenon DEF InvalidInputs
  <2>3. In[m] \in CreatedBy(q) <=> In[m] \in CreatedBy(pool)
    <3>1. ASSUME NEW n \in MovesOf(pool), In[m] = Out[n] PROVE n \in MovesOf(q)
      BY <1>1, <1>2, <2>1, <3>1, ZenonT(60) DEF MovesOf
    <3>2. MovesOf(q) \subseteq MovesOf(pool)
      BY <1>1, Zenon DEF MovesOf
    <3>. QED  BY <3>1, <3>2, Zenon DEF CreatedBy
  <2>4. View(q)[In[m]] = View(pool)[In[m]]
    BY <2>2, <2>3, Zenon DEF View
  <2>. QED  BY <2>2, <2>4, ZenonT(60) DEF InputAllowed
<1>6. ASSUME NEW a \in AttestationsOf(q)
      PROVE  /\ IsDemurrageActive(Height + 1) /\ AttestationAllowed(a, View(q))
             /\ coins[signed[a].target] # None /\ signed[a].target \notin SpentBy(q)
  <2>1. a \in AttestationsOf(pool) /\ a \notin InvalidLifecycle(pool) /\ a \in Attestations
    BY <1>3, Zenon DEF AttestationsOf
  <2>2. /\ IsDemurrageActive(Height + 1) /\ AttestationAllowed(a, View(pool))
        /\ coins[signed[a].target] # None /\ signed[a].target \notin SpentBy(pool)
    BY <2>1, Zenon DEF InvalidLifecycle
  <2>3. signed[a].target \in Coins
    BY <2>1, Zenon DEF IInv, TypeInv, Signatures, Sound
  <2>4. signed[a].target \notin CreatedBy(pool) /\ signed[a].target \notin CreatedBy(q)
    <3>1. Fresh(pool) /\ Fresh(q)
      BY <1>4, Zenon DEF Sound
    <3>. QED  BY <2>2, <2>3, <3>1, CreatedIsNew, ZenonT(60)
  <2>5. View(q)[signed[a].target] = View(pool)[signed[a].target]
    BY <2>3, <2>4, Zenon DEF View
  <2>6. SpentBy(q) \subseteq SpentBy(pool)
    BY <1>1, Zenon DEF SpentBy, MovesOf
  <2>. QED  BY <2>2, <2>5, <2>6, ZenonT(60) DEF AttestationAllowed, TargetAllowed
<1>. QED  BY <1>4, <1>5, <1>6, Zenon DEF Rechecked

\* What is valid for the next block: a part of a rechecked pool that has the ancestors of its
\* members, and moves of coins of the tip that the part neither spends nor attests with.
LEMMA PartIsValid ==
    ASSUME IInv, CoinInv, Height < MaxHeight, Sound(mempool), Rechecked(mempool),
           NEW txs \in SUBSET mempool, Closed(txs),
           Cardinality(AttestationsOf(txs)) <= MAX_DEMURRAGE_ATTESTATIONS_PER_BLOCK,
           NEW extra \in SUBSET Moves, Fresh(extra),
           \A m, n \in extra : In[m] = In[n] => m = n,
           \A m \in extra : /\ coins[In[m]] # None /\ ~IsLocked(In[m], Height + 1)
                            /\ In[m] \notin SpentBy(txs) /\ In[m] \notin Targets(txs),
           NEW block, block = txs \cup extra
    PROVE  Valid(block)
<1>1. Sound(txs)
  BY PartIsSound, Zenon
<1>2. MovesOf(block) = MovesOf(txs) \cup extra /\ AttestationsOf(block) = AttestationsOf(txs)
  BY CoinAssumption, Zenon DEF MovesOf, AttestationsOf
<1>3. Fresh(block)
  BY <1>1, Zenon DEF Sound, Fresh
<1>4. \A a \in AttestationsOf(block) : signed[a] # None
  BY <1>1, <1>2, Zenon DEF Sound
<1>5. MovesAllowed(block)
  <2>1. ASSUME NEW m \in MovesOf(txs)
        PROVE  \/ coins[In[m]] # None /\ ~IsLocked(In[m], Height + 1)
               \/ \E n \in MovesOf(block) : Out[n] = In[m]
    <3>1. m \in MovesOf(mempool) /\ In[m] \in Coins
      BY CoinAssumption, Zenon DEF MovesOf
    <3>2. InputAllowed(In[m], View(mempool))
      BY <3>1, Zenon DEF Rechecked
    <3>3. CASE In[m] \in CreatedBy(mempool)
      <4>1. PICK n \in MovesOf(mempool) : Out[n] = In[m]
        BY <3>3, Zenon DEF CreatedBy
      <4>2. n \in txs
        BY <4>1, Zenon DEF Closed
      <4>. QED  BY <4>1, <4>2, ZenonT(60) DEF MovesOf
    <3>4. CASE In[m] \notin CreatedBy(mempool)
      <4>1. View(mempool)[In[m]] = coins[In[m]]
        BY <3>1, <3>4, Zenon DEF View
      <4>. QED  BY <3>2, <4>1, Zenon DEF InputAllowed, IsLocked
    <3>. QED  BY <3>3, <3>4, Zenon
  <2>2. \A m \in MovesOf(txs), n \in extra : In[m] # In[n]
    BY Zenon DEF SpentBy
  <2>3. \A m, n \in MovesOf(txs) : In[m] = In[n] => m = n
    BY <1>1, Zenon DEF Sound
  <2>4. \A m \in MovesOf(block) :
           \/ coins[In[m]] # None /\ ~IsLocked(In[m], Height + 1)
           \/ \E n \in MovesOf(block) : Out[n] = In[m]
    BY <1>2, <2>1, Zenon
  <2>5. ASSUME NEW m \in MovesOf(block), NEW n \in MovesOf(block), In[m] = In[n] PROVE m = n
    BY <1>2, <2>2, <2>3, <2>5, ZenonT(60)
  <2>. QED  BY <2>4, <2>5, ZenonT(60) DEF MovesAllowed
<1>6. CheckDemurrageAttestations(block)
  <2>1. ASSUME NEW a \in AttestationsOf(txs)
        PROVE  IsDemurrageActive(Height + 1) /\ PreviousAllowed(signed[a]) /\ TargetAllowed(signed[a], CoinsAfter(block))
    <3>1. a \in AttestationsOf(mempool) /\ a \in Attestations
      BY Zenon DEF AttestationsOf
    <3>2. /\ IsDemurrageActive(Height + 1) /\ PreviousAllowed(signed[a])
          /\ TargetAllowed(signed[a], View(mempool))
          /\ coins[signed[a].target] # None /\ signed[a].target \notin SpentBy(mempool)
      BY <3>1, Zenon DEF Rechecked, AttestationAllowed
    <3>3. signed[a].target \in Coins
      BY <3>1, Zenon DEF IInv, TypeInv, Signatures, Sound
    <3>4. signed[a].target \notin CreatedBy(block) /\ signed[a].target \notin CreatedBy(mempool)
      <4>1. Fresh(mempool)
        BY Zenon DEF Sound
      <4>. QED  BY <1>3, <3>2, <3>3, <4>1, CreatedIsNew, ZenonT(60)
    <3>5. signed[a].target \notin SpentBy(block)
      <4>1. \A m \in extra : In[m] # signed[a].target
        BY Zenon DEF Targets
      <4>2. MovesOf(txs) \subseteq MovesOf(mempool)
        BY Zenon DEF MovesOf
      <4>. QED  BY <1>2, <3>2, <4>1, <4>2, ZenonT(60) DEF SpentBy
    <3>6. CoinsAfter(block)[signed[a].target] = View(mempool)[signed[a].target]
      BY <3>3, <3>4, <3>5, ZenonT(60) DEF CoinsAfter, View
    <3>. QED  BY <3>2, <3>6, Zenon DEF TargetAllowed
  <2>2. \A a, b \in AttestationsOf(txs) : signed[a].key = signed[b].key => a = b
    BY <1>1, ZenonT(60) DEF Sound
  <2>. QED  BY <1>2, <2>1, <2>2, ZenonT(60) DEF CheckDemurrageAttestations
<1>. QED  BY <1>3, <1>4, <1>5, <1>6, ZenonT(60) DEF Valid

\* The pool invariant looks at the chain's state and at the signed attestations only.
LEMMA SamePool ==
    ASSUME NEW q, UNCHANGED vars
    PROVE  (Sound(q) => Sound(q)') /\ (Rechecked(q) => Rechecked(q)')
<1>. USE DEF vars
<1>1. Sound(q) => Sound(q)'
  BY Zenon DEF Sound, Fresh, AttestationsOf, MovesOf
<1>2. View(q)' = View(q) /\ SpentBy(q)' = SpentBy(q)
  BY Zenon DEF View, CreatedBy, SpentBy, MovesOf
<1>3. ASSUME NEW c PROVE InputAllowed(c, View(q)) => InputAllowed(c, View(q))'
  BY <1>2, Zenon DEF InputAllowed, EvaluateDemurrage, LastActive, Height
<1>4. ASSUME NEW a PROVE AttestationAllowed(a, View(q)) => AttestationAllowed(a, View(q))'
  BY <1>2, Zenon DEF AttestationAllowed, TargetAllowed, PreviousAllowed, Height
<1>5. (\A m \in MovesOf(q) : InputAllowed(In[m], View(q))) => (\A m \in MovesOf(q) : InputAllowed(In[m], View(q)))'
  BY <1>3, Zenon DEF MovesOf
<1>. QED  BY <1>1, <1>2, <1>4, <1>5, ZenonT(60) DEF Rechecked, AttestationsOf, Height

LEMMA SignPool ==
    ASSUME IInv, MempoolInv, NEW a \in Attestations, NEW c \in Coins, Sign(a, c)
    PROVE  MempoolInv'
<1>. USE DEF Sign, CreateDemurrageAttestationTransaction, mempoolVars
<1>1. \A b \in AttestationsOf(mempool) : signed'[b] = signed[b]
  <2>1. a \notin AttestationsOf(mempool)
    BY ZenonT(60) DEF MempoolInv, Sound
  <2>. QED  BY <2>1, Zenon DEF IInv, TypeInv, AttestationsOf
<1>2. Sound(mempool)'
  BY <1>1 DEF MempoolInv, Sound, Fresh, AttestationsOf, MovesOf
<1>3. View(mempool)' = View(mempool) /\ SpentBy(mempool)' = SpentBy(mempool)
  BY Zenon DEF View, CreatedBy, SpentBy, MovesOf
<1>4. Rechecked(mempool)
  BY Zenon DEF MempoolInv
<1>5. ASSUME NEW m \in MovesOf(mempool) PROVE InputAllowed(In[m], View(mempool))'
  BY <1>3, <1>4, Zenon DEF Rechecked, InputAllowed, Height
<1>6. ASSUME NEW b \in AttestationsOf(mempool)
      PROVE  AttestationAllowed(b, View(mempool))'
  BY <1>1, <1>3, <1>4, Zenon DEF Rechecked, AttestationAllowed, TargetAllowed, PreviousAllowed, SourceOnChain, Height
<1>7. Rechecked(mempool)'
  BY <1>1, <1>3, <1>4, <1>5, <1>6, ZenonT(60) DEF Rechecked, AttestationsOf, MovesOf, Height
<1>. QED  BY <1>2, <1>7, Zenon DEF MempoolInv

\* A connected block takes its own transactions out of the pool.
LEMMA ConnectPool ==
    ASSUME IInv, MempoolInv, NEW block \in SUBSET (Attestations \cup Moves), ConnectTip(block)
    PROVE  MempoolInv'
<1>1. PICK q : q = mempool'
  BY Zenon
<1>2. q \subseteq mempool /\ q \cap block = {}
  BY <1>1, Zenon DEF ConnectTip, RemoveForBlock, RemoveRecursive
<1>3. Sound(q)
  BY <1>2, PartIsSound, Zenon DEF MempoolInv
<1>4. PICK n : n = Height
  BY Zenon
<1>5. /\ n \in Nat /\ Len(chain') = n + 1 /\ chain'[n + 1] = block /\ signed' = signed
      /\ \A h \in 1 .. n : chain'[h] = chain[h]
  BY <1>4, ConnectChain, Zenon DEF ConnectTip
<1>6. ASSUME NEW i \in 1 .. n + 1 PROVE chain'[i] \cap q = {}
  <2>1. CASE i \in 1 .. n
    BY <1>3, <1>4, <1>5, <2>1, ZenonT(60) DEF Sound, Fresh, Height
  <2>2. CASE i = n + 1
    BY <1>2, <1>5, <2>2, Zenon
  <2>. QED  BY <1>5, <2>1, <2>2, SMTT(60)
<1>7. Sound(mempool)'
  BY <1>1, <1>3, <1>5, <1>6, ZenonT(60) DEF Sound, Fresh, AttestationsOf, MovesOf
<1>8. phase' # "idle"
  BY Zenon DEF ConnectTip
<1>. QED  BY <1>7, <1>8, Zenon DEF MempoolInv

\* A disconnected block leaves a shorter chain, and the pool as it was.
LEMMA DisconnectPool ==
    ASSUME IInv, MempoolInv, DisconnectTip
    PROVE  MempoolInv'
<1>1. PICK n : n = Height
  BY Zenon
<1>2. /\ n \in Nat /\ n > 0 /\ chain \in Seq(SUBSET (Attestations \cup Moves)) /\ n = Len(chain)
      /\ chain' = SubSeq(chain, 1, n - 1) /\ n - 1 \in 0 .. n /\ signed' = signed
  BY <1>1, TipChain, SMTT(60) DEF DisconnectTip, DisconnectBlock
<1>3. Len(chain') = n - 1 /\ \A i \in 1 .. n - 1 : chain'[i] = chain[i]
  BY <1>2, PrefixIsSeq, Zenon
<1>4. Fresh(mempool)'
  <2>1. \A i \in 1 .. n - 1 : chain[i] \cap mempool = {}
    BY <1>2 DEF MempoolInv, Sound, Fresh
  <2>. QED  BY <1>3, <2>1, ZenonT(60) DEF Fresh, DisconnectTip
<1>5. Sound(mempool)'
  BY <1>2, <1>4, Zenon DEF MempoolInv, Sound, AttestationsOf, MovesOf, DisconnectTip
<1>6. phase' # "idle"
  BY Zenon DEF DisconnectTip
<1>. QED  BY <1>5, <1>6, ZenonT(60) DEF MempoolInv

\* The other steps leave the chain alone.
LEMMA AcceptPool ==
    ASSUME IInv, MempoolInv, NEW t, AcceptToMemoryPool(t)
    PROVE  MempoolInv'
<1>1. PICK q : q = mempool'
  BY Zenon
<1>2. Sound(q) /\ Rechecked(q)
  BY <1>1, AcceptedIsSound, AcceptedIsRechecked, ZenonT(60) DEF AcceptToMemoryPool, MempoolInv
<1>3. Sound(q)' /\ Rechecked(q)'
  BY <1>2, SamePool, ZenonT(60) DEF AcceptToMemoryPool, vars
<1>. QED  BY <1>1, <1>3, Zenon
             DEF MempoolInv, Sound, Rechecked, View, Fresh, CreatedBy, SpentBy, MovesOf, AttestationsOf

LEMMA ResurrectPool ==
    ASSUME MempoolInv, ResurrectTx
    PROVE  MempoolInv'
<1>1. PICK t : mempool' = Resurrect(t, mempool)
  BY Zenon DEF ResurrectTx
<1>2. PICK q : q = mempool'
  BY Zenon
<1>3. Sound(q)
  <2>1. CASE Accepted(t, mempool)
    BY <1>1, <1>2, <2>1, AcceptedIsSound, ZenonT(60) DEF Resurrect, MempoolInv
  <2>2. CASE ~Accepted(t, mempool)
    BY <1>1, <1>2, <2>2, PartIsSound, ZenonT(60) DEF Resurrect, RemoveRecursive, MempoolInv
  <2>. QED  BY <2>1, <2>2, Zenon
<1>4. Sound(q)'
  BY <1>3, SamePool, Zenon DEF ResurrectTx
<1>5. phase' # "idle"
  BY Zenon DEF ResurrectTx
<1>. QED  BY <1>2, <1>4, <1>5, ZenonT(60) DEF MempoolInv, Sound, Fresh, MovesOf, AttestationsOf

LEMMA UpdatePool ==
    ASSUME IInv, CoinInv, MempoolInv, MaybeUpdateMempoolForReorg
    PROVE  MempoolInv'
<1>1. PICK q : q = mempool'
  BY Zenon
<1>2. Sound(q) /\ Rechecked(q)
  BY <1>1, RecheckWorks, Zenon DEF MaybeUpdateMempoolForReorg, MempoolInv
<1>3. Sound(q)' /\ Rechecked(q)'
  BY <1>2, SamePool, Zenon DEF MaybeUpdateMempoolForReorg
<1>. QED  BY <1>1, <1>3, Zenon
             DEF MempoolInv, Sound, Rechecked, View, Fresh, CreatedBy, SpentBy, MovesOf, AttestationsOf

LEMMA InitPool == MempoolInit => MempoolInv
  BY Zenon DEF MempoolInit, MempoolInv, Sound, Rechecked, Fresh, MovesOf, AttestationsOf

LEMMA NextPool ==
    IInv /\ CoinInv /\ MempoolInv /\ [MempoolNext]_<<vars, mempoolVars>> => MempoolInv'
<1>. SUFFICES ASSUME IInv, CoinInv, MempoolInv, [MempoolNext]_<<vars, mempoolVars>> PROVE MempoolInv'
  BY Zenon
<1>1. ASSUME NEW a \in Attestations, NEW c \in Coins, Sign(a, c) PROVE MempoolInv'
  BY <1>1, SignPool, Zenon
<1>2. ASSUME NEW t \in Transactions, AcceptToMemoryPool(t) PROVE MempoolInv'
  BY <1>2, AcceptPool, Zenon
<1>3. ASSUME NEW block \in SUBSET Transactions, ConnectTip(block) PROVE MempoolInv'
  BY <1>3, ConnectPool, Zenon DEF Transactions
<1>4. CASE DisconnectTip
  BY <1>4, DisconnectPool, Zenon
<1>5. CASE ResurrectTx
  BY <1>5, ResurrectPool, Zenon
<1>6. CASE MaybeUpdateMempoolForReorg
  BY <1>6, UpdatePool, ZenonT(60)
<1>7. CASE UNCHANGED <<vars, mempoolVars>>
  <2>1. PICK q : q = mempool /\ q = mempool' /\ phase' = phase
    BY <1>7, Zenon DEF mempoolVars
  <2>2. (Sound(q) => Sound(q)') /\ (Rechecked(q) => Rechecked(q)')
    BY <1>7, SamePool, Zenon
  <2>. QED  BY <2>1, <2>2, ZenonT(60)
               DEF MempoolInv, Sound, Rechecked, View, Fresh, CreatedBy, SpentBy, MovesOf, AttestationsOf
<1>. QED  BY <1>1, <1>2, <1>3, <1>4, <1>5, <1>6, <1>7, ZenonT(60) DEF MempoolNext

\* The chain of a node with a mempool is the chain of a node: the mempool only chooses what is
\* proposed for a block and when, so that every theorem above holds of the composition too.
THEOREM MempoolRefinesChain == MempoolSpec => Spec
<1>1. MempoolInit => Init
  BY Zenon DEF MempoolInit
<1>2. [MempoolNext]_<<vars, mempoolVars>> => [Next]_vars
  <2>1. ASSUME NEW t, AcceptToMemoryPool(t) PROVE UNCHANGED vars
    BY <2>1, Zenon DEF AcceptToMemoryPool, vars
  <2>. QED  BY <2>1, Zenon DEF MempoolNext, Next, Sign, ConnectTip, DisconnectTip, ResurrectTx,
                       MaybeUpdateMempoolForReorg, Transactions
<1>. QED  BY <1>1, <1>2, PTL DEF MempoolSpec, Spec

LEMMA PoolInvariance == MempoolSpec => [](IInv /\ CoinInv /\ MempoolInv)
<1>1. Spec => [](IInv /\ CoinInv)
  BY InitIInv, NextIInv, InitCoinInv, NextCoinInv, PTL DEF Spec
<1>. QED  BY <1>1, MempoolRefinesChain, InitPool, NextPool, PTL DEF MempoolSpec

\* Once MaybeUpdateMempoolForReorg has rechecked the pool, and whatever MemPoolAccept adds
\* after that, any part of it that has the ancestors of its members is valid as the next block.
THEOREM MempoolStaysMinable == MempoolSpec => []MempoolIsMinable
<1>1. IInv /\ CoinInv /\ MempoolInv => MempoolIsMinable
  <2>. SUFFICES ASSUME IInv, CoinInv, MempoolInv, Resting, NEW txs \in SUBSET mempool, Closed(txs),
                       Cardinality(AttestationsOf(txs)) <= MAX_DEMURRAGE_ATTESTATIONS_PER_BLOCK
                PROVE  Valid(txs)
    BY Zenon DEF MempoolIsMinable
  <2>1. Height < MaxHeight /\ Sound(mempool) /\ Rechecked(mempool)
    BY Zenon DEF MempoolInv, Resting
  <2>2. PICK extra : extra = {}
    BY Zenon
  <2>3. extra \in SUBSET Moves /\ Fresh(extra) /\ txs = txs \cup extra
    BY <2>2, ZenonT(60) DEF Fresh
  <2>. QED  BY <2>1, <2>2, <2>3, PartIsValid, ZenonT(60)
<1>. QED  BY <1>1, PoolInvariance, PTL

\* The block that the node assembles from its pool and its own coinstake passes its own
\* validation: CreateCoinStake stakes no coin that the template spends or attests with.
THEOREM TemplatesAreValid == MempoolSpec => []TemplateIsValid
<1>1. IInv /\ CoinInv /\ MempoolInv => TemplateIsValid
  <2>. SUFFICES ASSUME IInv, CoinInv, MempoolInv, Resting, NEW txs \in SUBSET mempool, NEW stake \in Stakes,
                       TestPackageTransactions(txs), CreateCoinStake(stake, txs)
                PROVE  Valid(txs \cup {stake})
    BY Zenon DEF TemplateIsValid
  <2>1. Height < MaxHeight /\ Sound(mempool) /\ Rechecked(mempool)
    BY Zenon DEF MempoolInv, Resting
  <2>2. PICK extra : extra = {stake}
    BY Zenon
  <2>3. extra \in SUBSET Moves /\ Fresh(extra)
    BY <2>2, StakesAssumption, Zenon DEF CreateCoinStake
  <2>4. /\ \A m, n \in extra : In[m] = In[n] => m = n
        /\ \A m \in extra : /\ coins[In[m]] # None /\ ~IsLocked(In[m], Height + 1)
                            /\ In[m] \notin SpentBy(txs) /\ In[m] \notin Targets(txs)
    BY <2>2, Zenon DEF CreateCoinStake, Reserved
  <2>5. Closed(txs) /\ Cardinality(AttestationsOf(txs)) <= MAX_DEMURRAGE_ATTESTATIONS_PER_BLOCK
    BY Zenon DEF TestPackageTransactions
  <2>6. Valid(txs \cup extra)
    BY <2>1, <2>3, <2>4, <2>5, PartIsValid, Zenon
  <2>. QED  BY <2>2, <2>6, Zenon
<1>. QED  BY <1>1, PoolInvariance, PTL
=============================================================================
