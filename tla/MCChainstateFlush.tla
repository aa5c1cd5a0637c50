-------------------------- MODULE MCChainstateFlush --------------------------
(***************************************************************************)
(* A block tree with two branches, and auxiliary state from height 3 on:   *)
(*     g - a1 - a2                                                         *)
(*      \- b1 - b2 - b3 - b4                                               *)
(* The transaction of output p is in a1 and in b2, and q spends p.         *)
(***************************************************************************)
EXTENDS ChainstateFlush, Sequences, TLC

CONSTANTS g, a1, a2, b1, b2, b3, b4, p, q, r

BranchA == <<a1, a2>>
BranchB == <<b1, b2, b3, b4>>
MCBlocks == {g, a1, a2, b1, b2, b3, b4}

ChainOf(b) ==
    CHOOSE c \in {SubSeq(BranchA, 1, n) : n \in 0..2} \cup {SubSeq(BranchB, 1, n) : n \in 0..4} :
        IF b = g THEN c = <<>> ELSE c # <<>> /\ c[Len(c)] = b

MCHeight == [b \in MCBlocks |-> Len(ChainOf(b))]
MCAncestor == [b \in MCBlocks |-> [h \in 0..MCHeight[b] |-> IF h = 0 THEN g ELSE ChainOf(b)[h]]]
MCParent == [b \in MCBlocks |-> IF b = g THEN Null ELSE MCAncestor[b][MCHeight[b] - 1]]

MCCreates ==
    (g :> {}) @@ (a1 :> {p}) @@ (a2 :> {q}) @@ (b1 :> {r}) @@ (b2 :> {p}) @@ (b3 :> {q}) @@ (b4 :> {})
MCSpends ==
    (g :> {}) @@ (a1 :> {}) @@ (a2 :> {p}) @@ (b1 :> {}) @@ (b2 :> {r}) @@ (b3 :> {p}) @@ (b4 :> {q})

\* The last block of the chain that touches an outpoint decides its coin.
MCUtxo ==
    [b \in MCBlocks |-> [o \in Outpoints |->
        LET writers == {c \in {MCAncestor[b][h] : h \in 0..MCHeight[b]} : o \in Touched(c) \cup Written(c)}
            last == CHOOSE c \in writers : \A d \in writers : MCHeight[d] <= MCHeight[c]
        IN  IF writers = {} \/ o \in MCSpends[last] THEN Null ELSE last]]

=============================================================================
