-------------------------- MODULE MCCanonicalPowScan --------------------------
(***************************************************************************)
(* Blocks of up to four of nine transactions at height 5 after parent      *)
(* <<1>>: two carriers of one proof, one of which does not spend the       *)
(* target, more proofs than can be evaluated, a late origin, an unknown    *)
(* origin, a proof accounted before, a proof in the coinstake, a           *)
(* transaction with two proofs, and a proof of the wrong mode.             *)
(***************************************************************************)
EXTENDS CanonicalPowScan, TLC

Proof(version, nonce, origin, prev, work) ==
    [version |-> version, mode |-> "POW", nonce |-> nonce, target |-> "a",
     payout |-> nonce, originHeight |-> origin, originPrev |-> prev,
     outpoint |-> nonce, work |-> work]

Tx(txid, fee, inputs, bound, notes) ==
    [txid |-> txid, regular |-> TRUE, fee |-> fee, inputs |-> inputs,
     bound |-> bound, notes |-> notes]

here  == <<1>>
early == <<2>>

current == Proof(3, 1, 5, here, 4)
unbound == Proof(2, 2, 0, <<>>, 4)
late    == Proof(3, 3, 4, early, 4)
exact   == Proof(4, 4, 5, here, 4)

MCTransactions ==
    { Tx(1, 2, {"b"}, 0, <<current>>),                 \* a better-paying copy that spends another script
      Tx(2, 1, {"a"}, 0, <<current>>),
      Tx(3, 9, {"a"}, 0, <<unbound>>),
      Tx(4, 9, {"a"}, 0, <<late>>),
      Tx(5, 2, {"a"}, 4, <<exact>>),
      Tx(6, 9, {"a"}, 0, <<Proof(3, 5, 5, early, 4)>>),  \* origin on another branch
      Tx(7, 9, {"a"}, 0, <<unbound, late>>),
      Tx(8, 0, {"a"}, 0, <<[Proof(2, 6, 0, <<>>, 4) EXCEPT !.mode = "POS"]>>),
      [Tx(9, 9, {"a"}, 0, <<unbound>>) EXCEPT !.regular = FALSE] }

Context(qqp4, accounted) ==
    [height |-> 5, prev |-> here, pool |-> 20, bits |-> 3, qqp4 |-> qqp4,
     accounted |-> accounted, late |-> {[height |-> 4, prev |-> early, bits |-> 4]}]

MCContexts ==
    {Context(FALSE, {}), Context(FALSE, {LogicalPowProofId(late)}), Context(TRUE, {})}

\* The highest rank goes to the lowest nonce.
MCRank(height, prev, id) == 100 - (IF id[1] = 0 THEN id[2] ELSE id[3])
=============================================================================
