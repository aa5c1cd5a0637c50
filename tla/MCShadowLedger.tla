---------------------------- MODULE MCShadowLedger ----------------------------
(***************************************************************************)
(* Menus of block contents for model checking ShadowLedger.  Every chain   *)
(* over a menu up to MAX_HEIGHT is built, and every block of it            *)
(* disconnected again in every state.                                      *)
(***************************************************************************)
EXTENDS ShadowLedger, TLC

Note(version, nonce, age, onBranch, work) ==
    [version |-> version, mode |-> "POW", nonce |-> nonce, target |-> 1, payout |-> nonce,
     age |-> age, onBranch |-> onBranch, outpoint |-> nonce, work |-> work]

Carry(txid, fee, note) ==
    [txid |-> txid, regular |-> TRUE, fee |-> fee, inputs |-> {1}, bound |-> note.outpoint,
     notes |-> <<note>>]

Signal(target, payout, age) ==
    [target |-> target, payout |-> payout, age |-> age, authorized |-> TRUE]

Body(staker, sigs, carried, spent) ==
    [pos |-> staker # 0, staker |-> staker, signals |-> sigs, txs |-> carried, spends |-> spent]

Spend(height, index) == [height |-> height, index |-> index]

\* Claims: QQP2 and QQP3 proofs of the current block, one proof again one and
\* two blocks later beside fresh ones, an origin on another branch, an expired
\* origin, a proof only good enough once the target has relaxed, and QQP4 proofs.
ClaimContent ==
    << Body(0, <<>>, <<>>, <<>>),
       Body(1, <<>>, <<Carry(1, 1, Note(3, 11, 0, TRUE, 4)), Carry(2, 9, Note(3, 12, 0, TRUE, 3))>>, <<>>),
       Body(1, <<>>, <<Carry(3, 2, Note(2, 13, 0, TRUE, 3))>>, <<>>),
       Body(1, <<>>, <<Carry(4, 2, Note(3, 11, 1, TRUE, 4)), Carry(5, 9, Note(3, 12, 1, TRUE, 3))>>, <<>>),
       Body(1, <<>>, <<Carry(6, 2, Note(3, 11, 2, TRUE, 4)), Carry(7, 1, Note(3, 14, 0, TRUE, 2))>>, <<>>),
       Body(1, <<>>, <<Carry(8, 2, Note(3, 11, 3, TRUE, 4)), Carry(9, 2, Note(3, 12, 1, FALSE, 4))>>, <<>>),
       Body(1, <<>>, <<Carry(10, 2, Note(4, 15, 0, TRUE, 4)), Carry(11, 2, Note(4, 15, 1, TRUE, 4))>>, <<>>) >>

\* Signals: two whitelisted stakers and one that is not, announcing the same
\* payout script, different ones, or two for one target.
SignalContent ==
    << Body(1, <<>>, <<>>, <<>>),
       Body(2, <<Signal(1, 21, 1)>>, <<>>, <<>>),
       Body(1, <<Signal(1, 22, 1), Signal(2, 21, 1)>>, <<>>, <<>>),
       Body(1, <<Signal(2, 21, 2), Signal(1, 21, 2)>>, <<>>, <<>>),
       Body(3, <<Signal(1, 21, 1), Signal(1, 22, 1), Signal(3, 23, 1)>>, <<>>, <<>>),
       Body(2, <<Signal(2, 22, 1)>>, <<Carry(1, 1, Note(2, 13, 0, TRUE, 4))>>, <<>>) >>

\* Spends: blocks with one, two or no payouts, and blocks that spend one or two
\* of them, too early, again, or not at all.
SpendContent ==
    << Body(0, <<>>, <<>>, <<>>),
       Body(1, <<Signal(1, 21, 1)>>, <<Carry(1, 2, Note(3, 11, 0, TRUE, 4)), Carry(2, 1, Note(3, 12, 0, TRUE, 4))>>, <<>>),
       Body(1, <<>>, <<>>, <<Spend(2, 1)>>),
       Body(1, <<>>, <<>>, <<Spend(2, 2), Spend(1, 1)>>),
       Body(1, <<>>, <<>>, <<Spend(2, 3)>>) >>

\* A menu that mixes claims, signals and spends.
ReorgContent ==
    << Body(2, <<Signal(1, 21, 1)>>, <<>>, <<>>),
       Body(1, <<Signal(1, 22, 1), Signal(2, 21, 1)>>,
            <<Carry(1, 1, Note(3, 11, 0, TRUE, 4)), Carry(2, 1, Note(3, 12, 1, TRUE, 4))>>, <<>>),
       Body(1, <<>>, <<Carry(3, 1, Note(3, 11, 1, TRUE, 4))>>, <<>>),
       Body(0, <<>>, <<>>, <<>>),
       Body(1, <<>>, <<>>, <<Spend(2, 1)>>),
       Body(1, <<>>, <<>>, <<Spend(3, 1), Spend(1, 1)>>) >>

\* One block that spends a payout in two of its transactions.
DoubleSpendContent ==
    << Body(1, <<>>, <<Carry(1, 2, Note(2, 11, 0, TRUE, 4))>>, <<>>),
       Body(1, <<>>, <<>>, <<Spend(1, 1)>>),
       Body(1, <<>>, <<>>, <<Spend(1, 1), Spend(1, 1)>>) >>

\* The lowest nonce ranks last, so that a late proof may outrank a current one.
MCRank(height, prev, id) == 100 - (IF id[1] = 0 THEN id[2] ELSE id[3])
=============================================================================
