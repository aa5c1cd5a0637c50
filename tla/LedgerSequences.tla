---------------------------- MODULE LedgerSequences ----------------------------
(***************************************************************************)
(* The operators on sequences that the modules of the ledger share.        *)
(* SequencesExt has them too, but it brings bags into scope, and then the  *)
(* proof system takes four times as long over every obligation.            *)
(***************************************************************************)
EXTENDS Integers, Sequences, FiniteSets, FiniteSetsExt, Functions

Last(seq) == seq[Len(seq)]

\* All but the last element: the parent of a block.
Front(seq) == SubSeq(seq, 1, Len(seq) - 1)

\* s is t or an ancestor of it.
IsPrefix(s, t) == Len(s) <= Len(t) /\ s = SubSeq(t, 1, Len(s))

\* One step of op for every element of a sequence, in order.
FoldLeft(op(_, _), base, seq) ==
    LET fold[n \in 0..Len(seq)] == IF n = 0 THEN base ELSE op(fold[n - 1], seq[n])
    IN fold[Len(seq)]
=============================================================================
