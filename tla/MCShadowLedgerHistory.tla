------------------------- MODULE MCShadowLedgerHistory -------------------------
(***************************************************************************)
(* ShadowLedgerHistory with the menus of MCShadowLedger side by side: the  *)
(* blocks of a chain are those of one menu.                                *)
(***************************************************************************)
EXTENDS ShadowLedgerHistory, MCShadowLedger

AllContent == ClaimContent \o SignalContent \o SpendContent \o ReorgContent

\* The blocks of each menu, and how high its chains are built.
Menus ==
    { [first |-> 1,  last |-> 7,  height |-> 5],
      [first |-> 8,  last |-> 13, height |-> 6],
      [first |-> 14, last |-> 18, height |-> 7],
      [first |-> 19, last |-> 24, height |-> 6] }

\* The blocks that keep the chain within one menu.
OnMenu ==
    UNION {m.first .. m.last : m \in {n \in Menus :
              Len(chain) < n.height /\ \A i \in DOMAIN chain : chain[i] \in n.first .. n.last}}

MCNext ==
    \/ DisconnectBlock /\ history' = Front(history)
    \/ \E b \in OnMenu : ConnectBlock(b) /\ history' = Append(history, Ledger)

MCSpec == HInit /\ [][MCNext]_<<vars, history>>
=============================================================================
