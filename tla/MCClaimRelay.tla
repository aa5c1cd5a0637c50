---------------------------- MODULE MCClaimRelay ----------------------------
(***************************************************************************)
(* ClaimResolution while the chain, the claims, the policy and the miner   *)
(* do not change: the steps that are left, with their fairness.            *)
(***************************************************************************)
EXTENDS ClaimResolution

\* Of what has authority the wallet takes care itself.
SubmitsDraft == SendRawTransaction /\ \E r \in wallet : ~r.authorized /\ Id(r) \in submitted' \ submitted

RelayNext ==
    \/ MempoolTurns \/ LeavesMempool \/ UnlockWallet \/ Revoke
    \/ SubmitsDraft \/ TransactionSubmittedByRpc
    \/ Preview \/ Execute \/ Tick \/ Ask \/ Calls

RelaySpec == Init /\ [][RelayNext]_vars /\ Fairness
=============================================================================
