--------------------------- MODULE GoldRushInventory ---------------------------
(***************************************************************************)
(* The synthetic payouts of the shadow ledger and their rolling inventory  *)
(* (shadow.cpp).  A claim credited by a reward block becomes a claim       *)
(* marker, a spendable payout coin and a payout record; spending the coin  *)
(* leaves a spent marker.  The inventory marker counts and sums what was   *)
(* issued and spent and accumulates both sets of payouts.                  *)
(*                                                                         *)
(* The part of the coins view this module works on is one record:          *)
(*   claims     the claim markers                                          *)
(*   records    the payout records                                         *)
(*   coins      the unspent payout coins                                   *)
(*   spent      the spent markers                                          *)
(*   inventory  the inventory marker                                       *)
(* A payout is the record of its origin block, its index there, its payout *)
(* script, amount and mode: the outpoint is a hash of exactly these.       *)
(* The MuHash accumulators are modelled by the sets they accumulate.       *)
(***************************************************************************)
EXTENDS ShadowSchedule, LedgerSequences

NoInventory ==
    [present |-> FALSE, tip |-> <<>>, issuedCount |-> 0, issuedNominal |-> 0,
     spentCount |-> 0, spentNominal |-> 0, issued |-> {}, unspent |-> {},
     issuedRoot |-> {}, unspentRoot |-> {}]

EmptyStore ==
    [claims |-> {}, records |-> {}, coins |-> {}, spent |-> {}, inventory |-> NoInventory]

GoldRushInventoryRootsValid(inv) ==
    inv.issued = inv.issuedRoot /\ inv.unspent = inv.unspentRoot

WriteGoldRushInventory(inv, block, finalize) ==
    LET placed == [inv EXCEPT !.present = TRUE, !.tip = block]
    IN IF finalize
       THEN [placed EXCEPT !.issuedRoot = inv.issued, !.unspentRoot = inv.unspent]
       ELSE placed

\* The inventory a block may write over: its own, or its parent's when the roots
\* agree with the accumulators, or none at the first reward block.
InventoryContinues(inv, block) ==
    IF inv.present
    THEN inv.tip = block \/ (inv.tip = Front(block) /\ GoldRushInventoryRootsValid(inv))
    ELSE Len(block) = REWARD_START

AdvanceGoldRushInventoryTip(store, block) ==
    IF Len(block) < REWARD_START THEN [ok |-> TRUE, store |-> store]
    ELSE [ok |-> InventoryContinues(store.inventory, block),
          store |-> [store EXCEPT !.inventory = WriteGoldRushInventory(@, block, TRUE)]]

\* Mutant: the marker of the first reward block is not removed.
RewindGoldRushInventoryTip_KeepsMarker(store, block) ==
    IF Len(block) < REWARD_START THEN [ok |-> TRUE, store |-> store]
    ELSE [ok |-> store.inventory.present /\ store.inventory.tip = block,
          store |-> [store EXCEPT !.inventory = WriteGoldRushInventory(@, Front(block), TRUE)]]

RewindGoldRushInventoryTip(store, block) ==
    IF Len(block) < REWARD_START THEN [ok |-> TRUE, store |-> store]
    ELSE [ok |-> store.inventory.present /\ store.inventory.tip = block,
          store |-> [store EXCEPT !.inventory =
                        IF Len(block) - 1 < REWARD_START THEN NoInventory
                        ELSE WriteGoldRushInventory(@, Front(block), TRUE)]]

-----------------------------------------------------------------------------
PayoutOf(claim) ==
    [block |-> claim.block, index |-> claim.index, payout |-> claim.payout,
     amount |-> claim.amount, mode |-> claim.mode]

\* AddClaimMarker: one credited claim of the block.
AddClaimMarker(step, block, claim) ==
    LET inv == step.store.inventory
        leaf == PayoutOf(claim)
    IN [ok |-> step.ok /\ claim.amount > 0 /\ InventoryContinues(inv, block),
        store |-> [step.store EXCEPT
            !.claims = @ \cup {claim},
            !.records = @ \cup {leaf},
            !.coins = @ \cup {leaf},
            !.inventory = WriteGoldRushInventory(
                [inv EXCEPT !.issuedCount = @ + 1, !.issuedNominal = @ + claim.amount,
                            !.issued = @ \cup {leaf}, !.unspent = @ \cup {leaf}],
                block, FALSE)]]

AddClaimMarkers(store, block, claims) ==
    FoldLeft(LAMBDA step, claim : AddClaimMarker(step, block, claim),
             [ok |-> TRUE, store |-> store], claims)

\* A payout record is authentic at a tip when its origin is an ancestor of the
\* tip that has a pool undo record covering the index, and its claim marker is
\* the one it was made from.  counts gives the claim count of every block with
\* a pool undo record.
AuthenticateGoldRushPayoutRecord(store, counts, payout, tip) ==
    /\ payout \in store.records
    /\ IsPrefix(payout.block, tip)
    /\ payout.block \in DOMAIN counts
    /\ payout.index <= counts[payout.block]
    /\ \E claim \in store.claims : PayoutOf(claim) = payout

GetGoldRushPayoutStatus(store, counts, payout, tip) ==
    IF AuthenticateGoldRushPayoutRecord(store, counts, payout, tip)
    THEN IF payout \in store.coins THEN "AUTHENTICATED"
         ELSE IF \E s \in store.spent :
                    s.payout = payout /\ IsPrefix(s.block, tip)
              THEN "NOT_CANDIDATE" ELSE "CORRUPT"
    ELSE IF payout \in store.coins THEN "CORRUPT" ELSE "NOT_CANDIDATE"

\* RecordSpentGoldRushPayouts followed by UpdateCoins for one input.
RecordSpentGoldRushPayout(step, counts, block, payout, input) ==
    LET store == step.store
        inv   == store.inventory
        status == GetGoldRushPayoutStatus(store, counts, payout, Front(block))
    IN IF status = "NOT_CANDIDATE" THEN step
       ELSE [ok |-> /\ step.ok /\ status = "AUTHENTICATED"
                    /\ \A s \in store.spent : s.payout # payout
                    /\ inv.present /\ InventoryContinues(inv, block)
                    /\ inv.spentCount < inv.issuedCount
                    /\ inv.spentNominal <= inv.issuedNominal - payout.amount,
             store |-> [store EXCEPT
                !.coins = @ \ {payout},
                !.spent = @ \cup {[payout |-> payout, block |-> block, input |-> input]},
                !.inventory = WriteGoldRushInventory(
                    [inv EXCEPT !.unspent = @ \ {payout}, !.spentCount = @ + 1,
                                !.spentNominal = @ + payout.amount],
                    block, FALSE)]]

\* UndoSpentGoldRushPayouts for one input of the disconnected block.  The coin
\* itself comes back later, with the transaction undo data.
UndoSpentGoldRushPayout(step, counts, block, payout, input) ==
    LET inv == step.store.inventory
        tombstone == [payout |-> payout, block |-> block, input |-> input]
    IN [ok |-> /\ step.ok
               /\ AuthenticateGoldRushPayoutRecord(step.store, counts, payout, block)
               /\ tombstone \in step.store.spent
               /\ inv.present /\ inv.tip = block
               /\ inv.spentCount > 0 /\ inv.spentNominal >= payout.amount,
        store |-> [step.store EXCEPT
            !.spent = @ \ {tombstone},
            !.inventory = WriteGoldRushInventory(
                [inv EXCEPT !.unspent = @ \cup {payout}, !.spentCount = @ - 1,
                            !.spentNominal = @ - payout.amount],
                block, FALSE)]]

UndoSpentGoldRushPayouts(store, counts, block, payouts) ==
    FoldLeft(LAMBDA step, i : UndoSpentGoldRushPayout(step, counts, block, payouts[i], i),
             [ok |-> TRUE, store |-> store],
             [n \in DOMAIN payouts |-> Len(payouts) + 1 - n])

\* Mutant: the count of issued payouts is not taken back.
UndoClaimMarker_KeepsCount(step, counts, block, claim) ==
    LET inv == step.store.inventory
        leaf == PayoutOf(claim)
    IN [ok |-> step.ok /\ claim \in step.store.claims /\ leaf \in step.store.coins,
        store |-> [step.store EXCEPT
            !.claims = @ \ {claim}, !.records = @ \ {leaf}, !.coins = @ \ {leaf},
            !.inventory = [inv EXCEPT !.issuedNominal = @ - claim.amount,
                                      !.issued = @ \ {leaf}, !.unspent = @ \ {leaf}]]]

\* The part of UndoShadowBlock that takes one claim of the block back.  A
\* payout that is still spent cannot be taken back.
UndoClaimMarker(step, counts, block, claim) ==
    LET inv == step.store.inventory
        leaf == PayoutOf(claim)
    IN [ok |-> /\ step.ok
               /\ claim \in step.store.claims /\ leaf \in step.store.coins
               /\ AuthenticateGoldRushPayoutRecord(step.store, counts, leaf, block)
               /\ inv.issuedCount > 0 /\ inv.issuedNominal >= claim.amount,
        store |-> [step.store EXCEPT
            !.claims = @ \ {claim}, !.records = @ \ {leaf}, !.coins = @ \ {leaf},
            !.inventory = [inv EXCEPT !.issuedCount = @ - 1,
                                      !.issuedNominal = @ - claim.amount,
                                      !.issued = @ \ {leaf}, !.unspent = @ \ {leaf}]]]

UndoClaimMarkers(store, counts, block, claims) ==
    LET undone == FoldLeft(LAMBDA step, claim : UndoClaimMarker(step, counts, block, claim),
                           [ok |-> store.inventory.present /\ store.inventory.tip = block,
                            store |-> store], claims)
    IN [ok |-> /\ undone.ok
               /\ \A c \in undone.store.claims : ~(c.block = block /\ c.index = Len(claims) + 1),
        store |-> [undone.store EXCEPT !.inventory = WriteGoldRushInventory(@, block, FALSE)]]

\* The inventory marker agrees with the tip and with the pool marker.  claimed
\* is << pool.claimed_amount >>, or <<>> when there is no pool marker.
ValidateGoldRushInventorySummary(inv, tip, claimed) ==
    IF Len(tip) < REWARD_START THEN ~inv.present
    ELSE /\ inv.present /\ inv.tip = tip
         /\ inv.issuedNominal <= MAX_EMISSION
         /\ GoldRushInventoryRootsValid(inv)
         /\ IF claimed = <<>>
            THEN inv.issuedCount = 0 /\ inv.issuedNominal = 0
                 /\ inv.spentCount = 0 /\ inv.spentNominal = 0
            ELSE inv.issuedNominal = claimed[1]
=============================================================================
