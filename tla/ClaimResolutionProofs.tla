------------------------ MODULE ClaimResolutionProofs ------------------------
(***************************************************************************)
(* What TLC checks of ClaimResolution on small instances, for any number   *)
(* of anchors, tips, policies, writes and restarts: memory and disk agree  *)
(* unless the wallet knows better, no anchor gets two resolutions, nothing *)
(* is published without consent on disk, no window of tips holds more      *)
(* automatic resolutions than a policy allows, and no plan undoes a        *)
(* revocation that came after it.                                          *)
(***************************************************************************)
EXTENDS ClaimResolution, TLAPS, FiniteSetTheorems

CallShape == DOMAIN call = DOMAIN Idle

OneOnDisk == \A r, q \in disk : r.anchor = q.anchor => r = q

PublishedIsStored == \A p \in published : \E r \in disk : Id(r) = p

\* What memory holds has its bytes on disk, even when their authority is not known.
WalletIsStored == \A r \in wallet : \E q \in disk : Id(q) = Id(r)

\* A call that stores its resolutions still sees the wallet that it planned on.
Storing(todo) ==
    /\ ~ambiguous
    /\ \A x \in todo : x.known = Known(x.anchor)
    /\ \A x, y \in todo : x.anchor = y.anchor => x = y

IInv ==
    /\ MemoryIsDurable
    /\ CallShape
    /\ OneOnDisk
    /\ PublishedIsStored
    /\ WalletIsStored
    /\ call.stage = "persist" => Storing(call.todo)

\* A wallet that has no resolutions.
LEMMA InitIInv == Init => IInv
  BY DEF Init, IInv, MemoryIsDurable, CallShape, OneOnDisk, PublishedIsStored, WalletIsStored, Idle

\* A step that leaves the records alone and is not taken by a call that stores them.
LEMMA Quiet ==
    ASSUME IInv,
           UNCHANGED <<wallet, disk, published>>,
           ambiguous' \/ (policy' = diskPolicy') \/ UNCHANGED <<policy, diskPolicy>>,
           ambiguous => ambiguous',
           DOMAIN call' = DOMAIN call,
           call'.stage # "persist"
    PROVE  IInv'
  BY Zenon DEF IInv, MemoryIsDurable, CallShape, OneOnDisk, PublishedIsStored, WalletIsStored

\* A write by someone else leaves the call at its stage.
LEMMA CurrentFalse ==
    ASSUME CallShape, call' = [call EXCEPT !.current = FALSE]
    PROVE  DOMAIN call' = DOMAIN call /\ call'.stage = call.stage
  BY Zenon DEF CallShape, Idle

\* The record of an anchor, if there is one, gives way to one with the same bytes.
LEMMA ReplaceKeeps ==
    ASSUME OneOnDisk, PublishedIsStored, wallet = disk,
           NEW n, NEW old,
           old = {r \in disk : r.anchor = n.anchor},
           \A r \in old : r.time = n.time,
           disk' \in {disk, Replaced(disk, old, {n})},
           wallet' \in {wallet, disk'},
           published' = published
    PROVE  OneOnDisk' /\ PublishedIsStored' /\ WalletIsStored'
<1>1. CASE disk' = disk
  BY <1>1, Zenon DEF OneOnDisk, PublishedIsStored, WalletIsStored
<1>2. CASE disk' = (disk \ old) \cup {n}
  <2>1. OneOnDisk'
    BY <1>2, Zenon DEF OneOnDisk
  <2>2. ASSUME NEW r \in disk
        PROVE  \E q \in disk' : Id(q) = Id(r)
    <3>1. CASE r \in old
      <4>1. Id(n) = Id(r)
        BY <3>1, Zenon DEF Id
      <4>. QED
        BY <1>2, <4>1, Zenon
    <3>2. CASE r \notin old
      BY <1>2, <3>2, Zenon
    <3>. QED
      BY <3>1, <3>2, Zenon
  <2>3. PublishedIsStored'
    <3>1. ASSUME NEW p \in published
          PROVE  \E q \in disk' : Id(q) = p
      <4>1. PICK r \in disk : Id(r) = p
        BY Zenon DEF PublishedIsStored
      <4>. QED
        BY <2>2, <4>1, Zenon
    <3>. QED
      BY <3>1, Zenon DEF PublishedIsStored
  <2>4. WalletIsStored'
    BY <2>2, Zenon DEF WalletIsStored
  <2>. QED
    BY <2>1, <2>3, <2>4, Zenon
<1>. QED
  BY <1>1, <1>2, Zenon DEF Replaced

\* A revocation keeps the bytes of the resolution; it is written, or rolled back, or nobody knows.
LEMMA RevokeIInv ==
    ASSUME IInv, Revoke
    PROVE  IInv'
<1>1. PICK r \in wallet :
        \/ /\ wallet' = Replaced(wallet, {r}, {Tombstone(r)}) /\ disk' = Replaced(disk, {r}, {Tombstone(r)})
           /\ Written /\ UNCHANGED ambiguous
        \/ UNCHANGED <<recordVars, ambiguous, outdated, call>>
        \/ /\ disk' \in {disk, Replaced(disk, {r}, {Tombstone(r)})} /\ ambiguous' = TRUE
           /\ UNCHANGED <<wallet, outdated, call>>
  BY Zenon DEF Revoke
<1>2. /\ ~ambiguous /\ call.stage # "persist" /\ published' = published
      /\ policy' = policy /\ diskPolicy' = diskPolicy
  BY Zenon DEF Revoke, NoCall, policyVars
<1>3. wallet = disk /\ policy = diskPolicy /\ CallShape /\ OneOnDisk /\ PublishedIsStored
  BY <1>2, Zenon DEF IInv, MemoryIsDurable
<1>4. CallShape' /\ call'.stage # "persist"
  <2>1. CASE Written
    BY <1>2, <1>3, <2>1, CurrentFalse, Zenon DEF Written, CallShape
  <2>2. CASE call' = call
    BY <1>2, <1>3, <2>2, Zenon DEF CallShape
  <2>. QED
    BY <1>1, <2>1, <2>2, Zenon
<1>5. MemoryIsDurable'
  BY <1>1, <1>2, <1>3, Zenon DEF MemoryIsDurable, recordVars
<1>6. Tombstone(r).anchor = r.anchor /\ Tombstone(r).time = r.time
  BY Zenon DEF Tombstone
<1>7. {r} = {q \in disk : q.anchor = Tombstone(r).anchor}
  BY <1>3, <1>6, Zenon DEF OneOnDisk
<1>8. disk' \in {disk, Replaced(disk, {r}, {Tombstone(r)})} /\ wallet' \in {wallet, disk'}
  BY <1>1, <1>3, Zenon DEF recordVars
<1>9. OneOnDisk' /\ PublishedIsStored' /\ WalletIsStored'
  <2>1. \A q \in {r} : q.time = Tombstone(r).time
    BY <1>6, Zenon
  <2>. HIDE DEF Tombstone
  <2>. QED
    BY <1>2, <1>3, <1>7, <1>8, <2>1, ReplaceKeeps, Zenon
<1>. QED
  BY <1>4, <1>5, <1>9, Zenon DEF IInv

\* One draft gets authority, in memory when the commit is known to have succeeded.
Promotes(r) ==
    /\ ~r.authorized /\ ~r.revoked /\ Id(r) \in submitted
    /\ disk' \in {disk, Replaced(disk, {r}, {Promoted(r)})}
    /\ \/ ambiguous' = ambiguous /\ wallet' = disk'
       \/ ambiguous' = TRUE /\ wallet' = wallet

\* The wallet is told of a submission: nothing changes, or one draft gets authority, or nobody knows.
LEMMA SubmittedStep ==
    ASSUME IInv, TransactionSubmittedByRpc
    PROVE  \/ UNCHANGED <<wallet, disk, ambiguous>>
           \/ ~ambiguous /\ wallet = disk /\ \E r \in disk : Promotes(r)
<1>1. PICK x \in submitted : PromoteDrafts(Drafts(x))
  BY Zenon DEF TransactionSubmittedByRpc
<1>2. CASE Drafts(x) = {} \/ ambiguous
  BY <1>1, <1>2, Zenon DEF PromoteDrafts, recordVars
<1>3. CASE Drafts(x) # {} /\ ~ambiguous
  <2>1. wallet = disk /\ OneOnDisk
    BY <1>3, Zenon DEF IInv, MemoryIsDurable
  <2>2. PICK r \in Drafts(x) : TRUE
    BY <1>3, Zenon
  <2>3. r \in disk /\ Id(r) = x /\ ~r.authorized /\ ~r.revoked
    BY <2>1, <2>2, Zenon DEF Drafts
  <2>4. ASSUME NEW q \in Drafts(x) PROVE q = r
    <3>1. q \in disk /\ Id(q) = Id(r)
      BY <2>1, <2>3, Zenon DEF Drafts
    <3>. QED
      BY <2>1, <2>3, <3>1, Zenon DEF OneOnDisk, Id
  <2>5. Drafts(x) = {r} /\ {Promoted(q) : q \in Drafts(x)} = {Promoted(r)}
    BY <2>2, <2>4, Zenon
  <2>6. Promote({r}, {Promoted(r)})
    BY <1>1, <1>3, <2>5, Zenon DEF PromoteDrafts
  <2>7. CASE wallet' = Replaced(wallet, {r}, {Promoted(r)}) /\ disk' = Replaced(disk, {r}, {Promoted(r)}) /\ UNCHANGED ambiguous
    BY <1>3, <2>1, <2>3, <2>7, Zenon DEF Promotes
  <2>8. CASE UNCHANGED <<wallet, disk, ambiguous>>
    BY <2>8, Zenon
  <2>9. CASE disk' \in {disk, Replaced(disk, {r}, {Promoted(r)})} /\ ambiguous' = TRUE /\ wallet' = wallet
    BY <1>3, <2>1, <2>3, <2>9, Zenon DEF Promotes
  <2>. QED
    BY <2>6, <2>7, <2>8, <2>9, Zenon DEF Promote, recordVars
<1>. QED
  BY <1>2, <1>3, Zenon

\* It does not touch the call beyond its count of writes.
LEMMA SubmittedCall ==
    ASSUME TransactionSubmittedByRpc
    PROVE  /\ call' = call \/ call' = [call EXCEPT !.current = FALSE]
           /\ waiting' = waiting \/ Outdate
           /\ call.stage # "persist"
           /\ UNCHANGED <<tip, policy, diskPolicy, plan, outdated, published>>
  BY Zenon DEF TransactionSubmittedByRpc, WalletIsFree, PromoteDrafts, Promote, Written, Counted, chainVars,
     policyVars, operatorVars

\* Authority keeps the bytes, the origin and the receipt.
LEMMA PromotedOf ==
    ASSUME NEW r
    PROVE  /\ Promoted(r).anchor = r.anchor /\ Promoted(r).time = r.time /\ Id(Promoted(r)) = Id(r)
           /\ Promoted(r).origin = r.origin /\ Promoted(r).receipt = r.receipt
           /\ Promoted(r).authorized = TRUE /\ Promoted(r).revoked = FALSE
  BY Zenon DEF Promoted, Id

\* A draft that gets authority keeps its bytes.
LEMMA SubmittedIInv ==
    ASSUME IInv, TransactionSubmittedByRpc
    PROVE  IInv'
<1>1. CallShape' /\ call'.stage # "persist"
  BY SubmittedCall, CurrentFalse, Zenon DEF IInv, CallShape
<1>2. published' = published /\ policy' = policy /\ diskPolicy' = diskPolicy
  BY SubmittedCall, Zenon
<1>3. CASE UNCHANGED <<wallet, disk, ambiguous>>
  BY <1>1, <1>2, <1>3, Zenon DEF IInv, MemoryIsDurable, OneOnDisk, PublishedIsStored, WalletIsStored
<1>4. CASE ~ambiguous /\ wallet = disk /\ \E r \in disk : Promotes(r)
  <2>1. PICK r \in disk : Promotes(r)
    BY <1>4, Zenon
  <2>2. policy = diskPolicy /\ OneOnDisk /\ PublishedIsStored /\ wallet' \in {wallet, disk'}
    BY <1>4, <2>1, Zenon DEF IInv, MemoryIsDurable, Promotes
  <2>3. PICK n : n = Promoted(r) /\ disk' \in {disk, Replaced(disk, {r}, {n})}
    BY <2>1, Zenon DEF Promotes
  <2>4. n.anchor = r.anchor /\ n.time = r.time
    BY <2>3, PromotedOf, Zenon
  <2>5. {r} = {q \in disk : q.anchor = n.anchor} /\ \A q \in {r} : q.time = n.time
    BY <2>2, <2>4, Zenon DEF OneOnDisk
  <2>6. OneOnDisk' /\ PublishedIsStored' /\ WalletIsStored'
    <3>1. PICK old : old = {r}
      BY Zenon
    <3>. QED
      BY <1>2, <1>4, <2>2, <2>3, <2>5, <3>1, ReplaceKeeps, ZenonT(60)
  <2>7. MemoryIsDurable'
    BY <1>2, <2>1, <2>2, Zenon DEF MemoryIsDurable, Promotes
  <2>. QED
    BY <1>1, <2>6, <2>7, Zenon DEF IInv
<1>. QED
  BY <1>3, <1>4, SubmittedStep, Zenon

\* The operator submits only what the wallet has.
LEMMA SendRawIInv ==
    ASSUME IInv, SendRawTransaction
    PROVE  IInv'
<1>1. PICK r \in wallet : published' = published \cup {Id(r)}
  BY Zenon DEF SendRawTransaction
<1>2. UNCHANGED <<wallet, disk, policy, diskPolicy, ambiguous, call>> /\ call.stage # "persist"
  BY Zenon DEF SendRawTransaction, WalletIsFree, recordVars, policyVars
<1>3. \E q \in disk : Id(q) = Id(r)
  BY Zenon DEF IInv, WalletIsStored
<1>4. PublishedIsStored'
  BY <1>1, <1>2, <1>3, Zenon DEF IInv, PublishedIsStored
<1>. QED
  BY <1>2, <1>4, Zenon DEF IInv, MemoryIsDurable, CallShape, OneOnDisk, WalletIsStored

\* What the node and the user do while the wallet is free.
LEMMA EnvironmentIInv ==
    ASSUME IInv, Environment
    PROVE  IInv'
<1>1. CASE ConnectTip
  BY <1>1, Quiet, Zenon DEF ConnectTip, WalletIsFree, recordVars, policyVars
<1>2. CASE ProcessTip
  BY <1>2, Quiet, CurrentFalse, Zenon DEF ProcessTip, WalletIsFree, Written, recordVars, policyVars, IInv
<1>3. CASE ClaimChanges
  <2>1. ambiguous => ambiguous'
    BY <1>3, Zenon DEF ClaimChanges
  <2>2. DOMAIN call' = DOMAIN call /\ call'.stage # "persist"
    BY <1>3, CurrentFalse, Zenon DEF ClaimChanges, WalletIsFree, Written, IInv
  <2>. QED
    BY <1>3, <2>1, <2>2, Quiet, Zenon DEF ClaimChanges, recordVars, policyVars
<1>4. CASE MempoolTurns
  BY <1>4, Quiet, Zenon DEF MempoolTurns, WalletIsFree, recordVars, policyVars
<1>5. CASE LeavesMempool
  BY <1>5, Quiet, Zenon DEF LeavesMempool, WalletIsFree, recordVars, policyVars
<1>6. CASE UnlockWallet
  BY <1>6, Quiet, Zenon DEF UnlockWallet, WalletIsFree, recordVars, policyVars
<1>7. CASE SetPowMining
  BY <1>7, Quiet, Zenon DEF SetPowMining, NoCall, recordVars, policyVars
<1>8. CASE LockCoin
  BY <1>8, Quiet, CurrentFalse DEF LockCoin, WalletIsFree, Written, recordVars, policyVars, IInv
<1>9. CASE UnlockCoin
  BY <1>9, Quiet, CurrentFalse, Zenon DEF UnlockCoin, WalletIsFree, Written, recordVars, policyVars, IInv
<1>10. CASE SetPolicy
  BY <1>10, Quiet, CurrentFalse, Zenon DEF SetPolicy, WalletIsFree, Written, recordVars, IInv
<1>11. CASE Revoke
  BY <1>11, RevokeIInv, Zenon
<1>12. CASE SendRawTransaction
  BY <1>12, SendRawIInv, Zenon
<1>13. CASE TransactionSubmittedByRpc
  BY <1>13, SubmittedIInv, Zenon
<1>. QED
  BY <1>1, <1>2, <1>3, <1>4, <1>5, <1>6, <1>7, <1>8, <1>9, <1>10, <1>11, <1>12, <1>13 DEF Environment

\* Plans, snapshots and the scheduler's choices leave the records alone.
LEMMA PlanningIInv ==
    ASSUME IInv, Preview \/ Execute \/ Tick \/ Ask
    PROVE  IInv'
  BY Quiet DEF Preview, Execute, Tick, Ask, WalletIsFree, recordVars, policyVars

\* No call is at no stage of storing.
LEMMA IdleStage == Idle.stage = "idle"
  BY Zenon DEF Idle

\* What a plan would store fits the wallet it was made on, one action for each anchor.
LEMMA ActionsFit ==
    ASSUME OneOnDisk, wallet = disk, NEW kind, NEW S,
           NEW x \in Actions(kind, S)
    PROVE  x.known = Known(x.anchor)
<1>1. CASE \E a \in Candidates(kind, S) : x = [anchor |-> a, known |-> {}]
  BY <1>1 DEF Candidates
<1>2. CASE \E a \in S : Reusable(kind, a) # {} /\ x = [anchor |-> a, known |-> Reusable(kind, a)]
  <2>1. PICK a \in S : Reusable(kind, a) # {} /\ x = [anchor |-> a, known |-> Reusable(kind, a)]
    BY <1>2, Zenon
  <2>2. Reusable(kind, a) \subseteq Known(a)
    BY Zenon DEF Reusable
  <2>3. \A r, q \in Known(a) : r = q
    BY Zenon DEF OneOnDisk, Known
  <2>4. Reusable(kind, a) = Known(a)
    BY <2>1, <2>2, <2>3, Zenon
  <2>. QED
    BY <2>1, <2>4, Zenon
<1>. QED
  BY <1>1, <1>2, Zenon DEF Actions

\* A plan has no two actions for one anchor.
LEMMA ActionsDiffer ==
    ASSUME OneOnDisk, wallet = disk, NEW kind, NEW S,
           NEW x \in Actions(kind, S), NEW y \in Actions(kind, S), x.anchor = y.anchor
    PROVE  x = y
<1>1. x.known = y.known
  BY ActionsFit, Zenon
<1>2. \A z \in Actions(kind, S) : z = [anchor |-> z.anchor, known |-> z.known]
  BY DEF Actions
<1>. QED
  BY <1>1, <1>2, Zenon

\* A call that goes on has the records to itself until all is stored.
LEMMA GoesOnShape ==
    ASSUME NEW k, DOMAIN k = DOMAIN Idle, GoesOn(k)
    PROVE  CallShape' /\ (call'.stage # "persist" \/ call' = k)
  BY IdleStage, Zenon DEF GoesOn, CallShape, Idle

\* The call that gets the mutex refuses, or has planned on the wallet as it is.
LEMMA BeginIInv ==
    ASSUME IInv, NEW c, Begin(c)
    PROVE  IInv'
<1>. DEFINE w == waiting[c]
            X == Actions(w.kind, w.sel)
            k == Prepared(c, w, X)
<1>1. BeginWith(c, w, X) /\ call.stage = "idle"
  BY Zenon DEF Begin, NoCall
<1>2. /\ UNCHANGED <<wallet, disk, published, policy, diskPolicy, ambiguous>>
  BY Zenon DEF Begin, recordVars, policyVars
<1>3. CASE Refuses(w, X)
  BY <1>1, <1>2, <1>3, Quiet, Zenon DEF BeginWith
<1>4. CASE ~Refuses(w, X)
  <2>1. ~ambiguous
    BY <1>4, Zenon DEF Refuses
  <2>2. wallet = disk /\ OneOnDisk
    BY <2>1, Zenon DEF IInv, MemoryIsDurable
  <2>3. GoesOn(k)
    BY <1>1, <1>4, Zenon DEF BeginWith
  <2>4. DOMAIN k = DOMAIN Idle /\ k.todo \subseteq X
    BY Zenon DEF Prepared, Idle, ToStore
  <2>5. Storing(k.todo)
    <3>. HIDE DEF k, w
    <3>. QED
      BY <2>1, <2>2, <2>4, ActionsFit, ActionsDiffer, Zenon DEF Storing
  <2>. HIDE DEF k
  <2>6. CallShape' /\ (call'.stage # "persist" \/ call' = k)
    BY <2>3, <2>4, GoesOnShape, Zenon
  <2>7. call'.stage = "persist" => Storing(call.todo)'
    BY <1>2, <2>5, <2>6, Zenon DEF Storing, Known
  <2>. QED
    BY <1>2, <2>6, <2>7, Zenon DEF IInv, MemoryIsDurable, OneOnDisk, PublishedIsStored, WalletIsStored
<1>. QED
  BY <1>3, <1>4, Zenon

\* What is written for an action has the bytes of what was known.
LEMMA RecordBytes ==
    ASSUME OneOnDisk, wallet = disk, NEW x, x.known = Known(x.anchor)
    PROVE  /\ Record(x).anchor = x.anchor
           /\ \A r \in x.known : r.time = Record(x).time
<1>1. Record(x).anchor = x.anchor /\ Record(x).time = Time(x)
  BY Zenon DEF Record
<1>2. ASSUME NEW r \in x.known
      PROVE  r.time = Time(x)
  <2>1. {q.time : q \in x.known} = {r.time}
    BY <1>2 DEF Known, OneOnDisk
  <2>. QED
    BY <2>1, Zenon DEF Time
<1>. QED
  BY <1>1, <1>2, Zenon

\* One action is stored, or fails and ends the call.
LEMMA PersistIInv ==
    ASSUME IInv, Persist
    PROVE  IInv'
<1>1. PICK x \in call.todo : StoreFirst(x)
  BY Zenon DEF Persist
<1>2. /\ UNCHANGED <<published, policy, diskPolicy>> /\ call.stage = "persist"
  BY Zenon DEF Persist, policyVars
<1>3. Storing(call.todo) /\ ~ambiguous
  BY <1>2, Zenon DEF IInv, Storing
<1>4. wallet = disk /\ policy = diskPolicy /\ CallShape /\ OneOnDisk /\ PublishedIsStored
  BY <1>3, Zenon DEF IInv, MemoryIsDurable
<1>5. x.known = {r \in disk : r.anchor = x.anchor} /\ x.known = Known(x.anchor)
  BY <1>3, <1>4, Zenon DEF Storing, Known
<1>6. Record(x).anchor = x.anchor /\ \A r \in x.known : r.time = Record(x).time
  BY <1>4, <1>5, RecordBytes, Zenon
<1>. DEFINE n == Record(x)
            k == [call EXCEPT !.todo = @ \ {x}]
<1>7. \/ /\ wallet' = Replaced(wallet, x.known, {n}) /\ disk' = Replaced(disk, x.known, {n})
         /\ ambiguous' = ambiguous /\ GoesOn(k)
      \/ UNCHANGED <<wallet, disk, ambiguous>> /\ call' = Idle
      \/ disk' \in {disk, Replaced(disk, x.known, {n})} /\ wallet' = wallet /\ ambiguous' = TRUE /\ call' = Idle
  BY <1>1, Zenon DEF StoreFirst, Store, Ends, recordVars
<1>8. n.anchor = x.anchor /\ \A r \in x.known : r.time = n.time
  BY <1>6, Zenon
<1>9. DOMAIN k = DOMAIN Idle /\ k.todo = call.todo \ {x}
  BY <1>4, Zenon DEF CallShape, Idle
<1>. HIDE DEF n, k
<1>10. OneOnDisk' /\ PublishedIsStored' /\ WalletIsStored'
  <2>1. x.known = {r \in disk : r.anchor = n.anchor}
    BY <1>5, <1>8, Zenon
  <2>2. disk' \in {disk, Replaced(disk, x.known, {n})} /\ wallet' \in {wallet, disk'}
    BY <1>4, <1>7, Zenon
  <2>. QED
    BY <1>2, <1>4, <1>8, <2>1, <2>2, ReplaceKeeps, Zenon
<1>11. MemoryIsDurable'
  BY <1>2, <1>3, <1>4, <1>7, Zenon DEF MemoryIsDurable
<1>12. CallShape' /\ (call'.stage = "persist" => Storing(call.todo)')
  <2>1. CASE call' = Idle
    BY <2>1, IdleStage, Zenon DEF CallShape
  <2>2. CASE /\ wallet' = Replaced(wallet, x.known, {n})
             /\ ambiguous' = ambiguous /\ GoesOn(k)
    <3>1. CallShape' /\ (call'.stage # "persist" \/ call' = k)
      BY <1>9, <2>2, GoesOnShape, Zenon
    <3>2. ASSUME NEW y \in k.todo
          PROVE  y.known = Known(y.anchor)'
      <4>1. y \in call.todo /\ y.anchor # x.anchor /\ y.known = Known(y.anchor)
        BY <1>3, <1>9, Zenon DEF Storing
      <4>2. \A r \in x.known : r.anchor # y.anchor
        BY <1>5, <4>1, Zenon DEF Known
      <4>3. Known(y.anchor)' = Known(y.anchor)
        BY <1>8, <2>2, <4>1, <4>2, Zenon DEF Known, Replaced
      <4>. QED
        BY <4>1, <4>3, Zenon
    <3>3. \A y, z \in k.todo : y.anchor = z.anchor => y = z
      BY <1>3, <1>9, Zenon DEF Storing
    <3>4. call' = k => Storing(call.todo)'
      BY <1>3, <2>2, <3>2, <3>3, Zenon DEF Storing, Known
    <3>. QED
      BY <3>1, <3>4, Zenon
  <2>. QED
    BY <1>7, <2>1, <2>2, Zenon
<1>. QED
  BY <1>10, <1>11, <1>12, Zenon DEF IInv

\* Relaying publishes only what is stored, and a restart finds what was.
LEMMA RelayIInv ==
    ASSUME IInv, Review \/ Reserve \/ Broadcast \/ Restart
    PROVE  IInv'
<1>. USE IdleStage
<1>1. CASE Review
  <2>1. PICK x \in call.relay : ReviewFirst(x)
    BY <1>1, Zenon DEF Review
  <2>2. CallShape /\ call.stage = "review"
    BY <1>1, Zenon DEF IInv, Review
  <2>3. DOMAIN call' = DOMAIN call /\ call'.stage # "persist"
    BY <2>1, <2>2, Zenon DEF ReviewFirst, Ends, CallShape, Idle
  <2>. QED
    BY <1>1, <2>3, Quiet, Zenon DEF Review, recordVars, policyVars
<1>2. CASE Reserve /\ Clear(call.tx)
  <2>1. CallShape /\ call.stage = "reserve" /\ call' = [call EXCEPT !.stage = "broadcast"]
    BY <1>2, Zenon DEF IInv, Reserve
  <2>2. CallShape' /\ call'.stage # "persist"
    BY <2>1, Zenon DEF CallShape, Idle
  <2>3. published' = published \cup {Id(call.tx)} /\ UNCHANGED <<wallet, disk, policy, diskPolicy, ambiguous>>
    BY <1>2, Zenon DEF Reserve, recordVars, policyVars
  <2>4. \E r \in disk : Id(r) = Id(call.tx)
    BY <1>2, Zenon DEF Clear, Authorised, IInv, MemoryIsDurable
  <2>. QED
    BY <2>2, <2>3, <2>4, Zenon DEF IInv, MemoryIsDurable, OneOnDisk, PublishedIsStored, WalletIsStored
<1>3. CASE Reserve /\ ~Clear(call.tx)
  BY <1>3, Quiet, Zenon DEF Reserve, Ends, IInv, CallShape, recordVars, policyVars
<1>4. CASE Broadcast
  BY <1>4, Quiet, Zenon DEF Broadcast, Ends, IInv, CallShape, recordVars, policyVars
<1>5. CASE Restart
  <2>1. /\ wallet' = disk /\ disk' = disk /\ policy' = diskPolicy /\ diskPolicy' = diskPolicy
        /\ published' = published /\ call' = Idle
    BY <1>5, Zenon DEF Restart
  <2>. QED
    BY <2>1, Zenon DEF IInv, MemoryIsDurable, CallShape, OneOnDisk, PublishedIsStored, WalletIsStored
<1>. QED
  BY <1>1, <1>2, <1>3, <1>4, <1>5, Zenon

\* No step leaves the invariant.
LEMMA NextIInv == IInv /\ [Next]_vars => IInv'
<1>. SUFFICES ASSUME IInv, [Next]_vars
              PROVE  IInv'
  BY Zenon
<1>1. CASE UNCHANGED vars
  BY <1>1, Zenon DEF vars, recordVars, policyVars, IInv, MemoryIsDurable, CallShape, OneOnDisk,
                     PublishedIsStored, WalletIsStored, Storing, Known
<1>2. CASE Environment
  BY <1>2, EnvironmentIInv, Zenon
<1>3. CASE Preview \/ Execute \/ Tick \/ Ask
  BY <1>3, PlanningIInv, Zenon
<1>4. CASE \E c \in Callers : Begin(c)
  BY <1>4, BeginIInv
<1>5. CASE Persist
  BY <1>5, PersistIInv, Zenon
<1>6. CASE Review \/ Reserve \/ Broadcast \/ Restart
  BY <1>6, RelayIInv, Zenon
<1>. QED
  BY <1>1, <1>2, <1>3, <1>4, <1>5, <1>6, Zenon DEF Next, Calls

\* The invariant holds of every reachable state.
LEMMA AlwaysIInv == Spec => []IInv
  BY InitIInv, NextIInv, PTL DEF Spec

\* Unless the wallet knows that it does not know, its resolutions and its policy are those that a
\* reload would find, whatever writes failed before.
THEOREM Durable == Spec => []MemoryIsDurable
<1>1. IInv => MemoryIsDurable
  BY Zenon DEF IInv
<1>. QED
  BY <1>1, AlwaysIInv, PTL

\* However often calls are retried, cut short or repeated after a reload, an anchor has at most
\* one resolution, stored or handed to the node.
THEOREM OneResolution == Spec => []OneResolutionPerAnchor
<1>1. IInv => OneResolutionPerAnchor
  <2>. SUFFICES ASSUME IInv,
                       NEW x \in published \cup {Id(r) : r \in disk},
                       NEW y \in published \cup {Id(r) : r \in disk},
                       x[1] = y[1]
                PROVE  x = y
    BY Zenon DEF OneResolutionPerAnchor
  <2>1. PICK r \in disk : Id(r) = x
    BY Zenon DEF IInv, PublishedIsStored
  <2>2. PICK q \in disk : Id(q) = y
    BY Zenon DEF IInv, PublishedIsStored
  <2>3. r.anchor = q.anchor
    BY <2>1, <2>2, Zenon DEF Id
  <2>. QED
    BY <2>1, <2>2, <2>3, Zenon DEF IInv, OneOnDisk
<1>. QED
  BY <1>1, AlwaysIInv, PTL

\* Whatever was revoked, disabled or left unknown between the plan and the reservation, only a
\* resolution whose authority is on disk is handed to the node.
THEOREM Consent == Spec => PublishedUnderConsent
<1>. DEFINE A == Reserves => /\ \E r \in disk : Id(r) = Id(call.tx) /\ r.authorized /\ ~r.revoked
                             /\ call.kind = "auto" => diskPolicy # 0 /\ mining
<1>1. IInv /\ [Next]_vars => [A]_vars
  <2>. SUFFICES ASSUME IInv, Next, call.stage = "reserve", call'.stage = "broadcast"
                PROVE  A
    BY Zenon DEF Reserves
  <2>. USE IdleStage
  <2>1. CASE Reserve
    <3>1. Clear(call.tx)
      BY <2>1, Zenon DEF Reserve, Ends
    <3>2. wallet = disk /\ policy = diskPolicy
      BY <3>1, Zenon DEF Clear, IInv, MemoryIsDurable
    <3>. QED
      BY <3>1, <3>2, Zenon DEF Clear, Authorised
  <2>2. CASE Environment \/ Preview \/ Execute \/ Tick \/ Ask
    <3>1. call' = call \/ call' = [call EXCEPT !.current = FALSE]
      BY <2>2, SubmittedCall, Zenon DEF Environment, SendRawTransaction, Preview, Execute, Tick, Ask, ConnectTip, ProcessTip, ClaimChanges, MempoolTurns,
         LeavesMempool, UnlockWallet, SetPowMining, LockCoin, UnlockCoin, SetPolicy, Revoke, Written
    <3>. QED
      BY <3>1, CurrentFalse, Zenon DEF IInv
  <2>3. CASE Calls \/ Restart
    BY <2>1, <2>3, Zenon DEF Calls, Begin, NoCall, Persist, Review, Broadcast, Restart
  <2>. QED
    BY <2>2, <2>3, Zenon DEF Next
<1>. QED
  BY <1>1, AlwaysIInv, PTL DEF Spec, PublishedUnderConsent

-----------------------------------------------------------------------------
(* Who gives authority. *)

Kinds == {"sign", "commit", "retry", "auto"}

\* The calls that wait are of the kinds that ResolveShadowPowClaims serves, and an automatic one
\* is for all anchors.
Asked ==
    /\ DOMAIN waiting = Callers
    /\ \A c \in Callers :
         \/ waiting[c] = None
         \/ /\ DOMAIN waiting[c] = {"kind", "sel", "tip", "standing", "fresh"} /\ waiting[c].kind \in Kinds
            /\ waiting[c].kind = "auto" => waiting[c].sel = Anchors

\* A call that stores gives authority only to what the plan of the operator shows.
Shown ==
    call.stage = "persist" =>
        \A x \in call.todo : \A r \in x.known :
            ~r.authorized => call.kind = "commit" /\ r \in plan.components[r.anchor].known

\* A snapshot keeps its kind while it grows stale.
LEMMA OutdateAsked ==
    ASSUME Asked, Outdate
    PROVE  Asked'
<1>1. DOMAIN waiting' = Callers
  BY Zenon DEF Outdate
<1>2. ASSUME NEW c \in Callers, waiting[c] # None
      PROVE  /\ DOMAIN waiting'[c] = {"kind", "sel", "tip", "standing", "fresh"}
             /\ waiting'[c].kind \in Kinds
             /\ waiting'[c].kind = "auto" => waiting'[c].sel = Anchors
  BY <1>2, Zenon DEF Outdate, Asked
<1>3. ASSUME NEW c \in Callers, waiting[c] = None
      PROVE  waiting'[c] = None
  BY <1>3, Zenon DEF Outdate
<1>. QED
  BY <1>1, <1>2, <1>3, Zenon DEF Asked

\* A call joins or leaves the queue of its caller.
LEMMA QueueAsked ==
    ASSUME Asked, NEW c \in Callers, NEW v,
           waiting' = [waiting EXCEPT ![c] = v],
           v = None \/ \E kind \in Kinds : \E S : v = Snapshot(kind, S) /\ (kind = "auto" => S = Anchors)
    PROVE  Asked'
  BY DEF Asked, Snapshot

\* Nothing else waits.
LEMMA NextAsked ==
    ASSUME Asked, Next
    PROVE  Asked'
<1>1. CASE UNCHANGED waiting
  BY <1>1, Zenon DEF Asked
<1>2. CASE Outdate
  BY <1>2, OutdateAsked, Zenon
<1>3. CASE Environment
  BY <1>1, <1>2, <1>3, SubmittedCall, Zenon DEF Environment, SendRawTransaction, ConnectTip, ProcessTip, ClaimChanges,
     MempoolTurns, LeavesMempool, UnlockWallet, SetPowMining, LockCoin, UnlockCoin, SetPolicy, Revoke, Written, Failed, Counted
<1>4. CASE Execute
  <2>1. PICK kind \in {"sign", "commit"} :
          waiting' = [waiting EXCEPT !["operator"] = Snapshot(kind, DOMAIN plan.components)]
    BY <1>4, Zenon DEF Execute
  <2>. QED
    BY <2>1, QueueAsked, Zenon DEF Kinds, Callers
<1>5. CASE Ask
  BY <1>1, <1>5, QueueAsked, Zenon DEF Ask, Kinds, Callers
<1>6. CASE \E c \in Callers : Begin(c)
  BY <1>6, QueueAsked, Zenon DEF Begin
<1>7. CASE Persist
  BY <1>1, <1>2, <1>7, Zenon DEF Persist, StoreFirst, Store, Failed, Counted
<1>8. CASE Restart
  BY <1>8, Zenon DEF Restart, Asked
<1>9. CASE Preview \/ Tick \/ Review \/ Reserve \/ Broadcast
  BY <1>1, <1>2, <1>9, Zenon DEF Preview, Tick, Review, Reserve, Broadcast
<1>. QED
  BY <1>3, <1>4, <1>5, <1>6, <1>7, <1>8, <1>9, Zenon DEF Next, Calls

\* A call begins with what its kind lets it give authority to.
LEMMA BeginShown ==
    ASSUME IInv, Asked, NEW c \in Callers, Begin(c)
    PROVE  Shown'
<1>. DEFINE w == waiting[c]
            X == Actions(w.kind, w.sel)
            k == Prepared(c, w, X)
<1>1. BeginWith(c, w, X) /\ call.stage = "idle" /\ w # None /\ plan' = plan
  BY Zenon DEF Begin, NoCall, operatorVars
<1>2. w.kind \in Kinds
  BY <1>1, Zenon DEF Asked
<1>3. CASE Refuses(w, X)
  BY <1>1, <1>3, Zenon DEF BeginWith, Shown
<1>4. CASE ~Refuses(w, X)
  <2>1. ~ambiguous /\ wallet = disk /\ OneOnDisk
    BY <1>4, Zenon DEF Refuses, IInv, MemoryIsDurable
  <2>2. GoesOn(k)
    BY <1>1, <1>4, Zenon DEF BeginWith
  <2>3. DOMAIN k = DOMAIN Idle /\ k.todo = ToStore(w.kind, X) /\ k.kind = w.kind
    BY DEF Prepared, Idle
  <2>4. ASSUME NEW x \in ToStore(w.kind, X), NEW r \in x.known, ~r.authorized
        PROVE  w.kind = "commit" /\ r \in plan.components[r.anchor].known
    <3>1. x \in X
      BY Zenon DEF ToStore
    <3>2. x.known = Known(x.anchor)
      BY <2>1, <3>1, ActionsFit, Zenon
    <3>3. r.anchor = x.anchor /\ \A q \in x.known : q = r
      BY <2>1, <3>2, Zenon DEF Known, OneOnDisk
    <3>4. w.kind # "sign"
      BY Zenon DEF ToStore
    <3>5. w.kind # "retry"
      BY <1>4, <2>4, <3>1, <3>3, Zenon DEF Refuses, Consented
    <3>6. x.anchor \in w.sel /\ (w.kind = "auto" => x.known \subseteq Reusable("auto", x.anchor))
      <4>1. CASE \E a \in Candidates(w.kind, w.sel) : x = [anchor |-> a, known |-> {}]
        BY <4>1 DEF Candidates
      <4>2. CASE \E a \in w.sel : x = [anchor |-> a, known |-> Reusable(w.kind, a)]
        BY <4>2
      <4>. QED
        BY <3>1, <4>1, <4>2, Zenon DEF Actions
    <3>7. w.kind # "auto"
      BY <2>4, <3>6, Zenon DEF Reusable
    <3>8. w.kind = "commit"
      BY <1>2, <3>4, <3>5, <3>7, Zenon DEF Kinds
    <3>9. plan = PlanId(w.kind, w.sel)
      BY <1>4, <3>8, Zenon DEF Refuses
    <3>10. plan.components[x.anchor].known = Known(x.anchor)
      BY <3>6, <3>9, Zenon DEF PlanId, Component
    <3>. QED
      BY <3>2, <3>3, <3>8, <3>10, Zenon
  <2>. HIDE DEF k, w
  <2>5. call'.stage # "persist" \/ call' = k
    BY <2>2, <2>3, GoesOnShape, Zenon
  <2>. QED
    BY <1>1, <2>3, <2>4, <2>5, Zenon DEF Shown
<1>. QED
  BY <1>3, <1>4, Zenon

\* A call that stores keeps its kind, and nobody makes a plan meanwhile.
LEMMA PersistShown ==
    ASSUME IInv, Shown, Persist
    PROVE  Shown'
<1>1. PICK x \in call.todo : StoreFirst(x)
  BY Zenon DEF Persist
<1>2. CallShape /\ plan' = plan /\ call.stage = "persist"
  BY Zenon DEF IInv, Persist, operatorVars
<1>. DEFINE k == [call EXCEPT !.todo = @ \ {x}]
<1>3. call' = Idle \/ GoesOn(k)
  BY <1>1, Zenon DEF StoreFirst, Store, Ends
<1>4. DOMAIN k = DOMAIN Idle /\ k.todo \subseteq call.todo /\ k.kind = call.kind
  BY <1>2, Zenon DEF CallShape, Idle
<1>. HIDE DEF k
<1>5. call'.stage # "persist" \/ call' = k
  BY <1>3, <1>4, GoesOnShape, IdleStage, Zenon
<1>. QED
  BY <1>2, <1>4, <1>5, Zenon DEF Shown

\* Nothing else stores.
LEMMA NextShown ==
    ASSUME IInv, Asked, Shown, Next
    PROVE  Shown'
<1>. USE IdleStage
<1>1. CASE call.stage # "persist" /\ (call' = call \/ call' = [call EXCEPT !.current = FALSE] \/ call' = Idle)
  <2>1. call'.stage # "persist"
    BY <1>1, CurrentFalse, ZenonT(60) DEF IInv
  <2>. QED
    BY <2>1, Zenon DEF Shown
<1>2. CASE Environment
  BY <1>1, <1>2, SubmittedCall, Zenon DEF Environment, SendRawTransaction, ConnectTip, ProcessTip, ClaimChanges, MempoolTurns, WalletIsFree, NoCall,
     LeavesMempool, UnlockWallet, SetPowMining, LockCoin, UnlockCoin, SetPolicy, Revoke, Written
<1>3. CASE Preview \/ Execute \/ Tick \/ Ask
  BY <1>1, <1>3, Zenon DEF Preview, Execute, Tick, Ask, WalletIsFree
<1>4. CASE \E c \in Callers : Begin(c)
  BY <1>4, BeginShown, Zenon
<1>5. CASE Persist
  BY <1>5, PersistShown, Zenon
<1>6. CASE Review
  <2>1. call'.stage # "persist"
    BY <1>6, Zenon DEF Review, ReviewFirst, Ends, IInv, CallShape, Idle
  <2>. QED
    BY <2>1, Zenon DEF Shown
<1>7. CASE Reserve
  <2>1. call'.stage # "persist"
    BY <1>7, Zenon DEF Reserve, Ends, IInv, CallShape, Idle
  <2>. QED
    BY <2>1, Zenon DEF Shown
<1>8. CASE Broadcast \/ Restart
  BY <1>8, Zenon DEF Broadcast, Restart, Ends, Shown
<1>. QED
  BY <1>2, <1>3, <1>4, <1>5, <1>6, <1>7, <1>8, Zenon DEF Next, Calls

\* A resolution without authority gets it from an operator whose plan shows it as it is, or, unless
\* it is revoked, from the acceptance of its bytes through sendrawtransaction, and from nobody else:
\* neither a retry nor the policy can turn it into one that is relayed, and what the operator
\* revoked after submitting it stays revoked.
THEOREM Authority == Spec => AuthorityIsGranted
<1>. DEFINE A == \A r \in disk, q \in disk' :
                     Id(r) = Id(q) /\ ~r.authorized /\ q.authorized =>
                         \/ call.kind = "commit" /\ r \in plan.components[r.anchor].known
                         \/ ~r.revoked /\ Id(r) \in submitted
            J == IInv /\ Asked /\ Shown
<1>1. Init => J
  BY InitIInv DEF Init, Asked, Shown, Idle
<1>2. J /\ [Next]_vars => J'
  <2>1. CASE Next
    BY <2>1, NextIInv, NextAsked, NextShown, Zenon
  <2>2. CASE UNCHANGED vars
    BY <2>2, NextIInv, Zenon DEF vars, operatorVars, Asked, Shown
  <2>. QED
    BY <2>1, <2>2, Zenon
<1>3. J /\ [Next]_vars => [A]_vars
  <2>. SUFFICES ASSUME J, Next,
                       NEW r \in disk, NEW q \in disk', Id(r) = Id(q), ~r.authorized, q.authorized
                PROVE  \/ call.kind = "commit" /\ r \in plan.components[r.anchor].known
                       \/ ~r.revoked /\ Id(r) \in submitted
    BY Zenon
  <2>1. q \notin disk
    BY Zenon DEF IInv, OneOnDisk, Id
  <2>2. CASE Revoke
    <3>1. PICK t \in wallet : disk' \in {disk, Replaced(disk, {t}, {Tombstone(t)})}
      BY <2>2, Zenon DEF Revoke, recordVars
    <3>. QED
      BY <2>1, <3>1 DEF Replaced, Tombstone
  <2>3. CASE Persist
    <3>1. PICK x \in call.todo : disk' \in {disk, Replaced(disk, x.known, {Record(x)})}
      BY <2>3, Zenon DEF Persist, StoreFirst, Store, recordVars
    <3>2. q = Record(x)
      BY <2>1, <3>1, Zenon DEF Replaced
    <3>3. r.anchor = x.anchor
      BY <3>2, Zenon DEF Id, Record
    <3>4. r \in x.known
      BY <2>3, <3>3, Zenon DEF Persist, IInv, Storing, MemoryIsDurable, Known
    <3>. QED
      BY <2>3, <3>4, Zenon DEF Persist, Shown
  <2>4. CASE disk' = disk
    BY <2>1, <2>4, Zenon
  <2>5. CASE TransactionSubmittedByRpc
    <3>1. SUFFICES ASSUME disk' # disk PROVE ~r.revoked /\ Id(r) \in submitted
      BY <2>4, Zenon
    <3>2. PICK t \in disk : Promotes(t)
      BY <2>5, <3>1, SubmittedStep, Zenon
    <3>3. q = Promoted(t)
      BY <2>1, <3>1, <3>2, Zenon DEF Promotes, Replaced
    <3>4. Id(r) = Id(t)
      BY <3>3, PromotedOf, Zenon
    <3>5. r = t
      BY <3>4, Zenon DEF IInv, OneOnDisk, Id
    <3>. QED
      BY <3>2, <3>5, Zenon DEF Promotes
  <2>. QED
    BY <2>2, <2>3, <2>4, <2>5, ZenonT(60)
       DEF Next, Calls, Environment, SendRawTransaction, Preview, Execute, Tick, Ask, ConnectTip, ProcessTip, ClaimChanges,
       MempoolTurns, LeavesMempool, UnlockWallet, SetPowMining, LockCoin, UnlockCoin, SetPolicy, Begin, Review,
       Reserve, Broadcast, Restart, recordVars
<1>. QED
  BY <1>1, <1>2, <1>3, PTL DEF Spec, AuthorityIsGranted

-----------------------------------------------------------------------------
(* The budget of automatic resolutions. *)

\* The automatic resolutions of a window, and those that count at the tip.
InWindow(D, t) == {r \in D : r.origin = "automatic" /\ r.time \in t - Window .. t}
Counting(D) == {r \in D : r.origin = "automatic" /\ r.time >= tip - Window}

Budget(D) == \A t \in Tips : \E p \in Policies : Cardinality(InWindow(D, t)) <= p

Dated ==
    /\ tip \in Tips /\ policy \in Policies /\ diskPolicy \in Policies
    /\ IsFiniteSet(disk) /\ IsFiniteSet(wallet)
    /\ \A r \in disk \cup wallet : r.time \in Tips

\* An automatic call that stores has room for all that is left to store.
Room(todo) ==
    /\ IsFiniteSet(todo) /\ \A x \in todo : x.known = {}
    /\ Cardinality(Counting(wallet)) + Cardinality(todo) <= policy

BudgetInv ==
    /\ Dated
    /\ Budget(disk)
    /\ call.stage = "persist" /\ call.kind = "auto" => Room(call.todo)

\* A set of which every member has less than n smaller members in T has at most n members.
LEMMA Ranked ==
    ASSUME NEW T, IsFiniteSet(T), T \subseteq Nat, NEW n \in Nat,
           NEW S, S = {a \in T : Cardinality({b \in T : b < a}) < n}
    PROVE  IsFiniteSet(S) /\ Cardinality(S) \in Nat /\ Cardinality(S) <= n
<1>1. IsFiniteSet(S) /\ Cardinality(S) \in Nat
  BY FS_Subset, FS_CardinalityType, Zenon
<1>2. PICK f : f = [a \in T |-> Cardinality({b \in T : b < a})]
  BY Zenon
<1>3. ASSUME NEW a \in T PROVE f[a] \in Nat /\ f[a] = Cardinality({b \in T : b < a})
  BY <1>2, FS_Subset, FS_CardinalityType, Zenon
<1>4. ASSUME NEW a \in T, NEW b \in T, b < a PROVE f[b] < f[a]
  <2>. DEFINE B == {c \in T : c < b}
              A == {c \in T : c < a}
  <2>1. IsFiniteSet(A) /\ IsFiniteSet(B) /\ Cardinality(A) \in Nat /\ Cardinality(B) \in Nat
    BY FS_Subset, FS_CardinalityType, Zenon
  <2>2. b \notin B /\ B \cup {b} \subseteq A
    <3>1. a \in Nat /\ b \in Nat /\ ~(b < b)
      OBVIOUS
    <3>2. ASSUME NEW c \in T, c < b PROVE c < a
      <4>1. c \in Nat
        BY Zenon
      <4>. QED  BY <1>4, <3>1, <3>2, <4>1
    <3>. QED  BY <1>4, <3>1, <3>2, Zenon
  <2>3. f[a] = Cardinality(A) /\ f[b] = Cardinality(B)
    BY <1>3, Zenon
  <2>. HIDE DEF A, B
  <2>4. Cardinality(B \cup {b}) = Cardinality(B) + 1
    BY <2>1, <2>2, FS_AddElement, Zenon
  <2>5. Cardinality(B \cup {b}) <= Cardinality(A)
    BY <2>1, <2>2, FS_Subset, Zenon
  <2>. QED  BY <2>1, <2>3, <2>4, <2>5
<1>5. ASSUME NEW a \in S PROVE f[a] \in 0 .. n - 1
  BY <1>3
<1>6. PICK g : g = [a \in S |-> f[a]]
  BY Zenon
<1>7. g \in Injection(S, 0 .. n - 1)
  <2>1. g \in [S -> 0 .. n - 1]
    BY <1>5, <1>6, Zenon
  <2>2. ASSUME NEW a \in S, NEW b \in S, a # b PROVE g[a] # g[b]
    <3>1. a \in T /\ b \in T /\ (a < b \/ b < a)
      BY <2>2
    <3>2. f[a] \in Nat /\ f[b] \in Nat /\ (f[a] < f[b] \/ f[b] < f[a])
      BY <1>3, <1>4, <3>1, Zenon
    <3>. QED  BY <1>6, <3>2
  <2>. QED  BY <2>1, <2>2, Zenon DEF Injection, IsInjective
<1>8. IsFiniteSet(0 .. n - 1) /\ Cardinality(0 .. n - 1) = n
  BY FS_Interval
<1>9. Cardinality(S) <= n
  BY <1>7, <1>8, FS_Injection
<1>. QED  BY <1>1, <1>9, Zenon

\* A record that gives way to one with its time and origin counts no more than before.
LEMMA SameCount ==
    ASSUME NEW D, IsFiniteSet(D), NEW r \in D, NEW n, n.time = r.time, n.origin = r.origin,
           NEW E, E = Replaced(D, {r}, {n})
    PROVE  /\ IsFiniteSet(E)
           /\ \A t : Cardinality(InWindow(E, t)) <= Cardinality(InWindow(D, t))
<1>1. IsFiniteSet(E)
  BY FS_RemoveElement, FS_AddElement, Zenon DEF Replaced
<1>2. ASSUME NEW t PROVE Cardinality(InWindow(E, t)) <= Cardinality(InWindow(D, t))
  <2>1. PICK C : C = InWindow(D, t)
    BY Zenon
  <2>2. IsFiniteSet(C) /\ Cardinality(C) \in Nat
    BY <2>1, FS_Subset, FS_CardinalityType, Zenon DEF InWindow
  <2>3. CASE r \in C
    <3>1. InWindow(E, t) = (C \ {r}) \cup {n}
      BY <2>1, <2>3, Zenon DEF InWindow, Replaced
    <3>2. IsFiniteSet(C \ {r}) /\ Cardinality(C \ {r}) = Cardinality(C) - 1
      BY <2>2, <2>3, FS_RemoveElement, Zenon
    <3>3. Cardinality((C \ {r}) \cup {n}) <= Cardinality(C)
      <4>1. PICK m : m = Cardinality(C) /\ m \in Nat
        BY <2>2, Zenon
      <4>2. PICK A : A = C \ {r}
        BY Zenon
      <4>3. IsFiniteSet(A) /\ Cardinality(A) = m - 1
        BY <3>2, <4>1, <4>2, Zenon
      <4>4. Cardinality(A \cup {n}) = IF n \in A THEN Cardinality(A) ELSE Cardinality(A) + 1
        BY <4>3, FS_AddElement, Zenon
      <4>5. Cardinality(A \cup {n}) = m - 1 \/ Cardinality(A \cup {n}) = m - 1 + 1
        BY <4>3, <4>4, Zenon
      <4>6. Cardinality(A \cup {n}) <= m
        BY <4>1, <4>5
      <4>. QED  BY <4>1, <4>2, <4>6, Zenon
    <3>. QED  BY <2>1, <3>1, <3>3, Zenon
  <2>4. CASE r \notin C
    <3>1. InWindow(E, t) = C
      BY <2>1, <2>4, Zenon DEF InWindow, Replaced
    <3>. QED  BY <2>1, <2>2, <3>1
  <2>. QED  BY <2>3, <2>4, Zenon
<1>. QED  BY <1>1, <1>2, Zenon

\* A step that leaves the records on disk alone, or loads them, and does not store.
LEMMA QuietBudget ==
    ASSUME BudgetInv, disk' = disk, wallet' \in {wallet, disk},
           tip' \in Tips, policy' \in Policies, diskPolicy' \in Policies, call'.stage # "persist"
    PROVE  BudgetInv'
<1>1. Dated'
  BY Zenon DEF BudgetInv, Dated
<1>2. Budget(disk)'
  BY Zenon DEF BudgetInv, Budget, InWindow
<1>. QED  BY <1>1, <1>2, Zenon DEF BudgetInv

\* A record that gives way to one with its time and origin leaves the budget as it is.
LEMMA ExchangeBudget ==
    ASSUME BudgetInv, wallet = disk, NEW r \in disk, NEW n, n.time = r.time, n.origin = r.origin,
           disk' \in {disk, Replaced(disk, {r}, {n})}, wallet' \in {disk, Replaced(disk, {r}, {n})},
           UNCHANGED <<tip, policy, diskPolicy>>, call'.stage # "persist"
    PROVE  BudgetInv'
<1>1. PICK E : E = Replaced(disk, {r}, {n})
  BY Zenon
<1>2. IsFiniteSet(disk) /\ Budget(disk) /\ \A q \in disk : q.time \in Tips
  BY Zenon DEF BudgetInv, Dated
<1>3. IsFiniteSet(E) /\ \A t : Cardinality(InWindow(E, t)) <= Cardinality(InWindow(disk, t))
  BY <1>1, <1>2, SameCount, Zenon
<1>4. \A q \in E : q.time \in Tips
  BY <1>1, <1>2, Zenon DEF Replaced
<1>5. Budget(E)
  <2>. SUFFICES ASSUME NEW t \in Tips PROVE \E p \in Policies : Cardinality(InWindow(E, t)) <= p
    BY Zenon DEF Budget
  <2>1. PICK p \in Policies : Cardinality(InWindow(disk, t)) <= p
    BY <1>2, Zenon DEF Budget
  <2>2. /\ Cardinality(InWindow(E, t)) \in Nat /\ Cardinality(InWindow(disk, t)) \in Nat /\ p \in Nat
    BY <1>2, <1>3, FS_Subset, FS_CardinalityType, BoundsAssumption, Zenon DEF InWindow
  <2>3. Cardinality(InWindow(E, t)) <= Cardinality(InWindow(disk, t))
    BY <1>3, Zenon
  <2>. QED  BY <2>1, <2>2, <2>3
<1>6. disk' \in {disk, E} /\ wallet' \in {disk, E}
  BY <1>1, Zenon
<1>7. Dated'
  BY <1>2, <1>3, <1>4, <1>6, Zenon DEF BudgetInv, Dated
<1>8. Budget(disk)'
  <2>1. Budget(disk')
    BY <1>2, <1>5, <1>6, Zenon
  <2>. QED  BY <2>1, Zenon DEF Budget, InWindow
<1>. QED  BY <1>7, <1>8, Zenon DEF BudgetInv

\* What is revoked counts as before.
LEMMA RevokeBudget ==
    ASSUME IInv, BudgetInv, Revoke
    PROVE  BudgetInv'
<1>1. PICK r \in wallet :
        /\ disk' \in {disk, Replaced(disk, {r}, {Tombstone(r)})}
        /\ wallet' \in {wallet, Replaced(wallet, {r}, {Tombstone(r)})}
        /\ Written \/ call' = call
  BY Zenon DEF Revoke, recordVars
<1>2. ~ambiguous /\ call.stage # "persist" /\ UNCHANGED <<tip, policy, diskPolicy>>
  BY Zenon DEF Revoke, NoCall, policyVars, chainVars
<1>3. wallet = disk
  BY <1>2, Zenon DEF IInv, MemoryIsDurable
<1>4. PICK n : n = Tombstone(r)
  BY Zenon
<1>5. n.time = r.time /\ n.origin = r.origin
  BY <1>4, Zenon DEF Tombstone
<1>6. call'.stage # "persist"
  BY <1>1, <1>2, CurrentFalse, Zenon DEF IInv, Written
<1>7. disk' \in {disk, Replaced(disk, {r}, {n})} /\ wallet' \in {disk, Replaced(disk, {r}, {n})} /\ r \in disk
  BY <1>1, <1>3, <1>4, Zenon
<1>. QED  BY <1>2, <1>3, <1>5, <1>6, <1>7, ExchangeBudget, ZenonT(60)

\* So does a draft that gets authority.
LEMMA SubmittedBudget ==
    ASSUME IInv, BudgetInv, TransactionSubmittedByRpc
    PROVE  BudgetInv'
<1>1. call'.stage # "persist" /\ UNCHANGED <<tip, policy, diskPolicy>>
  BY SubmittedCall, CurrentFalse, Zenon DEF IInv
<1>2. CASE UNCHANGED <<wallet, disk, ambiguous>>
  BY <1>1, <1>2, QuietBudget, Zenon DEF BudgetInv, Dated
<1>3. CASE wallet = disk /\ \E r \in disk : Promotes(r)
  <2>1. PICK r \in disk : Promotes(r)
    BY <1>3, Zenon
  <2>2. PICK n : n = Promoted(r)
    BY Zenon
  <2>3. n.time = r.time /\ n.origin = r.origin
    BY <2>2, PromotedOf, Zenon
  <2>4. disk' \in {disk, Replaced(disk, {r}, {n})} /\ wallet' \in {disk, Replaced(disk, {r}, {n})}
    BY <1>3, <2>1, <2>2, Zenon DEF Promotes
  <2>. QED  BY <1>1, <1>3, <2>3, <2>4, ExchangeBudget, ZenonT(60)
<1>. QED  BY <1>2, <1>3, SubmittedStep, Zenon

\* What an automatic plan signs anew.
LEMMA AutomaticPlan ==
    ASSUME NEW x \in ToStore("auto", Actions("auto", Anchors))
    PROVE  \E a \in Candidates("auto", Anchors) :
              /\ x = [anchor |-> a, known |-> {}]
              /\ WithinBudget("auto", a, Candidates("auto", Anchors))
<1>1. x \in Actions("auto", Anchors) /\ (x.known = {} \/ \E r \in x.known : ~r.authorized)
  BY Zenon DEF ToStore
<1>2. CASE \E a \in Anchors : x = [anchor |-> a, known |-> Reusable("auto", a)] /\ Reusable("auto", a) # {}
  BY <1>1, <1>2 DEF Reusable
<1>. QED  BY <1>1, <1>2, Zenon DEF Actions

\* A call that begins has room for all that it plans to store.
LEMMA PlanHasRoom ==
    ASSUME BudgetInv, NEW todo, todo = ToStore("auto", Actions("auto", Anchors)), todo # {}
    PROVE  Room(todo)
<1>1. PICK T : T = Candidates("auto", Anchors)
  BY Zenon
<1>2. T \subseteq Nat /\ IsFiniteSet(T)
  BY <1>1, BoundsAssumption, FS_Subset, Zenon DEF Candidates
<1>3. PICK u : u = Cardinality(Counting(wallet))
  BY Zenon
<1>4. u \in Nat /\ Used = u /\ policy \in Nat
  BY <1>3, FS_Subset, FS_CardinalityType, BoundsAssumption, Zenon DEF BudgetInv, Dated, Counting, Used
<1>5. ASSUME NEW x \in todo
      PROVE  \E a \in T : x = [anchor |-> a, known |-> {}] /\ u + Cardinality({b \in T : b < a}) < policy
  BY <1>1, <1>4, AutomaticPlan, Zenon DEF WithinBudget
<1>6. \A a \in T : Cardinality({b \in T : b < a}) \in Nat
  BY <1>2, FS_Subset, FS_CardinalityType, Zenon
<1>7. PICK n : n = policy - u
  BY Zenon
<1>8. n \in Nat
  <2>1. PICK x \in todo : TRUE
    BY Zenon
  <2>2. PICK a \in T : u + Cardinality({b \in T : b < a}) < policy
    BY <1>5, Zenon
  <2>3. PICK c : c = Cardinality({b \in T : b < a}) /\ c \in Nat
    BY <1>6, Zenon
  <2>4. u + c < policy
    BY <2>2, <2>3, Zenon
  <2>. QED  BY <1>4, <1>7, <2>3, <2>4
<1>9. PICK S : S = {a \in T : Cardinality({b \in T : b < a}) < n}
  BY Zenon
<1>10. IsFiniteSet(S) /\ Cardinality(S) \in Nat /\ Cardinality(S) <= n
  BY <1>2, <1>8, <1>9, Ranked, Zenon
<1>11. ASSUME NEW x \in todo PROVE x.known = {} /\ x.anchor \in S /\ x = [anchor |-> x.anchor, known |-> {}]
  <2>1. PICK a \in T : x = [anchor |-> a, known |-> {}] /\ u + Cardinality({b \in T : b < a}) < policy
    BY <1>5
  <2>2. PICK c : c = Cardinality({b \in T : b < a}) /\ c \in Nat
    BY <1>6, Zenon
  <2>3. u + c < policy
    BY <2>1, <2>2, Zenon
  <2>4. c < n
    BY <1>4, <1>7, <2>2, <2>3
  <2>. QED  BY <1>9, <2>1, <2>2, <2>4, SMTT(60)
<1>12. PICK f : f = [x \in todo |-> x.anchor]
  BY Zenon
<1>13. f \in Injection(todo, S)
  <2>1. f \in [todo -> S]
    BY <1>11, <1>12, Zenon
  <2>2. ASSUME NEW x \in todo, NEW y \in todo, f[x] = f[y] PROVE x = y
    <3>1. x.anchor = y.anchor
      BY <1>12, <2>2, Zenon
    <3>. QED  BY <1>11, <3>1, Zenon
  <2>. QED  BY <2>1, <2>2, Zenon DEF Injection, IsInjective
<1>14. IsFiniteSet(todo) /\ Cardinality(todo) <= Cardinality(S)
  BY <1>10, <1>13, FS_Injection, Zenon
<1>15. u + Cardinality(todo) <= policy
  <2>1. PICK m : m = Cardinality(todo) /\ m \in Nat
    BY <1>14, FS_CardinalityType, Zenon
  <2>2. m <= n
    BY <1>8, <1>10, <1>14, <2>1
  <2>. QED  BY <1>4, <1>7, <2>1, <2>2
<1>. QED  BY <1>3, <1>11, <1>14, <1>15, Zenon DEF Room

LEMMA BeginBudget ==
    ASSUME IInv, Asked, BudgetInv, NEW c \in Callers, Begin(c)
    PROVE  BudgetInv'
<1>. DEFINE w == waiting[c]
            X == Actions(w.kind, w.sel)
            k == Prepared(c, w, X)
<1>1. BeginWith(c, w, X) /\ call.stage = "idle" /\ w # None
  BY Zenon DEF Begin, NoCall
<1>2. UNCHANGED <<wallet, disk, tip, policy, diskPolicy>>
  BY Zenon DEF Begin, recordVars, policyVars, chainVars
<1>3. tip \in Tips /\ policy \in Policies /\ diskPolicy \in Policies
  BY Zenon DEF BudgetInv, Dated
<1>4. CASE call'.stage # "persist"
  BY <1>2, <1>3, <1>4, QuietBudget
<1>5. CASE call'.stage = "persist"
  <2>1. GoesOn(k)
    BY <1>1, <1>5, ZenonT(60) DEF BeginWith
  <2>2. DOMAIN k = DOMAIN Idle /\ k.todo = ToStore(w.kind, X) /\ k.kind = w.kind
    BY DEF Prepared, Idle
  <2>3. w.kind = "auto" => w.sel = Anchors
    BY <1>1, Zenon DEF Asked
  <2>4. w.kind = "auto" => k.todo = ToStore("auto", Actions("auto", Anchors))
    BY <2>2, <2>3, Zenon
  <2>. HIDE DEF k, w
  <2>5. call' = k
    BY <1>5, <2>1, <2>2, GoesOnShape
  <2>6. k.todo # {}
    BY <1>5, <2>1, <2>2, IdleStage, Zenon DEF GoesOn, Idle
  <2>7. w.kind = "auto" => Room(k.todo)
    BY <2>4, <2>6, PlanHasRoom, Zenon
  <2>8. call'.kind = "auto" => Room(call.todo)'
    BY <1>2, <2>2, <2>5, <2>7, Zenon DEF Room, Counting
  <2>9. Dated'
    BY <1>2, Zenon DEF BudgetInv, Dated
  <2>10. Budget(disk)'
    BY <1>2, Zenon DEF BudgetInv, Budget, InWindow
  <2>. QED  BY <2>8, <2>9, <2>10, Zenon DEF BudgetInv
<1>. QED  BY <1>4, <1>5, Zenon

\* A set that grows by at most one element.
LEMMA OneMore ==
    ASSUME NEW A, IsFiniteSet(A), NEW n, NEW B, B \subseteq A \cup {n}
    PROVE  IsFiniteSet(B) /\ Cardinality(B) \in Nat /\ Cardinality(A) \in Nat /\ Cardinality(B) <= Cardinality(A) + 1
<1>1. PICK C : C = A \cup {n}
  BY Zenon
<1>2. PICK m : m = Cardinality(A) /\ m \in Nat
  BY FS_CardinalityType, Zenon
<1>3. IsFiniteSet(C) /\ Cardinality(C) \in {m, m + 1}
  BY <1>1, <1>2, FS_AddElement
<1>4. IsFiniteSet(B) /\ Cardinality(B) <= Cardinality(C) /\ Cardinality(B) \in Nat
  BY <1>1, <1>3, FS_Subset, FS_CardinalityType, Zenon
<1>. QED  BY <1>2, <1>3, <1>4

\* One record stored is within the budget.
LEMMA StoredBudget ==
    ASSUME IInv, BudgetInv, call.stage = "persist", NEW x \in call.todo,
           NEW E, E = Replaced(disk, x.known, {Record(x)})
    PROVE  /\ wallet = disk
           /\ IsFiniteSet(E) /\ \A r \in E : r.time \in Tips
           /\ Budget(E)
           /\ call.kind = "auto" => Cardinality(Counting(E)) + Cardinality(call.todo \ {x}) <= policy
<1>1. ~ambiguous /\ wallet = disk /\ OneOnDisk /\ x.known = Known(x.anchor)
  BY Zenon DEF IInv, Storing, MemoryIsDurable
<1>2. /\ tip \in Tips /\ policy \in Policies /\ IsFiniteSet(disk) /\ Budget(disk)
      /\ \A r \in disk : r.time \in Tips
  BY Zenon DEF BudgetInv, Dated
<1>3. PICK n : n = Record(x)
  BY Zenon
<1>4. n.time = Time(x) /\ n.origin = Origin(x) /\ \A r \in x.known : r.time = n.time
  BY <1>1, <1>3, RecordBytes, Zenon DEF Record
<1>5. policy \in Nat /\ tip \in Int /\ Window \in Int /\ \A p \in Policies : p \in Nat
  BY <1>2, BoundsAssumption
<1>6. CASE x.known = {}
  <2>1. E = disk \cup {n} /\ n.time = tip
    BY <1>3, <1>4, <1>6, Zenon DEF Replaced, Time
  <2>2. IsFiniteSet(E) /\ \A r \in E : r.time \in Tips
    BY <1>2, <2>1, FS_AddElement, Zenon
  <2>3. CASE call.kind # "auto"
    <3>1. n.origin # "automatic"
      BY <1>4, <1>6, <2>3, Zenon DEF Origin
    <3>2. \A t : InWindow(E, t) = InWindow(disk, t)
      BY <2>1, <3>1, Zenon DEF InWindow
    <3>3. Budget(E)
      BY <1>2, <3>2, Zenon DEF Budget
    <3>. QED  BY <1>1, <2>2, <2>3, <3>3, Zenon
  <2>4. CASE call.kind = "auto"
    <3>1. /\ IsFiniteSet(call.todo)
          /\ Cardinality(Counting(disk)) + Cardinality(call.todo) <= policy
      BY <1>1, <2>4, Zenon DEF BudgetInv, Room
    <3>2. PICK m : m = Cardinality(call.todo) /\ m \in Nat
      BY <3>1, FS_CardinalityType, Zenon
    <3>3. m # 0 /\ Cardinality(call.todo \ {x}) = m - 1
      BY <3>1, <3>2, FS_EmptySet, FS_RemoveElement, Zenon
    <3>4. IsFiniteSet(Counting(disk))
      BY <1>2, FS_Subset, Zenon DEF Counting
    <3>5. PICK u : u = Cardinality(Counting(disk)) /\ u \in Nat
      BY <3>4, FS_CardinalityType, Zenon
    <3>6. u + m <= policy
      BY <3>1, <3>2, <3>5, Zenon
    <3>7. ASSUME NEW B, B \subseteq Counting(disk) \cup {n} PROVE Cardinality(B) \in Nat /\ Cardinality(B) <= u + 1
      BY <3>4, <3>5, <3>7, OneMore, Zenon
    <3>8. Cardinality(Counting(E)) + Cardinality(call.todo \ {x}) <= policy
      <4>1. Counting(E) \subseteq Counting(disk) \cup {n}
        BY <2>1, Zenon DEF Counting
      <4>2. PICK v : v = Cardinality(Counting(E)) /\ v \in Nat /\ v <= u + 1
        BY <3>7, <4>1, Zenon
      <4>. QED  BY <1>5, <3>2, <3>3, <3>5, <3>6, <4>2
    <3>9. ASSUME NEW t \in Tips PROVE \E p \in Policies : Cardinality(InWindow(E, t)) <= p
      <4>1. t \in Int
        BY BoundsAssumption
      <4>2. CASE tip \in t - Window .. t
        <5>1. InWindow(E, t) \subseteq Counting(disk) \cup {n}
          <6>1. ASSUME NEW r \in disk, r.time \in t - Window .. t PROVE r.time >= tip - Window
            <7>1. r.time \in Tips
              BY <1>2, <6>1, Zenon
            <7>2. \A s \in Tips : s \in Int
              BY BoundsAssumption
            <7>3. r.time \in Int
              BY <7>1, <7>2, Zenon
            <7>. QED  BY <1>5, <4>1, <4>2, <6>1, <7>3
          <6>. QED  BY <2>1, <6>1, Zenon DEF InWindow, Counting
        <5>2. PICK v : v = Cardinality(InWindow(E, t)) /\ v \in Nat /\ v <= u + 1
          BY <3>7, <5>1, Zenon
        <5>3. v <= policy
          BY <1>5, <3>2, <3>3, <3>5, <3>6, <5>2, SMTT(60)
        <5>. QED  BY <1>2, <5>2, <5>3, Zenon
      <4>3. CASE tip \notin t - Window .. t
        <5>1. InWindow(E, t) = InWindow(disk, t)
          BY <2>1, <4>3, Zenon DEF InWindow
        <5>. QED  BY <1>2, <5>1, Zenon DEF Budget
      <4>. QED  BY <4>2, <4>3, Zenon
    <3>10. Budget(E)
      BY <3>9, Zenon DEF Budget
    <3>. QED  BY <1>1, <2>2, <3>8, <3>10, Zenon
  <2>. QED  BY <2>3, <2>4, Zenon
<1>7. CASE x.known # {}
  <2>1. PICK r \in x.known : TRUE
    BY <1>7, Zenon
  <2>2. r \in disk /\ x.known = {r}
    BY <1>1, <2>1 DEF Known, OneOnDisk
  <2>3. n.time = r.time /\ n.origin = r.origin
    <3>1. {q.origin : q \in x.known} = {r.origin}
      BY <2>2, Zenon
    <3>. QED  BY <1>4, <1>7, <2>1, <3>1, Zenon DEF Origin
  <2>4. E = Replaced(disk, {r}, {n})
    BY <1>3, <2>2, Zenon
  <2>5. IsFiniteSet(E) /\ \A t : Cardinality(InWindow(E, t)) <= Cardinality(InWindow(disk, t))
    BY <1>2, <2>2, <2>3, <2>4, SameCount, Zenon
  <2>6. \A q \in E : q.time \in Tips
    BY <1>2, <2>2, <2>3, <2>4, Zenon DEF Replaced
  <2>7. ASSUME NEW t \in Tips PROVE \E p \in Policies : Cardinality(InWindow(E, t)) <= p
    <3>1. PICK p \in Policies : Cardinality(InWindow(disk, t)) <= p
      BY <1>2, Zenon DEF Budget
    <3>2. Cardinality(InWindow(E, t)) \in Nat /\ Cardinality(InWindow(disk, t)) \in Nat /\ p \in Nat
      BY <1>2, <1>5, <2>5, FS_Subset, FS_CardinalityType, Zenon DEF InWindow
    <3>3. Cardinality(InWindow(E, t)) <= Cardinality(InWindow(disk, t))
      BY <2>5, Zenon
    <3>. QED  BY <3>1, <3>2, <3>3
  <2>8. call.kind # "auto"
    BY <1>7, Zenon DEF BudgetInv, Room
  <2>. QED  BY <1>1, <2>5, <2>6, <2>7, <2>8, Zenon DEF Budget
<1>. QED  BY <1>6, <1>7, Zenon

LEMMA PersistBudget ==
    ASSUME IInv, BudgetInv, Persist
    PROVE  BudgetInv'
<1>1. PICK x \in call.todo : StoreFirst(x)
  BY Zenon DEF Persist
<1>2. call.stage = "persist" /\ UNCHANGED <<tip, policy, diskPolicy>>
  BY Zenon DEF Persist, policyVars, chainVars
<1>3. PICK E : E = Replaced(disk, x.known, {Record(x)})
  BY Zenon
<1>4. /\ wallet = disk /\ IsFiniteSet(E) /\ Budget(E) /\ \A r \in E : r.time \in Tips
      /\ call.kind = "auto" => Cardinality(Counting(E)) + Cardinality(call.todo \ {x}) <= policy
  BY <1>2, <1>3, StoredBudget, Zenon
<1>. DEFINE k == [call EXCEPT !.todo = @ \ {x}]
<1>5. \/ wallet' = E /\ disk' = E /\ GoesOn(k)
      \/ wallet' = disk /\ disk' \in {disk, E} /\ call' = Idle
  BY <1>1, <1>3, <1>4, Zenon DEF StoreFirst, Store, Ends, recordVars
<1>6. DOMAIN k = DOMAIN Idle /\ k.todo = call.todo \ {x} /\ k.kind = call.kind
  BY Zenon DEF IInv, CallShape, Idle
<1>. HIDE DEF k
<1>7. Dated'
  BY <1>2, <1>4, <1>5, Zenon DEF BudgetInv, Dated
<1>8. Budget(disk)'
  <2>1. Budget(disk')
    BY <1>4, <1>5, Zenon DEF BudgetInv
  <2>. QED  BY <2>1, Zenon DEF Budget, InWindow
<1>9. ASSUME call'.stage = "persist", call'.kind = "auto" PROVE Room(call.todo)'
  <2>1. wallet' = E /\ call' = k
    BY <1>5, <1>6, <1>9, GoesOnShape, IdleStage
  <2>2. call.kind = "auto" /\ call'.todo = call.todo \ {x}
    BY <1>6, <1>9, <2>1, Zenon
  <2>3. IsFiniteSet(call.todo \ {x}) /\ \A y \in call.todo \ {x} : y.known = {}
    BY <1>2, <2>2, FS_RemoveElement, Zenon DEF BudgetInv, Room
  <2>4. Counting(wallet)' = Counting(E)
    BY <1>2, <2>1, Zenon DEF Counting
  <2>5. Cardinality(Counting(wallet)') + Cardinality(call'.todo) <= policy'
    BY <1>2, <1>4, <2>2, <2>4, Zenon
  <2>. QED  BY <2>2, <2>3, <2>5, Zenon DEF Room
<1>. QED  BY <1>7, <1>8, <1>9, Zenon DEF BudgetInv

LEMMA NextBudget ==
    ASSUME IInv, Asked, BudgetInv, Next
    PROVE  BudgetInv'
<1>. USE IdleStage
<1>1. tip \in Tips /\ policy \in Policies /\ diskPolicy \in Policies
  BY Zenon DEF BudgetInv, Dated
<1>2. CASE Environment /\ ~Revoke /\ ~TransactionSubmittedByRpc
  <2>1. /\ call.stage # "persist" /\ (call' = call \/ call' = [call EXCEPT !.current = FALSE])
        /\ UNCHANGED <<wallet, disk>> /\ tip' \in Tips /\ policy' \in Policies /\ diskPolicy' \in Policies
    BY <1>1, <1>2, Zenon DEF Environment, SendRawTransaction, ConnectTip, ProcessTip, ClaimChanges, MempoolTurns, WalletIsFree, NoCall,
       LeavesMempool, UnlockWallet, SetPowMining, LockCoin, UnlockCoin, SetPolicy, Written, chainVars,
       recordVars, policyVars
  <2>2. call'.stage # "persist"
    BY <2>1, CurrentFalse, Zenon DEF IInv
  <2>. QED  BY <2>1, <2>2, QuietBudget, Zenon
<1>3. CASE Revoke
  BY <1>3, RevokeBudget, Zenon
<1>4. CASE Preview \/ Execute \/ Tick \/ Ask
  BY <1>1, <1>4, QuietBudget, Zenon DEF Preview, Execute, Tick, Ask, WalletIsFree, chainVars, recordVars, policyVars
<1>5. CASE \E c \in Callers : Begin(c)
  BY <1>5, BeginBudget, Zenon
<1>6. CASE Persist
  BY <1>6, PersistBudget, Zenon
<1>7. CASE Review \/ Reserve \/ Broadcast
  <2>1. call'.stage # "persist"
    BY <1>7, Zenon DEF Review, ReviewFirst, Reserve, Broadcast, Ends, IInv, CallShape, Idle
  <2>. QED  BY <1>1, <1>7, <2>1, QuietBudget, ZenonT(60)
               DEF Review, Reserve, Broadcast, chainVars, recordVars, policyVars
<1>8. CASE Restart
  BY <1>1, <1>8, QuietBudget, Zenon DEF Restart
<1>9. CASE TransactionSubmittedByRpc
  BY <1>9, SubmittedBudget, Zenon
<1>. QED  BY <1>2, <1>3, <1>4, <1>5, <1>6, <1>7, <1>8, <1>9, SMTT(60) DEF Next, Calls

\* However tips go back and forth, resolutions are revoked, commits fail and the policy changes, no
\* window holds more automatic resolutions than the widest policy allows: the plan of a call counts
\* what the wallet has of the window, and the wallet is not let go of before the plan is stored.
THEOREM WindowBudget == Spec => []AutomaticBudget
<1>. DEFINE J == IInv /\ Asked /\ BudgetInv
<1>1. Init => J
  <2>. SUFFICES ASSUME Init PROVE J
    BY Zenon
  <2>1. IInv /\ Asked
    BY InitIInv, Zenon DEF Init, Asked
  <2>2. Dated
    BY FS_EmptySet, Zenon DEF Init, Dated
  <2>3. Budget(disk)
    <3>. SUFFICES ASSUME NEW t \in Tips PROVE Cardinality(InWindow(disk, t)) <= policy
      BY <2>2, Zenon DEF Budget, Dated
    <3>1. InWindow(disk, t) = {} /\ policy \in Nat
      BY <2>2, BoundsAssumption, Zenon DEF Init, InWindow, Dated
    <3>. QED  BY <3>1, FS_EmptySet
  <2>. QED  BY <2>1, <2>2, <2>3, Zenon DEF Init, Idle, BudgetInv
<1>2. J /\ [Next]_vars => J'
  <2>1. CASE Next
    BY <2>1, NextIInv, NextAsked, NextBudget, Zenon
  <2>2. CASE UNCHANGED vars
    <3>1. UNCHANGED <<waiting, tip, wallet, disk, policy, diskPolicy, call>>
      BY <2>2, Zenon DEF vars, chainVars, recordVars, policyVars
    <3>. QED  BY <2>2, <3>1, NextIInv, Zenon DEF Asked, BudgetInv, Dated, Budget, InWindow, Room, Counting
  <2>. QED  BY <2>1, <2>2, Zenon
<1>3. J => AutomaticBudget
  BY Zenon DEF BudgetInv, Budget, InWindow, AutomaticBudget
<1>. QED  BY <1>1, <1>2, <1>3, PTL DEF Spec

-----------------------------------------------------------------------------
(* Plans and revocations. *)

\* What a plan shows of an anchor.
Shows(p, a) == IF p = None THEN {} ELSE IF a \in DOMAIN p.components THEN p.components[a].known ELSE {}

\* No resolution is authorised by a plan that shows a resolution with this plan's authority; the
\* operator's plan shows neither what a revocation would leave behind, nor what one has left behind
\* since, nor what a submission would make of a draft, and it shows an anchor's resolution only
\* while there is one.
RevocationInv ==
    /\ \A r \in disk : ~(r.authorized /\ r.revoked)
    /\ \A r \in disk : \A q \in Shows(r.receipt, r.anchor) : q.receipt # r.receipt
    /\ \A r \in disk : ~r.revoked => Tombstone(r) \notin Shows(plan, r.anchor)
    /\ \A r \in disk : ~r.revoked /\ ~r.authorized => Promoted(r) \notin Shows(plan, r.anchor)
    /\ \A r \in disk : Id(r) \in outdated => r \notin Shows(plan, r.anchor)
    /\ plan # None => \A a \in DOMAIN plan.components : plan.components[a].known # {} => \E r \in disk : r.anchor = a

\* Only the operator, who has a plan, asks for what needs one.
QueueInv ==
    /\ waiting["scheduler"] # None => waiting["scheduler"].kind \notin {"sign", "commit"}
    /\ waiting["operator"] # None => plan # None

\* The plan of a call that stores shows what it is about to replace, and it is the operator's plan.
StoreInv ==
    call.stage = "persist" =>
        \A x \in call.todo :
            /\ Shows(call.plan, x.anchor) \subseteq x.known
            /\ x.known # {} => call.kind = "commit" /\ call.plan = plan /\ x.known \subseteq Shows(plan, x.anchor)

\* A plan shows the resolutions that the wallet knows when it is made.
LEMMA PlanShows ==
    ASSUME NEW kind, NEW S, NEW p, p = PlanId(kind, S), NEW a
    PROVE  /\ Shows(p, a) \subseteq Known(a)
           /\ p # None /\ a \in S => Shows(p, a) = Known(a)
           /\ DOMAIN p.components = S
<1>1. p.components = [b \in S |-> Component(b)]
  BY Zenon DEF PlanId
<1>2. DOMAIN p.components = S /\ (a \in S => p.components[a] = Component(a))
  BY <1>1, Zenon
<1>3. Component(a).known = Known(a)
  BY Zenon DEF Component
<1>. QED  BY <1>2, <1>3, Zenon DEF Shows

\* A tombstone keeps the bytes and the receipt, and has no authority.
LEMMA TombstoneOf ==
    ASSUME NEW r
    PROVE  /\ Tombstone(r).anchor = r.anchor /\ Id(Tombstone(r)) = Id(r) /\ Tombstone(r).receipt = r.receipt
           /\ Tombstone(r).authorized = FALSE /\ Tombstone(r).revoked = TRUE
  BY Zenon DEF Tombstone, Id

\* A step that leaves the records and the plan alone.
LEMMA QuietRevocation ==
    ASSUME RevocationInv, UNCHANGED <<disk, plan, outdated>>
    PROVE  RevocationInv'
  BY Zenon DEF RevocationInv, Shows

\* A new plan shows the wallet as it is.
LEMMA PreviewRevocation ==
    ASSUME IInv, RevocationInv, Preview
    PROVE  RevocationInv'
<1>1. wallet = disk /\ OneOnDisk /\ disk' = disk /\ outdated' = {}
  BY Zenon DEF Preview, IInv, MemoryIsDurable, recordVars
<1>2. PICK S \in Selections : plan' = PlanId("commit", S)
  BY Zenon DEF Preview
<1>3. PICK p : p = plan'
  BY Zenon
<1>4. ASSUME NEW r \in disk, ~r.revoked PROVE Tombstone(r) \notin Shows(p, r.anchor)
  <2>1. SUFFICES ASSUME Tombstone(r) \in Shows(p, r.anchor) PROVE FALSE
    BY Zenon
  <2>2. Tombstone(r) \in Known(r.anchor)
    BY <1>2, <1>3, <2>1, PlanShows, Zenon
  <2>3. Tombstone(r) = r
    BY <1>1, <2>2, TombstoneOf, Zenon DEF Known, OneOnDisk
  <2>. QED  BY <1>4, <2>3, TombstoneOf, Zenon
<1>5. ASSUME p # None, NEW a \in DOMAIN p.components, p.components[a].known # {}
      PROVE  \E r \in disk : r.anchor = a
  <2>1. Shows(p, a) # {}
    BY <1>5, Zenon DEF Shows
  <2>2. Known(a) # {}
    BY <1>2, <1>3, <2>1, PlanShows, Zenon
  <2>. QED  BY <1>1, <2>2, Zenon DEF Known
<1>6. /\ \A r \in disk' : ~(r.authorized /\ r.revoked)
      /\ \A r \in disk' : \A q \in Shows(r.receipt, r.anchor) : q.receipt # r.receipt
  BY <1>1, Zenon DEF RevocationInv
<1>7. ASSUME NEW r \in disk, ~r.authorized PROVE Promoted(r) \notin Shows(p, r.anchor)
  <2>1. SUFFICES ASSUME Promoted(r) \in Shows(p, r.anchor) PROVE FALSE
    BY Zenon
  <2>2. Promoted(r) \in Known(r.anchor)
    BY <1>2, <1>3, <2>1, PlanShows, Zenon
  <2>3. Promoted(r) = r
    BY <1>1, <2>2, PromotedOf, Zenon DEF Known, OneOnDisk
  <2>. QED  BY <1>7, <2>3, PromotedOf, Zenon
<1>. QED  BY <1>1, <1>3, <1>4, <1>5, <1>6, <1>7, Zenon DEF RevocationInv, Shows

\* A record gives way to one of the same anchor.
LEMMA ReplaceRevocation ==
    ASSUME RevocationInv, NEW old, NEW n, old = {r \in disk : r.anchor = n.anchor},
           disk' = (disk \ old) \cup {n}, plan' = plan,
           \A r \in disk \ old : Id(r) \in outdated' => Id(r) \in outdated,
           ~(n.authorized /\ n.revoked),
           \A q \in Shows(n.receipt, n.anchor) : q.receipt # n.receipt,
           ~n.revoked => Tombstone(n) \notin Shows(plan, n.anchor),
           ~n.revoked /\ ~n.authorized => Promoted(n) \notin Shows(plan, n.anchor),
           Id(n) \in outdated' => n \notin Shows(plan, n.anchor)
    PROVE  RevocationInv'
<1>1. \A r \in disk : \E q \in disk' : q.anchor = r.anchor
  BY Zenon
<1>2. \A r \in disk' : r = n \/ r \in disk \ old
  BY Zenon
<1>3. /\ \A r \in disk' : ~(r.authorized /\ r.revoked)
      /\ \A r \in disk' : \A q \in Shows(r.receipt, r.anchor) : q.receipt # r.receipt
  BY <1>2, Zenon DEF RevocationInv
<1>4. /\ \A r \in disk' : ~r.revoked => Tombstone(r) \notin Shows(plan, r.anchor)
      /\ \A r \in disk' : ~r.revoked /\ ~r.authorized => Promoted(r) \notin Shows(plan, r.anchor)
      /\ \A r \in disk' : Id(r) \in outdated' => r \notin Shows(plan, r.anchor)
  BY <1>2, Zenon DEF RevocationInv
<1>5. ASSUME plan # None, NEW a \in DOMAIN plan.components, plan.components[a].known # {}
      PROVE  \E r \in disk' : r.anchor = a
  <2>1. PICK r \in disk : r.anchor = a
    BY <1>5, Zenon DEF RevocationInv
  <2>2. PICK q \in disk' : q.anchor = r.anchor
    BY <1>1, Zenon
  <2>. QED  BY <2>1, <2>2, Zenon
<1>. QED  BY <1>3, <1>4, <1>5, Zenon DEF RevocationInv, Shows

\* What a revocation leaves behind was shown by no plan before.
LEMMA RevokeRevocation ==
    ASSUME IInv, RevocationInv, Revoke
    PROVE  RevocationInv'
<1>1. PICK r \in wallet :
        /\ ~r.revoked
        /\ \/ /\ disk' = Replaced(disk, {r}, {Tombstone(r)})
              /\ outdated' = IF plan = None THEN {} ELSE outdated \cup {Id(r)}
           \/ disk' = disk /\ outdated' = outdated
           \/ disk' = Replaced(disk, {r}, {Tombstone(r)}) /\ outdated' = outdated
  BY Zenon DEF Revoke, recordVars
<1>2. wallet = disk /\ OneOnDisk /\ plan' = plan
  BY Zenon DEF Revoke, IInv, MemoryIsDurable
<1>3. CASE disk' = disk /\ outdated' = outdated
  BY <1>2, <1>3, QuietRevocation, Zenon
<1>4. CASE /\ disk' = Replaced(disk, {r}, {Tombstone(r)})
           /\ outdated' \subseteq outdated \cup {Id(r)}
  <2>1. PICK n : n = Tombstone(r)
    BY Zenon
  <2>2. n.anchor = r.anchor /\ Id(n) = Id(r) /\ n.receipt = r.receipt /\ n.authorized = FALSE /\ n.revoked = TRUE
    BY <2>1, TombstoneOf, Zenon
  <2>3. {r} = {q \in disk : q.anchor = n.anchor}
    BY <1>2, <2>2, Zenon DEF OneOnDisk
  <2>4. \A q \in disk \ {r} : Id(q) \in outdated' => Id(q) \in outdated
    <3>1. ASSUME NEW q \in disk \ {r} PROVE Id(q) # Id(r)
      BY <1>2, Zenon DEF OneOnDisk, Id
    <3>. QED  BY <1>4, <3>1, Zenon
  <2>5. \A q \in Shows(n.receipt, n.anchor) : q.receipt # n.receipt
    BY <1>2, <2>2, Zenon DEF RevocationInv
  <2>6. n \notin Shows(plan, n.anchor)
    BY <1>1, <1>2, <2>1, <2>2, Zenon DEF RevocationInv
  <2>7. disk' = (disk \ {r}) \cup {n}
    BY <1>4, <2>1, Zenon DEF Replaced
  <2>. QED  BY <1>2, <2>2, <2>3, <2>4, <2>5, <2>6, <2>7, ReplaceRevocation, ZenonT(60)
<1>. QED  BY <1>1, <1>3, <1>4, Zenon

\* What a call stores was authorised by a plan that does not show it.
LEMMA PersistRevocation ==
    ASSUME IInv, RevocationInv, StoreInv, Persist
    PROVE  RevocationInv'
<1>1. PICK x \in call.todo : disk' = disk \/ disk' = Replaced(disk, x.known, {Record(x)})
  BY Zenon DEF Persist, StoreFirst, Store, recordVars
<1>2. /\ call.stage = "persist" /\ plan' = plan /\ outdated' = outdated
  BY Zenon DEF Persist, operatorVars
<1>3. Storing(call.todo) /\ wallet = disk /\ OneOnDisk
  BY <1>2, Zenon DEF IInv, MemoryIsDurable, Storing
<1>4. x.known = Known(x.anchor) /\ x.known = {r \in disk : r.anchor = x.anchor}
  BY <1>3, Zenon DEF Storing, Known
<1>5. CASE disk' = disk
  BY <1>2, <1>5, QuietRevocation, Zenon
<1>6. CASE disk' = Replaced(disk, x.known, {Record(x)})
  <2>1. PICK n : n = Record(x)
    BY Zenon
  <2>2. /\ n.anchor = x.anchor /\ n.revoked = FALSE
        /\ n.receipt = IF call.kind = "sign" THEN None ELSE call.plan
    BY <2>1, Zenon DEF Record
  <2>3. \A r \in x.known : Id(r) = Id(n)
    <3>1. \A r \in x.known : r.time = n.time /\ r.anchor = n.anchor
      BY <1>3, <1>4, <2>1, <2>2, RecordBytes, Zenon
    <3>. QED  BY <3>1, Zenon DEF Id
  <2>4. /\ Shows(call.plan, x.anchor) \subseteq x.known
        /\ x.known # {} => call.kind = "commit" /\ call.plan = plan /\ x.known \subseteq Shows(plan, x.anchor)
    BY <1>2, Zenon DEF StoreInv
  <2>5. Shows(None, x.anchor) = {}
    BY Zenon DEF Shows
  <2>6. ASSUME NEW q \in x.known PROVE q.receipt # call.plan
    <3>1. q \in disk /\ q.anchor = x.anchor
      BY <1>4, Zenon
    <3>2. q \in Shows(call.plan, q.anchor)
      BY <2>4, <3>1, Zenon
    <3>. QED  BY <3>1, <3>2, Zenon DEF RevocationInv
  <2>7. \A q \in Shows(n.receipt, n.anchor) : q.receipt # n.receipt
    <3>1. CASE call.kind = "sign"
      BY <2>2, <2>5, <3>1, Zenon
    <3>2. CASE call.kind # "sign"
      BY <2>2, <2>4, <2>6, <3>2, Zenon
    <3>. QED  BY <3>1, <3>2, Zenon
  <2>8. Shows(plan, x.anchor) \subseteq x.known
    <3>1. CASE x.known # {}
      BY <2>4, <3>1, Zenon
    <3>2. CASE x.known = {}
      BY <1>4, <3>2, Zenon DEF RevocationInv, Shows
    <3>. QED  BY <3>1, <3>2, Zenon
  <2>9. Tombstone(n) \notin Shows(plan, n.anchor)
    <3>1. SUFFICES ASSUME Tombstone(n) \in Shows(plan, n.anchor) PROVE FALSE
      BY Zenon
    <3>2. Tombstone(n) \in x.known
      BY <2>2, <2>8, <3>1, Zenon
    <3>3. call.kind # "sign" /\ Tombstone(n).receipt = n.receipt
      BY <2>4, <3>2, TombstoneOf, Zenon
    <3>. QED  BY <2>2, <2>6, <3>2, <3>3, Zenon
  <2>10. Id(n) \in outdated' => n \notin Shows(plan, n.anchor)
    <3>1. SUFFICES ASSUME Id(n) \in outdated, n \in Shows(plan, n.anchor) PROVE FALSE
      BY <1>2, Zenon
    <3>2. n \in x.known /\ n \in disk
      BY <1>4, <2>2, <2>8, <3>1, Zenon
    <3>. QED  BY <3>1, <3>2, Zenon DEF RevocationInv
  <2>11. ~n.authorized => Promoted(n) \notin Shows(plan, n.anchor)
    <3>1. SUFFICES ASSUME ~n.authorized PROVE Shows(plan, x.anchor) = {}
      BY <2>2, Zenon
    <3>2. call.kind = "sign"
      BY <2>1, <3>1, Zenon DEF Record
    <3>. QED  BY <2>4, <2>8, <3>2, Zenon
  <2>12. disk' = (disk \ x.known) \cup {n} /\ x.known = {r \in disk : r.anchor = n.anchor}
    BY <1>4, <1>6, <2>1, <2>2, Zenon DEF Replaced
  <2>. QED  BY <1>2, <2>2, <2>7, <2>9, <2>10, <2>11, <2>12, ReplaceRevocation, SMTT(60)
<1>. QED  BY <1>1, <1>5, <1>6, Zenon

\* A draft that gets authority was not shown with it by any plan.
LEMMA SubmittedRevocation ==
    ASSUME IInv, RevocationInv, TransactionSubmittedByRpc
    PROVE  RevocationInv'
<1>1. plan' = plan /\ outdated' = outdated
  BY SubmittedCall, Zenon
<1>2. CASE disk' = disk
  BY <1>1, <1>2, QuietRevocation, Zenon
<1>3. CASE disk' # disk
  <2>1. PICK r \in disk : Promotes(r)
    BY <1>3, SubmittedStep, Zenon
  <2>2. ~r.authorized /\ ~r.revoked
    BY <2>1, Zenon DEF Promotes
  <2>3. PICK n : n = Promoted(r) /\ disk' = (disk \ {r}) \cup {n}
    BY <1>3, <2>1, Zenon DEF Promotes, Replaced
  <2>4. n.anchor = r.anchor /\ Id(n) = Id(r) /\ n.receipt = r.receipt /\ n.authorized = TRUE /\ n.revoked = FALSE
    BY <2>3, PromotedOf, Zenon
  <2>5. {r} = {q \in disk : q.anchor = n.anchor}
    BY <2>4, Zenon DEF IInv, OneOnDisk
  <2>6. \A q \in Shows(n.receipt, n.anchor) : q.receipt # n.receipt
    BY <2>4, Zenon DEF RevocationInv
  <2>7. Tombstone(n) = Tombstone(r)
    BY <2>3, Zenon DEF Tombstone, Promoted
  <2>8. Tombstone(n) \notin Shows(plan, n.anchor) /\ n \notin Shows(plan, n.anchor)
    BY <2>2, <2>3, <2>4, <2>7, Zenon DEF RevocationInv
  <2>9. /\ ~(n.authorized /\ n.revoked) /\ ~(~n.revoked /\ ~n.authorized)
        /\ \A q \in disk \ {r} : Id(q) \in outdated' => Id(q) \in outdated
    BY <1>1, <2>4, Zenon
  <2>10. PICK old : old = {r}
    BY Zenon
  <2>11. disk' = (disk \ old) \cup {n} /\ old = {q \in disk : q.anchor = n.anchor}
    BY <2>3, <2>5, <2>10, Zenon
  <2>. QED  BY <1>1, <2>6, <2>8, <2>9, <2>10, <2>11, ReplaceRevocation, SMTT(60)
<1>. QED  BY <1>2, <1>3, Zenon

\* Nothing else touches the records or the plan.
LEMMA NextRevocation ==
    ASSUME IInv, RevocationInv, StoreInv, Next
    PROVE  RevocationInv'
<1>1. CASE UNCHANGED <<disk, plan, outdated>>
  BY <1>1, QuietRevocation, Zenon
<1>2. CASE Preview
  BY <1>2, PreviewRevocation, Zenon
<1>3. CASE Revoke
  BY <1>3, RevokeRevocation, Zenon
<1>4. CASE Persist
  BY <1>4, PersistRevocation, Zenon
<1>5. CASE TransactionSubmittedByRpc
  BY <1>5, SubmittedRevocation, Zenon
<1>. QED
  BY <1>1, <1>2, <1>3, <1>4, <1>5, ZenonT(60)
     DEF Next, Calls, Environment, SendRawTransaction, Execute, Tick, Ask, ConnectTip, ProcessTip, ClaimChanges,
     MempoolTurns, LeavesMempool, UnlockWallet, SetPowMining, LockCoin, UnlockCoin, SetPolicy, Begin, Review,
     Reserve, Broadcast, Restart, recordVars, operatorVars

\* A call waits with the plan it was asked for.
LEMMA NextQueue ==
    ASSUME Asked, QueueInv, Next
    PROVE  QueueInv'
<1>1. CASE UNCHANGED <<waiting, plan>>
  BY <1>1, Zenon DEF QueueInv
<1>2. CASE Outdate /\ plan' = plan
  <2>1. ASSUME NEW c \in Callers
        PROVE  waiting'[c] # None => waiting[c] # None /\ waiting'[c].kind = waiting[c].kind
    BY <1>2, Zenon DEF Outdate, Asked
  <2>2. "scheduler" \in Callers /\ "operator" \in Callers
    BY Zenon DEF Callers
  <2>. QED  BY <1>2, <2>1, <2>2, Zenon DEF QueueInv
<1>3. CASE Preview
  BY <1>3, Zenon DEF Preview, QueueInv
<1>4. CASE Execute
  BY <1>4, Zenon DEF Execute, QueueInv, operatorVars, Asked, Callers
<1>5. CASE Ask
  <2>1. waiting' = waiting \/ \E kind \in {"retry", "auto"} : \E S : waiting' = [waiting EXCEPT !["scheduler"] = Snapshot(kind, S)]
    BY <1>5, Zenon DEF Ask
  <2>2. plan' = plan /\ waiting'["operator"] = waiting["operator"]
    BY <1>5, <2>1, Zenon DEF Ask, operatorVars, Asked, Callers
  <2>3. CASE waiting' = waiting
    BY <1>1, <2>2, <2>3, Zenon
  <2>4. ASSUME NEW kind \in {"retry", "auto"}, NEW S, waiting' = [waiting EXCEPT !["scheduler"] = Snapshot(kind, S)]
        PROVE  waiting'["scheduler"].kind \notin {"sign", "commit"}
    BY <2>4, Zenon DEF Asked, Callers, Snapshot
  <2>. QED  BY <2>1, <2>2, <2>3, <2>4, Zenon DEF QueueInv
<1>6. CASE \E c \in Callers : Begin(c)
  BY <1>6, Zenon DEF Begin, QueueInv, operatorVars, Asked, Callers
<1>7. CASE Restart
  BY <1>7, Zenon DEF Restart, QueueInv, Callers
<1>8. CASE TransactionSubmittedByRpc
  BY <1>1, <1>2, <1>8, SubmittedCall, Zenon
<1>. QED
  BY <1>1, <1>2, <1>3, <1>4, <1>5, <1>6, <1>7, <1>8, ZenonT(60) DEF Next, Calls, Environment, Tick, ConnectTip, ProcessTip,
     SendRawTransaction, ClaimChanges, MempoolTurns, LeavesMempool, UnlockWallet, SetPowMining, LockCoin, UnlockCoin, SetPolicy, Revoke,
     Persist, StoreFirst, Store, Review, Reserve, Broadcast, Written, Failed, Counted, operatorVars

\* A call begins to store with the plan that it made of the wallet.
LEMMA BeginStore ==
    ASSUME IInv, Asked, QueueInv, NEW c \in Callers, Begin(c)
    PROVE  StoreInv'
<1>. DEFINE w == waiting[c]
            X == Actions(w.kind, w.sel)
            k == Prepared(c, w, X)
<1>1. BeginWith(c, w, X) /\ call.stage = "idle" /\ w # None /\ plan' = plan
  BY Zenon DEF Begin, NoCall, operatorVars
<1>2. w.kind \in Kinds
  BY <1>1, Zenon DEF Asked
<1>3. CASE Refuses(w, X)
  BY <1>1, <1>3, Zenon DEF BeginWith, StoreInv
<1>4. CASE ~Refuses(w, X)
  <2>1. ~ambiguous /\ wallet = disk /\ OneOnDisk
    BY <1>4, Zenon DEF Refuses, IInv, MemoryIsDurable
  <2>2. GoesOn(k)
    BY <1>1, <1>4, ZenonT(60) DEF BeginWith
  <2>3. DOMAIN k = DOMAIN Idle /\ k.todo = ToStore(w.kind, X) /\ k.kind = w.kind /\ k.plan = PlanId(w.kind, w.sel)
    BY DEF Prepared, Idle
  <2>4. ASSUME NEW x \in ToStore(w.kind, X)
        PROVE  /\ Shows(k.plan, x.anchor) \subseteq x.known
               /\ x.known # {} => w.kind = "commit" /\ k.plan = plan /\ x.known \subseteq Shows(plan, x.anchor)
    <3>1. x \in X
      BY Zenon DEF ToStore
    <3>2. x.known = Known(x.anchor)
      BY <2>1, <3>1, ActionsFit, ZenonT(60)
    <3>3. Shows(k.plan, x.anchor) \subseteq x.known
      BY <2>3, <3>2, PlanShows
    <3>4. ASSUME x.known # {} PROVE w.kind = "commit" /\ k.plan = plan /\ x.known \subseteq Shows(plan, x.anchor)
      <4>1. PICK r \in x.known : ~r.authorized
        BY <3>4, Zenon DEF ToStore
      <4>2. \A q \in x.known : q = r
        BY <2>1, <3>2, Zenon DEF Known, OneOnDisk
      <4>3. w.kind # "sign"
        BY <3>4, Zenon DEF ToStore
      <4>4. w.kind # "retry"
        BY <1>4, <3>1, <4>1, <4>2, Zenon DEF Refuses, Consented
      <4>5. x.anchor \in w.sel /\ (w.kind = "auto" => x.known \subseteq Reusable("auto", x.anchor))
        <5>1. CASE \E a \in Candidates(w.kind, w.sel) : x = [anchor |-> a, known |-> {}]
          BY <5>1, SMTT(60) DEF Candidates
        <5>2. CASE \E a \in w.sel : x = [anchor |-> a, known |-> Reusable(w.kind, a)]
          BY <5>2
        <5>. QED  BY <3>1, <5>1, <5>2, Zenon DEF Actions
      <4>6. w.kind # "auto"
        BY <4>1, <4>5, Zenon DEF Reusable
      <4>7. w.kind = "commit"
        BY <1>2, <4>3, <4>4, <4>6, Zenon DEF Kinds
      <4>8. plan = PlanId(w.kind, w.sel)
        BY <1>4, <4>7, Zenon DEF Refuses
      <4>9. plan # None
        BY <1>1, <4>7, Zenon DEF QueueInv, Callers
      <4>10. Shows(plan, x.anchor) = Known(x.anchor)
        BY <4>5, <4>8, <4>9, PlanShows
      <4>. QED  BY <2>3, <3>2, <4>7, <4>8, <4>10, Zenon
    <3>. QED  BY <3>3, <3>4, Zenon
  <2>. HIDE DEF k, w
  <2>5. call'.stage # "persist" \/ call' = k
    BY <2>2, <2>3, GoesOnShape, Zenon
  <2>. QED  BY <1>1, <2>3, <2>4, <2>5, Zenon DEF StoreInv, Shows
<1>. QED  BY <1>3, <1>4, Zenon

\* A call that stores keeps its plan and its kind.
LEMMA PersistStore ==
    ASSUME IInv, StoreInv, Persist
    PROVE  StoreInv'
<1>1. PICK x \in call.todo : StoreFirst(x)
  BY Zenon DEF Persist
<1>2. CallShape /\ plan' = plan /\ call.stage = "persist"
  BY Zenon DEF IInv, Persist, operatorVars
<1>. DEFINE k == [call EXCEPT !.todo = @ \ {x}]
<1>3. call' = Idle \/ GoesOn(k)
  BY <1>1, Zenon DEF StoreFirst, Store, Ends
<1>4. DOMAIN k = DOMAIN Idle /\ k.todo \subseteq call.todo /\ k.kind = call.kind /\ k.plan = call.plan
  BY <1>2, Zenon DEF CallShape, Idle
<1>. HIDE DEF k
<1>5. call'.stage # "persist" \/ call' = k
  BY <1>3, <1>4, GoesOnShape, IdleStage, Zenon
<1>6. CASE call'.stage # "persist"
  BY <1>6, Zenon DEF StoreInv
<1>7. CASE call' = k
  <2>1. ASSUME NEW y \in k.todo
        PROVE  /\ Shows(k.plan, y.anchor) \subseteq y.known
               /\ y.known # {} => k.kind = "commit" /\ k.plan = plan /\ y.known \subseteq Shows(plan, y.anchor)
    BY <1>2, <1>4, Zenon DEF StoreInv
  <2>. QED  BY <1>2, <1>7, <2>1, Zenon DEF StoreInv, Shows
<1>. QED  BY <1>5, <1>6, <1>7, Zenon

\* Nothing else stores, and nobody makes a plan while a call does.
LEMMA NextStore ==
    ASSUME IInv, Asked, QueueInv, StoreInv, Next
    PROVE  StoreInv'
<1>. USE IdleStage
<1>1. CASE call'.stage # "persist"
  BY <1>1, Zenon DEF StoreInv
<1>2. CASE call.stage # "persist" /\ (call' = call \/ call' = [call EXCEPT !.current = FALSE] \/ call' = Idle)
  BY <1>1, <1>2, CurrentFalse, ZenonT(60) DEF IInv
<1>3. CASE Environment
  BY <1>2, <1>3, SubmittedCall, Zenon DEF Environment, SendRawTransaction, ConnectTip, ProcessTip, ClaimChanges, MempoolTurns, WalletIsFree, NoCall,
     LeavesMempool, UnlockWallet, SetPowMining, LockCoin, UnlockCoin, SetPolicy, Revoke, Written
<1>4. CASE Preview \/ Execute \/ Tick \/ Ask
  BY <1>2, <1>4, Zenon DEF Preview, Execute, Tick, Ask, WalletIsFree
<1>5. CASE \E c \in Callers : Begin(c)
  BY <1>5, BeginStore, Zenon
<1>6. CASE Persist
  BY <1>6, PersistStore, Zenon
<1>7. CASE Review
  BY <1>1, <1>7, Zenon DEF Review, ReviewFirst, Ends, IInv, CallShape, Idle
<1>8. CASE Reserve
  BY <1>1, <1>8, Zenon DEF Reserve, Ends, IInv, CallShape, Idle
<1>9. CASE Broadcast \/ Restart
  BY <1>1, <1>9, Zenon DEF Broadcast, Restart, Ends
<1>. QED  BY <1>3, <1>4, <1>5, <1>6, <1>7, <1>8, <1>9, ZenonT(60) DEF Next, Calls

\* RevocationOutlivesPlans: a plan made before a resolution was revoked gives it no authority, in
\* whatever process it is used and however often the plan was used before: a tombstone keeps the
\* receipt of the plan that authorised it, and no plan shows its own receipt.
THEOREM PlansDoNotRevive == Spec => RevocationOutlivesPlans
<1>. DEFINE A == \A r \in disk, q \in disk' : Id(r) = Id(q) /\ r.revoked /\ q.authorized => Id(r) \notin outdated
            J == IInv /\ Asked /\ RevocationInv /\ QueueInv /\ StoreInv
<1>1. Init => J
  <2>. SUFFICES ASSUME Init PROVE J
    BY Zenon
  <2>1. disk = {} /\ plan = None /\ waiting = [c \in Callers |-> None] /\ call = Idle
    BY Zenon DEF Init
  <2>2. IInv /\ Asked
    BY <2>1, InitIInv, Zenon DEF Asked
  <2>3. RevocationInv
    BY <2>1, Zenon DEF RevocationInv
  <2>4. QueueInv /\ StoreInv
    BY <2>1, IdleStage, Zenon DEF QueueInv, StoreInv, Callers
  <2>. QED  BY <2>2, <2>3, <2>4, Zenon
<1>2. J /\ [Next]_vars => J'
  <2>1. CASE Next
    BY <2>1, NextIInv, NextAsked, NextRevocation, NextQueue, NextStore, Zenon
  <2>2. CASE UNCHANGED vars
    <3>1. UNCHANGED <<waiting, plan, outdated, disk, call>>
      BY <2>2, Zenon DEF vars, recordVars, operatorVars
    <3>. QED  BY <2>2, <3>1, NextIInv, QuietRevocation, Zenon DEF Asked, QueueInv, StoreInv, Shows
  <2>. QED  BY <2>1, <2>2, Zenon
<1>3. J /\ [Next]_vars => [A]_vars
  <2>. SUFFICES ASSUME J, Next, NEW r \in disk, NEW q \in disk', Id(r) = Id(q), r.revoked, q.authorized
                PROVE  Id(r) \notin outdated
    BY Zenon
  <2>1. q \notin disk
    <3>1. SUFFICES ASSUME q \in disk PROVE FALSE
      BY Zenon
    <3>2. q = r
      BY <3>1, Zenon DEF IInv, OneOnDisk, Id
    <3>. QED  BY <3>2, Zenon DEF RevocationInv
  <2>2. CASE Revoke
    <3>1. PICK t \in wallet : disk' \in {disk, Replaced(disk, {t}, {Tombstone(t)})}
      BY <2>2, Zenon DEF Revoke, recordVars
    <3>2. q = Tombstone(t)
      BY <2>1, <3>1, Zenon DEF Replaced
    <3>. QED  BY <3>2, TombstoneOf, Zenon
  <2>3. CASE Persist
    <3>1. PICK x \in call.todo : disk' \in {disk, Replaced(disk, x.known, {Record(x)})}
      BY <2>3, Zenon DEF Persist, StoreFirst, Store, recordVars
    <3>2. q = Record(x)
      BY <2>1, <3>1, Zenon DEF Replaced
    <3>3. r.anchor = x.anchor
      BY <3>2, Zenon DEF Id, Record
    <3>4. r \in x.known
      BY <2>3, <3>3, Zenon DEF Persist, IInv, Storing, MemoryIsDurable, Known
    <3>5. r \in Shows(plan, r.anchor)
      BY <2>3, <3>3, <3>4, Zenon DEF Persist, StoreInv
    <3>. QED  BY <3>5, Zenon DEF RevocationInv
  <2>4. CASE disk' = disk
    BY <2>1, <2>4, Zenon
  <2>5. CASE TransactionSubmittedByRpc
    <3>1. SUFFICES ASSUME disk' # disk PROVE FALSE
      BY <2>4, Zenon
    <3>2. PICK t \in disk : Promotes(t)
      BY <2>5, <3>1, SubmittedStep, Zenon
    <3>3. q = Promoted(t)
      BY <2>1, <3>1, <3>2, Zenon DEF Promotes, Replaced
    <3>4. Id(r) = Id(t)
      BY <3>3, PromotedOf, Zenon
    <3>5. r = t
      BY <3>4, Zenon DEF IInv, OneOnDisk, Id
    <3>. QED  BY <3>2, <3>5, Zenon DEF Promotes
  <2>. QED
    BY <2>2, <2>3, <2>4, <2>5, ZenonT(60) DEF Next, Calls, Environment, SendRawTransaction, Preview, Execute, Tick, Ask, ConnectTip, ProcessTip,
       ClaimChanges, MempoolTurns, LeavesMempool, UnlockWallet, SetPowMining, LockCoin, UnlockCoin, SetPolicy, Begin,
       Review, Reserve, Broadcast, Restart, recordVars
<1>. QED  BY <1>1, <1>2, <1>3, PTL DEF Spec, RevocationOutlivesPlans
=============================================================================
