---------------------------- MODULE ClaimResolution ----------------------------
(***************************************************************************)
(* The recovery of stranded Gold Rush claims by one wallet.  A resolution  *)
(* is a transaction that returns the anchor of a family of claims to the   *)
(* wallet.  It is signed and stored first, with or without the authority   *)
(* to relay it, and handed to the node later, by the call that stored it   *)
(* or by a retry of the scheduler.  Calls of ResolveShadowPowClaims follow *)
(* each other under the recovery authority mutex, but plan on a snapshot   *)
(* taken before, let go of the wallet between storing and relaying, and    *)
(* may be cut short by a failed commit or by the end of the process.  The  *)
(* operator may also submit a stored resolution by sendrawtransaction,     *)
(* which gives a draft authority without a plan and without the mutex.     *)
(***************************************************************************)
EXTENDS Integers, FiniteSets

CONSTANTS
    Anchors,            \* confirmed outputs, in the order of the inventory
    Tips,               \* tips of the chain, each named by its median time past
    Policies,           \* automatic actions allowed in the window; 0 is no authority
    Window,             \* the rolling window
    Standings,          \* how the claims of an anchor may stand
    Barrable,           \* anchors that the mempool may refuse to see spent
    Lockable,           \* anchors that the user may lock
    Selections,         \* sets of anchors that the operator asks plans for
    Unlocks, Minings,   \* whether the wallet may be (un)locked and the miner be (dis)abled
    MaxWrites,          \* writes of the database in the life of a process
    MaxRestarts,
    None

VARIABLES
    tip, processed,     \* the active tip, and the tip the wallet has processed
    standing,           \* of the claims of each anchor
    barred, mempool,    \* anchors that the mempool refuses to see spent, resolutions that it holds
    wallet, policy,     \* resolutions and policy in memory
    disk, diskPolicy,   \* and in the database
    ambiguous,          \* m_shadow_pow_claim_recovery_db_ambiguous
    generation,         \* nUpdateCounter
    unlocked, locked,   \* the normal unlock of the wallet, and the anchors the user has locked
    mining,             \* m_pow_mining_enabled
    plan,               \* the preview that the operator holds
    outdated,           \* the resolutions revoked since that preview
    round, chosen,      \* the scheduler: which of its two calls it makes, for which anchors
    waiting,            \* calls that have their snapshot and wait for the mutex
    call,               \* the call that has the mutex
    submitted,          \* accepted by sendrawtransaction, of which the wallet is not told yet
    published,          \* resolutions ever handed to the node, by the wallet or by the operator
    restarts

chainVars == <<tip, processed, standing, barred, mempool>>
recordVars == <<wallet, disk>>
policyVars == <<policy, diskPolicy>>
userVars == <<unlocked, locked, mining>>
operatorVars == <<plan, outdated>>
schedulerVars == <<round, chosen>>
vars == <<chainVars, recordVars, policyVars, ambiguous, generation, userVars, operatorVars, schedulerVars,
          waiting, call, submitted, published, restarts>>

Callers == {"scheduler", "operator"}

ASSUME BoundsAssumption ==
    /\ IsFiniteSet(Anchors)
    /\ Anchors \subseteq Nat /\ Tips \subseteq Nat /\ Policies \subseteq Nat
    /\ Window \in Nat /\ MaxWrites \in Nat /\ MaxRestarts \in Nat
    /\ Standings \subseteq {"unsafe", "safe", "aged"}
    /\ Barrable \subseteq Anchors /\ Lockable \subseteq Anchors /\ Selections \subseteq SUBSET Anchors

-----------------------------------------------------------------------------
(* Plans.  A resolution is [anchor, time, origin, authorized, revoked, receipt]; the anchor *)
(* and the time of the tip it was built on make its bytes. *)

Id(r) == <<r.anchor, r.time>>

Known(a) == {r \in wallet : r.anchor = a}

\* Mutant: a resolution that was revoked gives its place in the window back.
Used_Live == Cardinality({r \in wallet : r.origin = "automatic" /\ r.time >= tip - Window /\ ~r.revoked})

\* The automatic resolutions of the window, whatever became of them.
Used == Cardinality({r \in wallet : r.origin = "automatic" /\ r.time >= tip - Window})

\* The claims are quarantined and terminal on this tip, and at most one resolution is known.
Recoverable(a) == a \notin locked /\ standing[a] # "unsafe" /\ Cardinality(Known(a)) <= 1

\* An automatic call reuses only its own resolutions, and signs for claims that are old enough.
Reusable(kind, a) ==
    {r \in Known(a) : kind = "auto" => r.origin = "automatic" /\ r.authorized /\ ~r.revoked}

Candidates(kind, S) ==
    {a \in S : Recoverable(a) /\ Known(a) = {} /\ (kind = "auto" => unlocked /\ standing[a] = "aged")}

WithinBudget(kind, a, candidates) ==
    kind = "auto" => Used + Cardinality({b \in candidates : b < a}) < policy

Actions(kind, S) ==
    IF kind = "auto" /\ (policy = 0 \/ ~mining) THEN {}
    ELSE {[anchor |-> a, known |-> {}] :
              a \in {c \in Candidates(kind, S) : WithinBudget(kind, c, Candidates(kind, S))}}
         \cup {[anchor |-> a, known |-> Reusable(kind, a)] : a \in {c \in S : Recoverable(c) /\ Reusable(kind, c) # {}}}

\* Mutant: the fingerprint leaves out which plan authorised a resolution.
Component_NoReceipt(a) ==
    [standing |-> standing[a], locked |-> a \in locked,
     known |-> {[r EXCEPT !.receipt = None] : r \in Known(a)}, pooled |-> \E r \in Known(a) : Id(r) \in mempool]

\* What the fingerprint of a component covers.
Component(a) ==
    [standing |-> standing[a], locked |-> a \in locked,
     known |-> Known(a), pooled |-> \E r \in Known(a) : Id(r) \in mempool]

\* A plan is named by a hash of what it was made from.
PlanId(kind, S) ==
    [automatic |-> kind = "auto", tip |-> tip, generation |-> generation, components |-> [a \in S |-> Component(a)]]

-----------------------------------------------------------------------------
(* The locks.  A call holds the recovery authority mutex from its planning to its end, and *)
(* cs_main and cs_wallet too until its resolutions are stored. *)

Idle ==
    [stage |-> "idle", caller |-> None, kind |-> None, tip |-> None, plan |-> None, policy |-> None,
     current |-> FALSE, todo |-> {}, relay |-> {}, unlock |-> {}, tx |-> None]

NoCall == call.stage = "idle"

WalletIsFree == call.stage # "persist"

\* The next in the order of the inventory.
IsFirst(x, S) == \A y \in S : x.anchor <= y.anchor

\* A counter that the inventory is bound to moves on.
Outdate ==
    waiting' = [c \in Callers |-> IF waiting[c] = None THEN None ELSE [waiting[c] EXCEPT !.fresh = FALSE]]

\* The write is counted, which outdates every inventory.
Counted == generation < MaxWrites /\ generation' = generation + 1 /\ Outdate

\* A transaction that fails may or may not have come to count a write.
Failed == Counted \/ UNCHANGED <<generation, waiting>>

\* Someone else writes to the database.
Written ==
    /\ Counted
    /\ call' = [call EXCEPT !.current = FALSE]

Replaced(S, old, new) == (S \ old) \cup new

-----------------------------------------------------------------------------
(* The node and the user. *)

Init ==
    /\ tip \in Tips /\ processed = tip
    /\ standing \in [Anchors -> Standings] /\ barred = {} /\ mempool = {}
    /\ wallet = {} /\ disk = {} /\ policy \in Policies /\ diskPolicy = policy
    /\ ambiguous = FALSE /\ generation = 0
    /\ unlocked \in Unlocks /\ locked = {} /\ mining \in Minings
    /\ plan = None /\ outdated = {}
    /\ round = "idle" /\ chosen = {}
    /\ waiting = [c \in Callers |-> None] /\ call = Idle
    /\ submitted = {} /\ published = {} /\ restarts = 0

ConnectTip ==
    /\ WalletIsFree
    /\ tip' \in Tips \ {tip}
    /\ standing' \in [Anchors -> Standings]
    /\ UNCHANGED <<processed, barred, mempool, recordVars, policyVars, ambiguous, generation, userVars,
                   operatorVars, schedulerVars, waiting, call, submitted, published, restarts>>

\* The wallet processes the block, and may have something to write.
ProcessTip ==
    /\ WalletIsFree /\ processed # tip
    /\ processed' = tip
    /\ Written \/ UNCHANGED <<generation, waiting, call>>
    /\ UNCHANGED <<tip, standing, barred, mempool, recordVars, policyVars, ambiguous, userVars, operatorVars,
                   schedulerVars, submitted, published, restarts>>

\* A claim enters or leaves the mempool, is quarantined or adopted.  When its record cannot be
\* written the wallet fails closed.
ClaimChanges ==
    /\ WalletIsFree
    /\ \E a \in Anchors, s \in Standings : standing[a] # s /\ standing' = [standing EXCEPT ![a] = s]
    /\ \/ Outdate /\ UNCHANGED <<generation, call>>
       \/ Written
    /\ ambiguous' \in {ambiguous, TRUE}
    /\ UNCHANGED <<tip, processed, barred, mempool, recordVars, policyVars, userVars, operatorVars,
                   schedulerVars, submitted, published, restarts>>

\* The mempool of the node changes in ways that the wallet does not see...
MempoolTurns ==
    /\ WalletIsFree
    /\ \E a \in Barrable : barred' = Replaced(barred, {a}, {a} \ barred)
    /\ UNCHANGED <<tip, processed, standing, mempool, recordVars, policyVars, ambiguous, generation, userVars,
                   operatorVars, schedulerVars, waiting, call, submitted, published, restarts>>

\* ...and in ways that it does.
LeavesMempool ==
    /\ WalletIsFree
    /\ \E x \in mempool : mempool' = mempool \ {x}
    /\ Outdate
    /\ UNCHANGED <<tip, processed, standing, barred, recordVars, policyVars, ambiguous, generation, userVars,
                   operatorVars, schedulerVars, call, submitted, published, restarts>>

UnlockWallet ==
    /\ WalletIsFree
    /\ unlocked' \in Unlocks \ {unlocked}
    /\ UNCHANGED <<chainVars, recordVars, policyVars, ambiguous, generation, locked, mining, operatorVars,
                   schedulerVars, waiting, call, submitted, published, restarts>>

\* SetPowMining and StopPowMining take the recovery authority mutex.
SetPowMining ==
    /\ NoCall
    /\ mining' \in Minings \ {mining}
    /\ UNCHANGED <<chainVars, recordVars, policyVars, ambiguous, generation, unlocked, locked, operatorVars,
                   schedulerVars, waiting, call, submitted, published, restarts>>

\* A lock may be kept in memory only; when its commit fails the coin is locked all the same.
LockCoin ==
    /\ WalletIsFree /\ ~ambiguous
    /\ \E a \in Lockable \ locked : locked' = locked \cup {a}
    /\ \/ Outdate /\ UNCHANGED <<generation, call, ambiguous>>
       \/ Written /\ ambiguous' \in BOOLEAN
    /\ UNCHANGED <<chainVars, recordVars, policyVars, unlocked, mining, operatorVars, schedulerVars, submitted, published, restarts>>

\* When the commit of an unlock fails the coin stays locked.
UnlockCoin ==
    /\ WalletIsFree /\ ~ambiguous
    /\ ambiguous' \in BOOLEAN
    /\ \E a \in locked : locked' = IF ambiguous' THEN locked ELSE locked \ {a}
    /\ Written
    /\ UNCHANGED <<chainVars, recordVars, policyVars, unlocked, mining, operatorVars, schedulerVars, submitted, published, restarts>>

-----------------------------------------------------------------------------
(* Changes of authority.  Memory follows the database only when the commit succeeded. *)

\* SetShadowPowClaimRecoveryPolicyDetailed, which does not take the authority mutex.
SetPolicy ==
    /\ WalletIsFree /\ ~ambiguous
    /\ \E p \in Policies \ {policy} :
         \/ policy' = p /\ diskPolicy' = p /\ UNCHANGED ambiguous /\ Written
         \/ UNCHANGED <<policy, diskPolicy, ambiguous>> /\ Written
         \/ /\ UNCHANGED policy /\ diskPolicy' \in {diskPolicy, p} /\ ambiguous' = TRUE
            /\ \/ Written
               \/ UNCHANGED <<generation, waiting, call>>
    /\ UNCHANGED <<chainVars, recordVars, userVars, operatorVars, schedulerVars, submitted, published, restarts>>

Tombstone(r) ==
    [anchor |-> r.anchor, time |-> r.time, origin |-> r.origin, authorized |-> FALSE, revoked |-> TRUE, receipt |-> r.receipt]

\* RevokeManagedShadowPowResolutionRelayAuthority.
Revoke ==
    /\ NoCall /\ ~ambiguous
    /\ \E r \in wallet :
         /\ ~r.revoked
         /\ LET old == {r}
                new == {Tombstone(r)}
            IN  \/ /\ wallet' = Replaced(wallet, old, new) /\ disk' = Replaced(disk, old, new)
                   /\ outdated' = IF plan = None THEN {} ELSE outdated \cup {Id(r)}
                   /\ Written /\ UNCHANGED ambiguous
                \/ UNCHANGED <<recordVars, ambiguous, outdated, call>> /\ Failed
                \/ /\ disk' \in {disk, Replaced(disk, old, new)} /\ ambiguous' = TRUE
                   /\ UNCHANGED <<wallet, outdated, call>> /\ Failed
    /\ UNCHANGED <<chainVars, policyVars, userVars, plan, schedulerVars, submitted, published, restarts>>

\* BroadcastTransaction for the RPC, with bytes that the wallet has shown: the mempool has the
\* transaction or accepts it, or the RPC fails and nothing changes.
SendRawTransaction ==
    /\ WalletIsFree
    /\ \E r \in wallet :
         /\ \/ Id(r) \in mempool /\ UNCHANGED <<mempool, waiting>>
            \/ /\ Id(r) \notin mempool /\ standing[r.anchor] # "unsafe" /\ r.anchor \notin barred
               /\ mempool' = mempool \cup {Id(r)} /\ Outdate
         /\ submitted' = submitted \cup {Id(r)} /\ published' = published \cup {Id(r)}
    /\ UNCHANGED <<tip, processed, standing, barred, recordVars, policyVars, ambiguous, generation, userVars,
                   operatorVars, schedulerVars, call, restarts>>

\* Mutant: only authority that stands keeps a resolution from being promoted.
Drafts_Revoked(x) == {r \in wallet : Id(r) = x /\ ~r.authorized}

\* A resolution that was never authorised, and not revoked since its bytes were accepted.
Drafts(x) == {r \in wallet : Id(r) = x /\ ~r.authorized /\ ~r.revoked}

\* Authority without a plan leaves no receipt.
Promoted(r) ==
    [anchor |-> r.anchor, time |-> r.time, origin |-> r.origin, authorized |-> TRUE, revoked |-> FALSE, receipt |-> r.receipt]

\* SetManagedShadowPowResolutionRelayAuthority without an explicit reauthorisation.
Promote(old, new) ==
    \/ /\ wallet' = Replaced(wallet, old, new) /\ disk' = Replaced(disk, old, new)
       /\ Written /\ UNCHANGED ambiguous
    \/ /\ UNCHANGED <<recordVars, ambiguous>>
       /\ Written \/ UNCHANGED <<generation, waiting, call>>
    \/ /\ disk' \in {disk, Replaced(disk, old, new)} /\ ambiguous' = TRUE /\ UNCHANGED wallet
       /\ Written \/ UNCHANGED <<generation, waiting, call>>

PromoteDrafts(old) ==
    IF old = {} \/ ambiguous THEN UNCHANGED <<recordVars, ambiguous, generation, waiting, call>>
    ELSE Promote(old, {Promoted(r) : r \in old})

\* The wallet is told of what the RPC has submitted.  The authority mutex is not taken.
TransactionSubmittedByRpc ==
    /\ WalletIsFree
    /\ \E x \in submitted : submitted' = submitted \ {x} /\ PromoteDrafts(Drafts(x))
    /\ UNCHANGED <<chainVars, policyVars, userVars, operatorVars, schedulerVars, published, restarts>>

-----------------------------------------------------------------------------
(* Calls of ResolveShadowPowClaims. *)

\* The snapshot of a call is taken before it has the mutex.
Snapshot(kind, S) ==
    [kind |-> kind, sel |-> S, tip |-> tip, standing |-> standing, fresh |-> processed = tip]

\* The operator asks for a plan...
Preview ==
    /\ WalletIsFree /\ waiting["operator"] = None /\ call.caller # "operator"
    /\ processed = tip /\ ~ambiguous
    /\ \E S \in Selections : plan' = PlanId("commit", S)
    /\ outdated' = {}
    /\ UNCHANGED <<chainVars, recordVars, policyVars, ambiguous, generation, userVars, schedulerVars, waiting, call,
                   submitted, published, restarts>>

\* ...and acts on it, to sign only or to sign, authorise and relay.
Execute ==
    /\ WalletIsFree /\ waiting["operator"] = None /\ call.caller # "operator"
    /\ plan # None
    /\ \E kind \in {"sign", "commit"} :
         waiting' = [waiting EXCEPT !["operator"] = Snapshot(kind, DOMAIN plan.components)]
    /\ UNCHANGED <<chainVars, recordVars, policyVars, ambiguous, generation, userVars, operatorVars, schedulerVars,
                   call, submitted, published, restarts>>

\* Mutant: a retry waits for the wallet to be unlocked.
Owing_Unlocked ==
    {r \in wallet : r.origin = "manual" /\ r.authorized /\ ~r.revoked /\ Id(r) \notin mempool /\ unlocked}

\* Manual resolutions with authority that are not in the mempool.
Owing == {r \in wallet : r.origin = "manual" /\ r.authorized /\ ~r.revoked /\ Id(r) \notin mempool}

\* The maintenance pass: first the retry of what was authorised by hand...
Tick ==
    /\ WalletIsFree /\ round = "idle"
    /\ chosen' = {r.anchor : r \in Owing}
    /\ round' = IF Owing = {} THEN "auto" ELSE "retry"
    /\ UNCHANGED <<chainVars, recordVars, policyVars, ambiguous, generation, userVars, operatorVars, waiting, call,
                   submitted, published, restarts>>

\* ...then what the policy allows.
Ask ==
    /\ WalletIsFree /\ waiting["scheduler"] = None /\ call.caller # "scheduler"
    /\ \/ round = "retry" /\ waiting' = [waiting EXCEPT !["scheduler"] = Snapshot("retry", chosen)] /\ UNCHANGED round
       \/ /\ round = "auto" /\ policy # 0 /\ mining
          /\ waiting' = [waiting EXCEPT !["scheduler"] = Snapshot("auto", Anchors)] /\ UNCHANGED round
       \/ round = "auto" /\ (policy = 0 \/ ~mining) /\ round' = "idle" /\ UNCHANGED waiting
    /\ UNCHANGED <<chainVars, recordVars, policyVars, ambiguous, generation, userVars, operatorVars, chosen, call,
                   submitted, published, restarts>>

\* A call returns: the scheduler goes on to its second call, or rests.
Returns(caller, kind) ==
    round' = IF caller = "operator" THEN round ELSE IF kind = "retry" THEN "auto" ELSE "idle"

Ends ==
    /\ call' = Idle
    /\ Returns(call.caller, call.kind)

\* The snapshot no longer describes the wallet and the chain.
Stale(w) == ~w.fresh \/ w.tip # tip \/ processed # tip \/ w.standing # standing

Consented(x) == \E r \in x.known : r.authorized /\ r.origin = "manual"

\* New resolutions, and those that the call gives authority to.
ToStore(kind, X) == {x \in X : x.known = {} \/ (kind # "sign" /\ \E r \in x.known : ~r.authorized)}

\* A stale snapshot or plan, nothing to do, a locked wallet, a retry of what was never consented
\* to, a resolution that the mempool would refuse: the call changes nothing.
Refuses(w, X) ==
    \/ Stale(w) \/ ambiguous
    \/ w.kind \in {"sign", "commit"} /\ PlanId(w.kind, w.sel) # plan
    \/ X = {}
    \/ ~unlocked /\ \E x \in X : x.known = {}
    \/ w.kind = "retry" /\ \E x \in X : ~Consented(x)
    \/ \E x \in X : x.anchor \in barred /\ ~\E r \in x.known : Id(r) \in mempool

\* The transaction is built on this tip, or it is the one that is known.
Time(x) == IF x.known = {} THEN tip ELSE CHOOSE t \in {r.time : r \in x.known} : TRUE

Bytes(x) == [anchor |-> x.anchor, time |-> Time(x)]

Prepared(c, w, X) ==
    [stage |-> "persist", caller |-> c, kind |-> w.kind, tip |-> tip, plan |-> PlanId(w.kind, w.sel), policy |-> policy,
     current |-> FALSE, todo |-> ToStore(w.kind, X), tx |-> None,
     relay |-> IF w.kind = "sign" THEN {} ELSE {Bytes(x) : x \in X},
     unlock |-> {Bytes(x) : x \in ToStore(w.kind, X)}]

\* When all is stored the wallet is let go of, and the call relays or returns.
GoesOn(k) ==
    IF k.todo # {} THEN call' = k /\ UNCHANGED round
    ELSE IF k.relay = {} THEN call' = Idle /\ Returns(k.caller, k.kind)
    ELSE call' = [k EXCEPT !.stage = "review", !.plan = None, !.current = TRUE] /\ UNCHANGED round

BeginWith(c, w, X) ==
    IF Refuses(w, X) THEN Returns(c, w.kind) /\ UNCHANGED call ELSE GoesOn(Prepared(c, w, X))

\* The call has the mutex, plans and signs.
Begin(c) ==
    /\ NoCall /\ waiting[c] # None
    /\ BeginWith(c, waiting[c], Actions(waiting[c].kind, waiting[c].sel))
    /\ waiting' = [waiting EXCEPT ![c] = None]
    /\ UNCHANGED <<chainVars, recordVars, policyVars, ambiguous, generation, userVars, operatorVars, chosen,
                   submitted, published, restarts>>

Origin(x) == IF x.known = {} THEN (IF call.kind = "auto" THEN "automatic" ELSE "manual")
             ELSE CHOOSE o \in {r.origin : r \in x.known} : TRUE

\* The record that the call writes for one action of its plan.
Record(x) ==
    [anchor |-> x.anchor, time |-> Time(x), origin |-> Origin(x), authorized |-> call.kind # "sign", revoked |-> FALSE,
     receipt |-> IF call.kind = "sign" THEN None ELSE call.plan]

\* Mutant: a failed commit is taken for one that changed nothing.
Store_Hopeful(x, old, new) ==
    \/ /\ wallet' = Replaced(wallet, old, new) /\ disk' = Replaced(disk, old, new)
       /\ Counted /\ UNCHANGED ambiguous
       /\ GoesOn([call EXCEPT !.todo = @ \ {x}])
    \/ UNCHANGED <<wallet, disk, ambiguous>> /\ Failed /\ Ends
    \/ /\ disk' \in {disk, Replaced(disk, old, new)}
       /\ UNCHANGED <<wallet, ambiguous>> /\ Failed /\ Ends

\* PersistNewManagedShadowPowResolution and SetManagedShadowPowResolutionRelayAuthority: the
\* record is committed, or rolled back, or nobody knows.
Store(x, old, new) ==
    \/ /\ wallet' = Replaced(wallet, old, new) /\ disk' = Replaced(disk, old, new)
       /\ Counted /\ UNCHANGED ambiguous
       /\ GoesOn([call EXCEPT !.todo = @ \ {x}])
    \/ UNCHANGED <<wallet, disk, ambiguous>> /\ Failed /\ Ends
    \/ /\ disk' \in {disk, Replaced(disk, old, new)} /\ ambiguous' = TRUE
       /\ UNCHANGED wallet /\ Failed /\ Ends

StoreFirst(x) ==
    IF ~unlocked THEN Ends /\ UNCHANGED <<recordVars, ambiguous, generation, waiting>>
    ELSE Store(x, x.known, {Record(x)})

\* One resolution after the other.
Persist ==
    /\ call.stage = "persist"
    /\ \E x \in call.todo : IsFirst(x, call.todo) /\ StoreFirst(x)
    /\ UNCHANGED <<chainVars, policyVars, userVars, operatorVars, chosen, submitted, published, restarts>>

Authorised(x) == \E r \in wallet : Id(r) = Id(x) /\ r.authorized /\ ~r.revoked

\* Mutant: an outcome that became unknown since the plan is overlooked.
Clear_Sure(x) ==
    /\ tip = call.tip /\ processed = call.tip /\ call.current
    /\ x.anchor \notin locked /\ (x \in call.unlock => unlocked)
    /\ Authorised(x)
    /\ call.kind = "auto" => policy = call.policy /\ policy # 0 /\ mining

\* Nothing that the call relied on has changed, and its authority stands.
Clear(x) ==
    /\ tip = call.tip /\ processed = call.tip /\ call.current /\ ~ambiguous
    /\ x.anchor \notin locked /\ (x \in call.unlock => unlocked)
    /\ Authorised(x)
    /\ call.kind = "auto" => policy = call.policy /\ policy # 0 /\ mining

ReviewFirst(x) ==
    \/ ~Clear(x) /\ Ends
    \/ Clear(x) /\ Id(x) \in mempool /\ call.relay = {x} /\ Ends
    \/ Clear(x) /\ Id(x) \in mempool /\ call.relay # {x} /\ call' = [call EXCEPT !.relay = @ \ {x}] /\ UNCHANGED round
    \/ Clear(x) /\ Id(x) \notin mempool /\ call' = [call EXCEPT !.stage = "reserve", !.tx = x] /\ UNCHANGED round

\* Each resolution is reviewed before it is relayed; what the mempool has is passed over.
Review ==
    /\ call.stage = "review"
    /\ \E x \in call.relay : IsFirst(x, call.relay) /\ ReviewFirst(x)
    /\ UNCHANGED <<chainVars, recordVars, policyVars, ambiguous, generation, userVars, operatorVars, chosen, waiting,
                   submitted, published, restarts>>

\* SubmitTxMemoryPoolAndRelay reserves the transaction under the guard...
Reserve ==
    /\ call.stage = "reserve"
    /\ IF Clear(call.tx)
       THEN /\ call' = [call EXCEPT !.stage = "broadcast"] /\ UNCHANGED round
            /\ published' = published \cup {Id(call.tx)}
       ELSE Ends /\ UNCHANGED published
    /\ UNCHANGED <<chainVars, recordVars, policyVars, ambiguous, generation, userVars, operatorVars, chosen, waiting,
                   submitted, restarts>>

\* ...and hands it to the node with no lock held.  A call relays one resolution at most.
Broadcast ==
    /\ call.stage = "broadcast"
    /\ IF standing[call.tx.anchor] # "unsafe" /\ call.tx.anchor \notin barred
       THEN mempool' = mempool \cup {Id(call.tx)} /\ Outdate
       ELSE UNCHANGED <<mempool, waiting>>
    /\ Ends
    /\ UNCHANGED <<tip, processed, standing, barred, recordVars, policyVars, ambiguous, generation, userVars,
                   operatorVars, chosen, submitted, published, restarts>>

\* The process ends, in whatever state, and the wallet is loaded again.
Restart ==
    /\ restarts < MaxRestarts /\ restarts' = restarts + 1
    /\ wallet' = disk /\ policy' = diskPolicy
    /\ ambiguous' = FALSE /\ generation' = 0
    /\ unlocked' \in Unlocks /\ mining' \in Minings
    /\ locked' \in SUBSET locked /\ mempool' \in SUBSET mempool /\ processed' = tip
    /\ round' = "idle" /\ chosen' = {}
    /\ waiting' = [c \in Callers |-> None] /\ call' = Idle /\ submitted' = {}
    /\ UNCHANGED <<tip, standing, barred, disk, diskPolicy, operatorVars, published>>

Calls == (\E c \in Callers : Begin(c)) \/ Persist \/ Review \/ Reserve \/ Broadcast

Environment ==
    \/ ConnectTip \/ ProcessTip \/ ClaimChanges \/ MempoolTurns \/ LeavesMempool
    \/ UnlockWallet \/ SetPowMining \/ LockCoin \/ UnlockCoin \/ SetPolicy \/ Revoke
    \/ SendRawTransaction \/ TransactionSubmittedByRpc

Next == Environment \/ Preview \/ Execute \/ Tick \/ Ask \/ Calls \/ Restart

Spec == Init /\ [][Next]_vars

\* The maintenance pass comes again and goes on, and so does a call that has the mutex.
Fairness ==
    /\ WF_vars(Tick) /\ WF_vars(Ask) /\ WF_vars(ProcessTip)
    /\ WF_vars(Begin("scheduler")) /\ WF_vars(Begin("operator"))
    /\ WF_vars(Persist) /\ WF_vars(Review) /\ WF_vars(Reserve) /\ WF_vars(Broadcast)

FairSpec == Spec /\ Fairness

-----------------------------------------------------------------------------
(* Properties. *)

\* The variables have their types, and a resolution is never both authorised and revoked.
TypeOK ==
    /\ tip \in Tips /\ processed \in Tips
    /\ standing \in [Anchors -> Standings] /\ barred \subseteq Barrable
    /\ mempool \subseteq Anchors \X Tips /\ published \subseteq Anchors \X Tips /\ outdated \subseteq Anchors \X Tips
    /\ submitted \subseteq published
    /\ \A r \in wallet \cup disk :
         /\ Id(r) \in Anchors \X Tips /\ r.origin \in {"manual", "automatic"}
         /\ r.authorized \in BOOLEAN /\ r.revoked \in BOOLEAN /\ ~(r.authorized /\ r.revoked)
    /\ policy \in Policies /\ diskPolicy \in Policies /\ ambiguous \in BOOLEAN /\ generation \in 0 .. MaxWrites
    /\ unlocked \in Unlocks /\ locked \subseteq Lockable /\ mining \in Minings
    /\ round \in {"idle", "retry", "auto"} /\ chosen \subseteq Anchors
    /\ call.stage \in {"idle", "persist", "review", "reserve", "broadcast"} /\ restarts \in 0 .. MaxRestarts

\* Unless the wallet knows that it does not know, what it holds in memory (mapWallet and the
\* recovery policy) is what a reload would find: no failed write changes one of the two alone.
MemoryIsDurable == ~ambiguous => wallet = disk /\ policy = diskPolicy

\* At most one resolution of an anchor is ever stored or handed to the node, over any number of
\* retries, failed commits and reloads: a retry reuses the bytes.
OneResolutionPerAnchor ==
    \A x, y \in published \cup {Id(r) : r \in disk} : x[1] = y[1] => x = y

\* No rolling window holds more automatic resolutions than the widest policy allows, although
\* resolutions are revoked, the tip goes back and forth and records survive failed commits.
AutomaticBudget ==
    \A t \in Tips :
        \E p \in Policies :
            Cardinality({r \in disk : r.origin = "automatic" /\ r.time \in t - Window .. t}) <= p

Reserves == call.stage = "reserve" /\ call'.stage = "broadcast"

\* The wallet hands a resolution to the node only when its authority is on disk, and an automatic
\* one only when the policy on disk allows it and the miner is enabled: at the reservation, not at
\* the time of the plan.
PublishedUnderConsent ==
    [][Reserves => /\ \E r \in disk : Id(r) = Id(call.tx) /\ r.authorized /\ ~r.revoked
                   /\ call.kind = "auto" => diskPolicy # 0 /\ mining]_vars

\* A resolution without authority gets it in two ways only: from a call of the operator whose plan
\* showed the record as it is, or, unless it was revoked, from the node's acceptance of its exact
\* bytes through the operator's sendrawtransaction.  A revocation that comes between the acceptance
\* and the callback stands, and neither a retry nor the policy gives authority.
AuthorityIsGranted ==
    [][\A r \in disk, q \in disk' :
         Id(r) = Id(q) /\ ~r.authorized /\ q.authorized =>
             \/ call.kind = "commit" /\ r \in plan.components[r.anchor].known
             \/ ~r.revoked /\ Id(r) \in submitted]_vars

\* A plan made before a resolution was revoked gives it no authority, although plans outlive the
\* process and the generation counter that they name starts again from 0.
RevocationOutlivesPlans ==
    [][\A r \in disk, q \in disk' :
         Id(r) = Id(q) /\ r.revoked /\ q.authorized => Id(r) \notin outdated]_vars

\* A resolution with authority that could be relayed, were there a call to relay it.
Owed(a) ==
    /\ ~ambiguous /\ barred = {} /\ processed = tip
    /\ Recoverable(a)
    /\ \E r \in Known(a) : r.authorized /\ (r.origin = "automatic" => policy # 0 /\ mining)

\* Chain, claims, mempool, wallet and operator have come to rest, and the database works.
Rests ==
    /\ UNCHANGED <<tip, standing, generation, locked, operatorVars, waiting["operator"], restarts>>
    /\ mempool \subseteq mempool'
    /\ call.stage = "persist" => UNCHANGED call

\* Once all has come to rest, every resolution that has authority gets into the mempool, whether
\* the wallet is locked or not, whichever call or process stored it and however many there are.
AuthorisedIsRelayed ==
    \A a \in Anchors :
        <>[]Owed(a) /\ <>[][Rests]_vars => <>(\E x \in mempool : x[1] = a)

=============================================================================
