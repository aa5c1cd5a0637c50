--------------------------- MODULE ClaimMaintenance ---------------------------
(***************************************************************************)
(* The executor of the wallets' claim maintenance.  One worker thread      *)
(* serves all wallets; each wallet has a slot in which requests are        *)
(* coalesced.  A mutex guards the slots and a single condition variable    *)
(* is shared by the worker, by the threads that unload a wallet and by     *)
(* those that wait for the executor to be idle.  Each action is what a     *)
(* thread does while it holds the mutex, or between two times it does.     *)
(***************************************************************************)
EXTENDS Integers, Sequences

CONSTANTS
    Wallets, None,
    Asks                \* what a request may be for: sets of "resolve" and "relay"

VARIABLES
    slots,              \* the list of slots, one per wallet
    pending, resolve, relay, active, cancelled,     \* the slots with the flag set
    attached,           \* wallets that have a slot (m_claim_maintenance)
    unregistered,       \* m_claim_maintenance_unregistered
    stopping, running,
    worker,             \* where the worker is, its slot and what it was asked for
    sleeping,           \* threads that wait on the condition variable
    copied,             \* slots that a requesting thread has read and will use
    unloading,          \* the thread that unloads the wallet
    sync, stop          \* the threads in Sync and Stop

slotVars == <<pending, resolve, relay, active, cancelled>>
walletVars == <<attached, unregistered>>
maintenanceVars == <<slots, slotVars, walletVars, stopping, running, worker, sleeping, copied, unloading, sync, stop>>

ASSUME NoneAssumption == None \notin Wallets /\ {"worker", "sync"} \cap Wallets = {}

-----------------------------------------------------------------------------
(* The condition variable. *)

NotifyAll == sleeping' = {}

NotifyOne == IF sleeping = {} THEN sleeping' = {} ELSE \E t \in sleeping : sleeping' = sleeping \ {t}

Awake(t) == t \notin sleeping

-----------------------------------------------------------------------------
(* The list of slots. *)

Listed == {slots[i] : i \in DOMAIN slots}

\* The list without its i-th slot.
Without(i) == SubSeq(slots, 1, i - 1) \o SubSeq(slots, i + 1, Len(slots))

Waiting(w) == w \in pending /\ w \notin cancelled

Pending == \E w \in Listed : Waiting(w)

\* The first slot that waits.
IsNext(i) == i \in DOMAIN slots /\ Waiting(slots[i]) /\ \A j \in 1..(i - 1) : ~Waiting(slots[j])

Cancelled(w) == stopping \/ w \in cancelled

-----------------------------------------------------------------------------
(* The worker. *)

At(place) == worker.at = place /\ Awake("worker")

Go(place) == worker' = [worker EXCEPT !.at = place]

Idle(place) == [at |-> place, slot |-> None, resolve |-> FALSE, relay |-> FALSE]

WorkerWaits ==
    /\ At("loop") /\ ~stopping /\ ~Pending
    /\ sleeping' = sleeping \cup {"worker"}
    /\ UNCHANGED <<slots, slotVars, walletVars, stopping, running, worker, copied, unloading, sync, stop>>

\* Mutant: the slot keeps its place.
WorkerTakes_InPlace ==
    /\ At("loop") /\ ~stopping
    /\ \E i \in DOMAIN slots :
        /\ IsNext(i)
        /\ worker' = [at |-> "begin", slot |-> slots[i], resolve |-> slots[i] \in resolve, relay |-> slots[i] \in relay]
        /\ pending' = pending \ {slots[i]}
        /\ resolve' = resolve \ {slots[i]}
        /\ relay' = relay \ {slots[i]}
        /\ active' = active \cup {slots[i]}
    /\ UNCHANGED <<slots, cancelled, walletVars, stopping, running, sleeping, copied, unloading, sync, stop>>

\* A slot that is taken goes behind all others.
WorkerTakes ==
    /\ At("loop") /\ ~stopping
    /\ \E i \in DOMAIN slots :
        /\ IsNext(i)
        /\ slots' = Append(Without(i), slots[i])
        /\ worker' = [at |-> "begin", slot |-> slots[i], resolve |-> slots[i] \in resolve, relay |-> slots[i] \in relay]
        /\ pending' = pending \ {slots[i]}
        /\ resolve' = resolve \ {slots[i]}
        /\ relay' = relay \ {slots[i]}
        /\ active' = active \cup {slots[i]}
    /\ UNCHANGED <<cancelled, walletVars, stopping, running, sleeping, copied, unloading, sync, stop>>

WorkerBegins ==
    /\ At("begin")
    /\ Go(IF Cancelled(worker.slot) THEN "finish" ELSE "repair")
    /\ UNCHANGED <<slots, slotVars, walletVars, stopping, running, sleeping, copied, unloading, sync, stop>>

\* A stage of a pass ends: the next one that was asked for begins, unless the slot is cancelled.
\* A stage that throws ends the pass.
Pass(stage, next) ==
    /\ At(stage)
    /\ Go("finish") \/ (~Cancelled(worker.slot) /\ Go(next))
    /\ UNCHANGED <<slots, slotVars, walletVars, stopping, running, sleeping, copied, unloading, sync, stop>>

\* The last stage ends.
Ends(stage) ==
    /\ At(stage)
    /\ Go("finish")
    /\ UNCHANGED <<slots, slotVars, walletVars, stopping, running, sleeping, copied, unloading, sync, stop>>

\* The relay needs a chain that is ready, which it may not be.
Relaying(stage) == worker.relay /\ Pass(stage, "relay")

\* RepairStaleShadowTransactions is over.
WorkerRepaired ==
    \/ worker.resolve /\ Pass("repair", "resolve")
    \/ ~worker.resolve /\ Relaying("repair")
    \/ ~worker.resolve /\ ~worker.relay /\ Ends("repair")

\* MaybeAutoResolveShadowPowClaims is over.
WorkerResolved == Relaying("resolve") \/ (~worker.relay /\ Ends("resolve"))

\* RelayRetainedShadowPowClaim is over.
WorkerRelayed == Ends("relay")

\* Mutant: only one of the waiting threads is told.
WorkerFinishes_NotifyOne ==
    /\ At("finish")
    /\ active' = active \ {worker.slot}
    /\ worker' = Idle("loop")
    /\ NotifyOne
    /\ UNCHANGED <<slots, pending, resolve, relay, cancelled, walletVars, stopping, running, copied, unloading, sync, stop>>

\* The worker's reference to the wallet is gone before the pass is acknowledged.
WorkerFinishes ==
    /\ At("finish")
    /\ active' = active \ {worker.slot}
    /\ worker' = Idle("loop")
    /\ NotifyAll
    /\ UNCHANGED <<slots, pending, resolve, relay, cancelled, walletVars, stopping, running, copied, unloading, sync, stop>>

WorkerExits ==
    /\ At("loop") /\ stopping
    /\ Go("exited")
    /\ running' = FALSE
    /\ NotifyAll
    /\ UNCHANGED <<slots, slotVars, walletVars, stopping, copied, unloading, sync, stop>>

-----------------------------------------------------------------------------
(* Loading, requests and unloading. *)

\* Stop holds the lifecycle mutex while it joins.
StartExecutor ==
    /\ stop # "joining"
    /\ worker.at = "none" /\ ~stopping
    /\ worker' = Idle("loop")
    /\ running' = TRUE
    /\ UNCHANGED <<slots, slotVars, walletVars, stopping, sleeping, copied, unloading, sync, stop>>

\* Mutant: a wallet that is being unloaded is registered.
Register_Unloaded(w) ==
    /\ w \notin attached /\ ~stopping
    /\ slots' = Append(slots, w)
    /\ attached' = attached \cup {w}
    /\ pending' = pending \cup {w}
    /\ cancelled' = cancelled \ {w}
    /\ NotifyOne
    /\ UNCHANGED <<resolve, relay, active, unregistered, stopping, running, worker, copied, unloading, sync, stop>>

\* A new slot is pending, with nothing asked for but the repair.
Register(w) ==
    /\ w \notin attached \cup unregistered /\ ~stopping
    /\ slots' = Append(slots, w)
    /\ attached' = attached \cup {w}
    /\ pending' = pending \cup {w}
    /\ NotifyOne
    /\ UNCHANGED <<resolve, relay, active, cancelled, unregistered, stopping, running, worker, copied, unloading, sync, stop>>

\* RequestClaimMaintenance reads the slot under the wallet's lock and uses it after.
RequestClaimMaintenance(w) ==
    /\ w \in attached
    /\ copied' = copied \cup {w}
    /\ UNCHANGED <<slots, slotVars, walletVars, stopping, running, worker, sleeping, unloading, sync, stop>>

\* The block and mempool handlers ask for the relay, the timer for the resolution and now and
\* then for both.
RequestWalletClaimMaintenance(w) ==
    /\ w \in copied
    /\ copied' = copied \ {w}
    /\ IF Cancelled(w) THEN UNCHANGED <<pending, resolve, relay, sleeping>>
       ELSE /\ pending' = pending \cup {w}
            /\ \E ask \in Asks :
                /\ resolve' = IF "resolve" \in ask THEN resolve \cup {w} ELSE resolve
                /\ relay' = IF "relay" \in ask THEN relay \cup {w} ELSE relay
            /\ NotifyOne
    /\ UNCHANGED <<slots, active, cancelled, walletVars, stopping, running, worker, unloading, sync, stop>>

\* A wallet that has no slot needs no draining; it will never have one.
Unregister(w) ==
    /\ unloading[w] = "no"
    /\ unregistered' = unregistered \cup {w}
    /\ attached' = attached \ {w}
    /\ unloading' = [unloading EXCEPT ![w] = IF w \in attached THEN "cancel" ELSE "done"]
    /\ UNCHANGED <<slots, slotVars, stopping, running, worker, sleeping, copied, sync, stop>>

\* The slot leaves the list when its pass is over.
Drain(w) ==
    /\ w \notin active
    /\ \E i \in DOMAIN slots : slots[i] = w /\ slots' = Without(i)
    /\ unloading' = [unloading EXCEPT ![w] = "done"]
    /\ NotifyAll

\* The wait for a pass that runs.
Sleep(w, others) ==
    /\ w \in active
    /\ sleeping' = others \cup {w}
    /\ unloading' = [unloading EXCEPT ![w] = "drain"]
    /\ UNCHANGED slots

UnregisterCancels(w) ==
    /\ unloading[w] = "cancel"
    /\ cancelled' = cancelled \cup {w}
    /\ pending' = pending \ {w}
    /\ Drain(w) \/ Sleep(w, {})
    /\ UNCHANGED <<resolve, relay, active, walletVars, stopping, running, worker, copied, sync, stop>>

UnregisterDrains(w) ==
    /\ unloading[w] = "drain" /\ Awake(w)
    /\ Drain(w) \/ Sleep(w, sleeping)
    /\ UNCHANGED <<slotVars, walletVars, stopping, running, worker, copied, sync, stop>>

-----------------------------------------------------------------------------
(* Shutdown and the barrier. *)

Stop ==
    /\ stop = "idle"
    /\ stopping' = TRUE
    /\ cancelled' = cancelled \cup Listed
    /\ pending' = pending \ Listed
    /\ NotifyAll
    /\ stop' = IF worker.at = "none" THEN "done" ELSE "joining"
    /\ UNCHANGED <<slots, resolve, relay, active, walletVars, running, worker, copied, unloading, sync>>

StopJoins ==
    /\ stop = "joining" /\ worker.at = "exited"
    /\ stop' = "done"
    /\ UNCHANGED <<slots, slotVars, walletVars, stopping, running, worker, sleeping, copied, unloading, sync>>

Quiet == (~running \/ ~Pending) /\ \A w \in Listed : w \notin active

\* A call that finds the executor idle returns at once.
SyncWaits ==
    /\ Awake("sync") /\ ~Quiet
    /\ sync' = "waiting"
    /\ sleeping' = sleeping \cup {"sync"}
    /\ UNCHANGED <<slots, slotVars, walletVars, stopping, running, worker, copied, unloading, stop>>

SyncReturns ==
    /\ sync = "waiting" /\ Awake("sync") /\ Quiet
    /\ sync' = "idle"
    /\ UNCHANGED <<slots, slotVars, walletVars, stopping, running, worker, sleeping, copied, unloading, stop>>

\* A thread may wake up without a notification.
SpuriousWakeup ==
    /\ \E t \in sleeping : sleeping' = sleeping \ {t}
    /\ UNCHANGED <<slots, slotVars, walletVars, stopping, running, worker, copied, unloading, sync, stop>>

MaintenanceInit ==
    /\ slots = <<>>
    /\ pending = {} /\ resolve = {} /\ relay = {} /\ active = {} /\ cancelled = {}
    /\ attached = {} /\ unregistered = {}
    /\ stopping = FALSE /\ running = FALSE
    /\ worker = Idle("none")
    /\ sleeping = {} /\ copied = {}
    /\ unloading = [w \in Wallets |-> "no"]
    /\ sync = "idle" /\ stop = "idle"

Worker ==
    \/ WorkerWaits \/ WorkerTakes
    \/ WorkerBegins \/ WorkerRepaired \/ WorkerResolved \/ WorkerRelayed
    \/ WorkerFinishes \/ WorkerExits

Request(w) == RequestClaimMaintenance(w) \/ RequestWalletClaimMaintenance(w)

Unload(w) == UnregisterCancels(w) \/ UnregisterDrains(w)

MaintenanceNext ==
    \/ Worker \/ StartExecutor \/ Stop \/ StopJoins
    \/ SyncWaits \/ SyncReturns \/ SpuriousWakeup
    \/ \E w \in Wallets : Register(w) \/ Request(w) \/ Unregister(w) \/ Unload(w)

MaintenanceSpec == MaintenanceInit /\ [][MaintenanceNext]_maintenanceVars

(* The node starts the executor; a thread that can run does, and takes the mutex if it asks  *)
(* for it.  Nothing is assumed of requests, of unloading or of a stop. *)
FairMaintenanceSpec ==
    /\ MaintenanceSpec
    /\ WF_maintenanceVars(StartExecutor) /\ WF_maintenanceVars(Worker) /\ WF_maintenanceVars(StopJoins)
    /\ WF_maintenanceVars(SyncWaits \/ SyncReturns)
    /\ \A w \in Wallets : WF_maintenanceVars(Unload(w))

-----------------------------------------------------------------------------
(* Properties. *)

MaintenanceTypeOK ==
    /\ slots \in Seq(Wallets)
    /\ \A i, j \in DOMAIN slots : slots[i] = slots[j] => i = j
    /\ pending \subseteq Wallets /\ resolve \subseteq Wallets /\ relay \subseteq Wallets
    /\ active \subseteq Wallets /\ cancelled \subseteq Wallets
    /\ attached \subseteq Wallets /\ unregistered \subseteq Wallets /\ copied \subseteq Wallets
    /\ stopping \in BOOLEAN /\ running \in BOOLEAN
    /\ worker \in [at : {"none", "loop", "begin", "repair", "resolve", "relay", "finish", "exited"},
                   slot : Wallets \cup {None}, resolve : BOOLEAN, relay : BOOLEAN]
    /\ sleeping \subseteq {"worker", "sync"} \cup Wallets
    /\ unloading \in [Wallets -> {"no", "cancel", "drain", "done"}]
    /\ sync \in {"idle", "waiting"} /\ stop \in {"idle", "joining", "done"}

\* No thread sleeps on the condition variable while what it waits for holds: in particular the
\* notify_one of Register and of a request reaches the worker, and no other waiter.
NoLostWakeup ==
    /\ "worker" \in sleeping => ~stopping /\ ~Pending
    /\ "sync" \in sleeping => ~Quiet
    /\ \A w \in Wallets \cap sleeping : w \in active

\* Once Unregister has returned no pass works on the wallet, and none ever will: the wallet may
\* be unloaded, whatever requests and registrations race with it.
DrainedBeforeUnload == \A w \in Wallets : unloading[w] = "done" => worker.slot # w /\ w \notin Listed \cap pending

\* Once Stop has returned no thread of the executor touches a wallet: the wallets may be flushed
\* and closed.
NothingAfterStop == stop = "done" => worker.at \in {"none", "exited"} /\ active = {}

\* A resolution that is asked for is taken up by a pass, unless the wallet is unloaded or the node
\* stops, however often the other wallets ask.
ResolveIsTaken ==
    \A w \in Wallets : w \in pending \cap resolve ~> (worker.slot = w /\ worker.resolve) \/ Cancelled(w)

=============================================================================
