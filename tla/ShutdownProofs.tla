---------------------------- MODULE ShutdownProofs ----------------------------
(***************************************************************************)
(* A node that is killed or stopped.  For every block tree, every content  *)
(* of its blocks and any number of crashes: the chainstate on disk is what *)
(* its marks say, a running node sees the coins of its tip, nothing fails, *)
(* and a flush is atomic.  For any number of wallets, requests and waiting *)
(* threads: no wakeup of the maintenance executor is lost, an unloaded     *)
(* wallet is drained, and a stopped executor touches no wallet.            *)
(***************************************************************************)
EXTENDS ChainstateFlush, ClaimMaintenance, TLAPS

-----------------------------------------------------------------------------
(* The maintenance executor. *)

Working == {"begin", "repair", "resolve", "relay", "finish"}

\* The worker holds the one active slot, and sleeps only in its loop.
WorkerInv ==
    /\ worker.slot # None <=> worker.at \in Working
    /\ active = {worker.slot} \cap Wallets
    /\ running <=> worker.at \notin {"none", "exited"}
    /\ "worker" \in sleeping => worker.at = "loop"

\* The list holds the slots of the wallets that are attached or being drained.
SlotInv ==
    /\ Listed = attached \cup {w \in Wallets : unloading[w] \in {"cancel", "drain"}}
    /\ \A w \in attached : unloading[w] = "no"
    /\ \A w \in Wallets : w \in unregistered <=> unloading[w] # "no"
    /\ active \subseteq Listed

StopInv ==
    /\ stopping <=> stop # "idle"
    /\ stopping => ~Pending
    /\ worker.at = "exited" => stopping
    /\ stop = "done" => worker.at \in {"none", "exited"}

MaintenanceInv == MaintenanceTypeOK /\ WorkerInv /\ SlotInv /\ StopInv /\ NoLostWakeup

-----------------------------------------------------------------------------
(* The list. *)

\* What is left of the list when a slot is taken out.
LEMMA WithoutIsListed ==
    ASSUME slots \in Seq(Wallets),
           \A i, j \in DOMAIN slots : slots[i] = slots[j] => i = j,
           NEW i \in DOMAIN slots
    PROVE  /\ Without(i) \in Seq(Wallets)
           /\ \A j, k \in DOMAIN Without(i) : Without(i)[j] = Without(i)[k] => j = k
           /\ {Without(i)[j] : j \in DOMAIN Without(i)} = Listed \ {slots[i]}
<1>. DEFINE n == Len(slots)
            s == SubSeq(slots, 1, i - 1)
            t == SubSeq(slots, i + 1, n)
            W == s \o t
<1>1. n \in Nat /\ i \in 1..n /\ DOMAIN slots = 1..n /\ \A j \in 1..n : slots[j] \in Wallets
  OBVIOUS
<1>2. s \in Seq(Wallets) /\ Len(s) = i - 1 /\ \A j \in 1..(i - 1) : s[j] = slots[j]
  <2>1. /\ s \in Seq(Wallets) /\ Len(s) = IF 1 <= i - 1 THEN (i - 1) - 1 + 1 ELSE 0
        /\ \A j \in 1..((i - 1) - 1 + 1) : s[j] = slots[1 + j - 1]
    <3>. HIDE DEF n
    <3>1. 1 \in Int /\ i - 1 \in Int /\ \A j \in 1..(i - 1) : slots[j] \in Wallets
      BY <1>1
    <3>. QED  BY <3>1
  <2>. QED  BY <1>1, <2>1
<1>3. t \in Seq(Wallets) /\ Len(t) = n - i /\ \A j \in 1..(n - i) : t[j] = slots[i + j]
  <2>1. /\ t \in Seq(Wallets) /\ Len(t) = IF i + 1 <= n THEN n - (i + 1) + 1 ELSE 0
        /\ \A j \in 1..(n - (i + 1) + 1) : t[j] = slots[i + 1 + j - 1]
    <3>. HIDE DEF n
    <3>1. i + 1 \in Int /\ n \in Int /\ \A j \in (i + 1)..n : slots[j] \in Wallets
      BY <1>1
    <3>. QED  BY <3>1
  <2>. QED  BY <1>1, <2>1, SMTT(60)
<1>. HIDE DEF s, t
<1>4. /\ W \in Seq(Wallets) /\ Len(W) = Len(s) + Len(t)
      /\ \A j \in 1..(Len(s) + Len(t)) : W[j] = IF j <= Len(s) THEN s[j] ELSE t[j - Len(s)]
  <2>1. s \in Seq(Wallets) /\ t \in Seq(Wallets)
    BY <1>2, <1>3, Zenon
  <2>. QED  BY <2>1, SMT
<1>. HIDE DEF W
<1>5. DOMAIN W = 1..(n - 1) /\ \A j \in 1..(n - 1) : W[j] = IF j < i THEN slots[j] ELSE slots[j + 1]
  <2>1. DOMAIN W = 1..(n - 1)
    BY <1>1, <1>2, <1>3, <1>4
  <2>2. ASSUME NEW j \in 1..(n - 1) PROVE W[j] = IF j < i THEN slots[j] ELSE slots[j + 1]
    <3>1. W[j] = IF j <= i - 1 THEN s[j] ELSE t[j - (i - 1)]
      BY <1>1, <1>2, <1>3, <1>4, SMTT(60)
    <3>2. CASE j < i
      BY <1>1, <1>2, <3>1, <3>2
    <3>3. CASE ~(j < i)
      <4>1. j - (i - 1) \in 1..(n - i) /\ i + (j - (i - 1)) = j + 1
        BY <1>1, <3>3
      <4>2. t[j - (i - 1)] = slots[j + 1]
        BY <1>3, <4>1, Zenon
      <4>. QED  BY <1>1, <3>1, <3>3, <4>2
    <3>. QED  BY <3>2, <3>3, Zenon
  <2>. QED  BY <2>1, <2>2, Zenon
<1>6. /\ \A j, k \in DOMAIN W : W[j] = W[k] => j = k
      /\ \A j \in DOMAIN W : W[j] \in Listed \ {slots[i]}
  <2>. DEFINE to(j) == IF j < i THEN j ELSE j + 1
  <2>1. \A j \in DOMAIN W : to(j) \in 1..n /\ to(j) # i /\ W[j] = slots[to(j)]
    BY <1>1, <1>5
  <2>2. \A j, k \in DOMAIN W : to(j) = to(k) => j = k
    BY <1>1, <1>5
  <2>. HIDE DEF to
  <2>. QED  BY <1>1, <2>1, <2>2, Zenon DEF Listed
<1>7. ASSUME NEW w \in Listed \ {slots[i]} PROVE \E j \in DOMAIN W : W[j] = w
  <2>1. PICK k \in 1..n : slots[k] = w /\ k # i
    BY <1>1, Zenon DEF Listed
  <2>2. CASE k < i
    BY <1>1, <1>5, <2>1, <2>2
  <2>3. CASE k > i
    <3>1. k - 1 \in 1..(n - 1) /\ ~(k - 1 < i) /\ (k - 1) + 1 = k
      BY <1>1, <2>1, <2>3
    <3>. QED  BY <1>5, <2>1, <3>1, Zenon
  <2>. QED  BY <1>1, <2>1, <2>2, <2>3
<1>8. {W[j] : j \in DOMAIN W} = Listed \ {slots[i]}
  BY <1>6, <1>7
<1>9. Without(i) = W
  BY Zenon DEF Without, W, s, t
<1>. QED  BY <1>4, <1>6, <1>8, <1>9

\* What is in the list when a slot is added to its end.
LEMMA AppendIsListed ==
    ASSUME NEW s \in Seq(Wallets), NEW w \in Wallets,
           \A i, j \in DOMAIN s : s[i] = s[j] => i = j,
           w \notin {s[j] : j \in DOMAIN s}
    PROVE  /\ Append(s, w) \in Seq(Wallets)
           /\ \A i, j \in DOMAIN Append(s, w) : Append(s, w)[i] = Append(s, w)[j] => i = j
           /\ {Append(s, w)[j] : j \in DOMAIN Append(s, w)} = {s[j] : j \in DOMAIN s} \cup {w}
<1>. DEFINE A == Append(s, w)
            n == Len(s)
<1>1. /\ n \in Nat /\ DOMAIN s = 1..n
      /\ A \in Seq(Wallets) /\ DOMAIN A = 1..(n + 1) /\ A[n + 1] = w
      /\ \A j \in 1..n : A[j] = s[j]
  OBVIOUS
<1>. HIDE DEF A
<1>2. \A i, j \in DOMAIN A : A[i] = A[j] => i = j
  BY <1>1
<1>3. {A[j] : j \in DOMAIN A} = {s[j] : j \in DOMAIN s} \cup {w}
  BY <1>1
<1>. QED  BY <1>1, <1>2, <1>3, Zenon DEF A

\* The slot that the worker takes changes its place only.
LEMMA RotationIsListed ==
    ASSUME slots \in Seq(Wallets),
           \A i, j \in DOMAIN slots : slots[i] = slots[j] => i = j,
           NEW i \in DOMAIN slots,
           slots' = Append(Without(i), slots[i])
    PROVE  /\ slots' \in Seq(Wallets)
           /\ \A j, k \in DOMAIN slots' : slots'[j] = slots'[k] => j = k
           /\ Listed' = Listed
<1>1. /\ Without(i) \in Seq(Wallets)
      /\ \A j, k \in DOMAIN Without(i) : Without(i)[j] = Without(i)[k] => j = k
      /\ {Without(i)[j] : j \in DOMAIN Without(i)} = Listed \ {slots[i]}
  BY WithoutIsListed, Zenon
<1>2. slots[i] \in Wallets /\ slots[i] \in Listed
  BY DEF Listed
<1>. DEFINE s == Without(i)
            w == slots[i]
<1>3. /\ s \in Seq(Wallets) /\ w \in Wallets
      /\ \A j, k \in DOMAIN s : s[j] = s[k] => j = k
      /\ {s[j] : j \in DOMAIN s} = Listed \ {w} /\ w \in Listed
      /\ slots' = Append(s, w)
  BY <1>1, <1>2, Zenon
<1>. HIDE DEF s, w
<1>4. w \notin {s[j] : j \in DOMAIN s}
  BY <1>3, Zenon
<1>5. /\ Append(s, w) \in Seq(Wallets)
      /\ \A j, k \in DOMAIN Append(s, w) : Append(s, w)[j] = Append(s, w)[k] => j = k
      /\ {Append(s, w)[j] : j \in DOMAIN Append(s, w)} = {s[j] : j \in DOMAIN s} \cup {w}
  BY <1>3, <1>4, AppendIsListed, Zenon
<1>6. {slots'[j] : j \in DOMAIN slots'} = Listed
  <2>1. (Listed \ {w}) \cup {w} = Listed
    BY <1>3, Zenon
  <2>2. {Append(s, w)[j] : j \in DOMAIN Append(s, w)} = Listed
    BY <1>3, <1>5, <2>1, Zenon
  <2>3. slots' = Append(s, w)
    BY <1>3, Zenon
  <2>. QED  BY <2>2, <2>3, Zenon
<1>7. Listed' = {slots'[j] : j \in DOMAIN slots'}
  BY Zenon DEF Listed
<1>. QED  BY <1>3, <1>5, <1>6, <1>7, Zenon

-----------------------------------------------------------------------------
(* The condition variable. *)

\* While the worker sleeps nobody works, so that nobody else waits.
LEMMA WorkerSleepsAlone ==
    ASSUME MaintenanceInv, "worker" \in sleeping
    PROVE  sleeping = {"worker"}
<1>1. worker.slot = None /\ active = {} /\ ~Pending
  BY NoneAssumption, Zenon DEF MaintenanceInv, WorkerInv, NoLostWakeup, Working
<1>2. Quiet
  BY <1>1, Zenon DEF Quiet
<1>3. "sync" \notin sleeping /\ Wallets \cap sleeping = {}
  BY <1>1, <1>2, Zenon DEF MaintenanceInv, NoLostWakeup
<1>4. sleeping \subseteq {"worker", "sync"} \cup Wallets
  BY Zenon DEF MaintenanceInv, MaintenanceTypeOK
<1>. QED  BY <1>3, <1>4, Zenon

\* The notify_one of Register and of a request reaches the worker if it sleeps.
LEMMA NotifyOneReaches ==
    ASSUME MaintenanceInv, NotifyOne
    PROVE  sleeping' \subseteq sleeping /\ "worker" \notin sleeping'
  BY WorkerSleepsAlone, Zenon DEF NotifyOne

-----------------------------------------------------------------------------
(* The invariant. *)

LEMMA InitMaintenance == MaintenanceInit => MaintenanceInv
<1>. SUFFICES ASSUME MaintenanceInit PROVE MaintenanceInv
  BY Zenon
<1>. USE DEF MaintenanceInit
<1>1. Listed = {} /\ ~Pending
  BY DEF Listed, Pending
<1>2. MaintenanceTypeOK
  <2>1. slots \in Seq(Wallets) /\ DOMAIN slots = {}
    OBVIOUS
  <2>2. unloading \in [Wallets -> {"no", "cancel", "drain", "done"}]
    BY Zenon
  <2>. QED  BY <2>1, <2>2, Zenon DEF MaintenanceTypeOK, Idle
<1>3. WorkerInv /\ StopInv
  BY <1>1, NoneAssumption, Zenon DEF WorkerInv, StopInv, Idle, Working
<1>4. SlotInv
  BY <1>1, Zenon DEF SlotInv
<1>5. NoLostWakeup
  BY Zenon DEF NoLostWakeup
<1>. QED  BY <1>2, <1>3, <1>4, <1>5, Zenon DEF MaintenanceInv

\* The steps of the worker within a pass, and where they may lead.
Stage == WorkerBegins \/ WorkerRepaired \/ WorkerResolved \/ WorkerRelayed

LEMMA StageWorks ==
    ASSUME MaintenanceInv, Stage
    PROVE  /\ worker.at \in Working /\ worker'.at \in Working
           /\ worker' = [worker EXCEPT !.at = worker'.at]
           /\ worker'.slot = worker.slot
           /\ worker' \in [at : {"none", "loop", "begin", "repair", "resolve", "relay", "finish", "exited"},
                           slot : Wallets \cup {None}, resolve : BOOLEAN, relay : BOOLEAN]
           /\ UNCHANGED <<slots, slotVars, walletVars, stopping, running, sleeping, copied, unloading, sync, stop>>
<1>1. PICK place \in Working : Go(place)
  BY Zenon DEF Stage, WorkerBegins, WorkerRepaired, WorkerResolved, WorkerRelayed, Relaying, Pass, Ends, Working
<1>2. worker.at \in Working
  BY Zenon DEF Stage, WorkerBegins, WorkerRepaired, WorkerResolved, WorkerRelayed, Relaying, Pass, Ends, At, Working
<1>3. worker' = [worker EXCEPT !.at = place] /\ worker'.at = place
  BY <1>1, Zenon DEF Go, MaintenanceInv, MaintenanceTypeOK
<1>4. UNCHANGED <<slots, slotVars, walletVars, stopping, running, sleeping, copied, unloading, sync, stop>>
  BY Zenon DEF Stage, WorkerBegins, WorkerRepaired, WorkerResolved, WorkerRelayed, Relaying, Pass, Ends
<1>. QED  BY <1>1, <1>2, <1>3, <1>4, Zenon DEF MaintenanceInv, MaintenanceTypeOK, Working

\* A step of the worker that leaves the list alone.
LEMMA StageIInv ==
    ASSUME MaintenanceInv, Stage
    PROVE  MaintenanceInv'
<1>. USE StageWorks DEF slotVars, walletVars
<1>1. Listed' = Listed /\ Pending' = Pending
  BY DEF Listed, Pending, Waiting
<1>2. Quiet' = Quiet
  BY <1>1 DEF Quiet
<1>3. MaintenanceTypeOK'
  BY DEF MaintenanceInv, MaintenanceTypeOK
<1>4. WorkerInv'
  BY Zenon DEF MaintenanceInv, WorkerInv, Working
<1>5. SlotInv' /\ StopInv' /\ NoLostWakeup'
  BY <1>1, <1>2 DEF MaintenanceInv, SlotInv, StopInv, NoLostWakeup, Working
<1>. QED  BY <1>3, <1>4, <1>5, Zenon DEF MaintenanceInv

\* The worker goes to sleep with nothing pending and nothing active.
LEMMA WaitsIInv ==
    ASSUME MaintenanceInv, WorkerWaits
    PROVE  MaintenanceInv'
<1>. USE DEF WorkerWaits, slotVars, walletVars
<1>1. Listed' = Listed /\ Pending' = Pending
  BY Zenon DEF Listed, Pending, Waiting
<1>2. Quiet' = Quiet
  BY <1>1, Zenon DEF Quiet
<1>3. MaintenanceTypeOK'
  BY DEF MaintenanceInv, MaintenanceTypeOK
<1>4. WorkerInv'
  BY Zenon DEF MaintenanceInv, WorkerInv, At
<1>5. SlotInv' /\ StopInv'
  BY <1>1, Zenon DEF MaintenanceInv, SlotInv, StopInv
<1>6. NoLostWakeup'
  BY <1>1, <1>2, NoneAssumption, Zenon DEF MaintenanceInv, NoLostWakeup
<1>. QED  BY <1>3, <1>4, <1>5, <1>6, Zenon DEF MaintenanceInv

\* The slot that is taken becomes the active one; a thread in Sync has reason to go on waiting.
LEMMA TakesIInv ==
    ASSUME MaintenanceInv, WorkerTakes
    PROVE  MaintenanceInv'
<1>1. PICK i \in DOMAIN slots :
        /\ IsNext(i)
        /\ slots' = Append(Without(i), slots[i])
        /\ worker' = [at |-> "begin", slot |-> slots[i], resolve |-> slots[i] \in resolve, relay |-> slots[i] \in relay]
        /\ pending' = pending \ {slots[i]}
        /\ resolve' = resolve \ {slots[i]}
        /\ relay' = relay \ {slots[i]}
        /\ active' = active \cup {slots[i]}
  BY Zenon DEF WorkerTakes
<1>2. /\ UNCHANGED <<cancelled, attached, unregistered, stopping, running, sleeping, copied, unloading, sync, stop>>
      /\ worker.at = "loop" /\ "worker" \notin sleeping /\ ~stopping
  BY Zenon DEF WorkerTakes, At, Awake, walletVars
<1>3. /\ slots' \in Seq(Wallets)
      /\ \A j, k \in DOMAIN slots' : slots'[j] = slots'[k] => j = k
      /\ Listed' = Listed
  BY <1>1, RotationIsListed, Zenon DEF MaintenanceInv, MaintenanceTypeOK
<1>. DEFINE w == slots[i]
<1>4. w \in Wallets /\ w \in Listed
  BY <1>1 DEF MaintenanceInv, MaintenanceTypeOK, Listed
<1>5. active = {} /\ worker'.slot = w /\ worker'.at = "begin" /\ active' = {w}
  <2>1. active = {}
    BY <1>2, NoneAssumption, Zenon DEF MaintenanceInv, WorkerInv, Working
  <2>. QED  BY <1>1, <2>1, Zenon
<1>6. worker' \in [at : {"none", "loop", "begin", "repair", "resolve", "relay", "finish", "exited"},
                   slot : Wallets \cup {None}, resolve : BOOLEAN, relay : BOOLEAN]
  BY <1>1, <1>4
<1>7. MaintenanceTypeOK'
  <2>1. pending' \subseteq Wallets /\ resolve' \subseteq Wallets /\ relay' \subseteq Wallets /\ active' \subseteq Wallets
    BY <1>1, <1>4, <1>5, Zenon DEF MaintenanceInv, MaintenanceTypeOK
  <2>. QED  BY <1>2, <1>3, <1>6, <2>1, Zenon DEF MaintenanceInv, MaintenanceTypeOK
<1>. HIDE DEF w
<1>8. WorkerInv'
  BY <1>2, <1>4, <1>5, NoneAssumption, Zenon DEF MaintenanceInv, WorkerInv, Working
<1>9. SlotInv'
  BY <1>2, <1>3, <1>4, <1>5, Zenon DEF MaintenanceInv, SlotInv
<1>10. StopInv'
  BY <1>2, <1>5, Zenon DEF MaintenanceInv, StopInv
<1>11. NoLostWakeup'
  <2>1. ~Quiet'
    BY <1>3, <1>4, <1>5, Zenon DEF Quiet
  <2>. QED  BY <1>2, <1>5, <2>1, Zenon DEF MaintenanceInv, NoLostWakeup
<1>. QED  BY <1>7, <1>8, <1>9, <1>10, <1>11, Zenon DEF MaintenanceInv

\* The end of a pass wakes everyone.
LEMMA FinishesIInv ==
    ASSUME MaintenanceInv, WorkerFinishes
    PROVE  MaintenanceInv'
<1>. USE DEF WorkerFinishes, walletVars, NotifyAll
<1>1. Listed' = Listed /\ Pending' = Pending
  BY Zenon DEF Listed, Pending, Waiting
<1>2. /\ worker' \in [at : {"none", "loop", "begin", "repair", "resolve", "relay", "finish", "exited"},
                      slot : Wallets \cup {None}, resolve : BOOLEAN, relay : BOOLEAN]
      /\ worker'.at = "loop" /\ worker'.slot = None
  BY Zenon DEF Idle
<1>3. MaintenanceTypeOK'
  BY <1>2, Zenon DEF MaintenanceInv, MaintenanceTypeOK
<1>4. WorkerInv'
  BY <1>2, NoneAssumption DEF MaintenanceInv, WorkerInv, Working, At
<1>5. SlotInv' /\ StopInv' /\ NoLostWakeup'
  BY <1>1, <1>2, Zenon DEF MaintenanceInv, SlotInv, StopInv, NoLostWakeup, At
<1>. QED  BY <1>3, <1>4, <1>5, Zenon DEF MaintenanceInv

\* So does the end of the worker.
LEMMA ExitsIInv ==
    ASSUME MaintenanceInv, WorkerExits
    PROVE  MaintenanceInv'
<1>. USE DEF WorkerExits, slotVars, walletVars, NotifyAll, Go, At
<1>1. Listed' = Listed /\ Pending' = Pending
  BY Zenon DEF Listed, Pending, Waiting
<1>2. /\ worker' \in [at : {"none", "loop", "begin", "repair", "resolve", "relay", "finish", "exited"},
                      slot : Wallets \cup {None}, resolve : BOOLEAN, relay : BOOLEAN]
      /\ worker'.at = "exited" /\ worker'.slot = worker.slot
  BY Zenon DEF MaintenanceInv, MaintenanceTypeOK
<1>3. MaintenanceTypeOK'
  BY <1>2, Zenon DEF MaintenanceInv, MaintenanceTypeOK
<1>4. WorkerInv'
  BY <1>2, Zenon DEF MaintenanceInv, WorkerInv, Working
<1>5. SlotInv' /\ StopInv' /\ NoLostWakeup'
  BY <1>1, <1>2, Zenon DEF MaintenanceInv, SlotInv, StopInv, NoLostWakeup
<1>. QED  BY <1>3, <1>4, <1>5, Zenon DEF MaintenanceInv

\* The worker starts; a thread in Sync cannot be waiting before.
LEMMA StartIInv ==
    ASSUME MaintenanceInv, StartExecutor
    PROVE  MaintenanceInv'
<1>. USE DEF StartExecutor, slotVars, walletVars
<1>1. Listed' = Listed /\ Pending' = Pending
  BY Zenon DEF Listed, Pending, Waiting
<1>2. /\ worker' \in [at : {"none", "loop", "begin", "repair", "resolve", "relay", "finish", "exited"},
                      slot : Wallets \cup {None}, resolve : BOOLEAN, relay : BOOLEAN]
      /\ worker'.at = "loop" /\ worker'.slot = None
  BY Zenon DEF Idle
<1>3. MaintenanceTypeOK'
  BY <1>2, Zenon DEF MaintenanceInv, MaintenanceTypeOK
<1>4. worker.slot = None /\ active = {} /\ ~running
  BY NoneAssumption, Zenon DEF MaintenanceInv, WorkerInv, Working
<1>5. Quiet
  BY <1>4, Zenon DEF Quiet
<1>6. WorkerInv'
  BY <1>2, <1>4, NoneAssumption, Zenon DEF MaintenanceInv, WorkerInv, Working
<1>7. SlotInv' /\ StopInv' /\ NoLostWakeup'
  BY <1>1, <1>2, <1>4, <1>5, Zenon DEF MaintenanceInv, SlotInv, StopInv, NoLostWakeup
<1>. QED  BY <1>3, <1>6, <1>7, Zenon DEF MaintenanceInv

\* A wallet that is registered was not in the list; the worker is woken for it.
LEMMA RegisterIInv ==
    ASSUME MaintenanceInv, NEW w \in Wallets, Register(w)
    PROVE  MaintenanceInv'
<1>1. /\ w \notin attached /\ w \notin unregistered /\ ~stopping
      /\ slots' = Append(slots, w)
      /\ attached' = attached \cup {w} /\ pending' = pending \cup {w}
      /\ UNCHANGED <<resolve, relay, active, cancelled, unregistered, stopping, running, worker, copied, unloading, sync, stop>>
  BY Zenon DEF Register
<1>2. sleeping' \subseteq sleeping /\ "worker" \notin sleeping'
  BY NotifyOneReaches, Zenon DEF Register
<1>3. w \notin Listed
  BY <1>1, Zenon DEF MaintenanceInv, SlotInv
<1>4. /\ slots' \in Seq(Wallets)
      /\ \A j, k \in DOMAIN slots' : slots'[j] = slots'[k] => j = k
      /\ Listed' = Listed \cup {w}
  <2>1. /\ Append(slots, w) \in Seq(Wallets)
        /\ \A i, j \in DOMAIN Append(slots, w) : Append(slots, w)[i] = Append(slots, w)[j] => i = j
        /\ {Append(slots, w)[j] : j \in DOMAIN Append(slots, w)} = {slots[j] : j \in DOMAIN slots} \cup {w}
    <3>1. slots \in Seq(Wallets) /\ (\A i, j \in DOMAIN slots : slots[i] = slots[j] => i = j)
      BY Zenon DEF MaintenanceInv, MaintenanceTypeOK
    <3>2. w \notin {slots[j] : j \in DOMAIN slots}
      BY <1>3, Zenon DEF Listed
    <3>. QED  BY <3>1, <3>2, AppendIsListed, Zenon
  <2>2. Listed' = {slots'[j] : j \in DOMAIN slots'}
    BY Zenon DEF Listed
  <2>3. {slots'[j] : j \in DOMAIN slots'} = {slots[j] : j \in DOMAIN slots} \cup {w}
    BY <1>1, <2>1, Zenon
  <2>. QED  BY <1>1, <2>1, <2>2, <2>3, Zenon DEF Listed
<1>5. Pending => Pending'
  BY <1>1, <1>4, Zenon DEF Pending, Waiting
<1>6. ~Quiet => ~Quiet'
  BY <1>1, <1>4, <1>5, Zenon DEF Quiet
<1>7. MaintenanceTypeOK'
  BY <1>1, <1>2, <1>4 DEF MaintenanceInv, MaintenanceTypeOK
<1>8. WorkerInv'
  BY <1>1, <1>2, Zenon DEF MaintenanceInv, WorkerInv
<1>9. SlotInv'
  BY <1>1, <1>4, Zenon DEF MaintenanceInv, SlotInv
<1>10. StopInv' /\ NoLostWakeup'
  BY <1>1, <1>2, <1>6, Zenon DEF MaintenanceInv, StopInv, NoLostWakeup
<1>. QED  BY <1>7, <1>8, <1>9, <1>10, Zenon DEF MaintenanceInv

\* Reading the slot changes nothing that anybody waits for.
LEMMA ReadsIInv ==
    ASSUME MaintenanceInv, NEW w \in Wallets, RequestClaimMaintenance(w)
    PROVE  MaintenanceInv'
<1>. USE DEF RequestClaimMaintenance, slotVars, walletVars
<1>1. Listed' = Listed /\ Pending' = Pending
  BY Zenon DEF Listed, Pending, Waiting
<1>2. Quiet' = Quiet
  BY <1>1, Zenon DEF Quiet
<1>3. MaintenanceTypeOK'
  BY DEF MaintenanceInv, MaintenanceTypeOK
<1>4. WorkerInv' /\ SlotInv' /\ StopInv' /\ NoLostWakeup'
  BY <1>1, <1>2, Zenon DEF MaintenanceInv, WorkerInv, SlotInv, StopInv, NoLostWakeup
<1>. QED  BY <1>3, <1>4, Zenon DEF MaintenanceInv

\* A request of a slot that was read before it was cancelled has no effect; any other wakes the
\* worker.
LEMMA RequestIInv ==
    ASSUME MaintenanceInv, NEW w \in Wallets, RequestWalletClaimMaintenance(w)
    PROVE  MaintenanceInv'
<1>1. /\ copied' \subseteq copied
      /\ UNCHANGED <<slots, active, cancelled, attached, unregistered, stopping, running, worker, unloading, sync, stop>>
  BY Zenon DEF RequestWalletClaimMaintenance, walletVars
<1>2. Listed' = Listed
  BY <1>1, Zenon DEF Listed
<1>3. CASE Cancelled(w)
  <2>1. UNCHANGED <<pending, resolve, relay, sleeping>>
    BY <1>3, Zenon DEF RequestWalletClaimMaintenance
  <2>2. Pending' = Pending /\ Quiet' = Quiet
    BY <1>1, <1>2, <2>1, Zenon DEF Pending, Waiting, Quiet
  <2>3. MaintenanceTypeOK'
    BY <1>1, <2>1 DEF MaintenanceInv, MaintenanceTypeOK
  <2>4. WorkerInv' /\ SlotInv' /\ StopInv' /\ NoLostWakeup'
    BY <1>1, <1>2, <2>1, <2>2, Zenon DEF MaintenanceInv, WorkerInv, SlotInv, StopInv, NoLostWakeup
  <2>. QED  BY <2>3, <2>4, Zenon DEF MaintenanceInv
<1>4. CASE ~Cancelled(w)
  <2>1. /\ pending' = pending \cup {w} /\ NotifyOne /\ ~stopping
        /\ resolve' \subseteq resolve \cup {w} /\ relay' \subseteq relay \cup {w}
    BY <1>4, Zenon DEF RequestWalletClaimMaintenance, Cancelled
  <2>2. sleeping' \subseteq sleeping /\ "worker" \notin sleeping'
    BY <2>1, NotifyOneReaches, Zenon
  <2>3. ~Quiet => ~Quiet'
    BY <1>1, <1>2, <2>1, Zenon DEF Pending, Waiting, Quiet
  <2>4. MaintenanceTypeOK'
    BY <1>1, <2>1, <2>2 DEF MaintenanceInv, MaintenanceTypeOK
  <2>5. WorkerInv' /\ SlotInv' /\ StopInv' /\ NoLostWakeup'
    BY <1>1, <1>2, <2>1, <2>2, <2>3, Zenon DEF MaintenanceInv, WorkerInv, SlotInv, StopInv, NoLostWakeup
  <2>. QED  BY <2>4, <2>5, Zenon DEF MaintenanceInv
<1>. QED  BY <1>3, <1>4, Zenon

\* A wallet that is not attached is not in the list either.
LEMMA UnregisterIInv ==
    ASSUME MaintenanceInv, NEW w \in Wallets, Unregister(w)
    PROVE  MaintenanceInv'
<1>1. /\ unloading[w] = "no"
      /\ unregistered' = unregistered \cup {w} /\ attached' = attached \ {w}
      /\ unloading' = [unloading EXCEPT ![w] = IF w \in attached THEN "cancel" ELSE "done"]
      /\ UNCHANGED <<slots, pending, resolve, relay, active, cancelled, stopping, running, worker, sleeping, copied, sync, stop>>
  BY Zenon DEF Unregister, slotVars
<1>2. Listed' = Listed /\ Pending' = Pending
  BY <1>1, Zenon DEF Listed, Pending, Waiting
<1>3. Quiet' = Quiet
  BY <1>1, <1>2, Zenon DEF Quiet
<1>4. MaintenanceTypeOK'
  <2>1. unloading' \in [Wallets -> {"no", "cancel", "drain", "done"}]
    BY <1>1, Zenon DEF MaintenanceInv, MaintenanceTypeOK
  <2>. QED  BY <1>1, <2>1 DEF MaintenanceInv, MaintenanceTypeOK
<1>5. \A v \in Wallets : unloading'[v] = IF v = w THEN IF w \in attached THEN "cancel" ELSE "done" ELSE unloading[v]
  BY <1>1, Zenon DEF MaintenanceInv, MaintenanceTypeOK
<1>6. SlotInv'
  <2>1. ASSUME NEW v \in Wallets
        PROVE  v \in Listed' <=> v \in attached' \/ unloading'[v] \in {"cancel", "drain"}
    BY <1>1, <1>2, <1>5 DEF MaintenanceInv, SlotInv
  <2>2. Listed' \subseteq Wallets /\ attached' \subseteq Wallets
    BY <1>1, <1>2, Zenon DEF MaintenanceInv, SlotInv, MaintenanceTypeOK
  <2>3. Listed' = attached' \cup {v \in Wallets : unloading'[v] \in {"cancel", "drain"}}
    BY <2>1, <2>2, Zenon
  <2>4. /\ \A v \in attached' : unloading'[v] = "no"
        /\ \A v \in Wallets : v \in unregistered' <=> unloading'[v] # "no"
        /\ active' \subseteq Listed'
    BY <1>1, <1>2, <1>5, Zenon DEF MaintenanceInv, SlotInv, MaintenanceTypeOK
  <2>. QED  BY <2>3, <2>4, Zenon DEF SlotInv
<1>7. WorkerInv' /\ StopInv' /\ NoLostWakeup'
  BY <1>1, <1>2, <1>3, Zenon DEF MaintenanceInv, WorkerInv, StopInv, NoLostWakeup
<1>. QED  BY <1>4, <1>6, <1>7, Zenon DEF MaintenanceInv

\* A slot that nobody works on leaves the list, and everyone is woken.
LEMMA DrainIInv ==
    ASSUME MaintenanceInv, NEW w \in Wallets, unloading[w] \in {"cancel", "drain"}, Drain(w),
           pending' \subseteq pending, cancelled \subseteq cancelled', cancelled' \subseteq Wallets,
           UNCHANGED <<resolve, relay, active, attached, unregistered, stopping, running, worker, copied, sync, stop>>
    PROVE  MaintenanceInv'
<1>1. PICK i \in DOMAIN slots : slots[i] = w /\ slots' = Without(i)
  BY Zenon DEF Drain
<1>2. /\ w \notin active /\ sleeping' = {}
      /\ unloading' = [unloading EXCEPT ![w] = "done"]
  BY Zenon DEF Drain, NotifyAll
<1>3. /\ slots' \in Seq(Wallets)
      /\ \A j, k \in DOMAIN slots' : slots'[j] = slots'[k] => j = k
      /\ {slots'[j] : j \in DOMAIN slots'} = Listed \ {w}
  <2>1. /\ Without(i) \in Seq(Wallets)
        /\ \A j, k \in DOMAIN Without(i) : Without(i)[j] = Without(i)[k] => j = k
        /\ {Without(i)[j] : j \in DOMAIN Without(i)} = Listed \ {slots[i]}
    BY WithoutIsListed, Zenon DEF MaintenanceInv, MaintenanceTypeOK
  <2>. QED  BY <1>1, <2>1
<1>4. Listed' = Listed \ {w}
  BY <1>3, Zenon DEF Listed
<1>5. ~Pending => ~Pending'
  BY <1>4, Zenon DEF Pending, Waiting
<1>6. MaintenanceTypeOK'
  <2>1. unloading' \in [Wallets -> {"no", "cancel", "drain", "done"}]
    BY <1>2, Zenon DEF MaintenanceInv, MaintenanceTypeOK
  <2>. QED  BY <1>2, <1>3, <2>1 DEF MaintenanceInv, MaintenanceTypeOK
<1>7. \A v \in Wallets : unloading'[v] = IF v = w THEN "done" ELSE unloading[v]
  BY <1>2, Zenon DEF MaintenanceInv, MaintenanceTypeOK
<1>8. SlotInv'
  <2>1. ASSUME NEW v \in Wallets
        PROVE  v \in Listed' <=> v \in attached' \/ unloading'[v] \in {"cancel", "drain"}
    BY <1>4, <1>7, Zenon DEF MaintenanceInv, SlotInv
  <2>2. Listed' \subseteq Wallets /\ attached' \subseteq Wallets
    BY <1>4, Zenon DEF MaintenanceInv, SlotInv, MaintenanceTypeOK
  <2>3. Listed' = attached' \cup {v \in Wallets : unloading'[v] \in {"cancel", "drain"}}
    BY <2>1, <2>2, Zenon
  <2>4. /\ \A v \in attached' : unloading'[v] = "no"
        /\ \A v \in Wallets : v \in unregistered' <=> unloading'[v] # "no"
        /\ active' \subseteq Listed'
    BY <1>2, <1>4, <1>7 DEF MaintenanceInv, SlotInv, MaintenanceTypeOK
  <2>. QED  BY <2>3, <2>4, Zenon DEF SlotInv
<1>9. WorkerInv' /\ StopInv' /\ NoLostWakeup'
  BY <1>2, <1>5, Zenon DEF MaintenanceInv, WorkerInv, StopInv, NoLostWakeup
<1>. QED  BY <1>6, <1>8, <1>9, Zenon DEF MaintenanceInv

\* The thread that unloads a wallet waits for the pass that works on it.
LEMMA SleepIInv ==
    ASSUME MaintenanceInv, NEW w \in Wallets, unloading[w] \in {"cancel", "drain"}, NEW others, Sleep(w, others),
           others = {} \/ (others = sleeping /\ UNCHANGED <<pending, cancelled>>),
           pending' \subseteq pending, cancelled \subseteq cancelled', cancelled' \subseteq Wallets,
           UNCHANGED <<resolve, relay, active, attached, unregistered, stopping, running, worker, copied, sync, stop>>
    PROVE  MaintenanceInv'
<1>1. /\ w \in active /\ sleeping' = others \cup {w} /\ slots' = slots
      /\ unloading' = [unloading EXCEPT ![w] = "drain"]
  BY Zenon DEF Sleep
<1>2. Listed' = Listed
  BY <1>1, Zenon DEF Listed
<1>3. ~Pending => ~Pending'
  BY <1>2, Zenon DEF Pending, Waiting
<1>4. \A v \in Wallets : unloading'[v] = IF v = w THEN "drain" ELSE unloading[v]
  BY <1>1, Zenon DEF MaintenanceInv, MaintenanceTypeOK
<1>5. MaintenanceTypeOK'
  <2>1. unloading' \in [Wallets -> {"no", "cancel", "drain", "done"}]
    BY <1>1, Zenon DEF MaintenanceInv, MaintenanceTypeOK
  <2>2. sleeping' \subseteq {"worker", "sync"} \cup Wallets
    BY <1>1, Zenon DEF MaintenanceInv, MaintenanceTypeOK
  <2>. QED  BY <1>1, <2>1, <2>2 DEF MaintenanceInv, MaintenanceTypeOK
<1>6. SlotInv'
  <2>1. ASSUME NEW v \in Wallets
        PROVE  unloading'[v] \in {"cancel", "drain"} <=> unloading[v] \in {"cancel", "drain"}
    BY <1>4, Zenon
  <2>2. {v \in Wallets : unloading'[v] \in {"cancel", "drain"}} = {v \in Wallets : unloading[v] \in {"cancel", "drain"}}
    BY <2>1, Zenon
  <2>3. /\ \A v \in attached : unloading'[v] = "no"
        /\ \A v \in Wallets : v \in unregistered <=> unloading'[v] # "no"
    BY <1>4, Zenon DEF MaintenanceInv, SlotInv, MaintenanceTypeOK
  <2>. QED  BY <1>2, <2>2, <2>3, Zenon DEF MaintenanceInv, SlotInv
<1>7. "worker" \notin sleeping'
  <2>1. "worker" \notin sleeping
    BY <1>1, NoneAssumption, Zenon DEF MaintenanceInv, WorkerInv, Working
  <2>. QED  BY <1>1, <2>1, NoneAssumption, Zenon
<1>8. WorkerInv' /\ StopInv'
  BY <1>3, <1>7, Zenon DEF MaintenanceInv, WorkerInv, StopInv
<1>9. NoLostWakeup'
  <2>1. w \in Listed'
    BY <1>1, <1>2, Zenon DEF MaintenanceInv, SlotInv
  <2>2. ~Quiet'
    BY <1>1, <2>1, Zenon DEF Quiet
  <2>. QED  BY <1>1, <1>7, <2>2, Zenon DEF MaintenanceInv, NoLostWakeup
<1>. QED  BY <1>5, <1>6, <1>8, <1>9, Zenon DEF MaintenanceInv

\* The two critical sections of Unregister.
LEMMA UnloadIInv ==
    ASSUME MaintenanceInv, NEW w \in Wallets, Unload(w)
    PROVE  MaintenanceInv'
<1>1. CASE UnregisterCancels(w)
  <2>1. /\ unloading[w] \in {"cancel", "drain"}
        /\ pending' \subseteq pending /\ cancelled \subseteq cancelled' /\ cancelled' \subseteq Wallets
        /\ UNCHANGED <<resolve, relay, active, attached, unregistered, stopping, running, worker, copied, sync, stop>>
        /\ Drain(w) \/ Sleep(w, {})
    BY <1>1, Zenon DEF UnregisterCancels, walletVars, MaintenanceInv, MaintenanceTypeOK
  <2>. QED  BY <2>1, DrainIInv, SleepIInv, Zenon
<1>2. CASE UnregisterDrains(w)
  <2>1. /\ unloading[w] \in {"cancel", "drain"}
        /\ pending' \subseteq pending /\ cancelled \subseteq cancelled' /\ cancelled' \subseteq Wallets
        /\ UNCHANGED <<pending, cancelled>>
        /\ UNCHANGED <<resolve, relay, active, attached, unregistered, stopping, running, worker, copied, sync, stop>>
        /\ Drain(w) \/ Sleep(w, sleeping)
    BY <1>2, Zenon DEF UnregisterDrains, slotVars, walletVars, MaintenanceInv, MaintenanceTypeOK
  <2>. QED  BY <2>1, DrainIInv, SleepIInv, Zenon
<1>. QED  BY <1>1, <1>2, Zenon DEF Unload

\* Stop leaves nothing pending in the list, and everyone is woken.
LEMMA StopIInv ==
    ASSUME MaintenanceInv, Stop
    PROVE  MaintenanceInv'
<1>. USE DEF Stop, walletVars, NotifyAll
<1>1. Listed' = Listed
  BY Zenon DEF Listed
<1>2. ~Pending'
  BY <1>1, Zenon DEF Pending, Waiting
<1>3. Listed \subseteq Wallets
  BY Zenon DEF MaintenanceInv, SlotInv, MaintenanceTypeOK
<1>4. MaintenanceTypeOK'
  BY <1>3 DEF MaintenanceInv, MaintenanceTypeOK
<1>5. WorkerInv' /\ SlotInv' /\ NoLostWakeup'
  BY <1>1, Zenon DEF MaintenanceInv, WorkerInv, SlotInv, NoLostWakeup
<1>6. StopInv'
  BY <1>2, Zenon DEF MaintenanceInv, StopInv
<1>. QED  BY <1>4, <1>5, <1>6, Zenon DEF MaintenanceInv

\* The steps of Stop and Sync that leave the slots alone.
LEMMA WaitersIInv ==
    ASSUME MaintenanceInv, StopJoins \/ SyncWaits \/ SyncReturns \/ SpuriousWakeup
    PROVE  MaintenanceInv'
<1>1. UNCHANGED <<slots, pending, resolve, relay, active, cancelled, attached, unregistered, stopping, running, worker, copied, unloading>>
  BY Zenon DEF StopJoins, SyncWaits, SyncReturns, SpuriousWakeup, slotVars, walletVars
<1>2. Listed' = Listed /\ Pending' = Pending
  BY <1>1, Zenon DEF Listed, Pending, Waiting
<1>3. Quiet' = Quiet
  BY <1>1, <1>2, Zenon DEF Quiet
<1>4. sleeping' \subseteq sleeping \/ (sleeping' = sleeping \cup {"sync"} /\ ~Quiet)
  BY Zenon DEF StopJoins, SyncWaits, SyncReturns, SpuriousWakeup
<1>5. stop' = stop \/ (stop = "joining" /\ stop' = "done" /\ worker.at = "exited")
  BY Zenon DEF StopJoins, SyncWaits, SyncReturns, SpuriousWakeup
<1>6. MaintenanceTypeOK'
  <2>1. sync' \in {"idle", "waiting"}
    BY Zenon DEF MaintenanceInv, MaintenanceTypeOK, StopJoins, SyncWaits, SyncReturns, SpuriousWakeup
  <2>2. sleeping' \subseteq {"worker", "sync"} \cup Wallets
    BY <1>4, Zenon DEF MaintenanceInv, MaintenanceTypeOK
  <2>3. stop' \in {"idle", "joining", "done"}
    BY <1>5, Zenon DEF MaintenanceInv, MaintenanceTypeOK
  <2>. QED  BY <1>1, <2>1, <2>2, <2>3 DEF MaintenanceInv, MaintenanceTypeOK
<1>7. WorkerInv' /\ SlotInv'
  BY <1>1, <1>2, <1>4, Zenon DEF MaintenanceInv, WorkerInv, SlotInv
<1>8. StopInv'
  BY <1>1, <1>2, <1>5, Zenon DEF MaintenanceInv, StopInv
<1>9. NoLostWakeup'
  BY <1>1, <1>2, <1>3, <1>4, NoneAssumption, Zenon DEF MaintenanceInv, NoLostWakeup
<1>. QED  BY <1>6, <1>7, <1>8, <1>9, Zenon DEF MaintenanceInv

LEMMA NextMaintenance == MaintenanceInv /\ [MaintenanceNext]_maintenanceVars => MaintenanceInv'
<1>. SUFFICES ASSUME MaintenanceInv, [MaintenanceNext]_maintenanceVars PROVE MaintenanceInv'
  BY Zenon
<1>1. CASE Worker
  BY <1>1, StageIInv, WaitsIInv, TakesIInv, FinishesIInv, ExitsIInv, Zenon DEF Worker, Stage
<1>2. CASE StartExecutor \/ Stop
  BY <1>2, StartIInv, StopIInv, Zenon
<1>3. CASE StopJoins \/ SyncWaits \/ SyncReturns \/ SpuriousWakeup
  BY <1>3, WaitersIInv, Zenon
<1>4. CASE \E w \in Wallets : Register(w) \/ Request(w) \/ Unregister(w) \/ Unload(w)
  BY <1>4, RegisterIInv, ReadsIInv, RequestIInv, UnregisterIInv, UnloadIInv, Zenon DEF Request
<1>5. CASE UNCHANGED maintenanceVars
  <2>. USE <1>5 DEF maintenanceVars, slotVars, walletVars
  <2>1. Listed' = Listed /\ Pending' = Pending
    BY Zenon DEF Listed, Pending, Waiting
  <2>2. Quiet' = Quiet
    BY <2>1, Zenon DEF Quiet
  <2>3. MaintenanceTypeOK'
    BY DEF MaintenanceInv, MaintenanceTypeOK
  <2>. QED  BY <2>1, <2>2, <2>3, Zenon DEF MaintenanceInv, WorkerInv, SlotInv, StopInv, NoLostWakeup
<1>. QED  BY <1>1, <1>2, <1>3, <1>4, <1>5, Zenon DEF MaintenanceNext

LEMMA Invariance == MaintenanceSpec => []MaintenanceInv
  BY InitMaintenance, NextMaintenance, PTL DEF MaintenanceSpec

-----------------------------------------------------------------------------
(* The theorems. *)

\* Type correctness of the executor.
THEOREM TypeCorrect == MaintenanceSpec => []MaintenanceTypeOK
<1>1. MaintenanceInv => MaintenanceTypeOK
  BY Zenon DEF MaintenanceInv
<1>. QED  BY <1>1, Invariance, PTL

\* No thread of the executor sleeps while what it waits for holds, although Register and
\* RequestWalletClaimMaintenance notify only one of the threads that share the condition variable.
THEOREM WakeupsArrive == MaintenanceSpec => []NoLostWakeup
<1>1. MaintenanceInv => NoLostWakeup
  BY Zenon DEF MaintenanceInv
<1>. QED  BY <1>1, Invariance, PTL

\* When Unregister returns, the pass of the wallet is over and no slot is left for another.
THEOREM UnloadIsSafe == MaintenanceSpec => []DrainedBeforeUnload
<1>1. MaintenanceInv => DrainedBeforeUnload
  <2>. SUFFICES ASSUME MaintenanceInv, NEW w \in Wallets, unloading[w] = "done"
                PROVE  worker.slot # w /\ w \notin Listed \cap pending
    BY Zenon DEF DrainedBeforeUnload
  <2>1. w \notin Listed
    BY Zenon DEF MaintenanceInv, SlotInv
  <2>2. w \notin active
    BY <2>1, Zenon DEF MaintenanceInv, SlotInv
  <2>. QED  BY <2>1, <2>2, Zenon DEF MaintenanceInv, WorkerInv
<1>. QED  BY <1>1, Invariance, PTL

\* When Stop returns, the worker has left its loop and no slot is active.
THEOREM StopIsSafe == MaintenanceSpec => []NothingAfterStop
<1>1. MaintenanceInv => NothingAfterStop
  BY NoneAssumption, Zenon DEF MaintenanceInv, StopInv, WorkerInv, Working, NothingAfterStop
<1>. QED  BY <1>1, Invariance, PTL

-----------------------------------------------------------------------------
(* The coins database.  While DB_HEAD_BLOCKS stands in it every coin is that of the old or that of   *)
(* the new tip (Mixed).  The replay narrows this: after going back to a block every coin is that of  *)
(* this block or of the new tip, since the step rewrites exactly the coins on which the block and    *)
(* its parent differ; going forward keeps it, and at the new tip both agree.  A second crash leaves  *)
(* coins that are again a mix of the two tips, because the replay's own flush keeps the old tip in   *)
(* its heads.                                                                                        *)

Mixed(v, a, b) == \A o \in Outpoints : v[o] = StateOf(a)[o] \/ v[o] = StateOf(b)[o]

\* The ancestors of a known block are known.
Closed(B) == \A b \in B : Parent[b] \in B \cup {Null}

Disk ==
    /\ Closed(index)
    /\ heads = <<>> => db = StateOf(best) /\ best \in index \cup {Null}
    /\ heads # <<>> =>
        /\ best = Null /\ heads[1] \in index /\ heads[2] \in index \cup {Null}
        /\ Mixed(db, heads[1], heads[2])

\* The replay is at a block of the old branch, not below the fork.
OnOldBranch ==
    /\ heads[2] = Null => at = Genesis
    /\ heads[2] # Null => /\ Height[at] \in 0..Height[heads[2]]
                          /\ at = Ancestor[heads[2]][Height[at]]
    /\ \A h \in Nat : ForkHeight(heads[1], heads[2], h) => h <= Height[at]

OnNewBranch == Height[at] \in 0..Height[heads[1]] /\ at = Ancestor[heads[1]][Height[at]]

Replay ==
    pc \in {"rollback", "forward"} =>
        /\ heads # <<>> /\ ~CrossesShadowState(heads[1], heads[2])
        /\ at \in Blocks /\ Mixed(view, at, heads[1])
        /\ IF pc = "rollback" THEN OnOldBranch ELSE OnNewBranch

Memory ==
    /\ Closed(known)
    /\ pc \in {"running", "index", "shadow"} => heads = <<>>
    /\ pc \notin {"down", "refused"} => index \subseteq known
    /\ Up => view = StateOf(tip) /\ tip \in known \cup {Null}
    /\ pc = "index" => index = known
    /\ pc = "batches" =>
        /\ view = StateOf(tip) /\ tip \in index /\ tip \in known
        /\ heads # <<>> => heads[1] = tip
        /\ next = "shadow" => heads # <<>>
    /\ pc = "refused" => heads # <<>> /\ CrossesShadowState(heads[1], heads[2])
    /\ pc \notin {"failed", "closing"} /\ next # "down"

\* The inductive invariant.
IInv == TypeOK /\ Disk /\ Replay /\ Memory

-----------------------------------------------------------------------------
\* The tree and its coins

LEMMA StateType == \A b \in Blocks \cup {Null} : StateOf(b) \in Views
  BY TreeAssumption, ContentAssumption, ZenonT(60) DEF StateOf, Views, Empty

LEMMA Heads ==
    ASSUME TypeOK, heads # <<>>
    PROVE  heads[1] \in Blocks /\ heads[2] \in Blocks \cup {Null} /\ heads = <<heads[1], heads[2]>>
  BY DEF TypeOK

LEMMA ParentType ==
    ASSUME NEW b \in Blocks
    PROVE  /\ Parent[b] \in Blocks \cup {Null}
           /\ Parent[b] = Null <=> b = Genesis
           /\ b # Genesis => Parent[b] \in Blocks /\ Height[Parent[b]] = Height[b] - 1 /\ Height[b] > 0
           /\ Height[b] \in Nat
  BY TreeAssumption

LEMMA Auxiliary ==
    ASSUME NEW b \in Blocks \cup {Null}
    PROVE  /\ b = Null \/ Height[b] < SHADOW_WHITELIST_HEIGHT =>
                \A o \in {Marker, Leaf, Snapshot} : StateOf(b)[o] = Null
           /\ b # Null /\ Height[b] >= SHADOW_WHITELIST_HEIGHT =>
                StateOf(b)[Marker] = b /\ StateOf(b)[Leaf] = b /\ StateOf(b)[Snapshot] # Null
  <1>1. CASE b = Null
    BY <1>1, Zenon DEF StateOf, Empty, Outpoints
  <1>2. CASE b # Null
    <2>1. b \in Blocks /\ StateOf(b) = Utxo[b]
      BY <1>2, Zenon DEF StateOf
    <2>2. Height[b] \in Nat /\ SHADOW_WHITELIST_HEIGHT \in Nat
      BY <2>1, TreeAssumption, ContentAssumption, Zenon
    <2>3. IF Height[b] < SHADOW_WHITELIST_HEIGHT
          THEN \A o \in {Marker, Leaf, Snapshot} : Utxo[b][o] = Null
          ELSE Utxo[b][Marker] = b /\ Utxo[b][Leaf] = b /\ Utxo[b][Snapshot] # Null
      BY <2>1, ContentAssumption, Zenon
    <2> QED BY <1>2, <2>1, <2>2, <2>3
  <1> QED BY <1>1, <1>2, Zenon

\* A block rewrites the coins on which it and its parent differ.
LEMMA ConnectedIs ==
    ASSUME NEW b \in Blocks
    PROVE  Connected(StateOf(Parent[b]), b, TRUE) = StateOf(b)
  BY TreeAssumption, ContentAssumption, ZenonT(60) DEF StateOf

LEMMA UntouchedIsSame ==
    ASSUME NEW b \in Blocks, NEW o \in Outpoints, o \notin Touched(b), o \notin Written(b)
    PROVE  StateOf(b)[o] = StateOf(Parent[b])[o]
  <1>1. StateOf(b)[o] = Connected(StateOf(Parent[b]), b, TRUE)[o]
    BY ConnectedIs, Zenon
  <1> QED BY <1>1, Zenon DEF Connected, Touched

LEMMA DisconnectedIs ==
    ASSUME NEW b \in Blocks, b # Genesis
    PROVE  /\ Disconnected(StateOf(b), b, TRUE) = StateOf(Parent[b])
           /\ Disconnectable(StateOf(b), b)
  <1> DEFINE P == StateOf(Parent[b])
  <1>1. Parent[b] \in Blocks /\ Height[Parent[b]] = Height[b] - 1 /\ Height[b] \in Nat
    BY ParentType, Zenon
  <1>2. P \in Views /\ StateOf(b) \in Views /\ b # Null
    BY <1>1, StateType, TreeAssumption
  <1>3. \A o \in Creates[b] : P[o] = Null
    BY ContentAssumption, Zenon DEF Connectable
  <1>4. SHADOW_WHITELIST_HEIGHT \in Nat
    BY ContentAssumption, Zenon
  <1>5. \A o \in {Marker, Leaf, Snapshot} : o \notin Creates[b] /\ o \notin Spends[b] /\ o \in Outpoints
    BY ContentAssumption, OutpointAssumption DEF Outpoints
  <1>6. ASSUME NEW o \in Outpoints
        PROVE  Disconnected(StateOf(b), b, TRUE)[o] = P[o]
    <2>1. CASE o \in Touched(b)
      BY <2>1, <1>3, Zenon DEF Disconnected, Touched
    <2>2. CASE o \notin Touched(b) /\ o \notin Written(b)
      BY <2>2, UntouchedIsSame, Zenon DEF Disconnected, Touched
    <2>3. CASE o \notin Touched(b) /\ o \in Written(b)
      <3>1. Disconnected(StateOf(b), b, TRUE)[o] =
              IF Height[b] > SHADOW_WHITELIST_HEIGHT THEN Parent[b] ELSE Null
        BY <2>3, Zenon DEF Disconnected, Touched
      <3>2. CASE Height[b] > SHADOW_WHITELIST_HEIGHT
        <4>1. o \in {Marker, Leaf}
          BY <2>3, <3>2, <1>1, <1>4, Zenon DEF Written
        <4>2. Height[Parent[b]] >= SHADOW_WHITELIST_HEIGHT /\ Parent[b] # Null
          BY <3>2, <1>1, <1>4, TreeAssumption
        <4> QED BY <3>1, <3>2, <4>1, <4>2, <1>1, Auxiliary, Zenon
      <3>3. CASE ~(Height[b] > SHADOW_WHITELIST_HEIGHT)
        <4>1. o \in {Marker, Leaf, Snapshot}
          BY <2>3, Zenon DEF Written
        <4>2. Height[Parent[b]] < SHADOW_WHITELIST_HEIGHT
          BY <3>3, <1>1, <1>4
        <4> QED BY <3>1, <3>3, <4>1, <4>2, <1>1, Auxiliary, Zenon
      <3> QED BY <3>2, <3>3, Zenon
    <2> QED BY <2>1, <2>2, <2>3, Zenon
  <1>7. Disconnected(StateOf(b), b, TRUE) = P
    <2>1. Disconnected(StateOf(b), b, TRUE) =
            [o \in Outpoints |-> Disconnected(StateOf(b), b, TRUE)[o]]
      BY Zenon DEF Disconnected
    <2>2. P = [o \in Outpoints |-> P[o]]
      BY <1>2, Zenon DEF Views
    <2> HIDE DEF P
    <2> QED BY <2>1, <2>2, <1>6, Zenon
  <1>8. Disconnectable(StateOf(b), b)
    <2>1. \A o \in Base : StateOf(b)[o] = Connected(P, b, TRUE)[o]
      BY ConnectedIs, Zenon
    <2>2. \A o \in Creates[b] \ Spends[b] : StateOf(b)[o] = b
      BY <2>1, ContentAssumption, Zenon DEF Connected, Outpoints
    <2>3. \A o \in Spends[b] : StateOf(b)[o] = Null
      BY <2>1, ContentAssumption, Zenon DEF Connected, Outpoints
    <2>4. Height[b] >= SHADOW_WHITELIST_HEIGHT => HasCurrentShadowReplayState(StateOf(b), b)
      BY <1>2, Auxiliary, Zenon DEF HasCurrentShadowReplayState
    <2> QED BY <2>2, <2>3, <2>4, Zenon DEF Disconnectable
  <1> QED BY <1>7, <1>8, Zenon

LEMMA ViewTypes ==
    ASSUME NEW v \in Views, NEW b \in Blocks, NEW aux \in BOOLEAN
    PROVE  Connected(v, b, aux) \in Views /\ Disconnected(v, b, aux) \in Views
  <1>1. StateOf(Parent[b]) \in Views /\ Parent[b] \in Blocks \cup {Null}
    BY ParentType, StateType, Zenon
  <1> QED BY <1>1, Zenon DEF Connected, Disconnected, Views

-----------------------------------------------------------------------------
\* The replay narrows the mix

LEMMA RollbackMixed ==
    ASSUME NEW v \in Views, NEW b \in Blocks, b # Genesis, Height[b] < SHADOW_WHITELIST_HEIGHT,
           NEW new, Mixed(v, b, new)
    PROVE  Mixed(Disconnected(v, b, FALSE), Parent[b], new)
  <1>1. SUFFICES ASSUME NEW o \in Outpoints
                 PROVE  \/ Disconnected(v, b, FALSE)[o] = StateOf(Parent[b])[o]
                        \/ Disconnected(v, b, FALSE)[o] = StateOf(new)[o]
    BY Zenon DEF Mixed
  <1>2. \A p \in Creates[b] : StateOf(Parent[b])[p] = Null
    BY ContentAssumption, Zenon DEF Connectable
  <1>3. CASE o \in Touched(b)
    BY <1>2, <1>3, Zenon DEF Disconnected, Touched
  <1>4. CASE o \notin Touched(b)
    <2>1. Disconnected(v, b, FALSE)[o] = v[o]
      BY <1>4, Zenon DEF Disconnected, Touched
    <2>2. o \notin Written(b)
      BY Zenon DEF Written
    <2>3. StateOf(b)[o] = StateOf(Parent[b])[o]
      BY <1>4, <2>2, UntouchedIsSame, Zenon
    <2> QED BY <2>1, <2>3, Zenon DEF Mixed
  <1> QED BY <1>3, <1>4, Zenon

LEMMA ForwardMixed ==
    ASSUME NEW v \in Views, NEW b \in Blocks, Height[b] < SHADOW_WHITELIST_HEIGHT,
           NEW new, Mixed(v, Parent[b], new)
    PROVE  Mixed(Connected(v, b, FALSE), b, new)
  <1>1. SUFFICES ASSUME NEW o \in Outpoints
                 PROVE  \/ Connected(v, b, FALSE)[o] = StateOf(b)[o]
                        \/ Connected(v, b, FALSE)[o] = StateOf(new)[o]
    BY Zenon DEF Mixed
  <1>2. StateOf(b)[o] = Connected(StateOf(Parent[b]), b, TRUE)[o]
    BY ConnectedIs, Zenon
  <1>3. o \notin Written(b)
    BY Zenon DEF Written
  <1>4. CASE o \in Touched(b)
    BY <1>2, <1>3, <1>4, Zenon DEF Connected, Touched
  <1>5. CASE o \notin Touched(b)
    <2>1. Connected(v, b, FALSE)[o] = v[o]
      BY <1>5, Zenon DEF Connected, Touched
    <2>2. StateOf(b)[o] = StateOf(Parent[b])[o]
      BY <1>3, <1>5, UntouchedIsSame, Zenon
    <2> QED BY <2>1, <2>2, Zenon DEF Mixed
  <1> QED BY <1>4, <1>5, Zenon

LEMMA MixedWithItself ==
    ASSUME NEW v \in Views, NEW b \in Blocks \cup {Null}, Mixed(v, b, b)
    PROVE  v = StateOf(b)
  <1>1. StateOf(b) \in Views
    BY StateType, Zenon
  <1> QED BY <1>1 DEF Mixed, Views

\* A batch brings coins of the new tip into the mix.
LEMMA BatchMixed ==
    ASSUME NEW S, NEW old \in Blocks \cup {Null}, TypeOK, view = StateOf(tip),
           Mixed(db, tip, old)
    PROVE  Mixed(Batch(S), tip, old) /\ Batch(S) \in Views
  BY Zenon DEF Mixed, Batch, TypeOK, Views

-----------------------------------------------------------------------------
\* The start

LEMMA InitInvariant == Init => IInv
  <1> SUFFICES ASSUME Init PROVE IInv
    BY Zenon
  <1>0. Empty \in Views
    BY Zenon DEF Empty, Views
  <1>1. TypeOK
    <2>1. heads \in {<<>>}
      BY Zenon DEF Init
    <2>2. index \subseteq Blocks /\ known \subseteq Blocks
      BY Zenon DEF Init
    <2> QED BY <1>0, <2>1, <2>2, Zenon DEF Init, TypeOK
  <1>2. Disk
    BY Zenon DEF Init, Disk, StateOf, Closed
  <1> QED BY <1>1, <1>2, Zenon DEF Init, IInv, Replay, Memory, Up, Closed

LEMMA StartInvariant ==
    ASSUME IInv, Start
    PROVE  IInv'
  <1>1. TypeOK'
    BY TreeAssumption, Heads DEF IInv, TypeOK, Start, disk
  <1>2. Disk'
    BY Zenon DEF IInv, Disk, Start, disk, Mixed, Closed
  <1>3. Memory'
    <2>1. heads # <<>> => heads[1] \in known' /\ heads[2] \in known' \cup {Null}
      BY Zenon DEF IInv, Disk, Start
    <2>2. Closed(known')
      BY TreeAssumption DEF IInv, Disk, Closed, Start
    <2> QED BY <2>1, <2>2, Zenon DEF IInv, Memory, Start, disk, Up, Closed
  <1>4. Replay'
    <2> SUFFICES ASSUME pc' \in {"rollback", "forward"} PROVE Replay'
      BY Zenon DEF Replay
    <2>1. /\ heads # <<>> /\ ~CrossesShadowState(heads[1], heads[2]) /\ pc' = "rollback"
          /\ at' = IF heads[2] = Null THEN Genesis ELSE heads[2]
          /\ heads' = heads /\ view' = db
      BY Zenon DEF Start, disk
    <2>2. heads[1] \in Blocks /\ heads[2] \in Blocks \cup {Null}
      BY <2>1, Heads, Zenon DEF IInv
    <2>3. at' \in Blocks
      BY <2>1, <2>2, TreeAssumption
    <2>4. Mixed(db, at', heads[1])
      <3>1. StateOf(Genesis) = StateOf(Null)
        <4>1. Written(Genesis) = {} /\ Parent[Genesis] = Null /\ Genesis \in Blocks
          BY TreeAssumption, ContentAssumption DEF Written
        <4>2. StateOf(Genesis) = Connected(StateOf(Null), Genesis, TRUE)
          BY <4>1, ConnectedIs, Zenon
        <4>3. StateOf(Null) = [o \in Outpoints |-> StateOf(Null)[o]]
          BY Zenon DEF StateOf, Empty
        <4> QED BY <4>1, <4>2, <4>3, ContentAssumption, Zenon DEF Connected
      <3> QED BY <2>1, <3>1, Zenon DEF IInv, Disk, Mixed
    <2>5. OnOldBranch'
      <3>1. CASE heads[2] = Null
        BY <3>1, <2>1, TreeAssumption, SMTT(60) DEF OnOldBranch, ForkHeight
      <3>2. CASE heads[2] # Null
        BY <3>2, <2>1, <2>2, TreeAssumption DEF OnOldBranch, ForkHeight
      <3> QED BY <3>1, <3>2, Zenon
    <2> QED BY <2>1, <2>3, <2>4, <2>5, Zenon DEF Replay, Mixed
  <1> QED BY <1>1, <1>2, <1>3, <1>4, Zenon DEF IInv

LEMMA RollbackInvariant ==
    ASSUME IInv, Rollback
    PROVE  IInv'
  <1>1. /\ pc = "rollback" /\ heads # <<>> /\ ~CrossesShadowState(heads[1], heads[2])
        /\ at \in Blocks /\ Mixed(view, at, heads[1]) /\ OnOldBranch /\ TypeOK /\ heads' = heads
    BY Zenon DEF IInv, Replay, Rollback, disk
  <1>2. heads[1] \in Blocks /\ heads[2] \in Blocks \cup {Null}
    BY <1>1, Heads, Zenon
  <1>3. Height[at] \in Nat /\ Height[heads[1]] \in Nat /\ SHADOW_WHITELIST_HEIGHT \in Nat
    BY <1>1, <1>2, TreeAssumption, ContentAssumption
  <1>4. PICK h \in 0..Height[heads[1]] :
            /\ ForkHeight(heads[1], heads[2], h)
            /\ IF Height[at] = h THEN pc' = "forward" /\ UNCHANGED <<view, tip, at>>
               ELSE /\ view' = Disconnected(view, at, FALSE)
                    /\ tip' = Parent[at] /\ at' = Parent[at] /\ UNCHANGED pc
    BY Zenon DEF Rollback
  <1>5. h <= Height[at] /\ h \in Nat
    BY <1>1, <1>3, <1>4 DEF OnOldBranch
  <1>6. Disk'
    BY Zenon DEF IInv, Disk, Rollback, disk, Mixed, Closed
  <1>7. CASE Height[at] = h
    <2>1. TypeOK'
      BY <1>1, <1>4, <1>7, Zenon DEF TypeOK, Rollback, disk
    <2>2. Memory'
      BY <1>4, <1>7, Zenon DEF IInv, Memory, Rollback, disk, Up, Closed
    <2>3. at = Ancestor[heads[1]][h]
      <3>1. CASE heads[2] = Null
        BY <3>1, <1>1, <1>2, <1>4, TreeAssumption DEF OnOldBranch, ForkHeight
      <3>2. CASE heads[2] # Null
        BY <3>2, <1>1, <1>4, <1>7, Zenon DEF OnOldBranch, ForkHeight
      <3> QED BY <3>1, <3>2, Zenon
    <2>4. OnNewBranch'
      BY <1>1, <1>3, <1>4, <1>7, <2>3, Zenon DEF OnNewBranch
    <2>5. Replay'
      BY <1>1, <1>4, <1>7, <2>4, Zenon DEF Replay, Mixed
    <2> QED BY <1>6, <2>1, <2>2, <2>5, Zenon DEF IInv
  <1>8. CASE Height[at] # h
    <2>1. Height[at] > h /\ at # Genesis
      BY <1>3, <1>5, <1>8, TreeAssumption
    <2>2. Parent[at] \in Blocks /\ Height[Parent[at]] = Height[at] - 1
      BY <1>1, <2>1, ParentType, Zenon
    <2>3. view' \in Views
      BY <1>1, <1>4, <1>8, ViewTypes, Zenon DEF TypeOK
    <2>4. TypeOK'
      BY <1>1, <1>4, <1>8, <2>2, <2>3, Zenon DEF TypeOK, Rollback, disk
    <2>5. Memory'
      BY <1>1, <1>4, <1>8, Zenon DEF IInv, Memory, Rollback, disk, Up, Closed
    <2>6. heads[2] # Null
      BY <1>1, <2>1, Zenon DEF OnOldBranch
    <2>7. Height[at] < SHADOW_WHITELIST_HEIGHT
      <3>1. Height[heads[2]] < SHADOW_WHITELIST_HEIGHT /\ Height[heads[2]] \in Nat
        BY <1>1, <1>2, <1>3, <2>6, TreeAssumption DEF CrossesShadowState, Crossed
      <3> QED BY <3>1, <1>1, <1>3, <2>6, SMTT(60) DEF OnOldBranch
    <2>8. Mixed(view', at', heads[1])
      BY <1>1, <1>4, <1>8, <2>1, <2>7, RollbackMixed, Zenon DEF TypeOK
    <2>9. OnOldBranch'
      <3>1. at' = Ancestor[heads[2]][Height[at']] /\ Height[at'] \in 0..Height[heads[2]]
        <4>1. Height[at] \in 1..Height[heads[2]] /\ at = Ancestor[heads[2]][Height[at]]
          BY <1>1, <1>3, <1>5, <2>1, <2>6, SMTT(60) DEF OnOldBranch
        <4>2. Parent[Ancestor[heads[2]][Height[at]]] = Ancestor[heads[2]][Height[at] - 1]
          BY <4>1, <1>2, <2>6, TreeAssumption
        <4>3. at' = Parent[at] /\ Height[heads[2]] \in Nat
          BY <1>4, <1>8, <1>2, <2>6, TreeAssumption, Zenon
        <4> QED BY <4>1, <4>2, <4>3, <2>2, <1>3, SMTT(60)
      <3>2. ASSUME NEW k \in Nat, ForkHeight(heads[1], heads[2], k)
            PROVE  k <= Height[at']
        <4>1. k <= h
          BY <3>2, <1>4, <1>3, <1>5, <2>6 DEF ForkHeight
        <4>2. Height[at'] = Height[at] - 1
          BY <1>4, <1>8, <2>2, Zenon
        <4> QED BY <4>1, <4>2, <2>1, <1>3, <1>5, SMTT(60)
      <3> QED BY <3>1, <3>2, <1>1, <2>6, ZenonT(60) DEF OnOldBranch, ForkHeight
    <2>10. Replay'
      BY <1>1, <1>4, <1>8, <2>2, <2>8, <2>9, Zenon DEF Replay, Mixed
    <2> QED BY <1>6, <2>4, <2>5, <2>10, Zenon DEF IInv
  <1> QED BY <1>7, <1>8, Zenon

LEMMA RollforwardInvariant ==
    ASSUME IInv, RollforwardBlock
    PROVE  IInv'
  <1>1. /\ pc = "forward" /\ heads # <<>> /\ ~CrossesShadowState(heads[1], heads[2])
        /\ at \in Blocks /\ Mixed(view, at, heads[1]) /\ OnNewBranch /\ TypeOK /\ heads' = heads
    BY Zenon DEF IInv, Replay, RollforwardBlock, disk
  <1>2. heads[1] \in Blocks /\ heads[1] \in index /\ index \subseteq known /\ best = Null
    BY <1>1, Heads, ZenonT(60) DEF IInv, Disk, Memory
  <1>3. /\ Height[at] \in Nat /\ Height[heads[1]] \in Nat /\ SHADOW_WHITELIST_HEIGHT \in Nat
        /\ Height[heads[1]] < SHADOW_WHITELIST_HEIGHT
    BY <1>1, <1>2, TreeAssumption, ContentAssumption DEF CrossesShadowState, Crossed
  <1>6. Disk'
    BY Zenon DEF IInv, Disk, RollforwardBlock, disk, Mixed, Closed
  <1>7. CASE at = heads[1]
    <2>1. pc' = "batches" /\ next' = "shadow" /\ tip' = heads[1] /\ view' = view /\ at' = at
      BY <1>7, <1>1, Zenon DEF RollforwardBlock, BatchWrite
    <2>2. view = StateOf(heads[1])
      BY <1>1, <1>2, <1>7, MixedWithItself, Zenon DEF TypeOK
    <2>3. TypeOK'
      BY <1>1, <1>2, <2>1, Zenon DEF TypeOK, RollforwardBlock, disk
    <2>4. Memory'
      BY <1>1, <1>2, <2>1, <2>2, Zenon DEF IInv, Memory, RollforwardBlock, disk, Up, Closed
    <2> QED BY <1>6, <2>1, <2>3, <2>4, Zenon DEF IInv, Replay
  <1>8. CASE at # heads[1]
    <2> DEFINE b == Ancestor[heads[1]][Height[at] + 1]
    <2>1. view' = Connected(view, b, FALSE) /\ at' = b /\ UNCHANGED <<pc, next, tip>>
      BY <1>8, Zenon DEF RollforwardBlock
    <2>2. Height[at] \in 0..Height[heads[1]] /\ at = Ancestor[heads[1]][Height[at]]
      BY <1>1, Zenon DEF OnNewBranch
    <2>3. Ancestor[heads[1]][Height[heads[1]]] = heads[1]
      BY <1>2, TreeAssumption, Zenon
    <2>4. Height[at] + 1 \in 0..Height[heads[1]]
      BY <1>3, <1>8, <2>2, <2>3, SMTT(60)
    <2>5. b \in Blocks /\ Height[b] = Height[at] + 1 /\ Parent[b] = at
      <3>1. \A h \in 0..Height[heads[1]] :
                /\ Ancestor[heads[1]][h] \in Blocks /\ Height[Ancestor[heads[1]][h]] = h
                /\ h > 0 => Parent[Ancestor[heads[1]][h]] = Ancestor[heads[1]][h - 1]
        BY <1>2, TreeAssumption
      <3> QED BY <3>1, <1>3, <2>2, <2>4, SMTT(60)
    <2> HIDE DEF b
    <2>6. Height[b] < SHADOW_WHITELIST_HEIGHT
      BY <1>3, <2>4, <2>5
    <2>7. Mixed(view', at', heads[1])
      BY <1>1, <2>1, <2>5, <2>6, ForwardMixed, Zenon DEF TypeOK
    <2>8. view' \in Views
      BY <1>1, <2>1, <2>5, ViewTypes, Zenon DEF TypeOK
    <2>9. TypeOK'
      BY <1>1, <2>1, <2>5, <2>8, Zenon DEF TypeOK, RollforwardBlock, disk
    <2>10. Memory'
      BY <1>1, <2>1, Zenon DEF IInv, Memory, RollforwardBlock, disk, Up, Closed
    <2>11. OnNewBranch'
      BY <1>1, <2>1, <2>4, <2>5, Zenon DEF OnNewBranch, b
    <2>12. Replay'
      BY <1>1, <2>1, <2>5, <2>7, <2>11, Zenon DEF Replay, Mixed
    <2> QED BY <1>6, <2>9, <2>10, <2>12, Zenon DEF IInv
  <1> QED BY <1>7, <1>8, Zenon

LEMMA ShadowInvariant ==
    ASSUME IInv, ReplayShadowBlocks
    PROVE  IInv'
  <1>1. /\ pc = "shadow" /\ heads = <<>> /\ db = StateOf(best) /\ best \in index \cup {Null}
        /\ index \subseteq known /\ TypeOK
    BY Zenon DEF IInv, Disk, Memory, ReplayShadowBlocks
  <1>2. best # Null /\ Crossed(best) => HasCurrentShadowReplayState(db, best)
    BY <1>1, Auxiliary, Zenon DEF Crossed, HasCurrentShadowReplayState, TypeOK
  <1>3. pc' = "running" /\ view' = db /\ tip' = best /\ at' = Null
    BY <1>1, <1>2, Zenon DEF ReplayShadowBlocks
  <1>4. TypeOK'
    BY <1>1, <1>3, Zenon DEF TypeOK, ReplayShadowBlocks, disk
  <1>5. Disk'
    BY Zenon DEF IInv, Disk, ReplayShadowBlocks, disk, Mixed, Closed
  <1>6. Memory'
    BY <1>1, <1>3, Zenon DEF IInv, Memory, ReplayShadowBlocks, disk, Up, StateOf, Closed
  <1> QED BY <1>3, <1>4, <1>5, <1>6, Zenon DEF IInv, Replay

LEMMA RebuildInvariant ==
    ASSUME IInv, Rebuild
    PROVE  IInv'
  <1>0. Empty \in Views
    BY Zenon DEF Empty, Views
  <1>1. TypeOK'
    <2>1. heads' \in {<<>>}
      BY Zenon DEF Rebuild
    <2> QED BY <1>0, <2>1, Zenon DEF IInv, TypeOK, Rebuild
  <1>2. Disk'
    BY Zenon DEF IInv, Disk, Rebuild, StateOf, Closed
  <1> QED BY <1>1, <1>2, Zenon DEF IInv, Replay, Memory, Rebuild, Up, Closed

LEMMA CrashInvariant ==
    ASSUME IInv, Crash
    PROVE  IInv'
  <1>0. Empty \in Views
    BY Zenon DEF Empty, Views
  <1>1. TypeOK'
    BY <1>0, Zenon DEF IInv, TypeOK, Crash, disk
  <1>2. Disk'
    BY Zenon DEF IInv, Disk, Crash, disk, Mixed, Closed
  <1> QED BY <1>1, <1>2, Zenon DEF IInv, Replay, Memory, Crash, disk, Up, Closed

-----------------------------------------------------------------------------
\* The node at work

LEMMA WorkInvariant ==
    ASSUME IInv, NEW b \in Blocks, AcceptBlock(b) \/ ConnectTip(b) \/ DisconnectTip
    PROVE  IInv'
  <1>1. /\ pc = "running" /\ pc' = pc /\ next' = next /\ calm' = calm /\ at' = at
        /\ db' = db /\ best' = best /\ heads' = heads /\ index' = index
    BY Zenon DEF AcceptBlock, ConnectTip, DisconnectTip, disk
  <1>2. TypeOK /\ index \subseteq known /\ view = StateOf(tip) /\ tip \in known \cup {Null}
    BY <1>1, Zenon DEF IInv, Memory, Up
  <1>3. Disk'
    BY <1>1, Zenon DEF IInv, Disk, Mixed, Closed
  <1>4. Replay'
    BY <1>1, Zenon DEF Replay
  <1>5. view' = StateOf(tip') /\ tip' \in known' \cup {Null} /\ tip' \in Blocks \cup {Null}
        /\ index \subseteq known' /\ known' \subseteq Blocks
    <2>1. CASE AcceptBlock(b)
      BY <2>1, <1>2, Zenon DEF AcceptBlock, TypeOK, StateOf
    <2>2. CASE ConnectTip(b)
      <3>1. view' = Connected(StateOf(Parent[b]), b, TRUE)
        BY <2>2, <1>2, Zenon DEF ConnectTip
      <3> QED BY <2>2, <1>2, <3>1, ConnectedIs, Zenon DEF ConnectTip, TypeOK
    <2>3. CASE DisconnectTip
      <3>1. tip \in Blocks /\ tip # Genesis /\ Parent[tip] \in Blocks
        BY <2>3, <1>2, ParentType, Zenon DEF DisconnectTip, TypeOK
      <3>2. view' = StateOf(Parent[tip]) /\ tip' = Parent[tip] /\ known' = known
        BY <2>3, <1>2, <3>1, DisconnectedIs, Zenon DEF DisconnectTip
      <3>3. Parent[tip] \in known
        BY <2>3, <1>2, <3>1, TreeAssumption, Zenon DEF IInv, Memory, Closed, DisconnectTip
      <3> QED BY <1>2, <3>1, <3>2, <3>3, Zenon DEF TypeOK
    <2> QED BY <2>1, <2>2, <2>3, Zenon
  <1>6. view' \in Views
    BY <1>5, StateType, Zenon
  <1>7. TypeOK'
    BY <1>1, <1>2, <1>5, <1>6, Zenon DEF TypeOK
  <1>8. Closed(known')
    BY Zenon DEF IInv, Memory, Closed, AcceptBlock, ConnectTip, DisconnectTip
  <1>9. Memory'
    BY <1>1, <1>5, <1>8, Zenon DEF IInv, Memory, Up, Closed
  <1> QED BY <1>3, <1>4, <1>7, <1>9, Zenon DEF IInv

LEMMA FlushInvariant ==
    ASSUME IInv, WriteBlockIndexDB \/ FlushCoins \/ CalmDown
    PROVE  IInv'
  <1>1. CASE WriteBlockIndexDB
    <2>1. TypeOK'
      BY <1>1, Zenon DEF IInv, TypeOK, WriteBlockIndexDB
    <2>2. Disk'
      BY <1>1, Zenon DEF IInv, Disk, Memory, WriteBlockIndexDB, Closed
    <2>3. Memory'
      BY <1>1, Zenon DEF IInv, Memory, WriteBlockIndexDB, Up, Closed, StateOf
    <2> QED BY <1>1, <2>1, <2>2, <2>3, Zenon DEF IInv, Replay, WriteBlockIndexDB
  <1>2. CASE FlushCoins
    <2>1. heads = <<>> /\ pc = "index" /\ index = known /\ tip \in known \cup {Null}
      BY <1>2, Zenon DEF IInv, Memory, FlushCoins, Up
    <2>2. pc' = "running" \/ (pc' = "batches" /\ tip # Null)
      BY <1>2, <2>1, Zenon DEF FlushCoins, BatchWrite
    <2>3. TypeOK'
      BY <1>2, <2>2, Zenon DEF IInv, TypeOK, FlushCoins, disk
    <2>4. Disk'
      BY <1>2, Zenon DEF IInv, Disk, FlushCoins, disk, Mixed, Closed
    <2>5. Memory'
      BY <1>2, <2>1, <2>2, Zenon DEF IInv, Memory, FlushCoins, disk, Up, Closed, StateOf
    <2> QED BY <2>2, <2>3, <2>4, <2>5, Zenon DEF IInv, Replay
  <1>3. CASE CalmDown
    <2>1. TypeOK'
      BY <1>3 DEF IInv, TypeOK, CalmDown, disk
    <2>2. Disk'
      BY <1>3, Zenon DEF IInv, Disk, CalmDown, disk, Mixed, Closed
    <2>3. Memory'
      BY <1>3, Zenon DEF IInv, Memory, CalmDown, disk, Up, Closed, StateOf
    <2>4. Replay'
      BY <1>3, Zenon DEF IInv, Replay, CalmDown, disk, Mixed, OnOldBranch, OnNewBranch, ForkHeight
    <2> QED BY <2>1, <2>2, <2>3, <2>4, Zenon DEF IInv
  <1> QED BY <1>1, <1>2, <1>3, Zenon

LEMMA PartialBatchInvariant ==
    ASSUME IInv, NEW S \in SUBSET Outpoints, PartialBatch(S)
    PROVE  IInv' /\ heads'[1] = tip
  <1>1. /\ pc = "batches" /\ TypeOK /\ view = StateOf(tip) /\ tip \in index /\ tip \in known
        /\ heads # <<>> => heads[1] = tip
    BY Zenon DEF IInv, Memory, PartialBatch
  <1>2. OldTip \in index \cup {Null} /\ OldTip \in Blocks \cup {Null} /\ tip \in Blocks
    <2>1. CASE heads = <<>>
      BY <1>1, <2>1, Zenon DEF IInv, Disk, OldTip, TypeOK
    <2>2. CASE heads # <<>>
      BY <1>1, <2>2, Heads, Zenon DEF IInv, Disk, OldTip, TypeOK
    <2> QED BY <2>1, <2>2, Zenon
  <1>3. Mixed(db, tip, OldTip)
    <2>1. CASE heads = <<>>
      BY <2>1, Zenon DEF IInv, Disk, OldTip, Mixed
    <2>2. CASE heads # <<>>
      BY <1>1, <2>2, Zenon DEF IInv, Disk, OldTip
    <2> QED BY <2>1, <2>2, Zenon
  <1>4. Mixed(db', tip, OldTip) /\ db' \in Views
    BY <1>1, <1>2, <1>3, BatchMixed, Zenon DEF PartialBatch
  <1>5. /\ heads' = <<tip, OldTip>> /\ best' = Null /\ index' = index /\ pc' = pc /\ next' = next
        /\ known' = known /\ view' = view /\ tip' = tip /\ at' = at /\ calm' = calm
    BY Zenon DEF PartialBatch
  <1>6. heads' # <<>> /\ heads'[1] = tip /\ heads'[2] = OldTip
    BY <1>5, Zenon
  <1>7. TypeOK'
    <2>1. heads' \in Blocks \X (Blocks \cup {Null})
      BY <1>2, <1>5, Zenon
    <2> QED BY <1>1, <1>4, <1>5, <2>1, Zenon DEF TypeOK
  <1>8. Disk'
    BY <1>1, <1>2, <1>4, <1>5, <1>6, Zenon DEF IInv, Disk, Mixed, Closed
  <1>9. Memory'
    BY <1>1, <1>5, <1>6, Zenon DEF IInv, Memory, Up, Closed, StateOf
  <1> QED BY <1>1, <1>5, <1>6, <1>7, <1>8, <1>9, Zenon DEF IInv, Replay

LEMMA FinalBatchInvariant ==
    ASSUME IInv, FinalBatch
    PROVE  IInv'
  <1>1. /\ pc = "batches" /\ TypeOK /\ view = StateOf(tip) /\ tip \in index /\ tip \in known
        /\ index \subseteq known /\ next \in {"running", "shadow"}
    BY Zenon DEF IInv, Memory, TypeOK, FinalBatch
  <1>2. TypeOK'
    <2>1. heads' \in {<<>>}
      BY Zenon DEF FinalBatch
    <2> QED BY <1>1, <2>1, Zenon DEF TypeOK, FinalBatch
  <1>3. Disk'
    BY <1>1, Zenon DEF IInv, Disk, FinalBatch, Closed, StateOf
  <1>4. Memory'
    BY <1>1, Zenon DEF IInv, Memory, FinalBatch, Up, Closed, StateOf
  <1> QED BY <1>1, <1>2, <1>3, <1>4, Zenon DEF IInv, Replay, FinalBatch

-----------------------------------------------------------------------------
\* The theorems

LEMMA StutterInvariant ==
    ASSUME IInv, UNCHANGED vars
    PROVE  IInv'
  <1>1. TypeOK'
    BY DEF IInv, TypeOK, vars
  <1>2. Disk'
    BY Zenon DEF IInv, Disk, vars, Mixed, Closed
  <1>3. Memory'
    BY Zenon DEF IInv, Memory, vars, Up, Closed, StateOf
  <1>4. Replay'
    BY Zenon DEF IInv, Replay, vars, Mixed, OnOldBranch, OnNewBranch, ForkHeight
  <1> QED BY <1>1, <1>2, <1>3, <1>4, Zenon DEF IInv

LEMMA StepInvariant ==
    ASSUME IInv, [Next]_vars
    PROVE  IInv'
  BY InitInvariant, StartInvariant, RollbackInvariant, RollforwardInvariant, ShadowInvariant,
     RebuildInvariant, CrashInvariant, WorkInvariant, FlushInvariant, PartialBatchInvariant,
     FinalBatchInvariant, StutterInvariant, TreeAssumption, Zenon DEF Next

\* The marks and the records of the database agree in every reachable state: the inductive
\* invariant holds.
THEOREM InvariantHolds == Spec => []IInv
  BY InitInvariant, StepInvariant, PTL DEF Spec

\* A database marked as consistent with a block holds the coins and the auxiliary records after
\* it, after any number of interrupted flushes and replays (CCoinsViewDB::BatchWrite).
THEOREM MarkedIsConsistent == Spec => []ConsistentWhenMarked
  <1>1. IInv => ConsistentWhenMarked
    BY Zenon DEF IInv, Disk, ConsistentWhenMarked
  <1> QED BY <1>1, InvariantHolds, PTL

\* A running node sees the coins of its tip, whatever ReplayBlocks had to repair.
THEOREM RunningViewIsExact == Spec => []ViewIsTheTip
  <1>1. IInv => ViewIsTheTip
    BY Zenon DEF IInv, Memory, ViewIsTheTip
  <1> QED BY <1>1, InvariantHolds, PTL

\* No start ends in ReplayResult::FAILURE, BatchWrite's assertion holds, and every valid block
\* connects and disconnects.
THEOREM NothingFails == Spec => []NeverFails
  <1>1. IInv => NeverFails
    <2> SUFFICES ASSUME IInv PROVE NeverFails
      BY Zenon
    <2>1. pc # "failed"
      BY Zenon DEF IInv, Memory
    <2>2. ASSUME pc = "running", NEW b \in known, Parent[b] = tip
          PROVE  Connectable(view, b)
      BY <2>2, ContentAssumption, ZenonT(60) DEF IInv, TypeOK, Memory, Up
    <2>3. ASSUME pc = "running", tip # Null
          PROVE  Disconnectable(view, tip)
      <3>1. tip \in Blocks /\ view = StateOf(tip)
        BY <2>3, Zenon DEF IInv, TypeOK, Memory, Up
      <3>2. CASE tip = Genesis
        <4>1. Creates[tip] = {} /\ Spends[tip] = {} /\ ~(Height[tip] >= SHADOW_WHITELIST_HEIGHT)
          BY <3>2, TreeAssumption, ContentAssumption
        <4> QED BY <4>1, Zenon DEF Disconnectable
      <3>3. CASE tip # Genesis
        BY <3>1, <3>3, DisconnectedIs, Zenon
      <3> QED BY <3>2, <3>3, Zenon
    <2> QED BY <2>1, <2>2, <2>3, Zenon DEF NeverFails
  <1> QED BY <1>1, InvariantHolds, PTL

\* Only an interrupted flush that touches the auxiliary state makes a start ask for a rebuild.
THEOREM RebuildsAreJustified == Spec => []RebuildIsJustified
  <1>1. IInv => RebuildIsJustified
    BY Zenon DEF IInv, Memory, RebuildIsJustified
  <1> QED BY <1>1, InvariantHolds, PTL

-----------------------------------------------------------------------------
\* The refinement

ATip == IF Up THEN tip ELSE Null

LEMMA Stutters ==
    ASSUME Up' = Up, ATip' = ATip, Saved' = Saved
    PROVE  UNCHANGED Abstract!vars
  BY Zenon DEF ATip, Abstract!vars

\* A flush is atomic under crashes: its first batch saves the new tip, every later start
\* completes it, and a node that starts is at the saved tip.
THEOREM FlushIsAtomic == Spec => ImplementsDurableTip
  <1>1. Init => Abstract!Init
    BY TreeAssumption, Zenon DEF Init, Abstract!Init, Up, Saved
  <1>2. ASSUME IInv, [Next]_vars
        PROVE  [Abstract!Next]_(Abstract!vars)
    <2>1. CASE \E b \in Blocks : AcceptBlock(b)
      BY <2>1, Stutters, Zenon DEF AcceptBlock, disk, Up, ATip, Saved
    <2>2. CASE \E b \in Blocks : ConnectTip(b)
      BY <2>2, Zenon DEF ConnectTip, disk, Up, Saved, Abstract!Next, Abstract!Connect
    <2>3. CASE DisconnectTip
      BY <2>3, Zenon DEF DisconnectTip, disk, Up, Saved, Abstract!Next, Abstract!Disconnect
    <2>4. CASE WriteBlockIndexDB
      BY <2>4, Stutters, Zenon DEF WriteBlockIndexDB, Up, ATip, Saved
    <2>5. CASE FlushCoins
      <3>1. heads = <<>>
        BY <1>2, <2>5, Zenon DEF IInv, Memory, FlushCoins
      <3> QED BY <2>5, <3>1, Stutters, Zenon DEF FlushCoins, BatchWrite, disk, Up, ATip, Saved
    <2>6. CASE \E S \in SUBSET Outpoints : PartialBatch(S)
      <3>1. PICK S \in SUBSET Outpoints : PartialBatch(S)
        BY <2>6, Zenon
      <3>2. heads'[1] = tip /\ heads' # <<>>
        BY <1>2, <3>1, PartialBatchInvariant, Zenon DEF PartialBatch
      <3>3. pc = "batches" /\ pc' = pc /\ next' = next /\ tip' = tip /\ tip \in Blocks
        BY <1>2, <3>1, Zenon DEF PartialBatch, IInv, Memory, TypeOK
      <3>4. Saved' = tip
        BY <3>2, Zenon DEF Saved
      <3>5. CASE next = "running"
        BY <3>3, <3>4, <3>5, TreeAssumption, Zenon DEF Up, Abstract!Next, Abstract!Save
      <3>6. CASE next # "running"
        <4>1. Saved = tip
          BY <1>2, <3>3, <3>6, Zenon DEF IInv, Memory, TypeOK, Saved
        <4> QED BY <3>3, <3>4, <3>6, <4>1, Stutters, Zenon DEF Up, ATip
      <3> QED BY <3>5, <3>6, Zenon
    <2>7. CASE FinalBatch
      <3>1. pc = "batches" /\ pc' = next /\ next' = next /\ tip' = tip /\ tip \in Blocks /\ Saved' = tip
        BY <1>2, <2>7, Zenon DEF FinalBatch, IInv, Memory, TypeOK, Saved
      <3>2. CASE next = "running"
        BY <3>1, <3>2, TreeAssumption, Zenon DEF Up, Abstract!Next, Abstract!Save
      <3>3. CASE next = "shadow"
        <4>1. Saved = tip
          BY <1>2, <3>1, <3>3, Zenon DEF IInv, Memory, Saved
        <4> QED BY <3>1, <3>3, <4>1, Stutters, Zenon DEF Up, ATip
      <3> QED BY <1>2, <3>2, <3>3, Zenon DEF IInv, Memory, TypeOK
    <2>8. CASE Start
      BY <2>8, Stutters, Zenon DEF Start, disk, Up, ATip, Saved
    <2>9. CASE Rollback
      BY <2>9, Stutters, Zenon DEF Rollback, disk, Up, ATip, Saved
    <2>10. CASE RollforwardBlock
      BY <2>10, Stutters, Zenon DEF RollforwardBlock, BatchWrite, disk, Up, ATip, Saved
    <2>11. CASE ReplayShadowBlocks
      BY <1>2, <2>11, Stutters, Zenon
         DEF IInv, Memory, ReplayShadowBlocks, disk, Up, ATip, Saved, Abstract!Next, Abstract!Start
    <2>12. CASE Rebuild
      BY <2>12, Zenon DEF Rebuild, Up, Saved, Abstract!Next, Abstract!Wipe
    <2>13. CASE Crash
      BY <2>13, Stutters, Zenon DEF Crash, disk, Up, ATip, Saved, Abstract!Next, Abstract!Stop
    <2>14. CASE CalmDown
      BY <2>14, Stutters, Zenon DEF CalmDown, disk, Up, ATip, Saved
    <2>15. CASE UNCHANGED vars
      BY <2>15, Stutters, Zenon DEF vars, Up, ATip, Saved
    <2> QED BY <1>2, <2>1, <2>2, <2>3, <2>4, <2>5, <2>6, <2>7, <2>8, <2>9, <2>10, <2>11, <2>12,
               <2>13, <2>14, <2>15, Zenon DEF Next
  <1> QED BY <1>1, <1>2, InvariantHolds, PTL DEF Spec, ImplementsDurableTip, Abstract!Spec
=============================================================================
