-------------------------- MODULE ChainstateRebuild --------------------------
(***************************************************************************)
(* The protected chainstate rebuild of node/chainstate.cpp.  The rebuild   *)
(* moves the chainstate directories aside, builds a replacement, and       *)
(* retires the originals only after a second process has reopened and      *)
(* verified the replacement.  A journal file carries the protocol over     *)
(* restarts.  The process may end between any two file operations.         *)
(***************************************************************************)
EXTENDS Naturals, FiniteSets

CONSTANT MAX_TIP    \* bound on the height of every chainstate

ASSUME MaxTipAssumption == MAX_TIP \in Nat \ {0}

Paths == {"base", "snapshot"}
NoTip == MAX_TIP + 1

\* A chainstate directory.  "torn" is a directory whose removal has begun.
\* The id tells a replacement from the database it replaces, ok says whether
\* ReplayBlocks and ReplayShadowBlocks accept the database.
Dirs == [state : {"absent", "whole", "torn"}, id : {0, 1}, tip : 0..MAX_TIP, ok : BOOLEAN]
Absent == [state |-> "absent", id |-> 0, tip |-> 0, ok |-> FALSE]
PathExists(dir) == dir.state # "absent"

Committed == {"commit-ready", "cleanup-ready"}
Building == {"prepared", "building", "rolling-back"}
NoJournal == [phase |-> "none", present |-> [p \in Paths |-> FALSE], commitment |-> NoTip]

VARIABLES
    live,       \* chainstate and chainstate_snapshot
    backup,     \* the rebuild-backup directories
    partial,    \* the rebuild-partial directories
    journal,    \* chainstate-rebuild.journal
    pc,         \* where the process is in its start, "off" when there is none
    flag,       \* the reindex option of the process
    this,       \* the m_chainstate_rebuild_..._this_process flags
    pending,    \* chainstate_verification_pending of AppInitMain
    overrides,  \* the automation settings are forced off
    tip,        \* tip of the active chainstate in memory
    manual,     \* a start has stopped with a demand for manual recovery
    kept,       \* history: the directories as they were when a rebuild was staged
    calm        \* the environment has ceased to stop processes and to ask for rebuilds

disk == <<live, backup, partial, journal>>
process == <<pc, flag, this, pending, overrides, tip>>
vars == <<live, backup, partial, journal, pc, flag, this, pending, overrides, tip, manual, kept, calm>>

Flags == [staged : BOOLEAN, committed : BOOLEAN, reopened : BOOLEAN, verified : BOOLEAN, completed : BOOLEAN]
NoFlags == [staged |-> FALSE, committed |-> FALSE, reopened |-> FALSE, verified |-> FALSE, completed |-> FALSE]
Active == IF PathExists(live["snapshot"]) THEN "snapshot" ELSE "base"

\* Every variable keeps its shape, and a journal is one that ReadJournal accepts:
\* it declares a database, and has a commitment exactly in the committed phases.
TypeOK ==
    /\ live \in [Paths -> Dirs] /\ backup \in [Paths -> Dirs] /\ partial \in [Paths -> Dirs]
    /\ journal \in [phase : {"none"} \cup Building \cup Committed, present : [Paths -> BOOLEAN],
                    commitment : 0..NoTip]
    /\ journal.phase # "none" =>
           (\E p \in Paths : journal.present[p]) /\ (journal.phase \in Committed <=> journal.commitment # NoTip)
    /\ pc \in {"off", "recover", "restore", "sweep", "retire", "load", "stage", "init", "finalize",
               "retire_verified", "sweep_verified", "import", "commit", "shutdown", "services"}
    /\ flag \in {"none", "chainstate", "full"}
    /\ this \in Flags
    /\ pending \in BOOLEAN /\ overrides \in BOOLEAN /\ tip \in 0..MAX_TIP /\ manual \in BOOLEAN
    /\ kept \in [Paths -> Dirs] /\ calm \in BOOLEAN

\* A new datadir, a node that has run before, with or without an assumeUTXO
\* snapshot, or one stopped between the two renames of ValidatedSnapshotCleanup;
\* its databases are of the current or of an older schema.
Init ==
    /\ \E found \in SUBSET Paths, at \in [Paths -> 0..MAX_TIP], ok \in BOOLEAN :
           /\ at["base"] <= at["snapshot"]
           /\ live = [p \in Paths |->
                        IF p \in found THEN [state |-> "whole", id |-> 0, tip |-> at[p], ok |-> ok] ELSE Absent]
    /\ backup = [p \in Paths |-> Absent]
    /\ partial = [p \in Paths |-> Absent]
    /\ journal = NoJournal
    /\ pc = "off" /\ flag = "none" /\ this = NoFlags
    /\ pending = FALSE /\ overrides = FALSE /\ tip = 0
    /\ manual = FALSE
    /\ kept = [p \in Paths |-> Absent]
    /\ calm = FALSE

-----------------------------------------------------------------------------
\* Helpers on directories

\* Base comes before the snapshot wherever the code handles both.
First(S) == IF "base" \in S THEN "base" ELSE "snapshot"

\* One step of CleanupTree: remove_all is not atomic.
CleanupTree(dir) == IF dir.state = "whole" THEN [dir EXCEPT !.state = "torn"] ELSE Absent

ValidateBackupTopology(allowMissing) ==
    \A p \in Paths : IF journal.present[p] THEN PathExists(backup[p]) \/ allowMissing
                     ELSE ~PathExists(backup[p])

Goto(where) == pc' = where /\ UNCHANGED <<flag, this, pending, overrides, tip>>

\* A start that ends in FAILURE_FATAL and changes nothing more.
DemandManualRecovery == Goto("off") /\ manual' = TRUE /\ UNCHANGED <<live, backup, partial, journal, kept>>

-----------------------------------------------------------------------------
\* Start of a process and RecoverInterruptedRebuild

Start(option) ==
    /\ pc = "off"
    /\ pc' = "recover" /\ flag' = option /\ this' = NoFlags /\ tip' = 0
    /\ pending' = (journal.phase \in Committed)
    /\ overrides' = (option = "chainstate" \/ journal.phase \in Committed)
    /\ UNCHANGED <<disk, manual, kept>>

RecoverWithoutJournal ==
    /\ pc = "recover" /\ journal.phase = "none"
    /\ IF \E p \in Paths : PathExists(backup[p]) THEN DemandManualRecovery
       ELSE Goto("sweep") /\ UNCHANGED <<disk, manual, kept>>

RecoverCommitReady ==
    /\ pc = "recover" /\ journal.phase = "commit-ready"
    /\ IF ValidateBackupTopology(FALSE) /\ PathExists(live["base"])
       THEN /\ pc' = "load" /\ this' = [this EXCEPT !.reopened = TRUE]
            /\ UNCHANGED <<disk, flag, pending, overrides, tip, manual, kept>>
       ELSE DemandManualRecovery

RecoverCleanupReady ==
    /\ pc = "recover" /\ journal.phase = "cleanup-ready"
    /\ IF ValidateBackupTopology(TRUE) /\ PathExists(live["base"]) /\ live["base"].tip = journal.commitment
       THEN Goto("retire") /\ UNCHANGED <<disk, manual, kept>>
       ELSE DemandManualRecovery

RecoverBuilding ==
    /\ pc = "recover" /\ journal.phase \in Building
    /\ IF ValidateBackupTopology(journal.phase # "building")
       THEN /\ journal' = [journal EXCEPT !.phase = "rolling-back"]
            /\ Goto("restore")
            /\ UNCHANGED <<live, backup, partial, manual, kept>>
       ELSE DemandManualRecovery

\* RestoreJournaledPath, one rename a step.
Restored_LiveIsEnough(p) == PathExists(live[p]) <=> journal.present[p]

Restored(p) == IF journal.present[p] THEN ~PathExists(backup[p]) /\ PathExists(live[p])
               ELSE ~PathExists(live[p]) /\ ~PathExists(backup[p])

PreservePartial(p) ==
    IF PathExists(partial[p]) THEN DemandManualRecovery
    ELSE /\ partial' = [partial EXCEPT ![p] = live[p]]
         /\ live' = [live EXCEPT ![p] = Absent]
         /\ Goto("restore")
         /\ UNCHANGED <<backup, journal, manual, kept>>

RestoreBackup(p) ==
    /\ live' = [live EXCEPT ![p] = backup[p]]
    /\ backup' = [backup EXCEPT ![p] = Absent]
    /\ Goto("restore")
    /\ UNCHANGED <<partial, journal, manual, kept>>

RestoreJournaledPath(p) ==
    IF journal.present[p]
    THEN IF ~PathExists(backup[p]) THEN DemandManualRecovery
         ELSE IF PathExists(live[p]) THEN PreservePartial(p) ELSE RestoreBackup(p)
    ELSE IF PathExists(backup[p]) THEN DemandManualRecovery ELSE PreservePartial(p)

Restore ==
    /\ pc = "restore"
    /\ \E p \in Paths : ~Restored(p)
    /\ RestoreJournaledPath(First({p \in Paths : ~Restored(p)}))

RollbackDone ==
    /\ pc = "restore"
    /\ \A p \in Paths : Restored(p)
    /\ journal' = NoJournal
    /\ Goto("sweep")
    /\ UNCHANGED <<live, backup, partial, manual, kept>>

\* The partial directories go last, after the journal.
Sweep(here, next) ==
    /\ pc = here
    /\ LET left == {p \in Paths : PathExists(partial[p])} IN
       IF left = {} THEN next /\ UNCHANGED <<disk, manual, kept>>
       ELSE /\ partial' = [partial EXCEPT ![First(left)] = CleanupTree(@)]
            /\ Goto(here)
            /\ UNCHANGED <<live, backup, journal, manual, kept>>

\* The backups are removed, then the journal.
Retire(here, next) ==
    /\ pc = here
    /\ LET left == {p \in Paths : journal.present[p] /\ PathExists(backup[p])} IN
       IF left = {}
       THEN /\ journal' = NoJournal
            /\ this' = [this EXCEPT !.completed = TRUE]
            /\ pc' = next
            /\ UNCHANGED <<live, backup, partial, flag, pending, overrides, tip, manual, kept>>
       ELSE /\ backup' = [backup EXCEPT ![First(left)] = CleanupTree(@)]
            /\ Goto(here)
            /\ UNCHANGED <<live, partial, journal, manual, kept>>

-----------------------------------------------------------------------------
\* LoadChainstate and BeginStagedChainstateRebuild

LoadPlain_RefusesPending ==
    /\ pc = "load" /\ flag # "full"
    /\ flag = "none" \/ journal.phase = "commit-ready"
    /\ Goto(IF journal.phase = "commit-ready" THEN "off" ELSE "init")
    /\ UNCHANGED <<disk, manual, kept>>

LoadPlain ==
    /\ pc = "load"
    /\ flag = "none" \/ (flag = "chainstate" /\ journal.phase = "commit-ready")
    /\ Goto("init")
    /\ UNCHANGED <<disk, manual, kept>>

\* A full reindex is refused while a replacement awaits its verification.
\* Otherwise it gives both chainstates up.
LoadFullReindex ==
    /\ pc = "load" /\ flag = "full"
    /\ IF journal.phase = "commit-ready"
       THEN Goto("off") /\ UNCHANGED <<disk, manual, kept>>
       ELSE /\ live' = [p \in Paths |-> IF p = "base" THEN [state |-> "whole", id |-> 0, tip |-> 0, ok |-> TRUE]
                                        ELSE Absent]
            /\ kept' = [p \in Paths |-> Absent]
            /\ Goto("init")
            /\ UNCHANGED <<backup, partial, journal, manual>>

BeginStagedChainstateRebuild ==
    /\ pc = "load" /\ flag = "chainstate" /\ journal.phase # "commit-ready"
    /\ IF \A p \in Paths : ~PathExists(live[p])
       THEN pc' = "init" /\ this' = NoFlags /\ UNCHANGED <<disk, flag, pending, overrides, tip, manual, kept>>
       ELSE IF journal # NoJournal \/ (\E p \in Paths : PathExists(backup[p]) \/ PathExists(partial[p]))
       THEN DemandManualRecovery
       ELSE /\ journal' = [phase |-> "prepared", present |-> [p \in Paths |-> PathExists(live[p])],
                           commitment |-> NoTip]
            /\ kept' = live
            /\ pc' = "stage" /\ this' = NoFlags
            /\ UNCHANGED <<live, backup, partial, flag, pending, overrides, tip, manual>>

StageMoves == {p \in Paths : journal.present[p] /\ PathExists(live[p])}

Stage(p) ==
    /\ pc = "stage"
    /\ StageMoves # {} /\ p = First(StageMoves)
    /\ backup' = [backup EXCEPT ![p] = live[p]]
    /\ live' = [live EXCEPT ![p] = Absent]
    /\ Goto("stage")
    /\ UNCHANGED <<partial, journal, manual, kept>>

\* The journal enters BUILDING before all moves are made.
StageDone_Early ==
    /\ pc = "stage" /\ Cardinality(StageMoves) < 2
    /\ journal' = [journal EXCEPT !.phase = "building"]
    /\ pc' = "init" /\ this' = [this EXCEPT !.staged = TRUE]
    /\ UNCHANGED <<live, backup, partial, flag, pending, overrides, tip, manual, kept>>

StageDone ==
    /\ pc = "stage" /\ StageMoves = {}
    /\ journal' = [journal EXCEPT !.phase = "building"]
    /\ pc' = "init" /\ this' = [this EXCEPT !.staged = TRUE]
    /\ UNCHANGED <<live, backup, partial, flag, pending, overrides, tip, manual, kept>>

\* CompleteChainstateInitialization opens or creates the databases;
\* VerifyLoadedChainstate and what AppInitMain does with their result.
Opened == IF PathExists(live["base"]) THEN live
          ELSE [live EXCEPT !["base"] = [state |-> "whole", id |-> 1 - kept["base"].id, tip |-> 0, ok |-> TRUE]]

AfterVerification ==
    /\ pc' = IF this.staged \/ this.reopened THEN "import" ELSE "services"
    /\ overrides' = (overrides /\ ~pending)

LoadRefused ==
    /\ pc = "init"
    /\ \E p \in Paths : PathExists(Opened[p]) /\ ~Opened[p].ok
    /\ live' = Opened
    /\ Goto("off")
    /\ UNCHANGED <<backup, partial, journal, manual, kept>>

Load ==
    /\ pc = "init"
    /\ \A p \in Paths : PathExists(Opened[p]) => Opened[p].ok
    /\ live' = Opened
    /\ tip' = Opened[Active].tip
    /\ this' = [this EXCEPT !.verified = TRUE]
    /\ IF journal.phase \in Committed THEN pc' = "finalize" /\ UNCHANGED overrides ELSE AfterVerification
    /\ UNCHANGED <<backup, partial, journal, flag, pending, manual, kept>>

-----------------------------------------------------------------------------
\* ImportBlocks, FinalizeChainstateRebuild and the running node

\* Blocks are connected by the bootstrap thread, by a validation task that was
\* queued before, or by the running node.
ConnectTip_AfterCommit ==
    /\ pc \in {"import", "commit", "shutdown", "services"} /\ tip < MAX_TIP
    /\ tip' = tip + 1
    /\ UNCHANGED <<disk, pc, flag, this, pending, overrides, manual, kept>>

ConnectTip ==
    /\ pc \in {"import", "commit", "shutdown", "services"} /\ tip < MAX_TIP
    /\ ~this.committed
    /\ tip' = tip + 1
    /\ UNCHANGED <<disk, pc, flag, this, pending, overrides, manual, kept>>

Flushed == [live EXCEPT ![Active].tip = tip]

FlushStateToDisk ==
    /\ pc \in {"import", "commit", "services"}
    /\ live' = Flushed
    /\ UNCHANGED <<backup, partial, journal, process, manual, kept>>

RebuiltChainReachesPreservedWork ==
    \A p \in Paths : journal.present[p] => PathExists(backup[p]) /\ tip >= backup[p].tip

\* FinalizeChainstateRebuild of the process that reopened the replacement.
FinalizeReopened_InAnyProcess ==
    /\ pc = "finalize" \/ (pc = "shutdown" /\ journal.phase = "commit-ready")
    /\ IF live["base"].tip = journal.commitment /\ RebuiltChainReachesPreservedWork
       THEN /\ journal' = [journal EXCEPT !.phase = "cleanup-ready"]
            /\ Goto("retire_verified")
            /\ UNCHANGED <<live, backup, partial, manual, kept>>
       ELSE DemandManualRecovery

FinalizeReopened ==
    /\ pc = "finalize"
    /\ IF /\ ValidateBackupTopology(FALSE) /\ ~this.committed /\ this.verified
          /\ RebuiltChainReachesPreservedWork
          /\ Flushed["base"].tip = journal.commitment
       THEN /\ live' = Flushed
            /\ journal' = [journal EXCEPT !.phase = "cleanup-ready"]
            /\ Goto("retire_verified")
            /\ UNCHANGED <<backup, partial, manual, kept>>
       ELSE DemandManualRecovery

\* FinalizeChainstateRebuild in ImportBlocks: nothing to do without a journal.
ImportFinished ==
    /\ pc = "import" /\ journal.phase = "none"
    /\ Goto(IF this.completed THEN "services" ELSE "off")
    /\ UNCHANGED <<disk, manual, kept>>

FinalizeFlush ==
    /\ pc = "import" /\ journal.phase = "building"
    /\ IF ValidateBackupTopology(FALSE) /\ RebuiltChainReachesPreservedWork
       THEN live' = Flushed /\ Goto("commit")
       ELSE Goto("off") /\ UNCHANGED live
    /\ UNCHANGED <<backup, partial, journal, manual, kept>>

FinalizeCommit ==
    /\ pc = "commit"
    /\ IF live["base"].tip = tip
       THEN /\ journal' = [journal EXCEPT !.phase = "commit-ready", !.commitment = live["base"].tip]
            /\ pc' = "shutdown" /\ this' = [this EXCEPT !.committed = TRUE]
            /\ UNCHANGED <<flag, pending, overrides, tip>>
       ELSE Goto("off") /\ UNCHANGED journal
    /\ UNCHANGED <<live, backup, partial, manual, kept>>

Shutdown ==
    /\ pc \in {"shutdown", "services"}
    /\ live' = Flushed
    /\ Goto("off")
    /\ UNCHANGED <<backup, partial, journal, manual, kept>>

\* The process is killed, interrupted, or stopped by a failing operation.
Stop ==
    /\ pc # "off"
    /\ Goto("off")
    /\ UNCHANGED <<disk, manual, kept>>

Step ==
    \/ RecoverWithoutJournal \/ RecoverCommitReady \/ RecoverCleanupReady \/ RecoverBuilding
    \/ Restore \/ RollbackDone
    \/ Sweep("sweep", Goto("load"))
    \/ Sweep("sweep_verified", AfterVerification /\ UNCHANGED <<flag, this, pending, tip>>)
    \/ Retire("retire", "sweep") \/ Retire("retire_verified", "sweep_verified")
    \/ LoadPlain \/ LoadFullReindex \/ BeginStagedChainstateRebuild
    \/ \E p \in Paths : Stage(p)
    \/ StageDone \/ LoadRefused \/ Load
    \/ FinalizeReopened \/ ImportFinished \/ FinalizeFlush \/ FinalizeCommit

Interference == Stop \/ Start("chainstate") \/ Start("full")

Next ==
    \/ (Start("none") \/ Step \/ ConnectTip \/ FlushStateToDisk \/ Shutdown) /\ UNCHANGED calm
    \/ ~calm /\ Interference /\ UNCHANGED calm
    \/ ~calm /\ calm' = TRUE /\ UNCHANGED <<disk, process, manual, kept>>

Spec == Init /\ [][Next]_vars

\* A process goes on as long as it can, a process that has committed ends
\* itself, and a node that is down is started again, without a reindex option.
Fairness ==
    /\ WF_vars(Step /\ UNCHANGED calm)
    /\ WF_vars(pc = "shutdown" /\ Shutdown /\ UNCHANGED calm)
    /\ WF_vars(Start("none") /\ UNCHANGED calm)

FairSpec == Spec /\ Fairness

-----------------------------------------------------------------------------
\* Properties

\* Until a second process has verified the replacement, every database that
\* was moved aside is on disk in one piece, in its old place or in the backup,
\* wherever BeginStagedChainstateRebuild, RestoreJournaledPath or a finalizer
\* was cut off.
SourcesSurvive ==
    journal.phase \in Building \cup {"commit-ready"} \/ this.committed =>
        \A p \in Paths : PathExists(kept[p]) => kept[p] \in {live[p], backup[p]}

\* Whatever was interrupted, and however often, the next start finds its way by
\* itself: no start of RecoverInterruptedRebuild, BeginStagedChainstateRebuild
\* or FinalizeChainstateRebuild ever has to demand manual recovery.
NoManualRecovery == ~manual

\* What the journal commits to is what is on disk for the verifying process,
\* although blocks may be connected and flushed around the commit.
CommitmentIsStable ==
    journal.phase \in Committed =>
        live["base"].state = "whole" /\ live["base"].ok /\ live["base"].tip = journal.commitment

\* The end of a rollback leaves exactly the directories the rebuild began with.
RollbackRestores ==
    [][journal.phase = "rolling-back" /\ journal'.phase = "none" =>
           \A p \in Paths : IF PathExists(kept[p]) THEN live'[p] = kept[p] ELSE ~PathExists(live'[p])]_vars

\* Once nobody interferes, a rebuild that was cut off is rolled back and one
\* that was committed ends with the node in service.
RebuildIsResolved ==
    /\ calm /\ journal.phase \in Building ~> journal.phase \in {"none"} \cup Committed
    /\ calm /\ journal.phase \in Committed ~> pc = "services"

=============================================================================
