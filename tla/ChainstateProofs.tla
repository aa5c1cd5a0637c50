-------------------------- MODULE ChainstateProofs --------------------------
(***************************************************************************)
(* The coins the chainstate holds.  The stack of caches implements plain   *)
(* maps, for any set of outpoints, coins and blocks; the protected rebuild *)
(* loses no database, never needs manual recovery and keeps its            *)
(* commitment, whatever the heights of the databases.                      *)
(***************************************************************************)
EXTENDS ChainstateRebuild, CoinsCache, TLAPS

-----------------------------------------------------------------------------
\* The protected rebuild

\* Where a process may be in each phase of the journal.
PlaceInvariant ==
    /\ journal.phase = "none" =>
           pc \in {"off", "recover", "sweep", "load", "init", "sweep_verified", "import", "services"}
    /\ journal.phase = "prepared" => pc \in {"off", "recover", "stage"}
    /\ journal.phase = "building" => pc \in {"off", "recover", "init", "import", "commit"}
    /\ journal.phase = "rolling-back" => pc \in {"off", "recover", "restore"}
    /\ journal.phase = "commit-ready" => pc \in {"off", "recover", "load", "init", "finalize", "shutdown"}
    /\ journal.phase = "cleanup-ready" => pc \in {"off", "recover", "retire", "retire_verified"}

\* What the flags of the process say.
FlagInvariant ==
    /\ this.committed => journal.phase = "commit-ready" /\ pc \in {"shutdown", "off"}
    /\ pc = "shutdown" => this.committed /\ tip = journal.commitment
    /\ pc = "finalize" => this.verified /\ tip = live["base"].tip
    /\ pc = "init" /\ journal.phase = "building" => this.staged

\* Where the database p is while the journal declares it, and when it does not.
PathInvariant(p) ==
    /\ live[p].state # "torn" /\ kept[p].state # "torn"
    /\ journal.present[p] =>
         /\ journal.phase = "prepared" =>
              \/ live[p] = kept[p] /\ ~PathExists(backup[p])
              \/ backup[p] = kept[p] /\ ~PathExists(live[p])
         /\ journal.phase = "rolling-back" =>
              \/ backup[p] = kept[p] /\ (PathExists(partial[p]) => ~PathExists(live[p]))
              \/ ~PathExists(backup[p]) /\ live[p] = kept[p]
         /\ journal.phase \in {"building", "commit-ready"} => backup[p] = kept[p]
         /\ journal.phase = "commit-ready" => journal.commitment >= kept[p].tip
         /\ pc = "commit" => tip >= backup[p].tip
    /\ ~journal.present[p] =>
         /\ ~PathExists(backup[p])
         /\ journal.phase = "prepared" => ~PathExists(live[p])
         /\ journal.phase = "rolling-back" /\ PathExists(partial[p]) => ~PathExists(live[p])
    /\ journal.phase \notin {"none", "cleanup-ready"} => journal.present[p] = PathExists(kept[p])
    /\ journal.phase \in {"prepared", "building", "commit-ready", "cleanup-ready"} \/ pc = "load" =>
           ~PathExists(partial[p])

\* The invariant of the protocol that induction needs.
RebuildInvariant ==
    /\ PlaceInvariant
    /\ FlagInvariant
    /\ \A p \in Paths : PathInvariant(p)
    /\ journal.phase = "none" => journal = NoJournal
    /\ journal.phase \in {"building", "commit-ready", "cleanup-ready"} => ~PathExists(live["snapshot"])
    /\ pc \in {"import", "commit"} /\ journal.phase = "building" => live["base"].state = "whole" /\ live["base"].ok
    /\ CommitmentIsStable
    /\ NoManualRecovery

IInv == TypeOK /\ RebuildInvariant

USE DEF Paths, PathExists, Absent, NoTip, Building, Committed, NoJournal, NoFlags

\* First picks one of the paths.
LEMMA FirstType == ASSUME NEW S \in SUBSET Paths PROVE First(S) \in Paths
    BY Zenon DEF First

\* A step of CleanupTree leaves a directory.
LEMMA CleanupTreeType == ASSUME NEW dir \in Dirs PROVE CleanupTree(dir) \in Dirs
    BY MaxTipAssumption DEF Dirs, CleanupTree

\* A database that LoadChainstate creates is a directory.
LEMMA NewDatabaseType ==
    ASSUME NEW id \in {0, 1}
    PROVE  [state |-> "whole", id |-> id, tip |-> 0, ok |-> TRUE] \in Dirs
    BY MaxTipAssumption DEF Dirs

\* A missing directory is a directory value.
LEMMA AbsentType == Absent \in Dirs
    BY MaxTipAssumption DEF Dirs

\* CompleteChainstateInitialization leaves a database or none on each path.
LEMMA OpenedType == ASSUME TypeOK PROVE Opened \in [Paths -> Dirs]
<1>1. 1 - kept["base"].id \in {0, 1}
    BY DEF TypeOK, Dirs
<1> QED BY <1>1, NewDatabaseType, Zenon DEF Opened, TypeOK

\* A flush changes the tip of a database and nothing of its shape.
LEMMA FlushedType == ASSUME TypeOK PROVE Flushed \in [Paths -> Dirs]
    BY DEF TypeOK, Dirs, Flushed, Active

\* The flags of the process stay flags when one of them is set.
LEMMA FlagsType ==
    ASSUME NEW flags \in Flags
    PROVE  /\ NoFlags \in Flags
           /\ [flags EXCEPT !.staged = TRUE] \in Flags
           /\ [flags EXCEPT !.committed = TRUE] \in Flags
           /\ [flags EXCEPT !.reopened = TRUE] \in Flags
           /\ [flags EXCEPT !.verified = TRUE] \in Flags
           /\ [flags EXCEPT !.completed = TRUE] \in Flags
    BY Zenon DEF Flags

\* A process that starts preserves the invariant.
LEMMA StartInv ==
    ASSUME IInv, NEW option \in {"none", "chainstate", "full"}, Start(option), calm' \in BOOLEAN
    PROVE  IInv'
<1>1. TypeOK'
    BY MaxTipAssumption, SMTT(60) DEF IInv, Flags, TypeOK, Dirs, Start, disk
<1>2. RebuildInvariant'
    BY MaxTipAssumption DEF Flags, IInv, TypeOK, Dirs, RebuildInvariant, PlaceInvariant, FlagInvariant, PathInvariant,
           CommitmentIsStable, NoManualRecovery, Start, disk
<1> QED BY <1>1, <1>2, Zenon DEF IInv

\* RecoverInterruptedRebuild without a journal preserves the invariant.
LEMMA RecoverWithoutJournalInv ==
    ASSUME IInv, RecoverWithoutJournal, calm' \in BOOLEAN
    PROVE  IInv'
<1>1. TypeOK'
    BY MaxTipAssumption, ZenonT(60) DEF IInv, TypeOK, Dirs, RecoverWithoutJournal, DemandManualRecovery, Goto, disk
<1>2. RebuildInvariant'
    BY MaxTipAssumption DEF Flags, IInv, TypeOK, Dirs, RebuildInvariant, PlaceInvariant, FlagInvariant, PathInvariant,
           CommitmentIsStable, NoManualRecovery, RecoverWithoutJournal, DemandManualRecovery, Goto, disk
<1> QED BY <1>1, <1>2, Zenon DEF IInv

\* RecoverInterruptedRebuild at COMMIT_READY preserves the invariant.
LEMMA RecoverCommitReadyInv ==
    ASSUME IInv, RecoverCommitReady, calm' \in BOOLEAN
    PROVE  IInv'
<1>1. TypeOK'
    BY FlagsType, MaxTipAssumption, ZenonT(60)
       DEF IInv, TypeOK, Dirs, RecoverCommitReady, ValidateBackupTopology, DemandManualRecovery, Goto, disk
<1>2. RebuildInvariant'
    BY MaxTipAssumption DEF Flags, IInv, TypeOK, Dirs, RebuildInvariant, PlaceInvariant, FlagInvariant, PathInvariant,
           CommitmentIsStable, NoManualRecovery, RecoverCommitReady, ValidateBackupTopology, DemandManualRecovery, Goto, disk
<1> QED BY <1>1, <1>2, Zenon DEF IInv

\* RecoverInterruptedRebuild at CLEANUP_READY preserves the invariant.
LEMMA RecoverCleanupReadyInv ==
    ASSUME IInv, RecoverCleanupReady, calm' \in BOOLEAN
    PROVE  IInv'
<1>1. TypeOK'
    BY MaxTipAssumption, ZenonT(60)
       DEF IInv, TypeOK, Dirs, RecoverCleanupReady, ValidateBackupTopology, DemandManualRecovery, Goto, disk
<1>2. RebuildInvariant'
    BY MaxTipAssumption DEF Flags, IInv, TypeOK, Dirs, RebuildInvariant, PlaceInvariant, FlagInvariant, PathInvariant,
           CommitmentIsStable, NoManualRecovery, RecoverCleanupReady, ValidateBackupTopology, DemandManualRecovery, Goto, disk
<1> QED BY <1>1, <1>2, Zenon DEF IInv

\* RecoverInterruptedRebuild of an unfinished build preserves the invariant.
LEMMA RecoverBuildingInv ==
    ASSUME IInv, RecoverBuilding, calm' \in BOOLEAN
    PROVE  IInv'
<1>1. TypeOK'
  <2>1. /\ UNCHANGED <<live, backup, partial, flag, this, pending, overrides, tip, kept>>
        /\ pc' \in {"restore", "off"} /\ manual' \in {manual, TRUE}
        /\ journal' \in {journal, [journal EXCEPT !.phase = "rolling-back"]}
        /\ journal.phase \in Building
    BY Zenon DEF RecoverBuilding, DemandManualRecovery, Goto
  <2>2. /\ journal' \in [phase : {"none"} \cup Building \cup Committed, present : [Paths -> BOOLEAN], commitment : 0..NoTip]
        /\ journal'.phase # "none" =>
              (\E p \in Paths : journal'.present[p]) /\ (journal'.phase \in Committed <=> journal'.commitment # NoTip)
    BY <2>1, Zenon DEF IInv, TypeOK
  <2>. QED  BY <2>1, <2>2, Zenon DEF IInv, TypeOK
<1>2. RebuildInvariant'
    BY MaxTipAssumption DEF Flags, IInv, TypeOK, Dirs, RebuildInvariant, PlaceInvariant, FlagInvariant, PathInvariant,
           CommitmentIsStable, NoManualRecovery, RecoverBuilding, ValidateBackupTopology, DemandManualRecovery, Goto
<1> QED BY <1>1, <1>2, Zenon DEF IInv

\* RestoreJournaledPath preserves the invariant.
LEMMA RestoreInv ==
    ASSUME IInv, Restore, calm' \in BOOLEAN
    PROVE  IInv'
<1> DEFINE left == {p \in Paths : ~Restored(p)}
<1>1. First(left) \in left
    BY Zenon DEF Restore, First
<1>2. RestoreJournaledPath(First(left))
    BY Zenon DEF Restore
<1>3. PICK p \in Paths : ~Restored(p) /\ RestoreJournaledPath(p)
    BY <1>1, <1>2, Zenon
<1>4. pc = "restore" /\ journal.phase = "rolling-back"
    BY Zenon DEF IInv, TypeOK, RebuildInvariant, PlaceInvariant, Restore
<1>5. /\ journal.present[p] => PathExists(backup[p])
      /\ ~journal.present[p] => ~PathExists(backup[p]) /\ PathExists(live[p])
      /\ PathExists(live[p]) => ~PathExists(partial[p])
    BY <1>3, <1>4 DEF IInv, TypeOK, RebuildInvariant, PathInvariant, Restored
<1>6. CASE PathExists(live[p])
  <2>1. /\ partial' = [partial EXCEPT ![p] = live[p]]
        /\ live' = [live EXCEPT ![p] = Absent]
        /\ Goto("restore")
        /\ UNCHANGED <<backup, journal, manual, kept>>
      BY <1>3, <1>5, <1>6, Zenon DEF RestoreJournaledPath, PreservePartial
  <2>2. TypeOK'
    <3>1. partial' \in [Paths -> Dirs] /\ live' \in [Paths -> Dirs]
        BY <2>1, AbsentType, Zenon DEF IInv, TypeOK
    <3> QED BY <2>1, <3>1 DEF IInv, TypeOK, Goto
  <2>3. RebuildInvariant'
      BY <1>4, <1>5, <2>1 DEF IInv, TypeOK, RebuildInvariant, PlaceInvariant, FlagInvariant, PathInvariant,
             CommitmentIsStable, NoManualRecovery, Goto
  <2> QED BY <2>2, <2>3, Zenon DEF IInv
<1>7. CASE ~PathExists(live[p])
  <2>1. /\ live' = [live EXCEPT ![p] = backup[p]]
        /\ backup' = [backup EXCEPT ![p] = Absent]
        /\ Goto("restore")
        /\ UNCHANGED <<partial, journal, manual, kept>>
      BY <1>3, <1>5, <1>7, Zenon DEF RestoreJournaledPath, RestoreBackup
  <2>2. TypeOK'
    <3>1. backup' \in [Paths -> Dirs] /\ live' \in [Paths -> Dirs]
        BY <2>1, AbsentType, Zenon DEF IInv, TypeOK
    <3> QED BY <2>1, <3>1 DEF IInv, TypeOK, Goto
  <2>3. RebuildInvariant'
      BY <1>4, <1>5, <1>7, <2>1 DEF IInv, TypeOK, RebuildInvariant, PlaceInvariant, FlagInvariant, PathInvariant,
             CommitmentIsStable, NoManualRecovery, Goto
  <2> QED BY <2>2, <2>3, Zenon DEF IInv
<1> QED BY <1>6, <1>7, Zenon

\* The removal of the journal after a rollback preserves the invariant.
LEMMA RollbackDoneInv ==
    ASSUME IInv, RollbackDone, calm' \in BOOLEAN
    PROVE  IInv'
<1>1. TypeOK'
    BY MaxTipAssumption, SMTT(60) DEF IInv, Flags, TypeOK, Dirs, RollbackDone, Restored, Goto
<1>2. RebuildInvariant'
    BY MaxTipAssumption DEF Flags, IInv, TypeOK, Dirs, RebuildInvariant, PlaceInvariant, FlagInvariant, PathInvariant,
           CommitmentIsStable, NoManualRecovery, RollbackDone, Restored, Goto
<1> QED BY <1>1, <1>2, Zenon DEF IInv

\* The removal of partial directories during recovery preserves the invariant.
LEMMA SweepInv ==
    ASSUME IInv, Sweep("sweep", Goto("load")), calm' \in BOOLEAN
    PROVE  IInv'
<1> DEFINE left == {p \in Paths : PathExists(partial[p])}
<1>1. TypeOK'
  <2>1. CASE left = {}
      BY <2>1 DEF IInv, TypeOK, Sweep, Goto, disk
  <2>2. CASE left # {}
    <3>1. partial' = [partial EXCEPT ![First(left)] = CleanupTree(partial[First(left)])]
        BY <2>2, Zenon DEF Sweep, IInv, TypeOK
    <3>2. CleanupTree(partial[First(left)]) \in Dirs
        BY FirstType, CleanupTreeType, Zenon DEF IInv, TypeOK
    <3>3. partial' \in [Paths -> Dirs]
        BY <3>1, <3>2, Zenon DEF IInv, TypeOK
    <3> QED BY <2>2, <3>3 DEF IInv, TypeOK, Sweep, Goto
  <2> QED BY <2>1, <2>2, Zenon
<1>2. RebuildInvariant'
    BY MaxTipAssumption DEF Flags, IInv, TypeOK, Dirs, RebuildInvariant, PlaceInvariant, FlagInvariant, PathInvariant,
           CommitmentIsStable, NoManualRecovery, Sweep, First, CleanupTree, Goto, disk
<1> QED BY <1>1, <1>2, Zenon DEF IInv

\* The removal of partial directories after verification preserves the invariant.
LEMMA SweepVerifiedInv ==
    ASSUME IInv, Sweep("sweep_verified", AfterVerification /\ UNCHANGED <<flag, this, pending, tip>>), calm' \in BOOLEAN
    PROVE  IInv'
<1> DEFINE left == {p \in Paths : PathExists(partial[p])}
<1>1. TypeOK'
  <2>1. CASE left = {}
      BY <2>1 DEF IInv, TypeOK, Sweep, Goto, AfterVerification, disk
  <2>2. CASE left # {}
    <3>1. partial' = [partial EXCEPT ![First(left)] = CleanupTree(partial[First(left)])]
        BY <2>2, Zenon DEF Sweep, IInv, TypeOK
    <3>2. CleanupTree(partial[First(left)]) \in Dirs
        BY FirstType, CleanupTreeType, Zenon DEF IInv, TypeOK
    <3>3. partial' \in [Paths -> Dirs]
        BY <3>1, <3>2, Zenon DEF IInv, TypeOK
    <3> QED BY <2>2, <3>3 DEF IInv, TypeOK, Sweep, Goto
  <2> QED BY <2>1, <2>2, Zenon
<1>2. RebuildInvariant'
    BY MaxTipAssumption DEF Flags, IInv, TypeOK, Dirs, RebuildInvariant, PlaceInvariant, FlagInvariant, PathInvariant,
           CommitmentIsStable, NoManualRecovery, Sweep, First, CleanupTree, AfterVerification, Goto, disk
<1> QED BY <1>1, <1>2, Zenon DEF IInv

\* The removal of the backups and of the journal preserves the invariant.
LEMMA RetireInv ==
    ASSUME IInv, Retire("retire", "sweep") \/ Retire("retire_verified", "sweep_verified"), calm' \in BOOLEAN
    PROVE  IInv'
<1> DEFINE left == {p \in Paths : journal.present[p] /\ PathExists(backup[p])}
<1>1. TypeOK'
  <2>1. CASE left = {}
    <3>1. this' \in Flags
        BY <2>1, FlagsType, Zenon DEF Retire, IInv, TypeOK
    <3>2. journal' = NoJournal
        BY <2>1, Zenon DEF Retire
    <3> QED BY <2>1, <3>1, <3>2, MaxTipAssumption DEF IInv, TypeOK, Retire
  <2>2. CASE left # {}
    <3>1. backup' = [backup EXCEPT ![First(left)] = CleanupTree(backup[First(left)])]
        BY <2>2, Zenon DEF Retire, IInv, TypeOK
    <3>2. CleanupTree(backup[First(left)]) \in Dirs
        BY FirstType, CleanupTreeType, Zenon DEF IInv, TypeOK
    <3>3. backup' \in [Paths -> Dirs]
        BY <3>1, <3>2, Zenon DEF IInv, TypeOK
    <3> QED BY <2>2, <3>3 DEF IInv, TypeOK, Retire, Goto
  <2> QED BY <2>1, <2>2, Zenon
<1>2. RebuildInvariant'
    BY MaxTipAssumption DEF Flags, IInv, TypeOK, Dirs, RebuildInvariant, PlaceInvariant, FlagInvariant, PathInvariant,
           CommitmentIsStable, NoManualRecovery, Retire, First, CleanupTree, Goto
<1> QED BY <1>1, <1>2, Zenon DEF IInv

\* A start without a reindex preserves the invariant.
LEMMA LoadPlainInv ==
    ASSUME IInv, LoadPlain, calm' \in BOOLEAN
    PROVE  IInv'
<1>1. TypeOK'
    BY MaxTipAssumption, SMTT(60) DEF IInv, TypeOK, Dirs, LoadPlain, Goto, disk
<1>2. RebuildInvariant'
    BY MaxTipAssumption DEF Flags, IInv, TypeOK, Dirs, RebuildInvariant, PlaceInvariant, FlagInvariant, PathInvariant,
           CommitmentIsStable, NoManualRecovery, LoadPlain, Goto, disk
<1> QED BY <1>1, <1>2, Zenon DEF IInv

\* A full reindex preserves the invariant.
LEMMA LoadFullReindexInv ==
    ASSUME IInv, LoadFullReindex, calm' \in BOOLEAN
    PROVE  IInv'
<1>1. TypeOK'
  <2>1. live' \in [Paths -> Dirs]
      BY NewDatabaseType, AbsentType, ZenonT(60) DEF IInv, TypeOK, LoadFullReindex, disk
  <2>2. kept' \in [Paths -> Dirs]
      BY AbsentType, Zenon DEF IInv, TypeOK, LoadFullReindex
  <2> QED BY <2>1, <2>2 DEF IInv, TypeOK, LoadFullReindex, Goto, disk
<1>2. RebuildInvariant'
    BY MaxTipAssumption DEF Flags, IInv, TypeOK, Dirs, RebuildInvariant, PlaceInvariant, FlagInvariant, PathInvariant,
           CommitmentIsStable, NoManualRecovery, LoadFullReindex, Goto, disk
<1> QED BY <1>1, <1>2, Zenon DEF IInv

\* The journal entry of BeginStagedChainstateRebuild preserves the invariant.
LEMMA BeginStagedInv ==
    ASSUME IInv, BeginStagedChainstateRebuild, calm' \in BOOLEAN
    PROVE  IInv'
<1> DEFINE new == [phase |-> "prepared", present |-> [p \in Paths |-> PathExists(live[p])], commitment |-> NoTip]
<1>1. CASE \A p \in Paths : ~PathExists(live[p])
  <2>1. UNCHANGED <<disk, manual, kept, flag, pending, overrides, tip>> /\ pc' = "init" /\ this' = NoFlags
      BY <1>1, Zenon DEF BeginStagedChainstateRebuild
  <2> QED BY <1>1, <2>1 DEF Flags, IInv, TypeOK, Dirs, RebuildInvariant, PlaceInvariant, FlagInvariant,
           PathInvariant, CommitmentIsStable, NoManualRecovery, disk,
           BeginStagedChainstateRebuild
<1>2. CASE \E p \in Paths : PathExists(live[p])
  <2>1. journal = NoJournal
      BY Zenon DEF IInv, TypeOK, RebuildInvariant, PlaceInvariant, BeginStagedChainstateRebuild
  <2>2. \A p \in Paths : ~PathExists(backup[p]) /\ ~PathExists(partial[p])
      BY <2>1 DEF IInv, TypeOK, RebuildInvariant, PathInvariant, BeginStagedChainstateRebuild
  <2>3. /\ journal' = new /\ kept' = live /\ pc' = "stage" /\ this' = NoFlags
        /\ UNCHANGED <<live, backup, partial, flag, pending, overrides, tip, manual>>
      BY <1>2, <2>1, <2>2, Zenon DEF BeginStagedChainstateRebuild
  <2>4. TypeOK'
    <3>1. this' \in Flags
        BY <2>3, FlagsType, Zenon DEF IInv, TypeOK
    <3>2. /\ new \in [phase : {"none"} \cup Building \cup Committed, present : [Paths -> BOOLEAN],
                      commitment : 0..NoTip]
          /\ new.phase = "prepared" /\ new.commitment = NoTip
        BY MaxTipAssumption
    <3>3. \E p \in Paths : new.present[p]
        BY <1>2, ZenonT(60)
    <3> HIDE DEF new
    <3> QED BY <2>3, <3>1, <3>2, <3>3, Zenon DEF IInv, TypeOK
  <2>5. RebuildInvariant'
      BY <1>2, <2>2, <2>3, ZenonT(60) DEF IInv, TypeOK, Dirs, RebuildInvariant, PlaceInvariant, FlagInvariant,
           PathInvariant, CommitmentIsStable, NoManualRecovery
  <2> QED BY <2>4, <2>5, Zenon DEF IInv
<1> QED BY <1>1, <1>2, ZenonT(60)


\* A rename of BeginStagedChainstateRebuild preserves the invariant.
LEMMA StageInv ==
    ASSUME IInv, NEW p \in Paths, Stage(p), calm' \in BOOLEAN
    PROVE  IInv'
<1>1. TypeOK'
    BY MaxTipAssumption DEF IInv, TypeOK, Dirs, Stage, StageMoves, First, Goto
<1>2. RebuildInvariant'
    BY MaxTipAssumption DEF Flags, IInv, TypeOK, Dirs, RebuildInvariant, PlaceInvariant, FlagInvariant, PathInvariant,
           CommitmentIsStable, NoManualRecovery, Stage, StageMoves, First, Goto
<1> QED BY <1>1, <1>2, Zenon DEF IInv

\* The end of BeginStagedChainstateRebuild preserves the invariant.
LEMMA StageDoneInv ==
    ASSUME IInv, StageDone, calm' \in BOOLEAN
    PROVE  IInv'
<1>1. TypeOK'
  <2>1. this' \in Flags
      BY FlagsType, Zenon DEF IInv, TypeOK, StageDone
  <2>2. journal' = [phase |-> "building", present |-> journal.present, commitment |-> journal.commitment]
      BY Zenon DEF IInv, TypeOK, StageDone
  <2>3. journal.phase = "prepared"
      BY Zenon DEF IInv, TypeOK, RebuildInvariant, PlaceInvariant, StageDone
  <2> QED BY <2>1, <2>2, <2>3, Zenon DEF IInv, TypeOK, StageDone
<1>2. RebuildInvariant'
    BY MaxTipAssumption DEF Flags, IInv, TypeOK, Dirs, RebuildInvariant, PlaceInvariant, FlagInvariant, PathInvariant,
           CommitmentIsStable, NoManualRecovery, StageDone, StageMoves
<1> QED BY <1>1, <1>2, Zenon DEF IInv

\* A load that fails preserves the invariant.
LEMMA LoadRefusedInv ==
    ASSUME IInv, LoadRefused, calm' \in BOOLEAN
    PROVE  IInv'
<1>1. TypeOK'
    BY MaxTipAssumption DEF IInv, TypeOK, Dirs, LoadRefused, Opened, Goto
<1>2. RebuildInvariant'
    BY MaxTipAssumption DEF Flags, IInv, TypeOK, Dirs, RebuildInvariant, PlaceInvariant, FlagInvariant, PathInvariant,
           CommitmentIsStable, NoManualRecovery, LoadRefused, Opened, Goto
<1> QED BY <1>1, <1>2, Zenon DEF IInv

\* A load that succeeds preserves the invariant.
LEMMA LoadInv ==
    ASSUME IInv, Load, calm' \in BOOLEAN
    PROVE  IInv'
<1> DEFINE opened == Opened
<1>1. opened \in [Paths -> Dirs] /\ Active \in Paths
    BY OpenedType, Zenon DEF IInv, Active
<1>2. /\ live' = opened /\ tip' = opened[Active].tip
      /\ UNCHANGED <<backup, partial, journal, flag, pending, manual, kept>>
    BY Zenon DEF Load
<1>3. this' \in Flags /\ this'.verified /\ this'.committed = this.committed
    BY FlagsType, ZenonT(60) DEF Load, IInv, TypeOK, Flags
<1>4. /\ PathExists(live["base"]) => opened = live
      /\ PathExists(opened["base"]) /\ opened["snapshot"] = live["snapshot"]
      /\ ~PathExists(live["base"]) => opened["base"].state = "whole"
    BY Zenon DEF IInv, TypeOK, Opened
<1>5. \A p \in Paths : PathExists(opened[p]) => opened[p].ok
    BY Zenon DEF Load
<1>6. ~this.committed
    BY Zenon DEF IInv, RebuildInvariant, FlagInvariant, Load
<1>7. /\ journal.phase \in Committed => pc' = "finalize" /\ overrides' = overrides
      /\ journal.phase \notin Committed => pc' \in {"import", "services"} /\ overrides' \in BOOLEAN
    BY Zenon DEF IInv, TypeOK, Load, AfterVerification
<1>8. TypeOK'
  <2>1. tip' \in 0..MAX_TIP
      BY <1>1, <1>2, Zenon DEF Dirs
  <2> QED BY <1>1, <1>2, <1>3, <1>7, <2>1 DEF IInv, TypeOK
<1>9. RebuildInvariant'
  <2> HIDE DEF opened
  <2>1. journal.phase \in {"none", "building", "commit-ready"} /\ pc = "init"
      BY Zenon DEF IInv, TypeOK, RebuildInvariant, PlaceInvariant, Load
  <2>2. PlaceInvariant'
      BY <1>2, <1>7, <2>1, Zenon DEF PlaceInvariant, IInv, RebuildInvariant, FlagInvariant, Load, AfterVerification
  <2>3. journal.phase \in {"building", "commit-ready"} => ~PathExists(live["snapshot"]) /\ Active = "base"
      BY Zenon DEF IInv, RebuildInvariant, Active
  <2>4. journal.phase = "commit-ready" => opened = live
      BY <1>4, Zenon DEF IInv, RebuildInvariant, CommitmentIsStable
  <2>5. FlagInvariant'
      BY <1>2, <1>3, <1>6, <1>7, <2>1, <2>3, <2>4, Zenon DEF IInv, RebuildInvariant, FlagInvariant
  <2>6. \A p \in Paths : PathInvariant(p)'
      BY <1>2, <1>4, <1>7, <2>1 DEF IInv, TypeOK, RebuildInvariant, PathInvariant
  <2>7. journal.phase = "building" => opened["base"].state = "whole" /\ opened["base"].ok
      BY <1>4, <1>5 DEF IInv, RebuildInvariant, PathInvariant, TypeOK, Dirs
  <2>8. CommitmentIsStable'
      BY <1>2, <2>1, <2>4, Zenon DEF IInv, RebuildInvariant, CommitmentIsStable
  <2> QED BY <1>2, <1>4, <1>7, <2>1, <2>2, <2>5, <2>6, <2>7, <2>8, Zenon DEF IInv, RebuildInvariant, NoManualRecovery
<1> QED BY <1>8, <1>9, Zenon DEF IInv


\* A connected block preserves the invariant.
LEMMA ConnectTipInv ==
    ASSUME IInv, ConnectTip, calm' \in BOOLEAN
    PROVE  IInv'
<1>1. TypeOK'
    BY MaxTipAssumption, SMTT(60) DEF IInv, TypeOK, Dirs, ConnectTip, disk
<1>2. RebuildInvariant'
    BY MaxTipAssumption DEF Flags, IInv, TypeOK, Dirs, RebuildInvariant, PlaceInvariant, FlagInvariant, PathInvariant,
           CommitmentIsStable, NoManualRecovery, ConnectTip, disk
<1> QED BY <1>1, <1>2, Zenon DEF IInv

\* A flush preserves the invariant.
LEMMA FlushInv ==
    ASSUME IInv, FlushStateToDisk, calm' \in BOOLEAN
    PROVE  IInv'
<1>1. TypeOK'
    BY MaxTipAssumption, SMTT(60) DEF IInv, TypeOK, Dirs, FlushStateToDisk, Flushed, Active, process
<1>2. RebuildInvariant'
    BY MaxTipAssumption DEF Flags, IInv, TypeOK, Dirs, RebuildInvariant, PlaceInvariant, FlagInvariant, PathInvariant,
           CommitmentIsStable, NoManualRecovery, FlushStateToDisk, Flushed, Active, process
<1> QED BY <1>1, <1>2, Zenon DEF IInv

\* The verification in the second process preserves the invariant.
LEMMA FinalizeReopenedInv ==
    ASSUME IInv, FinalizeReopened, calm' \in BOOLEAN
    PROVE  IInv'
<1>1. TypeOK'
  <2>1. live' \in [Paths -> Dirs]
      BY FlushedType, Zenon DEF IInv, TypeOK, FinalizeReopened, DemandManualRecovery
  <2>2. journal.phase = "commit-ready"
      BY Zenon DEF IInv, TypeOK, RebuildInvariant, PlaceInvariant, FinalizeReopened
  <2> QED BY <2>1, <2>2, ZenonT(60) DEF IInv, TypeOK, FinalizeReopened, DemandManualRecovery, Goto
<1>2. RebuildInvariant'
    BY MaxTipAssumption DEF Flags, IInv, TypeOK, Dirs, RebuildInvariant, PlaceInvariant, FlagInvariant, PathInvariant,
           CommitmentIsStable, NoManualRecovery, FinalizeReopened, Flushed, Active, ValidateBackupTopology,
           RebuiltChainReachesPreservedWork, DemandManualRecovery, Goto
<1> QED BY <1>1, <1>2, Zenon DEF IInv

\* The end of an import without a rebuild preserves the invariant.
LEMMA ImportFinishedInv ==
    ASSUME IInv, ImportFinished, calm' \in BOOLEAN
    PROVE  IInv'
<1>1. TypeOK'
    BY MaxTipAssumption, Zenon DEF IInv, TypeOK, Dirs, ImportFinished, Goto, disk
<1>2. RebuildInvariant'
    BY MaxTipAssumption DEF Flags, IInv, TypeOK, Dirs, RebuildInvariant, PlaceInvariant, FlagInvariant, PathInvariant,
           CommitmentIsStable, NoManualRecovery, ImportFinished, Goto, disk
<1> QED BY <1>1, <1>2, Zenon DEF IInv

\* The flush of FinalizeChainstateRebuild preserves the invariant.
LEMMA FinalizeFlushInv ==
    ASSUME IInv, FinalizeFlush, calm' \in BOOLEAN
    PROVE  IInv'
<1>1. TypeOK'
    BY MaxTipAssumption DEF IInv, TypeOK, Dirs, FinalizeFlush, Flushed, Active, ValidateBackupTopology,
           RebuiltChainReachesPreservedWork, Goto
<1>2. RebuildInvariant'
    BY MaxTipAssumption DEF Flags, IInv, TypeOK, Dirs, RebuildInvariant, PlaceInvariant, FlagInvariant, PathInvariant,
           CommitmentIsStable, NoManualRecovery, FinalizeFlush, Flushed, Active, ValidateBackupTopology,
           RebuiltChainReachesPreservedWork, Goto
<1> QED BY <1>1, <1>2, Zenon DEF IInv

\* The commit of FinalizeChainstateRebuild preserves the invariant.
LEMMA FinalizeCommitInv ==
    ASSUME IInv, FinalizeCommit, calm' \in BOOLEAN
    PROVE  IInv'
<1> DEFINE new == [phase |-> "commit-ready", present |-> journal.present, commitment |-> tip]
<1>0. journal.phase = "building"
    BY Zenon DEF IInv, TypeOK, RebuildInvariant, PlaceInvariant, FinalizeCommit
<1>1. CASE live["base"].tip = tip
  <2>1. journal' = new /\ UNCHANGED <<live, backup, partial, flag, pending, overrides, tip, manual, kept>>
      BY <1>1, Zenon DEF FinalizeCommit, IInv, TypeOK
  <2>2. this' \in Flags
      BY <1>1, FlagsType, Zenon DEF FinalizeCommit, IInv, TypeOK
  <2>3. this'.committed /\ pc' = "shutdown"
      BY <1>1, Zenon DEF FinalizeCommit, IInv, TypeOK, Flags
  <2>4. TypeOK'
      BY <1>0, <2>1, <2>2, <2>3, MaxTipAssumption, SMTT(60) DEF IInv, TypeOK
  <2>5. RebuildInvariant'
      BY <1>0, <1>1, <2>1, <2>3, MaxTipAssumption, SMTT(60)
         DEF IInv, TypeOK, Dirs, RebuildInvariant, PlaceInvariant, FlagInvariant,
           PathInvariant, CommitmentIsStable, NoManualRecovery,
           FinalizeCommit
  <2> QED BY <2>4, <2>5, Zenon DEF IInv
<1>2. CASE live["base"].tip # tip
    BY <1>0, <1>2, SMTT(60) DEF IInv, TypeOK, Dirs, RebuildInvariant, PlaceInvariant, FlagInvariant,
           PathInvariant, CommitmentIsStable, NoManualRecovery,
           FinalizeCommit, Goto
<1> QED BY <1>1, <1>2, Zenon


\* An orderly shutdown preserves the invariant.
LEMMA ShutdownInv ==
    ASSUME IInv, Shutdown, calm' \in BOOLEAN
    PROVE  IInv'
<1>1. TypeOK'
    BY MaxTipAssumption, SMTT(60) DEF IInv, TypeOK, Dirs, Shutdown, Flushed, Active, Goto
<1>2. RebuildInvariant'
    BY MaxTipAssumption, SMTT(60)
       DEF Flags, IInv, TypeOK, Dirs, RebuildInvariant, PlaceInvariant, FlagInvariant, PathInvariant,
           CommitmentIsStable, NoManualRecovery, Shutdown, Flushed, Active, Goto
<1> QED BY <1>1, <1>2, Zenon DEF IInv

\* A process that is cut off preserves the invariant.
LEMMA StopInv ==
    ASSUME IInv, Stop, calm' \in BOOLEAN
    PROVE  IInv'
<1>1. TypeOK'
    BY MaxTipAssumption, SMTT(60) DEF IInv, TypeOK, Dirs, Stop, Goto, disk
<1>2. RebuildInvariant'
    BY MaxTipAssumption DEF Flags, IInv, TypeOK, Dirs, RebuildInvariant, PlaceInvariant, FlagInvariant, PathInvariant,
           CommitmentIsStable, NoManualRecovery, Stop, Goto, disk
<1> QED BY <1>1, <1>2, Zenon DEF IInv

-----------------------------------------------------------------------------
\* The invariant holds of every datadir that the model starts from.
LEMMA InitInv == Init => IInv
<1> SUFFICES ASSUME Init PROVE IInv
    BY Zenon
<1>1. TypeOK
  <2>1. live \in [Paths -> Dirs]
    <3>1. PICK found \in SUBSET Paths, at \in [Paths -> 0..MAX_TIP], ok \in BOOLEAN :
              live = [p \in Paths |->
                        IF p \in found THEN [state |-> "whole", id |-> 0, tip |-> at[p], ok |-> ok] ELSE Absent]
        BY DEF Init
    <3>2. \A p \in Paths : [state |-> "whole", id |-> 0, tip |-> at[p], ok |-> ok] \in Dirs
        BY Zenon DEF Dirs
    <3> QED BY <3>1, <3>2, AbsentType, Zenon
  <2>2. backup \in [Paths -> Dirs] /\ partial \in [Paths -> Dirs] /\ kept \in [Paths -> Dirs]
      BY AbsentType, Zenon DEF Init
  <2>3. journal \in [phase : {"none"} \cup Building \cup Committed, present : [Paths -> BOOLEAN],
                     commitment : 0..NoTip]
      BY MaxTipAssumption DEF Init
  <2>4. this \in Flags
      BY Zenon DEF Init, Flags
  <2>5. /\ journal.phase = "none" /\ pc = "off" /\ flag = "none" /\ tip = 0
        /\ pending = FALSE /\ overrides = FALSE /\ manual = FALSE /\ calm = FALSE
      BY Zenon DEF Init
  <2>6. tip \in 0..MAX_TIP
      BY <2>5, MaxTipAssumption, SMTT(60)
  <2> QED BY <2>1, <2>2, <2>3, <2>4, <2>5, <2>6, Zenon DEF TypeOK
<1>2. RebuildInvariant
    BY MaxTipAssumption DEF Init, RebuildInvariant, PlaceInvariant, FlagInvariant, PathInvariant,
           CommitmentIsStable, NoManualRecovery
<1> QED BY <1>1, <1>2, Zenon DEF IInv

\* Every step of a process's start and of its rebuild preserves the invariant.
LEMMA StepInv == ASSUME IInv, Step, calm' \in BOOLEAN PROVE IInv'
    BY RecoverWithoutJournalInv, RecoverCommitReadyInv, RecoverCleanupReadyInv, RecoverBuildingInv,
       RestoreInv, RollbackDoneInv, SweepInv, SweepVerifiedInv, RetireInv, LoadPlainInv,
       LoadFullReindexInv, BeginStagedInv, StageInv, StageDoneInv, LoadRefusedInv, LoadInv,
       FinalizeReopenedInv, ImportFinishedInv, FinalizeFlushInv, FinalizeCommitInv, Zenon DEF Step

\* Every step preserves the invariant.
LEMMA NextInv == ASSUME IInv, [Next]_vars PROVE IInv'
<1>1. ASSUME UNCHANGED <<disk, process, manual, kept>>, calm' \in BOOLEAN PROVE IInv'
    BY <1>1 DEF disk, process, IInv, TypeOK, RebuildInvariant, PlaceInvariant, FlagInvariant, PathInvariant,
           CommitmentIsStable, NoManualRecovery
<1>2. calm' \in BOOLEAN
    BY Zenon DEF IInv, TypeOK, Next, vars
<1>3. CASE Start("none") \/ Start("chainstate") \/ Start("full")
    BY <1>2, <1>3, StartInv, Zenon
<1>4. CASE Step
    BY <1>2, <1>4, StepInv, Zenon
<1>5. CASE ConnectTip \/ FlushStateToDisk \/ Shutdown \/ Stop
    BY <1>2, <1>5, ConnectTipInv, FlushInv, ShutdownInv, StopInv, Zenon
<1>6. CASE UNCHANGED <<disk, process, manual, kept>>
    BY <1>1, <1>2, <1>6, Zenon
<1>7. CASE UNCHANGED vars
    BY <1>1, <1>2, <1>7, Zenon DEF vars, disk, process
<1> QED BY <1>3, <1>4, <1>5, <1>6, <1>7, ZenonT(60) DEF Next, Interference

\* The inductive invariant holds of every behaviour of the rebuild, whatever
\* the heights of the databases and wherever processes are stopped.
THEOREM Invariance == Spec => []IInv
    BY InitInv, NextInv, PTL DEF Spec

\* The databases that BeginStagedChainstateRebuild moves aside stay on disk in
\* one piece until a second process has verified the replacement.
THEOREM SourcesAreKept == Spec => []SourcesSurvive
<1>1. IInv => SourcesSurvive
    BY DEF IInv, TypeOK, RebuildInvariant, FlagInvariant, PathInvariant, SourcesSurvive
<1> QED BY <1>1, Invariance, PTL

\* No start ever has to demand manual recovery, whichever steps of
\* RecoverInterruptedRebuild and of the staging were cut off before.
THEOREM RecoveryIsAutomatic == Spec => []NoManualRecovery
<1>1. IInv => NoManualRecovery
    BY Zenon DEF IInv, RebuildInvariant
<1> QED BY <1>1, Invariance, PTL

\* The tip that the journal commits to is the tip on disk, although blocks are
\* connected and flushed while FinalizeChainstateRebuild commits.
THEOREM CommitmentHolds == Spec => []CommitmentIsStable
<1>1. IInv => CommitmentIsStable
    BY Zenon DEF IInv, RebuildInvariant
<1> QED BY <1>1, Invariance, PTL

\* A rollback that RecoverInterruptedRebuild ends has put back exactly the
\* databases that the rebuild began with.
THEOREM RollbackIsExact == Spec => RollbackRestores
<1>1. ASSUME IInv, [Next]_vars
      PROVE  [journal.phase = "rolling-back" /\ journal'.phase = "none" =>
                 \A p \in Paths : IF PathExists(kept[p]) THEN live'[p] = kept[p] ELSE ~PathExists(live'[p])]_vars
  <2> SUFFICES ASSUME journal.phase = "rolling-back", journal'.phase = "none", NEW p \in Paths
               PROVE  IF PathExists(kept[p]) THEN live'[p] = kept[p] ELSE ~PathExists(live'[p])
      BY Zenon
  <2>1. pc \in {"off", "recover", "restore"}
      BY <1>1, ZenonT(60) DEF IInv, RebuildInvariant, PlaceInvariant
  <2>2. CASE RollbackDone
      BY <1>1, <2>2 DEF RollbackDone, Restored, IInv, TypeOK, RebuildInvariant, PathInvariant
  <2>3. CASE Start("none") \/ Start("chainstate") \/ Start("full") \/ Stop
      BY <2>3, Zenon DEF Start, Stop, disk
  <2>4. CASE Step /\ ~RollbackDone
      BY <1>1, <2>1, <2>4, Zenon
         DEF Step, RecoverWithoutJournal, RecoverCommitReady, RecoverCleanupReady, RecoverBuilding,
             Restore, RestoreJournaledPath, PreservePartial, RestoreBackup, DemandManualRecovery, Sweep, Retire,
             LoadPlain, LoadFullReindex, BeginStagedChainstateRebuild, Stage, StageDone, LoadRefused, Load,
             FinalizeReopened, ImportFinished, FinalizeFlush, FinalizeCommit, disk, IInv, TypeOK
  <2>5. CASE ConnectTip \/ FlushStateToDisk \/ Shutdown
      BY <2>5, Zenon DEF ConnectTip, FlushStateToDisk, Shutdown, disk
  <2>6. CASE UNCHANGED <<disk, process, manual, kept>> \/ UNCHANGED vars
      BY <2>6, Zenon DEF disk, vars
  <2> QED BY <1>1, <2>2, <2>3, <2>4, <2>5, <2>6, Zenon DEF Next, Interference
<1> QED BY <1>1, Invariance, PTL DEF Spec, RollbackRestores

-----------------------------------------------------------------------------
\* Facts about any stack c of d caches over a database m

CoinSet == Coins \cup {Spent}

\* GetCoin of any stack.
Look(c, m, l, o) ==
    IF l >= 3 /\ c[3][o].present THEN c[3][o].coin
    ELSE IF l >= 2 /\ c[2][o].present THEN c[2][o].coin
    ELSE IF l >= 1 /\ c[1][o].present THEN c[1][o].coin
    ELSE m[o]

\* An entry that says of the parent's coin b what its flags stand for.
Sound(e, b) ==
    /\ ~e.present => e = NoEntry
    /\ e.present /\ ~e.dirty => ~e.fresh /\ e.coin # Spent /\ e.coin = b
    /\ e.fresh => e.coin # Spent /\ b = Spent

\* A stack of which the first d caches are in use.
Stack(c, m, d) ==
    /\ d \in Caches
    /\ m \in [Outpoints -> CoinSet]
    /\ c \in [Caches -> [Outpoints -> Entries]]
    /\ \A l \in Caches : l > d => c[l] = Empty
    /\ \A l \in Caches, o \in Outpoints : Sound(c[l][o], Look(c, m, l - 1, o))

\* The best block of any stack of hashes.
BestOf(h, l) ==
    IF l >= 3 /\ h[3] # Null THEN h[3]
    ELSE IF l >= 2 /\ h[2] # Null THEN h[2]
    ELSE IF l >= 1 /\ h[1] # Null THEN h[1]
    ELSE h[0]

Hashes(h, d) ==
    /\ h \in [0..3 -> Blocks \cup {Null}] /\ h[0] # Null
    /\ \A l \in Caches : l > d => h[l] = Null
    /\ \A l \in 2..d : h[l] # Null

\* What holds after every step: the caches are such a stack and nothing was thrown.
CacheInv == Stack(cache, db, depth) /\ Hashes(hash, depth) /\ thrown = FALSE

\* That is what the invariants of the caches say together, and GetCoin and
\* GetBestBlock are the operators above.
LEMMA Unfold ==
    /\ CacheInv /\ broken \in BOOLEAN <=> CacheTypeOK /\ NoLogicError /\ FlagsAreCoherent
    /\ \A l, o : GetCoin(l, o) = Look(cache, db, l, o)
    /\ \A l : BestBlock(l) = BestOf(hash, l)
  <1>1. /\ \A l, o : GetCoin(l, o) = Look(cache, db, l, o)
        /\ \A l : BestBlock(l) = BestOf(hash, l)
    BY Zenon DEF GetCoin, Look, BestBlock, BestOf
  <1>2. \A l \in Caches, o \in Outpoints : EntryIsCoherent(l, o) <=> Sound(cache[l][o], Look(cache, db, l - 1, o))
    BY <1>1 DEF EntryIsCoherent, Sound
  <1>3. CacheInv /\ broken \in BOOLEAN <=> CacheTypeOK /\ NoLogicError /\ FlagsAreCoherent
    BY <1>2, Zenon DEF CacheInv, CacheTypeOK, NoLogicError, FlagsAreCoherent, Stack, Hashes, CoinSet
  <1> QED BY <1>1, <1>3, Zenon

\* The same after a step.
LEMMA Fold ==
    /\ \A l, o : GetCoin(l, o)' = Look(cache', db', l, o)
    /\ \A l : BestBlock(l)' = BestOf(hash', l)
  BY Zenon DEF GetCoin, Look, BestBlock, BestOf

\* No entry says nothing of the parent.
LEMMA AbsentIsSound == \A b : NoEntry \in Entries /\ Sound(NoEntry, b)
  BY Zenon DEF Sound, NoEntry, Entries

\* Every coin that is found is a coin or Spent.
LEMMA LookType ==
    ASSUME NEW c, NEW m, NEW d, Stack(c, m, d), NEW l \in 0..3, NEW o \in Outpoints
    PROVE  Look(c, m, l, o) \in CoinSet
  BY DEF Stack, Look, Caches, Entries, CoinSet

\* Entries without a coin are absent, and looking above the last cache finds
\* what the last cache finds.
LEMMA LookAbove ==
    ASSUME NEW c, NEW m, NEW d, Stack(c, m, d), NEW l \in 0..3, l >= d, NEW o \in Outpoints
    PROVE  Look(c, m, l, o) = IF c[d][o].present THEN c[d][o].coin ELSE Look(c, m, d - 1, o)
  <1>1. \A k \in Caches : k > d => ~c[k][o].present
    BY DEF Stack, Empty, NoEntry
  <1> QED BY <1>1 DEF Stack, Look, Caches

\* What a cache answers that has the entry e over the coin b.
Answer(e, b) == IF e.present THEN e.coin ELSE b

Replaced(c2, c, d, o, e) == c2 = [c EXCEPT ![d] = [c[d] EXCEPT ![o] = e]]

\* Replacing one entry of the last cache by a sound one changes the outpoint in
\* this cache and nothing below it.
LEMMA Replace ==
    ASSUME NEW c, NEW m, NEW d, Stack(c, m, d), NEW o \in Outpoints,
           NEW e \in Entries, Sound(e, Look(c, m, d - 1, o)),
           NEW c2, Replaced(c2, c, d, o, e)
    PROVE  /\ Stack(c2, m, d)
           /\ \A l \in 0..3, p \in Outpoints :
                Look(c2, m, l, p) = IF l >= d /\ p = o THEN Answer(e, Look(c, m, d - 1, o)) ELSE Look(c, m, l, p)
  <1>1. /\ d \in Caches
        /\ c2 \in [Caches -> [Outpoints -> Entries]]
        /\ \A l \in Caches, p \in Outpoints : c2[l][p] = IF l = d /\ p = o THEN e ELSE c[l][p]
        /\ \A l \in Caches : l > d => c2[l] = Empty /\ c[l] = Empty
    BY DEF Stack, Caches, Replaced
  <1>2. \A l \in Caches, p \in Outpoints : l > d => ~c2[l][p].present /\ ~c[l][p].present
    BY <1>1 DEF Empty, NoEntry
  <1>3. ASSUME NEW l \in 0..3, NEW p \in Outpoints
        PROVE  Look(c2, m, l, p) = IF l >= d /\ p = o THEN Answer(e, Look(c, m, d - 1, o)) ELSE Look(c, m, l, p)
    <2>1. CASE p # o
      <3>1. c2[1][p] = c[1][p] /\ c2[2][p] = c[2][p] /\ c2[3][p] = c[3][p]
        BY <2>1, <1>1, SMTT(60) DEF Caches
      <3> QED BY <3>1, <2>1, Zenon DEF Look
    <2>2. CASE p = o
      <3>1. /\ d = 1 => c2[1][o] = e /\ ~c2[2][o].present /\ ~c2[3][o].present
            /\ d = 2 => c2[1][o] = c[1][o] /\ c2[2][o] = e /\ ~c2[3][o].present
            /\ d = 3 => c2[1][o] = c[1][o] /\ c2[2][o] = c[2][o] /\ c2[3][o] = e
        BY <1>1, <1>2 DEF Caches
      <3>2. d = 1 \/ d = 2 \/ d = 3
        BY <1>1 DEF Caches
      <3> QED BY <3>1, <3>2, <2>2, SMTT(60) DEF Look, Answer
    <2> QED BY <2>1, <2>2, Zenon
  <1>4. ASSUME NEW l \in Caches, NEW p \in Outpoints
        PROVE  Sound(c2[l][p], Look(c2, m, l - 1, p))
    <2>1. CASE l > d
      <3>1. c2[l][p] = NoEntry
        BY <2>1, <1>1 DEF Empty
      <3> QED BY <3>1, AbsentIsSound, Zenon
    <2>2. CASE l <= d
      <3>1. l - 1 \in 0..3 /\ ~(l - 1 >= d)
        BY <2>2, <1>1 DEF Caches
      <3>2. Look(c2, m, l - 1, p) = Look(c, m, l - 1, p)
        BY <1>3, <3>1, Zenon
      <3>3. Sound(c[l][p], Look(c, m, l - 1, p))
        BY Zenon DEF Stack
      <3> QED BY <3>2, <3>3, <1>1, Zenon
    <2> QED BY <2>1, <2>2, <1>1 DEF Caches
  <1>5. m \in [Outpoints -> CoinSet]
    BY Zenon DEF Stack
  <1>6. Stack(c2, m, d)
    BY <1>1, <1>4, <1>5, Zenon DEF Stack
  <1> QED BY <1>3, <1>6, Zenon

-----------------------------------------------------------------------------
\* Reads change no answer

\* FetchCoin leaves a coherent stack that answers as before, and after it the last
\* cache has an entry for every outpoint that is not spent.
LEMMA Fetched ==
    ASSUME CacheInv, NEW o \in Outpoints, NEW f, f = FetchCoin(o)
    PROVE  /\ Stack(f, db, depth)
           /\ \A l \in 0..3, p \in Outpoints : Look(f, db, l, p) = Look(cache, db, l, p)
           /\ f[depth][o].coin = Look(cache, db, depth, o)
           /\ f[depth][o] \in Entries
           /\ Sound(f[depth][o], Look(f, db, depth - 1, o))
  <1> DEFINE Clean(l) == [present |-> TRUE, coin |-> Look(cache, db, l, o), dirty |-> FALSE, fresh |-> FALSE]
  <1>1. Stack(cache, db, depth) /\ \A l, p : GetCoin(l, p) = Look(cache, db, l, p)
    BY Unfold, Zenon DEF CacheInv
  <1>2. /\ depth \in Caches
        /\ cache \in [Caches -> [Outpoints -> Entries]]
        /\ db \in [Outpoints -> CoinSet]
        /\ \A l \in Caches : l > depth => cache[l] = Empty
        /\ \A l \in Caches, p \in Outpoints : Sound(cache[l][p], Look(cache, db, l - 1, p))
    BY <1>1, Zenon DEF Stack
  <1>3. \A l \in Caches : Clean(l) \in Entries
    BY <1>1, LookType DEF Caches, Entries, CoinSet
  <1>4. \A l \in Caches : f[l] = IF Missed(l, o) /\ Look(cache, db, depth, o) # Spent
                                THEN [cache[l] EXCEPT ![o] = Clean(l)] ELSE cache[l]
    BY <1>1, Zenon DEF FetchCoin, HaveCoin
  <1>5. f \in [Caches -> [Outpoints -> Entries]]
    <2>1. f = [l \in Caches |-> f[l]]
      BY Zenon DEF FetchCoin
    <2>2. \A l \in Caches : f[l] \in [Outpoints -> Entries]
      BY <1>2, <1>3, <1>4, ZenonT(60)
    <2> QED BY <2>1, <2>2, Zenon
  <1>6. \A l \in Caches, p \in Outpoints :
            f[l][p] = IF p = o /\ Missed(l, o) /\ Look(cache, db, depth, o) # Spent THEN Clean(l) ELSE cache[l][p]
    BY <1>2, <1>4, Zenon
  <1>7. \A l \in Caches : l > depth => f[l] = Empty
    BY <1>2, <1>4, SMTT(60) DEF Missed, Caches
  <1>8. \A l \in Caches : Missed(l, o) => /\ Look(cache, db, l, o) = Look(cache, db, depth, o)
                                          /\ Look(cache, db, l - 1, o) = Look(cache, db, l, o)
    BY <1>2 DEF Missed, Look, Caches
  <1>9. ASSUME NEW l \in 0..3, NEW p \in Outpoints
        PROVE  Look(f, db, l, p) = Look(cache, db, l, p)
    <2>1. CASE p # o
      <3>1. f[1][p] = cache[1][p] /\ f[2][p] = cache[2][p] /\ f[3][p] = cache[3][p]
        BY <2>1, <1>6 DEF Caches
      <3> QED BY <3>1, Zenon DEF Look
    <2>2. CASE p = o
      <3>1. \A k \in Caches : \/ f[k][o] = cache[k][o]
                              \/ f[k][o].present /\ f[k][o].coin = Look(cache, db, k, o) /\ ~cache[k][o].present
        BY <1>2, <1>6 DEF Missed, Caches
      <3>2. \A k \in {1, 2, 3} : \/ f[k][o] = cache[k][o]
                                 \/ f[k][o].present /\ f[k][o].coin = Look(cache, db, k, o) /\ ~cache[k][o].present
        BY <3>1 DEF Caches
      <3>3. Look(f, db, 0, o) = Look(cache, db, 0, o)
        BY SMTT(60) DEF Look
      <3>4. Look(f, db, 1, o) = Look(cache, db, 1, o)
        BY <3>2, SMTT(60) DEF Look
      <3>5. Look(f, db, 2, o) = Look(cache, db, 2, o)
        BY <3>2, SMTT(60) DEF Look
      <3>6. Look(f, db, 3, o) = Look(cache, db, 3, o)
        BY <3>2 DEF Look
      <3> QED BY <3>3, <3>4, <3>5, <3>6, <2>2, SMTT(60)
    <2> QED BY <2>1, <2>2, Zenon
  <1>10. ASSUME NEW l \in Caches, NEW p \in Outpoints
         PROVE  Sound(f[l][p], Look(f, db, l - 1, p))
    <2>1. Look(f, db, l - 1, p) = Look(cache, db, l - 1, p)
      BY <1>9 DEF Caches
    <2>2. CASE p = o /\ Missed(l, o) /\ Look(cache, db, depth, o) # Spent
      <3>1. f[l][p] = Clean(l) /\ Look(cache, db, l, o) = Look(cache, db, l - 1, o) /\ Look(cache, db, l, o) # Spent
        BY <2>2, <1>6, <1>8, Zenon
      <3> QED BY <3>1, <2>1, <2>2 DEF Sound
    <2>3. CASE ~(p = o /\ Missed(l, o) /\ Look(cache, db, depth, o) # Spent)
      BY <2>1, <2>3, <1>2, <1>6, Zenon
    <2> QED BY <2>2, <2>3, Zenon
  <1>11. Stack(f, db, depth)
    BY <1>2, <1>5, <1>7, <1>10, Zenon DEF Stack
  <1>12. f[depth][o].coin = Look(cache, db, depth, o)
    <2>1. CASE cache[depth][o].present
      BY <2>1, <1>2, <1>6, SMTT(60) DEF Missed, Look, Caches
    <2>2. CASE ~cache[depth][o].present
      <3>1. cache[depth][o] = NoEntry
        BY <2>2, <1>2, Zenon DEF Sound
      <3>2. depth <= depth /\ \A k \in depth..depth : k = depth
        BY <1>2 DEF Caches
      <3>3. Missed(depth, o)
        <4>1. \A k \in depth..depth : ~cache[k][o].present
          BY <3>2, <2>2, Zenon
        <4> QED BY <4>1, <3>2, Zenon DEF Missed
      <3>4. f[depth][o] = IF Look(cache, db, depth, o) # Spent THEN Clean(depth) ELSE NoEntry
        BY <3>1, <3>3, <1>2, <1>6, Zenon
      <3> QED BY <3>4 DEF NoEntry
    <2> QED BY <2>1, <2>2, Zenon
  <1> QED BY <1>2, <1>5, <1>9, <1>10, <1>11, <1>12, Zenon

-----------------------------------------------------------------------------
\* The operations on one coin

\* The abstract variables.
Views == [l \in 0..3 |-> [o \in Outpoints |-> GetCoin(l, o)]]
Bests == [l \in 0..3 |-> BestBlock(l)]

\* Fill in terms of them.
LEMMA FillIs ==
    ASSUME NEW n, NEW f, NEW b,
           Views' = [l \in 0..3 |-> IF l >= n THEN f ELSE Views[l]],
           Bests' = [l \in 0..3 |-> IF l >= n THEN b ELSE Bests[l]]
    PROVE  Abstract!Fill(n, f, b)
  BY Zenon DEF Abstract!Fill, Abstract!Levels, Views, Bests

\* A step that changes no answer of the caches.
LEMMA SameCoins ==
    ASSUME CacheInv, Stack(cache', db, depth), UNCHANGED <<depth, db, hash, thrown, broken>>,
           \A l \in 0..3, p \in Outpoints : Look(cache', db, l, p) = Look(cache, db, l, p)
    PROVE  CacheInv' /\ UNCHANGED Abstract!vars
  <1>1. CacheInv'
    BY Zenon DEF CacheInv
  <1>2. \A l \in 0..3, p \in Outpoints : GetCoin(l, p)' = GetCoin(l, p)
    BY Unfold, Fold, Zenon
  <1>3. \A l \in 0..3 : BestBlock(l)' = BestBlock(l)
    BY Unfold, Fold, Zenon
  <1> QED BY <1>1, <1>2, <1>3, Zenon DEF Abstract!vars

\* A step that makes coin the answer for o in the last cache.
LEMMA OneCoin ==
    ASSUME CacheInv, Stack(cache', db, depth), UNCHANGED <<depth, db, hash, thrown>>,
           NEW o \in Outpoints, NEW coin,
           \A l \in 0..3, p \in Outpoints :
               Look(cache', db, l, p) = IF l >= depth /\ p = o THEN coin ELSE Look(cache, db, l, p)
    PROVE  CacheInv' /\ Abstract!Write(o, coin)
  <1>1. CacheInv' /\ depth \in Caches /\ Stack(cache, db, depth)
    BY Zenon DEF CacheInv, Stack
  <1>2. \A l \in 0..3, p \in Outpoints : GetCoin(l, p)' = IF l >= depth /\ p = o THEN coin ELSE GetCoin(l, p)
    BY Unfold, Fold, Zenon
  <1>3. \A l \in 0..3 : BestBlock(l)' = BestBlock(l)
    BY Unfold, Fold, Zenon
  <1>4. \A l \in 0..3, p \in Outpoints : l >= depth => GetCoin(l, p) = GetCoin(depth, p)
    BY <1>1, LookAbove, Unfold, SMTT(60) DEF Caches
  <1>5. \A l \in 0..3 : l >= depth => BestBlock(l) = BestBlock(depth)
    BY <1>1, Unfold DEF CacheInv, Hashes, BestOf, Caches
  <1>6. Views' = [l \in 0..3 |-> IF l >= depth THEN [Views[depth] EXCEPT ![o] = coin] ELSE Views[l]]
    BY <1>1, <1>2, <1>4, SMTT(60) DEF Views, Caches
  <1>7. Bests' = [l \in 0..3 |-> IF l >= depth THEN Bests[depth] ELSE Bests[l]]
    BY <1>1, <1>3, <1>5 DEF Bests, Caches
  <1>8. Abstract!Fill(depth, [Views[depth] EXCEPT ![o] = coin], Bests[depth])
    BY <1>6, <1>7, FillIs, Zenon
  <1> QED BY <1>1, <1>8, Zenon DEF Abstract!Write, Views, Bests

\* A fetched stack is written at o.
LEMMA WriteFetched ==
    ASSUME CacheInv, NEW o \in Outpoints, NEW f, f = FetchCoin(o) \/ f = cache,
           NEW e \in Entries, Sound(e, Look(cache, db, depth - 1, o)),
           Replaced(cache', f, depth, o, e), UNCHANGED <<depth, db, hash, thrown>>
    PROVE  CacheInv' /\ Abstract!Write(o, Answer(e, Look(cache, db, depth - 1, o)))
  <1>1. /\ Stack(f, db, depth) /\ depth \in Caches
        /\ \A l \in 0..3, p \in Outpoints : Look(f, db, l, p) = Look(cache, db, l, p)
    <2>1. depth \in Caches
      BY Zenon DEF CacheInv, Stack
    <2>2. CASE f = cache
      BY <2>1, <2>2, Zenon DEF CacheInv
    <2>3. CASE f = FetchCoin(o)
      BY <2>1, <2>3, Fetched
    <2> QED BY <2>2, <2>3, Zenon
  <1>2. Look(f, db, depth - 1, o) = Look(cache, db, depth - 1, o) /\ Stack(f, db, depth)
    BY <1>1 DEF Caches
  <1>3. /\ Stack(cache', db, depth)
        /\ \A l \in 0..3, p \in Outpoints :
              Look(cache', db, l, p) = IF l >= depth /\ p = o THEN Answer(e, Look(f, db, depth - 1, o))
                                       ELSE Look(f, db, l, p)
    BY <1>2, Replace
  <1>4. \A l \in 0..3, p \in Outpoints :
            Look(cache', db, l, p) = IF l >= depth /\ p = o THEN Answer(e, Look(cache, db, depth - 1, o))
                                     ELSE Look(cache, db, l, p)
    BY <1>1, <1>2, <1>3, ZenonT(60)
  <1> QED BY <1>3, <1>4, OneCoin, Zenon

\* GetCoin and HaveCoin change no answer.
LEMMA FetchStep ==
    ASSUME CacheInv, NEW o \in Outpoints, Fetch(o), UNCHANGED broken
    PROVE  CacheInv' /\ UNCHANGED Abstract!vars
  BY Fetched, SameCoins DEF Fetch

\* AddCoin writes the coin and throws nothing.
LEMMA AddStep ==
    ASSUME CacheInv, NEW o \in Outpoints, NEW coin \in Coins, NEW checked \in BOOLEAN, AddCoin(o, coin, checked)
    PROVE  CacheInv' /\ Abstract!Write(o, coin)
  <1> DEFINE f == IF checked THEN FetchCoin(o) ELSE cache
             overwrite == IF checked THEN HaveCoin(o) ELSE TRUE
             u == f[depth][o]
             e == AddedEntry(u, coin, overwrite)
  <1>1. /\ Stack(cache, db, depth) /\ depth \in Caches /\ thrown = FALSE
        /\ HaveCoin(o) <=> Look(cache, db, depth, o) # Spent
    BY Unfold, Zenon DEF CacheInv, Stack, HaveCoin
  <1>2. f = FetchCoin(o) \/ f = cache
    BY ZenonT(60)
  <1>3. /\ Stack(f, db, depth)
        /\ Look(f, db, depth - 1, o) = Look(cache, db, depth - 1, o)
        /\ Look(f, db, depth, o) = Look(cache, db, depth, o)
    BY <1>1, Fetched DEF Caches
  <1>4. u \in Entries /\ Sound(u, Look(cache, db, depth - 1, o))
    BY <1>1, <1>3, Zenon DEF Stack
  <1>5. ~overwrite => u.coin = Spent /\ (~u.dirty => Look(cache, db, depth - 1, o) = Spent)
    <2> SUFFICES ASSUME ~overwrite PROVE u.coin = Spent /\ (~u.dirty => Look(cache, db, depth - 1, o) = Spent)
      BY Zenon
    <2>1. checked /\ Look(cache, db, depth, o) = Spent /\ f = FetchCoin(o)
      BY <1>1, Zenon
    <2>2. u.coin = Spent
      BY <2>1, Fetched, Zenon
    <2>3. ~u.dirty => ~u.present
      BY <2>2, <1>4, Zenon DEF Sound
    <2>4. ~u.present => Look(cache, db, depth - 1, o) = Spent
      BY <1>1, <1>3, <2>1, LookAbove DEF Caches
    <2> QED BY <2>2, <2>3, <2>4, Zenon
  <1>6. e \in Entries /\ e.present /\ e.coin = coin /\ e.dirty
    BY <1>4, Zenon DEF AddedEntry, Entries
  <1>7. e.fresh => coin # Spent /\ Look(cache, db, depth - 1, o) = Spent
    BY <1>4, <1>5, SpentIsNoCoin, Zenon DEF AddedEntry, Sound
  <1>8. Sound(e, Look(cache, db, depth - 1, o))
    BY <1>6, <1>7, Zenon DEF Sound
  <1>9. thrown' = FALSE /\ cache' = [f EXCEPT ![depth] = [f[depth] EXCEPT ![o] = e]] /\ UNCHANGED <<depth, db, hash>>
    BY <1>1, <1>5, Zenon DEF AddCoin
  <1>10. Replaced(cache', f, depth, o, e) /\ UNCHANGED <<depth, db, hash, thrown>>
    BY <1>1, <1>9, Zenon DEF Replaced
  <1>11. Answer(e, Look(cache, db, depth - 1, o)) = coin
    BY <1>6, Zenon DEF Answer
  <1> HIDE DEF f, e
  <1>12. CacheInv' /\ Abstract!Write(o, Answer(e, Look(cache, db, depth - 1, o)))
    BY <1>2, <1>6, <1>8, <1>10, WriteFetched, Zenon
  <1> QED BY <1>11, <1>12, Zenon

\* SpendCoin leaves no coin.
LEMMA SpendStep ==
    ASSUME CacheInv, NEW o \in Outpoints, SpendCoin(o)
    PROVE  CacheInv' /\ Abstract!Write(o, Spent)
  <1> DEFINE f == FetchCoin(o)
             u == f[depth][o]
             e == SpentEntry(u)
  <1>1. Stack(cache, db, depth) /\ depth \in Caches
    BY Unfold, ZenonT(60) DEF CacheInv, Stack
  <1>2. /\ Stack(f, db, depth)
        /\ Look(f, db, depth - 1, o) = Look(cache, db, depth - 1, o)
        /\ Look(f, db, depth, o) = Look(cache, db, depth, o)
        /\ u.coin = Look(cache, db, depth, o)
    BY <1>1, Fetched DEF Caches
  <1>3. u \in Entries /\ Sound(u, Look(cache, db, depth - 1, o))
    BY <1>1, <1>2, ZenonT(60) DEF Stack
  <1>4. ~u.present => u = NoEntry /\ Look(cache, db, depth - 1, o) = Spent
    <2>1. ~u.present => u = NoEntry /\ Look(cache, db, depth, o) = Look(cache, db, depth - 1, o)
      BY <1>1, <1>2, <1>3, LookAbove DEF Caches, Sound
    <2> QED BY <2>1, <1>2, SMTT(60) DEF NoEntry
  <1>5. u.fresh => Look(cache, db, depth - 1, o) = Spent
    BY <1>3, Zenon DEF Sound
  <1>6. e \in Entries /\ Sound(e, Look(cache, db, depth - 1, o))
    BY <1>3, <1>4, Zenon DEF SpentEntry, Sound, NoEntry, Entries
  <1>7. Answer(e, Look(cache, db, depth - 1, o)) = Spent
    BY <1>4, <1>5, Zenon DEF SpentEntry, NoEntry, Answer
  <1>8. Replaced(cache', f, depth, o, e) /\ UNCHANGED <<depth, db, hash, thrown>> /\ f = FetchCoin(o)
    BY Zenon DEF SpendCoin, Replaced
  <1> HIDE DEF f, e
  <1>9. CacheInv' /\ Abstract!Write(o, Answer(e, Look(cache, db, depth - 1, o)))
    BY <1>6, <1>8, WriteFetched, Zenon
  <1> QED BY <1>7, <1>9, Zenon

\* Uncache forgets what the database has as well.
LEMMA UncacheStep ==
    ASSUME CacheInv, NEW o \in Outpoints, Uncache(o)
    PROVE  CacheInv' /\ Abstract!Write(o, Look(cache, db, depth - 1, o))
  <1>1. Replaced(cache', cache, depth, o, NoEntry) /\ UNCHANGED <<depth, db, hash, thrown>>
    BY Zenon DEF Uncache, Replaced
  <1>2. NoEntry \in Entries /\ Sound(NoEntry, Look(cache, db, depth - 1, o))
    BY AbsentIsSound, Zenon
  <1>3. CacheInv' /\ Abstract!Write(o, Answer(NoEntry, Look(cache, db, depth - 1, o)))
    BY <1>1, <1>2, WriteFetched, Zenon
  <1>4. Answer(NoEntry, Look(cache, db, depth - 1, o)) = Look(cache, db, depth - 1, o)
    BY Zenon DEF Answer, NoEntry
  <1> QED BY <1>3, <1>4, Zenon

-----------------------------------------------------------------------------
\* Views are opened, committed and dropped

\* A step after which the levels from n on answer as level k did, with best block b.
LEMMA FillStep ==
    ASSUME CacheInv, NEW n \in 0..3, NEW k \in 0..3, NEW b,
           Stack(cache', db', depth'), Hashes(hash', depth'), thrown' = FALSE,
           \A l \in 0..3, p \in Outpoints :
               Look(cache', db', l, p) = IF l >= n THEN Look(cache, db, k, p) ELSE Look(cache, db, l, p),
           \A l \in 0..3 : BestOf(hash', l) = IF l >= n THEN b ELSE BestOf(hash, l)
    PROVE  CacheInv' /\ Abstract!Fill(n, Views[k], b)
  <1>1. CacheInv'
    BY Zenon DEF CacheInv
  <1>2. \A l \in 0..3, p \in Outpoints : GetCoin(l, p)' = IF l >= n THEN GetCoin(k, p) ELSE GetCoin(l, p)
    BY Unfold, Fold, Zenon
  <1>3. \A l \in 0..3 : BestBlock(l)' = IF l >= n THEN b ELSE BestBlock(l)
    BY Unfold, Fold, Zenon
  <1>4. Views' = [l \in 0..3 |-> IF l >= n THEN Views[k] ELSE Views[l]]
    BY <1>2, Zenon DEF Views
  <1>5. Bests' = [l \in 0..3 |-> IF l >= n THEN b ELSE Bests[l]]
    BY <1>3, Zenon DEF Bests
  <1> QED BY <1>1, <1>4, <1>5, FillIs, Zenon

\* Above the last cache the best block is the one of the last cache.
LEMMA BestAbove ==
    ASSUME NEW h, NEW d \in Caches, Hashes(h, d), NEW l \in 0..3, l >= d
    PROVE  BestOf(h, l) = IF h[d] # Null THEN h[d] ELSE BestOf(h, d - 1)
  BY DEF Hashes, BestOf, Caches

\* Every best block is a block.
LEMMA BestType ==
    ASSUME NEW h, NEW d \in Caches, Hashes(h, d), NEW l \in 0..3
    PROVE  BestOf(h, l) \in Blocks /\ BestOf(h, l) # Null
  BY NullIsNoBlock DEF Hashes, BestOf, Caches

\* SetBestBlock sets the best block of the cache in use.
LEMMA SetBestStep ==
    ASSUME CacheInv, NEW b \in Blocks, SetBestBlock(b)
    PROVE  CacheInv' /\ Abstract!SetBestBlock(b)
  <1>1. /\ Stack(cache, db, depth) /\ Hashes(hash, depth) /\ thrown = FALSE /\ depth \in Caches /\ depth \in 0..3
        /\ hash' = [hash EXCEPT ![depth] = b] /\ UNCHANGED <<depth, db, cache, thrown>>
    BY Unfold DEF CacheInv, SetBestBlock, Stack, Caches
  <1>2. b # Null
    BY NullIsNoBlock, Zenon
  <1>3. Hashes(hash', depth)
    BY <1>1, <1>2 DEF Hashes, Caches
  <1>4. \A l \in 0..3 : BestOf(hash', l) = IF l >= depth THEN b ELSE BestOf(hash, l)
    BY <1>1, <1>2 DEF Hashes, BestOf, Caches
  <1>5. \A l \in 0..3, p \in Outpoints :
            Look(cache, db, l, p) = IF l >= depth THEN Look(cache, db, depth, p) ELSE Look(cache, db, l, p)
    BY <1>1, LookAbove DEF Caches
  <1>6. CacheInv' /\ Abstract!Fill(depth, Views[depth], b)
    BY <1>1, <1>3, <1>4, <1>5, FillStep, Zenon
  <1> QED BY <1>1, <1>6, Zenon DEF Abstract!SetBestBlock, Views

\* Opening changes no answer.
LEMMA OpenMaps ==
    ASSUME CacheInv, depth < 3, depth' = depth + 1, UNCHANGED <<db, cache>>, thrown' = FALSE,
           Stack(cache, db, depth + 1), Hashes(hash', depth + 1),
           \A l \in 0..3 : BestOf(hash', l) = BestOf(hash, l)
    PROVE  CacheInv' /\ Abstract!Open
  <1>1. CacheInv'
    BY Zenon DEF CacheInv
  <1>2. \A l \in 0..3, p \in Outpoints : GetCoin(l, p)' = GetCoin(l, p)
    BY Unfold, Fold, Zenon
  <1>3. \A l \in 0..3 : BestBlock(l)' = BestBlock(l)
    BY Unfold, Fold, Zenon
  <1> QED BY <1>1, <1>2, <1>3, Zenon DEF Abstract!Open

\* A new view answers as the one below it, and knows its best block.
LEMMA OpenStep ==
    ASSUME CacheInv, Open
    PROVE  CacheInv' /\ Abstract!Open
  <1>1. /\ Stack(cache, db, depth) /\ Hashes(hash, depth) /\ thrown = FALSE
        /\ depth < 3 /\ depth' = depth + 1 /\ UNCHANGED <<db, cache, thrown>>
        /\ \A l : BestBlock(l) = BestOf(hash, l)
    BY Unfold, Zenon DEF CacheInv, Open
  <1>2. depth = 1 \/ depth = 2
    BY <1>1 DEF Stack, Caches
  <1>3. Stack(cache, db, depth + 1)
    BY <1>1, <1>2 DEF Stack, Caches
  <1>4. \A l \in 0..3 : hash'[l] = IF l <= depth + 1 /\ \A k \in l..(depth + 1) : hash[k] = Null
                                   THEN BestOf(hash, l) ELSE hash[l]
    BY <1>1, Zenon DEF Open, GetBestBlock
  <1>5. /\ hash' = [l \in 0..3 |-> hash'[l]]
        /\ \A l \in 0..3 : BestOf(hash, l) \in Blocks /\ BestOf(hash, l) # Null
        /\ hash \in [0..3 -> Blocks \cup {Null}]
    BY <1>1, BestType, Zenon DEF Open, GetBestBlock, Hashes, Stack
  <1>6. hash' \in [0..3 -> Blocks \cup {Null}]
    BY <1>4, <1>5, Zenon
  <1>7. CASE depth = 1
    <2>1. hash[2] = Null /\ hash[3] = Null /\ hash[0] # Null
      BY <1>7, <1>1 DEF Hashes, Caches
    <2>2. /\ hash'[0] = hash[0] /\ hash'[3] = Null
          /\ hash'[1] = BestOf(hash, 1) /\ hash'[2] = BestOf(hash, 1)
      <3>1. BestOf(hash, 2) = BestOf(hash, 1) /\ (hash[1] # Null => BestOf(hash, 1) = hash[1])
        BY <2>1 DEF BestOf
      <3>2. hash'[0] = hash[0] /\ hash'[3] = Null
        BY <1>7, <1>4, <2>1
      <3>3. hash'[2] = BestOf(hash, 2)
        BY <1>7, <1>4, <2>1
      <3>4. hash'[1] = BestOf(hash, 1)
        BY <1>7, <1>4, <2>1, <3>1, SMTT(60)
      <3> QED BY <3>1, <3>2, <3>3, <3>4, Zenon
    <2>3. \A l \in 0..3 : BestOf(hash', l) = BestOf(hash, l)
      BY <2>1, <2>2, <1>5 DEF BestOf
    <2>4. Hashes(hash', 2)
      BY <2>1, <2>2, <1>5, <1>6 DEF Hashes, Caches
    <2>5. depth + 1 = 2 /\ depth < 3 /\ depth' = depth + 1 /\ UNCHANGED <<db, cache>> /\ thrown' = FALSE
      BY <1>1, <1>7
    <2>6. Hashes(hash', depth + 1)
      BY <2>4, <2>5, Zenon
    <2> QED BY <2>3, <2>5, <2>6, <1>3, OpenMaps, Zenon
  <1>8. CASE depth = 2
    <2>1. hash[2] # Null /\ hash[3] = Null /\ hash[0] # Null
      BY <1>8, <1>1 DEF Hashes, Caches
    <2>2. hash'[0] = hash[0] /\ hash'[1] = hash[1] /\ hash'[2] = hash[2] /\ hash'[3] = hash[2]
      <3>1. BestOf(hash, 3) = hash[2]
        BY <2>1 DEF BestOf
      <3>2. hash'[0] = hash[0] /\ hash'[1] = hash[1] /\ hash'[2] = hash[2]
        BY <1>8, <1>4, <2>1
      <3>3. hash'[3] = BestOf(hash, 3)
        BY <1>8, <1>4, <2>1, SMTT(60)
      <3> QED BY <3>1, <3>2, <3>3, Zenon
    <2>3. \A l \in 0..3 : BestOf(hash', l) = BestOf(hash, l)
      BY <2>1, <2>2, <1>5 DEF BestOf
    <2>4. Hashes(hash', 3)
      BY <2>1, <2>2, <1>5, <1>6 DEF Hashes, Caches
    <2>5. depth + 1 = 3 /\ depth < 3 /\ depth' = depth + 1 /\ UNCHANGED <<db, cache>> /\ thrown' = FALSE
      BY <1>1, <1>8
    <2>6. Hashes(hash', depth + 1)
      BY <2>4, <2>5, Zenon
    <2> QED BY <2>3, <2>5, <2>6, <1>3, OpenMaps, Zenon
  <1> QED BY <1>2, <1>7, <1>8, Zenon

\* A stack that is cut to n caches, the last of them with sound entries.
LEMMA Restack ==
    ASSUME NEW c, NEW m, NEW d, Stack(c, m, d), NEW n \in Caches, n <= d,
           NEW c2 \in [Caches -> [Outpoints -> Entries]],
           \A l \in Caches : l > n => c2[l] = Empty,
           \A l \in Caches, o \in Outpoints : l < n => c2[l][o] = c[l][o],
           \A o \in Outpoints : Sound(c2[n][o], Look(c, m, n - 1, o))
    PROVE  /\ Stack(c2, m, n)
           /\ \A l \in 0..3, p \in Outpoints :
                Look(c2, m, l, p) = IF l >= n THEN Answer(c2[n][p], Look(c, m, n - 1, p)) ELSE Look(c, m, l, p)
  <1>1. \A l \in Caches, p \in Outpoints : l > n => ~c2[l][p].present
    BY SMTT(60) DEF Empty, NoEntry
  <1>2. ASSUME NEW l \in 0..3, NEW p \in Outpoints
        PROVE  Look(c2, m, l, p) = IF l >= n THEN Answer(c2[n][p], Look(c, m, n - 1, p)) ELSE Look(c, m, l, p)
    <2>1. /\ n = 1 => ~c2[2][p].present /\ ~c2[3][p].present
          /\ n = 2 => c2[1][p] = c[1][p] /\ ~c2[3][p].present
          /\ n = 3 => c2[1][p] = c[1][p] /\ c2[2][p] = c[2][p]
      BY <1>1 DEF Caches
    <2>2. n = 1 \/ n = 2 \/ n = 3
      BY DEF Caches
    <2> QED BY <2>1, <2>2, SMTT(60) DEF Look, Answer
  <1>3. ASSUME NEW l \in Caches, NEW p \in Outpoints
        PROVE  Sound(c2[l][p], Look(c2, m, l - 1, p))
    <2>1. CASE l > n
      <3>1. c2[l][p] = NoEntry
        BY <2>1 DEF Empty
      <3> QED BY <3>1, AbsentIsSound, Zenon
    <2>2. CASE l <= n
      <3>1. l - 1 \in 0..3 /\ ~(l - 1 >= n)
        BY <2>2 DEF Caches
      <3>2. Look(c2, m, l - 1, p) = Look(c, m, l - 1, p)
        BY <1>2, <3>1, Zenon
      <3>3. CASE l = n
        BY <3>2, <3>3, Zenon
      <3>4. CASE l < n
        BY <3>2, <3>4, Zenon DEF Stack
      <3> QED BY <2>2, <3>3, <3>4 DEF Caches
    <2> QED BY <2>1, <2>2 DEF Caches
  <1>4. m \in [Outpoints -> CoinSet]
    BY Zenon DEF Stack
  <1> QED BY <1>2, <1>3, <1>4, ZenonT(60) DEF Stack

\* Writing a sound entry over a sound one gives a sound one with the child's answer.
LEMMA Merged ==
    ASSUME NEW e \in Entries, NEW u \in Entries, NEW b, Sound(u, b), Sound(e, Answer(u, b))
    PROVE  /\ WrittenEntry(e, u) \in Entries /\ Sound(WrittenEntry(e, u), b)
           /\ Answer(WrittenEntry(e, u), b) = Answer(e, Answer(u, b))
           /\ ~Misapplied(e, u)
  <1>1. ~Misapplied(e, u)
    BY Zenon DEF Misapplied, Sound, Answer
  <1>2. CASE ~e.dirty
    <2>1. WrittenEntry(e, u) = u
      BY <1>2, Zenon DEF WrittenEntry
    <2>2. Answer(e, Answer(u, b)) = Answer(u, b)
      BY <1>2, Zenon DEF Sound, Answer
    <2> QED BY <1>1, <2>1, <2>2, Zenon
  <1>3. CASE e.dirty
    <2>1. e.present
      BY <1>3 DEF Sound, NoEntry
    <2>2. CASE u.present /\ u.fresh /\ e.coin = Spent
      <3>1. WrittenEntry(e, u) = NoEntry /\ b = Spent
        BY <1>3, <2>2, Zenon DEF WrittenEntry, Sound
      <3>2. Answer(NoEntry, b) = b /\ Answer(e, Answer(u, b)) = Spent
        BY <2>1, <2>2, Zenon DEF Answer, NoEntry
      <3> QED BY <3>1, <3>2, <1>1, AbsentIsSound, Zenon
    <2>3. CASE ~(u.present /\ u.fresh /\ e.coin = Spent)
      <3> DEFINE w == [present |-> TRUE, coin |-> e.coin, dirty |-> TRUE, fresh |-> IF u.present THEN u.fresh ELSE e.fresh]
      <3>1. ~(e.fresh /\ e.coin = Spent)
        BY Zenon DEF Sound
      <3>2. WrittenEntry(e, u) = w
        BY <1>3, <2>3, <3>1, Zenon DEF WrittenEntry
      <3>3. w \in Entries
        BY Zenon DEF Entries
      <3>4. w.fresh => w.coin # Spent /\ b = Spent
        BY <2>3, Zenon DEF Sound, Answer
      <3>5. Sound(w, b) /\ Answer(w, b) = Answer(e, Answer(u, b))
        BY <2>1, <3>4, Zenon DEF Sound, Answer
      <3> QED BY <1>1, <3>2, <3>3, <3>5, Zenon
    <2> QED BY <2>2, <2>3, Zenon
  <1> QED BY <1>2, <1>3, Zenon DEF Entries

\* The caches up to n, after the outpoints in done were written to the last of them.
Batched(done, n) ==
    /\ n \in Caches /\ Stack(cache', db', n) /\ depth' = n /\ thrown' = FALSE
    /\ \A l \in 0..3, p \in Outpoints :
          Look(cache', db', l, p) = IF l >= n THEN IF p \in done THEN Look(cache, db, depth, p)
                                                                ELSE Look(cache, db, n, p)
                                    ELSE Look(cache, db, l, p)

\* Writing some outpoints gives the parent the answers of its child for these,
\* and throws nothing.
LEMMA BatchWritten ==
    ASSUME CacheInv, depth > 1, NEW done \in SUBSET Outpoints, BatchWrite(done)
    PROVE  Batched(done, depth - 1)
  <1> DEFINE up == depth - 1
             w(o) == IF o \in done THEN WrittenEntry(cache[depth][o], cache[up][o]) ELSE cache[up][o]
  <1>1. /\ Stack(cache, db, depth) /\ thrown = FALSE /\ depth \in Caches
        /\ depth' = up /\ db' = db
    BY Zenon DEF BatchWrite, CacheInv, Stack
  <1>2. up \in Caches /\ up \in 0..3 /\ up - 1 \in 0..3 /\ depth \in 0..3 /\ up < depth /\ up # depth
    BY <1>1 DEF Caches
  <1>3. ASSUME NEW o \in Outpoints
        PROVE  /\ cache[depth][o] \in Entries /\ cache[up][o] \in Entries
               /\ Sound(cache[up][o], Look(cache, db, up - 1, o))
               /\ Look(cache, db, up, o) = Answer(cache[up][o], Look(cache, db, up - 1, o))
               /\ Sound(cache[depth][o], Answer(cache[up][o], Look(cache, db, up - 1, o)))
    <2>1. cache[depth][o] \in Entries /\ cache[up][o] \in Entries
      BY <1>1, <1>2, Zenon DEF Stack
    <2>2. Sound(cache[up][o], Look(cache, db, up - 1, o)) /\ Sound(cache[depth][o], Look(cache, db, up, o))
      BY <1>1, <1>2, Zenon DEF Stack
    <2>3. Look(cache, db, up, o) = Answer(cache[up][o], Look(cache, db, up - 1, o))
      BY <1>2 DEF Look, Answer, Caches
    <2> QED BY <2>1, <2>2, <2>3, Zenon
  <1>4. \A l \in Caches : cache'[l] = IF l = depth THEN Empty
                                     ELSE IF l = up THEN [o \in Outpoints |-> w(o)] ELSE cache[l]
    BY <1>1, Zenon DEF BatchWrite
  <1>5. ASSUME NEW o \in Outpoints
        PROVE  /\ w(o) \in Entries /\ Sound(w(o), Look(cache, db, up - 1, o))
               /\ Answer(w(o), Look(cache, db, up - 1, o))
                      = IF o \in done THEN Answer(cache[depth][o], Look(cache, db, up, o)) ELSE Look(cache, db, up, o)
               /\ ~Misapplied(cache[depth][o], cache[up][o])
    <2> DEFINE e == cache[depth][o]
               u == cache[up][o]
               b == Look(cache, db, up - 1, o)
    <2>1. e \in Entries /\ u \in Entries /\ Sound(u, b) /\ Look(cache, db, up, o) = Answer(u, b) /\ Sound(e, Answer(u, b))
      BY <1>3, Zenon
    <2>2. w(o) = IF o \in done THEN WrittenEntry(e, u) ELSE u
      BY Zenon
    <2> HIDE DEF e, u, b, w
    <2>3. /\ WrittenEntry(e, u) \in Entries /\ Sound(WrittenEntry(e, u), b)
          /\ Answer(WrittenEntry(e, u), b) = Answer(e, Answer(u, b)) /\ ~Misapplied(e, u)
      BY <2>1, Merged, Zenon
    <2>4. w(o) \in Entries /\ Sound(w(o), b) /\ ~Misapplied(e, u)
          /\ Answer(w(o), b) = IF o \in done THEN Answer(e, Look(cache, db, up, o)) ELSE Look(cache, db, up, o)
      BY <2>1, <2>2, <2>3, Zenon
    <2> QED BY <2>4, Zenon DEF e, u, b
  <1>6. thrown' = FALSE
    BY <1>1, <1>5, Zenon DEF BatchWrite
  <1> HIDE DEF w
  <1>7. cache' \in [Caches -> [Outpoints -> Entries]]
    <2>1. cache' = [l \in Caches |-> cache'[l]]
      BY Zenon DEF BatchWrite
    <2>2. ASSUME NEW l \in Caches PROVE cache'[l] \in [Outpoints -> Entries]
      <3>1. CASE l = depth
        BY <3>1, <1>4, AbsentIsSound, Zenon DEF Empty
      <3>2. CASE l = up
        BY <3>2, <1>2, <1>4, <1>5, Zenon
      <3>3. CASE l # depth /\ l # up
        BY <3>3, <1>1, <1>4, ZenonT(60) DEF Stack
      <3> QED BY <3>1, <3>2, <3>3, Zenon
    <2> QED BY <2>1, <2>2, Zenon
  <1>8. \A l \in Caches : l > up => cache'[l] = Empty
    BY <1>1, <1>2, <1>4 DEF Caches, Stack
  <1>9. \A o \in Outpoints : cache'[up][o] = w(o)
    BY <1>2, <1>4, Zenon
  <1>10. \A l \in Caches, o \in Outpoints : l < up => cache'[l][o] = cache[l][o]
    BY <1>2, <1>4, SMTT(60) DEF Caches
  <1>11. /\ Stack(cache', db, up)
         /\ \A l \in 0..3, p \in Outpoints :
               Look(cache', db, l, p) = IF l >= up THEN Answer(cache'[up][p], Look(cache, db, up - 1, p))
                                        ELSE Look(cache, db, l, p)
    <2>1. up <= depth
      BY <1>1, <1>2 DEF Caches
    <2>2. \A o \in Outpoints : Sound(cache'[up][o], Look(cache, db, up - 1, o))
      BY <1>5, <1>9, Zenon
    <2>3. Stack(cache, db, depth) /\ up \in Caches
      BY <1>1, <1>2, Zenon
    <2> QED BY <1>7, <1>8, <1>10, <2>1, <2>2, <2>3, Restack
  <1>12. \A p \in Outpoints : Look(cache, db, depth, p) = Answer(cache[depth][p], Look(cache, db, up, p))
    BY <1>1, <1>2, LookAbove DEF Answer, Caches
  <1>13. ASSUME NEW l \in 0..3, NEW p \in Outpoints
         PROVE  Look(cache', db', l, p) = IF l >= up THEN IF p \in done THEN Look(cache, db, depth, p)
                                                                       ELSE Look(cache, db, up, p)
                                          ELSE Look(cache, db, l, p)
    <2>1. Look(cache', db', l, p) = IF l >= up THEN Answer(w(p), Look(cache, db, up - 1, p)) ELSE Look(cache, db, l, p)
      BY <1>1, <1>9, <1>11, Zenon
    <2> QED BY <2>1, <1>5, <1>12, Zenon
  <1> QED BY <1>1, <1>2, <1>6, <1>11, <1>13, Zenon DEF Batched

\* Flush gives the parent all the answers of its child, and its best block.
LEMMA FlushStep ==
    ASSUME CacheInv, Flush
    PROVE  CacheInv' /\ Abstract!Commit
  <1> DEFINE up == depth - 1
             b == BestOf(hash, depth)
  <1>0. PICK done \in SUBSET Outpoints : done = Outpoints /\ BatchWrite(done)
    BY Zenon DEF Flush
  <1>1. Hashes(hash, depth) /\ depth \in Caches /\ depth > 1 /\ up = depth - 1
    BY Zenon DEF Flush, CacheInv, Stack
  <1>2. up \in 0..3 /\ depth \in 0..3 /\ up < depth
    BY <1>1 DEF Caches
  <1>3. \A l \in 0..3 : hash'[l] = IF l = depth THEN Null ELSE IF l = up THEN hash[depth] ELSE hash[l]
    BY Zenon DEF Flush
  <1>4. hash[depth] # Null /\ hash[depth] \in Blocks
    BY <1>1 DEF Hashes, Caches
  <1>5. Hashes(hash', up)
    <2>1. hash' \in [0..3 -> Blocks \cup {Null}]
      BY <1>1, SMTT(60) DEF Flush, Hashes, Caches
    <2> QED BY <2>1, <1>1, <1>2, <1>3, <1>4, SMTT(60) DEF Hashes, Caches
  <1>6. \A l \in 0..3 : BestOf(hash', l) = IF l >= up THEN b ELSE BestOf(hash, l)
    <2>1. BestOf(hash, depth) = hash[depth]
      BY <1>1, <1>4, <1>2, BestAbove, SMTT(60) DEF Caches
    <2>2. /\ depth = 2 => hash'[1] = hash[2] /\ hash'[2] = Null /\ hash'[3] = Null /\ hash'[0] = hash[0]
          /\ depth = 3 => hash'[2] = hash[3] /\ hash'[3] = Null /\ hash'[1] = hash[1] /\ hash'[0] = hash[0]
      BY <1>3, <1>1 DEF Hashes, Caches
    <2>3. depth = 2 \/ depth = 3
      BY <1>1 DEF Caches
    <2> QED BY <2>1, <2>2, <2>3, <1>4 DEF BestOf
  <1>7. b = Bests[depth]
    BY <1>2, Unfold, Zenon DEF Bests
  <1> HIDE DEF up, b
  <1>8. /\ Stack(cache', db', up) /\ depth' = up /\ thrown' = FALSE
        /\ \A l \in 0..3, p \in Outpoints :
              Look(cache', db', l, p) = IF l >= up THEN IF p \in done THEN Look(cache, db, depth, p)
                                                                     ELSE Look(cache, db, up, p)
                                        ELSE Look(cache, db, l, p)
    <2>1. Batched(done, depth - 1)
      BY <1>0, <1>1, BatchWritten, Zenon
    <2>2. Batched(done, up)
      BY <2>1, Zenon DEF up
    <2> QED BY <2>2, Zenon DEF Batched
  <1>9. \A l \in 0..3, p \in Outpoints :
            Look(cache', db', l, p) = IF l >= up THEN Look(cache, db, depth, p) ELSE Look(cache, db, l, p)
    BY <1>0, <1>8, Zenon
  <1>10. Stack(cache', db', depth') /\ Hashes(hash', depth') /\ thrown' = FALSE
    BY <1>5, <1>8, Zenon
  <1>11. CacheInv' /\ Abstract!Fill(up, Views[depth], b)
    BY <1>2, <1>6, <1>9, <1>10, FillStep, Zenon
  <1>12. Abstract!Fill(depth - 1, Views[depth], Bests[depth]) /\ depth' = depth - 1
    BY <1>7, <1>8, <1>11, Zenon DEF up
  <1> QED BY <1>1, <1>11, <1>12, Zenon DEF Abstract!Commit, Views, Bests

\* A failed publication leaves a coherent stack, and CoinsTip and the database as they were.
LEMMA FlushFailsStep ==
    ASSUME CacheInv, NEW done \in SUBSET Outpoints, FlushFails(done)
    PROVE  CacheInv' /\ Abstract!Fail
  <1> DEFINE up == depth - 1
             f == [p \in Outpoints |-> IF p \in done THEN GetCoin(3, p) ELSE GetCoin(2, p)]
  <1>1. /\ Stack(cache, db, depth) /\ Hashes(hash, depth) /\ depth = 3 /\ depth > 1
        /\ up = depth - 1 /\ up = 2 /\ BatchWrite(done)
        /\ hash' = [hash EXCEPT ![3] = Null]
    BY DEF FlushFails, CacheInv
  <1>2. /\ Stack(cache', db', up) /\ depth' = up /\ thrown' = FALSE
        /\ \A l \in 0..3, p \in Outpoints :
              Look(cache', db', l, p) = IF l >= up THEN IF p \in done THEN Look(cache, db, depth, p)
                                                                     ELSE Look(cache, db, up, p)
                                        ELSE Look(cache, db, l, p)
    BY <1>1, BatchWritten, Zenon DEF Batched
  <1>3. Hashes(hash', 2)
    BY <1>1 DEF Hashes, Caches
  <1>4. CacheInv' /\ depth' = 2
    BY <1>1, <1>2, <1>3, Zenon DEF CacheInv
  <1>5. \A l \in 0..3, p \in Outpoints : GetCoin(l, p)' = IF l >= 2 THEN f[p] ELSE GetCoin(l, p)
    BY <1>1, <1>2, Unfold, Fold, ZenonT(60)
  <1>6. \A l \in 0..3 : BestOf(hash', l) = IF l >= 2 THEN BestOf(hash, 2) ELSE BestOf(hash, l)
    <2>1. hash'[0] = hash[0] /\ hash'[1] = hash[1] /\ hash'[2] = hash[2] /\ hash'[3] = Null
      BY <1>1 DEF Hashes
    <2> QED BY <2>1 DEF BestOf
  <1>7. f \in [Outpoints -> Coins \cup {Spent}]
    <2>1. \A l \in 0..3, p \in Outpoints : GetCoin(l, p) \in Coins \cup {Spent}
      BY <1>1, LookType, Unfold, Zenon DEF CoinSet
    <2> QED BY <2>1
  <1>8. Abstract!Fill(2, f, Bests[2])
    <2>1. \A l \in 0..3 : BestBlock(l)' = IF l >= 2 THEN BestBlock(2) ELSE BestBlock(l)
      BY <1>6, Unfold, Fold, Zenon
    <2>2. Views' = [l \in 0..3 |-> IF l >= 2 THEN f ELSE Views[l]]
      <3>1. f = [p \in Outpoints |-> f[p]]
        BY Zenon
      <3> HIDE DEF f
      <3> QED BY <1>5, <3>1, Zenon DEF Views
    <2>3. Bests' = [l \in 0..3 |-> IF l >= 2 THEN Bests[2] ELSE Bests[l]]
      BY <2>1 DEF Bests
    <2> QED BY <2>2, <2>3, FillIs, Zenon
  <1> QED BY <1>1, <1>4, <1>7, <1>8, Zenon DEF Abstract!Fail, Bests

\* A view that goes out of scope leaves its parent as it was.
LEMMA DiscardStep ==
    ASSUME CacheInv, Discard
    PROVE  CacheInv' /\ Abstract!Drop
  <1> DEFINE up == depth - 1
  <1>1. /\ Stack(cache, db, depth) /\ Hashes(hash, depth) /\ thrown' = FALSE /\ depth \in Caches
        /\ depth > 1 /\ depth' = up /\ db' = db
        /\ cache' = [cache EXCEPT ![depth] = Empty] /\ hash' = [hash EXCEPT ![depth] = Null]
    BY Unfold, Zenon DEF CacheInv, Discard, Stack
  <1>2. up \in Caches /\ up \in 0..3 /\ up - 1 \in 0..3 /\ up < depth /\ up <= depth
    BY <1>1 DEF Caches
  <1>3. cache' \in [Caches -> [Outpoints -> Entries]]
    BY <1>1, AbsentIsSound, Zenon DEF Stack, Empty
  <1>4. /\ \A l \in Caches : l > up => cache'[l] = Empty
        /\ \A l \in Caches, o \in Outpoints : l < up => cache'[l][o] = cache[l][o]
        /\ cache'[up] = cache[up]
    BY <1>1, <1>2 DEF Stack, Caches
  <1>5. \A o \in Outpoints : Sound(cache'[up][o], Look(cache, db, up - 1, o))
    BY <1>1, <1>2, <1>4, ZenonT(60) DEF Stack
  <1>6. /\ Stack(cache', db, up)
        /\ \A l \in 0..3, p \in Outpoints :
              Look(cache', db, l, p) = IF l >= up THEN Answer(cache'[up][p], Look(cache, db, up - 1, p))
                                       ELSE Look(cache, db, l, p)
    <2>1. /\ \A l \in Caches : l > up => cache'[l] = Empty
          /\ \A l \in Caches, o \in Outpoints : l < up => cache'[l][o] = cache[l][o]
          /\ Stack(cache, db, depth)
      BY <1>1, <1>4, ZenonT(60)
    <2> HIDE DEF up
    <2> QED BY <2>1, <1>2, <1>3, <1>5, Restack
  <1>7. \A p \in Outpoints : Look(cache, db, up, p) = Answer(cache[up][p], Look(cache, db, up - 1, p))
    BY <1>2, SMTT(60) DEF Look, Answer, Caches
  <1>8. \A l \in 0..3, p \in Outpoints :
             Look(cache', db', l, p) = IF l >= up THEN Look(cache, db, up, p) ELSE Look(cache, db, l, p)
    BY <1>1, <1>4, <1>6, <1>7, Zenon
  <1>9. Hashes(hash', up)
    BY <1>1, <1>2 DEF Hashes, Caches
  <1>10. \A l \in 0..3 : BestOf(hash', l) = IF l >= up THEN BestOf(hash, up) ELSE BestOf(hash, l)
    <2>1. /\ depth = 2 => hash'[2] = Null /\ hash'[3] = Null /\ hash'[1] = hash[1] /\ hash'[0] = hash[0]
          /\ depth = 3 => hash'[3] = Null /\ hash'[2] = hash[2] /\ hash'[1] = hash[1] /\ hash'[0] = hash[0]
      BY <1>1 DEF Hashes, Caches
    <2>2. depth = 2 \/ depth = 3
      BY <1>1 DEF Caches
    <2> QED BY <2>1, <2>2 DEF BestOf
  <1>11. CacheInv' /\ Abstract!Fill(up, Views[up], BestOf(hash, up))
    <2> DEFINE b == BestOf(hash, up)
    <2>1. Stack(cache', db', depth') /\ Hashes(hash', depth') /\ thrown' = FALSE
      BY <1>1, <1>6, <1>9, Zenon
    <2>2. \A l \in 0..3 : BestOf(hash', l) = IF l >= up THEN b ELSE BestOf(hash, l)
      BY <1>10, Zenon
    <2> HIDE DEF b, up
    <2>3. CacheInv' /\ Abstract!Fill(up, Views[up], b)
      BY <2>1, <2>2, <1>2, <1>8, FillStep, Zenon
    <2> QED BY <2>3, Zenon DEF b
  <1>12. BestOf(hash, up) = Bests[up]
    BY <1>2, Unfold, Zenon DEF Bests
  <1> QED BY <1>1, <1>11, <1>12, Zenon DEF Abstract!Drop, Views, Bests

\* A flush to disk writes what CoinsTip answers.
LEMMA FlushToDiskStep ==
    ASSUME CacheInv, FlushToDisk
    PROVE  CacheInv' /\ Abstract!Persist
  <1>1. /\ Stack(cache, db, depth) /\ Hashes(hash, depth) /\ thrown' = FALSE
        /\ depth = 1 /\ depth' = 1
        /\ cache' = [cache EXCEPT ![1] = Empty]
        /\ \A l : BestBlock(l) = BestOf(hash, l)
    BY Unfold, Zenon DEF CacheInv, FlushToDisk
  <1>2. ASSUME NEW o \in Outpoints
        PROVE  db'[o] = Look(cache, db, 1, o) /\ db'[o] \in CoinSet
    <2>1. cache[1][o] \in Entries /\ Sound(cache[1][o], Look(cache, db, 0, o)) /\ db[o] \in CoinSet
      BY <1>1 DEF Stack, Caches
    <2>2. db'[o] = IF cache[1][o].dirty THEN cache[1][o].coin ELSE db[o]
      BY Zenon DEF FlushToDisk
    <2>3. cache[1][o].dirty => cache[1][o].present
      BY <2>1, SMTT(60) DEF Sound, NoEntry
    <2>4. Look(cache, db, 0, o) = db[o] /\ Look(cache, db, 1, o) = IF cache[1][o].present THEN cache[1][o].coin ELSE db[o]
      BY DEF Look
    <2> QED BY <2>1, <2>2, <2>3, <2>4, Zenon DEF Sound, Entries, CoinSet
  <1>3. db' \in [Outpoints -> CoinSet]
    BY <1>2, Zenon DEF FlushToDisk
  <1>4. cache' \in [Caches -> [Outpoints -> Entries]] /\ \A l \in Caches : cache'[l] = Empty
    BY <1>1, AbsentIsSound DEF Stack, Caches, Empty
  <1>5. \A l \in Caches, o \in Outpoints : cache'[l][o] = NoEntry
    BY <1>4, Zenon DEF Empty
  <1>6. Stack(cache', db', depth')
    BY <1>1, <1>3, <1>4, <1>5, AbsentIsSound, SMTT(60) DEF Stack, Caches
  <1>7. \A l \in 0..3, p \in Outpoints :
             Look(cache', db', l, p) = IF l >= 0 THEN Look(cache, db, 1, p) ELSE Look(cache, db, l, p)
    <2>1. \A p \in Outpoints : ~cache'[1][p].present /\ ~cache'[2][p].present /\ ~cache'[3][p].present
      BY <1>5, SMTT(60) DEF Caches, NoEntry
    <2> QED BY <2>1, <1>2, SMTT(60) DEF Look
  <1>8. /\ hash[2] = Null /\ hash[3] = Null /\ hash[0] # Null
        /\ hash \in [0..3 -> Blocks \cup {Null}]
        /\ BestOf(hash, 1) \in Blocks /\ BestOf(hash, 1) # Null
    BY <1>1, BestType, SMTT(60) DEF Hashes, Caches
  <1>9. /\ hash'[0] = BestOf(hash, 1) /\ hash'[1] = BestOf(hash, 1) /\ hash'[2] = Null /\ hash'[3] = Null
        /\ hash' \in [0..3 -> Blocks \cup {Null}]
    <2> DEFINE g == GetBestBlock(1)
    <2>1. \A l \in 0..3 : g[l] = IF l <= 1 /\ \A k \in l..1 : hash[k] = Null THEN BestOf(hash, l) ELSE hash[l]
      BY <1>1, Zenon DEF GetBestBlock
    <2>2. g[2] = Null /\ g[3] = Null /\ g[0] = hash[0]
      BY <2>1, <1>8
    <2>3. hash[1] # Null => BestOf(hash, 1) = hash[1]
      BY DEF BestOf
    <2>4. g[1] = BestOf(hash, 1)
      BY <2>1, <2>3
    <2>5. g \in [0..3 -> Blocks \cup {Null}]
      <3>1. g = [l \in 0..3 |-> g[l]]
        BY Zenon DEF GetBestBlock
      <3>2. \A l \in 0..3 : g[l] \in Blocks \cup {Null}
        BY <2>2, <2>4, <1>8
      <3> QED BY <3>1, <3>2, Zenon
    <2>6. hash' = [g EXCEPT ![0] = BestOf(hash, 1)]
      BY <1>1, Zenon DEF FlushToDisk
    <2> HIDE DEF g
    <2> QED BY <2>2, <2>4, <2>5, <2>6, <1>8
  <1>10. Hashes(hash', depth')
    BY <1>1, <1>8, <1>9, SMTT(60) DEF Hashes, Caches
  <1>11. \A l \in 0..3 : BestOf(hash', l) = IF l >= 0 THEN BestOf(hash, 1) ELSE BestOf(hash, l)
    BY <1>8, <1>9 DEF BestOf
  <1>12. CacheInv' /\ Abstract!Fill(0, Views[1], BestOf(hash, 1))
    <2> DEFINE b == BestOf(hash, 1)
               n == 0
               k == 1
    <2>1. \A l \in 0..3 : BestOf(hash', l) = IF l >= n THEN b ELSE BestOf(hash, l)
      BY <1>11, Zenon
    <2>2. thrown' = FALSE /\ n \in 0..3 /\ k \in 0..3
      BY <1>1
    <2>3. \A l \in 0..3, p \in Outpoints :
             Look(cache', db', l, p) = IF l >= n THEN Look(cache, db, k, p) ELSE Look(cache, db, l, p)
      BY <1>7, Zenon
    <2> HIDE DEF b, n, k
    <2>4. CacheInv' /\ Abstract!Fill(n, Views[k], b)
      BY <2>1, <2>2, <2>3, <1>6, <1>10, FillStep, Zenon
    <2> QED BY <2>4, Zenon DEF b, n, k
  <1>13. BestOf(hash, 1) = Bests[1]
    BY Unfold DEF Bests
  <1> QED BY <1>1, <1>12, <1>13, Zenon DEF Abstract!Persist, Views, Bests

-----------------------------------------------------------------------------
\* The theorems

\* CoinsTip over an opened database is coherent.
LEMMA CacheInitInv == CacheInit => CacheInv
  <1> SUFFICES ASSUME CacheInit PROVE CacheInv
    BY Zenon
  <1>1. cache = [l \in Caches |-> Empty] /\ depth = 1 /\ thrown = FALSE /\ db \in [Outpoints -> CoinSet]
    BY Zenon DEF CacheInit, CoinSet
  <1>2. \A l \in Caches, o \in Outpoints : cache[l][o] = NoEntry /\ cache[l] = Empty
    BY <1>1, Zenon DEF Empty
  <1>3. cache \in [Caches -> [Outpoints -> Entries]]
    BY <1>1, AbsentIsSound, Zenon DEF Empty
  <1>4. Stack(cache, db, depth)
    BY <1>1, <1>2, <1>3, AbsentIsSound DEF Stack, Caches
  <1>5. Hashes(hash, depth)
    BY NullIsNoBlock DEF CacheInit, Hashes, Caches
  <1> QED BY <1>1, <1>4, <1>5, Zenon DEF CacheInv

\* Every step keeps the caches coherent and is a step of plain maps, or none.
LEMMA OperationRefines ==
    ASSUME CacheInv, Operation, UNCHANGED broken
    PROVE  CacheInv' /\ (Abstract!Operation \/ UNCHANGED Abstract!vars)
  <1>1. ASSUME NEW o \in Outpoints, Fetch(o) PROVE CacheInv' /\ (Abstract!Operation \/ UNCHANGED Abstract!vars)
    BY <1>1, FetchStep, Zenon
  <1>2. ASSUME NEW o \in Outpoints, SpendCoin(o) PROVE CacheInv' /\ (Abstract!Operation \/ UNCHANGED Abstract!vars)
    BY <1>2, SpendStep, Zenon DEF Abstract!Operation
  <1>3. ASSUME NEW o \in Outpoints, Uncache(o) PROVE CacheInv' /\ (Abstract!Operation \/ UNCHANGED Abstract!vars)
    <2>1. Look(cache, db, depth - 1, o) \in Coins \cup {Spent}
      <3>1. Stack(cache, db, depth) /\ depth - 1 \in 0..3
        BY Unfold DEF CacheInv, Stack, Caches
      <3> QED BY <3>1, LookType, ZenonT(60) DEF CoinSet
    <2> QED BY <1>3, <2>1, UncacheStep, Zenon DEF Abstract!Operation
  <1>4. ASSUME NEW o \in Outpoints, NEW coin \in Coins, NEW checked \in BOOLEAN, AddCoin(o, coin, checked)
        PROVE  CacheInv' /\ (Abstract!Operation \/ UNCHANGED Abstract!vars)
    BY <1>4, AddStep, Zenon DEF Abstract!Operation
  <1>5. ASSUME NEW b \in Blocks, SetBestBlock(b) PROVE CacheInv' /\ (Abstract!Operation \/ UNCHANGED Abstract!vars)
    BY <1>5, SetBestStep, Zenon DEF Abstract!Operation
  <1>6. CASE Open
    BY <1>6, OpenStep, Zenon DEF Abstract!Operation
  <1>7. CASE Flush
    BY <1>7, FlushStep, Zenon DEF Abstract!Operation
  <1>8. CASE Discard
    BY <1>8, DiscardStep, Zenon DEF Abstract!Operation
  <1>9. CASE FlushToDisk
    BY <1>9, FlushToDiskStep, Zenon DEF Abstract!Operation
  <1> QED BY <1>1, <1>2, <1>3, <1>4, <1>5, <1>6, <1>7, <1>8, <1>9, Zenon DEF Operation

\* So does a step of the specification.
LEMMA StepRefines == CacheInv /\ [CacheNext]_cacheVars => CacheInv' /\ [Abstract!Next]_(Abstract!vars)
  <1> SUFFICES ASSUME CacheInv, [CacheNext]_cacheVars PROVE CacheInv' /\ [Abstract!Next]_(Abstract!vars)
    BY Zenon
  <1>1. CASE ~broken /\ Operation /\ UNCHANGED broken
    BY <1>1, OperationRefines, Zenon DEF Abstract!Next
  <1>2. CASE ~broken /\ (\E done \in SUBSET Outpoints : FlushFails(done)) /\ broken' = TRUE
    BY <1>2, FlushFailsStep, Zenon DEF Abstract!Next
  <1>3. CASE broken /\ Discard /\ broken' = FALSE
    BY <1>3, DiscardStep, Zenon DEF Abstract!Next
  <1>4. CASE UNCHANGED cacheVars
    <2>1. Stack(cache', db, depth) /\ UNCHANGED <<depth, db, hash, thrown, broken>>
      BY <1>4, Zenon DEF cacheVars, CacheInv
    <2>2. \A l \in 0..3, p \in Outpoints : Look(cache', db, l, p) = Look(cache, db, l, p)
      BY <1>4, Zenon DEF cacheVars
    <2> QED BY <2>1, <2>2, SameCoins, Zenon
  <1> QED BY <1>1, <1>2, <1>3, <1>4, Zenon DEF CacheNext

\* The caches start as plain maps.
LEMMA InitRefines == CacheInit => Abstract!Init
  <1> SUFFICES ASSUME CacheInit PROVE Abstract!Init
    BY Zenon
  <1>1. /\ cache = [l \in Caches |-> Empty] /\ depth = 1 /\ db \in [Outpoints -> Coins \cup {Spent}]
    BY Zenon DEF CacheInit
  <1>2. \A l \in 0..3, o \in Outpoints : GetCoin(l, o) = db[o]
    <2>1. \A o \in Outpoints : ~cache[1][o].present /\ ~cache[2][o].present /\ ~cache[3][o].present
      <3>1. \A l \in Caches, o \in Outpoints : cache[l][o] = NoEntry
        BY <1>1, Zenon DEF Empty
      <3>2. \A o \in Outpoints : cache[1][o] = NoEntry /\ cache[2][o] = NoEntry /\ cache[3][o] = NoEntry
        <4>1. 1 \in Caches /\ 2 \in Caches /\ 3 \in Caches
          BY DEF Caches
        <4> QED BY <3>1, <4>1, Zenon
      <3>3. ~NoEntry.present
        BY Zenon DEF NoEntry
      <3> QED BY <3>2, <3>3, Zenon
    <2> QED BY <2>1, Zenon DEF GetCoin
  <1>3. PICK b \in Blocks : hash = [l \in 0..3 |-> IF l = 0 THEN b ELSE Null]
    BY Zenon DEF CacheInit
  <1>4. \A l \in 0..3 : BestBlock(l) = b
    BY <1>3 DEF BestBlock
  <1>5. [l \in 0..3 |-> [o \in Outpoints |-> GetCoin(l, o)]] = [l \in 0..3 |-> db]
    BY <1>1, <1>2, Zenon
  <1>6. [l \in 0..3 |-> BestBlock(l)] = [l \in 0..3 |-> b]
    BY <1>4, Zenon
  <1>7. broken = FALSE
    BY Zenon DEF CacheInit
  <1> QED BY <1>1, <1>3, <1>5, <1>6, <1>7, Zenon DEF Abstract!Init, Abstract!Levels

\* The flag of a failed publication is a Boolean.
LEMMA BrokenType == CacheSpec => [](broken \in BOOLEAN)
  <1>1. CacheInit => broken \in BOOLEAN
    BY Zenon DEF CacheInit
  <1>2. broken \in BOOLEAN /\ [CacheNext]_cacheVars => (broken \in BOOLEAN)'
    BY Zenon DEF CacheNext, cacheVars
  <1> QED BY <1>1, <1>2, PTL DEF CacheSpec

\* The caches of coins.cpp are coherent in every reachable state.
THEOREM CoherentCaches == CacheSpec => []FlagsAreCoherent
  <1>1. CacheInv /\ broken \in BOOLEAN => FlagsAreCoherent
    BY Unfold, Zenon
  <1> QED BY <1>1, CacheInitInv, StepRefines, BrokenType, PTL DEF CacheSpec

\* No AddCoin and no BatchWrite of the caches throws a logic_error.
THEOREM CachesNeverThrow == CacheSpec => []NoLogicError
  <1>1. CacheInv => NoLogicError
    BY Zenon DEF CacheInv, NoLogicError
  <1> QED BY <1>1, CacheInitInv, StepRefines, PTL DEF CacheSpec

\* What SanityCheck of coins.cpp asserts holds in every reachable state.
THEOREM SanityHolds == CacheSpec => []SanityCheck
  <1>1. FlagsAreCoherent => SanityCheck
    BY Zenon DEF FlagsAreCoherent, EntryIsCoherent, SanityCheck, NoEntry
  <1> QED BY <1>1, CoherentCaches, PTL

\* The stack of caches implements plain maps: the DIRTY and FRESH flags, the
\* fetched copies, the order of flushes and a publication that fails half-way
\* are invisible to its users.
THEOREM CachesImplementViews == CacheSpec => ImplementsCoinsView
  <1> QED BY CacheInitInv, InitRefines, StepRefines, PTL DEF CacheSpec, ImplementsCoinsView, Abstract!Spec
=============================================================================
