---------------------------- MODULE Crash_proofs ----------------------------
(***************************************************************************)
(* Crash safety of Database: I/O errors, killed processes and power losses,*)
(* in any number and at any point, as long as no open takes over           *)
(* unsynchronized writes (SyncedSpec), which without power losses is no    *)
(* restriction.  CrashInv says where the file stands at each program       *)
(* point, MediumInv what a power loss may leave of it; the lemmas of the   *)
(* extended modules show that each action keeps both.                      *)
(***************************************************************************)
EXTENDS CrashStaging_proofs, CrashRelocate_proofs

-----------------------------------------------------------------------------
(* Every step keeps CrashInv.                                              *)

\* Every step of every operation keeps CrashInv.
LEMMA CrashStep ==
    ASSUME TypeInv, CrashInv, MediumInv, [SyncedNext]_vars
    PROVE  StaysSafe
<1>1. Running /\ SurvivorsOK /\ [Next]_vars
  BY TypeStep DEF Running, SyncedNext, Next, MediumInv
<1>2. CASE UNCHANGED vars
  BY <1>2, StutterCrash DEF vars, disk, handle, ghost
<1>3. CASE Commit \/ Rollback
  BY <1>1, <1>3, CommitAppendCrash, CommitSyncCrash, CommitPublishCrash, RollbackCrash DEF Commit
<1>4. CASE Compact
  BY <1>1, <1>4, CompactMarkCrash, CompactStageCrash, CompactStageSyncCrash,
     CompactPublishCrash, CompactInstallCrash, CompactRelocateCrash, CompactRelocateMarkCrash,
     CompactRelocateSyncCrash, CompactSwitchCrash, CompactSwitchSyncCrash, CompactCopyCrash,
     CompactTruncateCrash, CompactRemapCrash DEF Compact
<1>5. CASE Open /\ Durable
  BY Zenon, <1>1, <1>5, OpenCrash
<1>6. CASE OpenSync
  BY Zenon, <1>1, <1>6, OpenSyncCrash
<1>7. CASE Close \/ Kill
  BY <1>1, <1>7, NoHandleCrash DEF Close, Kill
<1>8. CASE OpenRejected
  BY SMTT(60), <1>8, StutterCrash DEF OpenRejected, vars, disk, handle, ghost
<1>9. CASE TakeSnapshot \/ DropSnapshot
  BY <1>9, StutterCrash DEF TakeSnapshot, DropSnapshot
<1>10. CASE PowerFail
  BY Zenon, <1>1, <1>10, PowerFailCrash
<1> QED
  BY Zenon, <1>2, <1>3, <1>4, <1>5, <1>6, <1>7, <1>8, <1>9, <1>10 DEF SyncedNext, OtherSteps

-----------------------------------------------------------------------------
(* Every step keeps MediumInv.                                             *)

\* Every step of every operation keeps MediumInv.
LEMMA MediumStep ==
    ASSUME Powered, [SyncedNext]_vars
    PROVE  StaysOnMedium
<1>1. MediumInv
  BY DEF Powered
<1>2. CASE UNCHANGED vars
  BY <1>1, <1>2, StutterMedium DEF vars, disk, handle, ghost
<1>3. CASE Commit \/ Rollback
  BY Zenon, <1>3, CommitAppendMedium, CommitSyncMedium, CommitPublishMedium, RollbackMedium
     DEF Commit
<1>4. CASE Compact
  BY Zenon, <1>4, CompactMarkMedium, CompactStageMedium, CompactStageSyncMedium, PagesMedium,
     CompactSyncMedium, RelocateMedium, CompactTruncateMedium DEF Compact
<1>5. CASE Open /\ Durable
  BY Zenon, <1>5, OpenMedium
<1>6. CASE OpenSync
  BY Zenon, <1>6, OpenSyncMedium
<1>7. CASE Close \/ Kill
  BY <1>7, LostMedium DEF Close, Kill, NoHandle, Return, Unsettled
<1>8. CASE OpenRejected
  BY <1>1, <1>8, StutterMedium DEF OpenRejected, vars, disk, handle, ghost
<1>9. CASE TakeSnapshot \/ DropSnapshot
  BY <1>1, <1>9, StutterMedium DEF TakeSnapshot, DropSnapshot
<1>10. CASE PowerFail
  BY Zenon, <1>10, PowerFailMedium
<1> QED
  BY Zenon, <1>2, <1>3, <1>4, <1>5, <1>6, <1>7, <1>8, <1>9, <1>10 DEF SyncedNext, OtherSteps

-----------------------------------------------------------------------------
(* The invariant.                                                          *)

\* The invariants hold throughout, as long as no open takes over unsynchronized
\* writes.
LEMMA SyncedInvariant == SyncedSpec => [](TypeInv /\ CrashInv /\ MediumInv)
<1>1. Init => TypeInv /\ CrashInv /\ MediumInv
  BY InitType, InitCrash, InitMedium
<1>2. ASSUME TypeInv, CrashInv, MediumInv, [SyncedNext]_vars
      PROVE  (TypeInv /\ CrashInv /\ MediumInv)'
  <2>1. TypeInv'
    BY <1>2, TypeStep DEF SyncedNext, Next
  <2>2. CrashInv'
    BY <1>2, CrashStep DEF StaysSafe
  <2>3. MediumInv'
    BY <1>2, <2>1, <2>2, MediumStep DEF Powered, StaysOnMedium
  <2> QED
    BY <2>1, <2>2, <2>3
<1>3. TypeInv /\ CrashInv /\ MediumInv /\ [SyncedNext]_vars => (TypeInv /\ CrashInv /\ MediumInv)'
  BY <1>2
<1> QED
  BY <1>1, <1>3, PTL DEF SyncedSpec

\* Without power losses a step leaves exactly what it shows.
LEMMA DurableStep ==
    ASSUME Durable, ~Power, [Next]_vars
    PROVE  Durable'
<1>1. ASSUME NEW w, NEW end, WriteCells(w, end) PROVE Durable'
  BY <1>1 DEF WriteCells, Durable, Persisted
<1>2. CASE Sync
  BY <1>2 DEF Sync, Durable
<1>3. ASSUME NEW n, SetLen(n) PROVE Durable'
  BY <1>3 DEF SetLen, Durable, Persisted
<1>4. ASSUME NEW n, SetLenSynced(n) PROVE Durable'
  BY <1>4 DEF SetLenSynced, Durable
<1>5. CASE UNCHANGED disk
  BY <1>5 DEF disk, Durable
<1>6. ~PowerFail
  BY DEF PowerFail
<1> QED
  BY Zenon, <1>1, <1>2, <1>3, <1>4, <1>5, <1>6, DiskSteps

\* Without power losses every behaviour is one in which opens find a
\* synchronized file: the page cache is the file.
THEOREM PageCacheIsFile == "power" \notin Failures => (Spec => SyncedSpec)
<1> SUFFICES ASSUME "power" \notin Failures
             PROVE  Spec => SyncedSpec
  OBVIOUS
<1>1. Init => Durable
  BY DEF Init, Durable
<1>2. Durable /\ [Next]_vars => Durable'
  BY DurableStep DEF Power
<1>3. Durable /\ [Next]_vars => [SyncedNext]_vars
  BY DEF SyncedNext, Next
<1> QED
  BY <1>1, <1>2, <1>3, PTL DEF Spec, SyncedSpec

-----------------------------------------------------------------------------
(* What CrashInv says of the handle.                                       *)

\* Without power losses the next open finds acknowledged contents, or those of a
\* transaction in doubt.
LEMMA NextOpenRecovers == TypeInv /\ CrashInv /\ ~Power => RecoversCommitted
<1> SUFFICES ASSUME TypeInv, CrashInv, ~Power
             PROVE  RecoversCommitted
  OBVIOUS
<1>1. DiskType /\ flen \in Nat /\ DiskOK
  BY CrashDisk, TypeParts, ImageAssumption DEF DiskType, DATA_START
<1>2. PICK s, e, m : m \in {acked} \cup maybe /\ Recovers(file, flen, s, e, m)
  BY <1>1 DEF DiskOK, Admissible
<1> QED
  BY <1>1, <1>2, RootRecovers DEF DiskType, RecoversCommitted

\* With them, an open that succeeds does, and there is a root.
LEMMA ImageSurvives == TypeInv /\ CrashInv => SurvivesPowerLoss
<1> SUFFICES ASSUME TypeInv, CrashInv
             PROVE  SurvivesPowerLoss
  OBVIOUS
<1>1. file \in [Offsets -> Cell] /\ flen \in Nat
  BY TypeParts, ImageAssumption DEF DiskType, DATA_START
<1>2. ImageOK(file, flen, Admissible)
  BY CrashImage
<1>3. PICK s : Root(file, flen, s)
  BY <1>2 DEF ImageOK
<1>4. RootIntact(file, flen)
  BY <1>1, <1>3, RootLatest
<1> QED
  BY <1>2, <1>4 DEF SurvivesPowerLoss, ImageOK, Admissible

-----------------------------------------------------------------------------
(* The theorems.                                                           *)

\* Atomic durability across process crashes and I/O errors: at every point of
\* every commit, rollback and compaction the next open succeeds, with exactly the
\* acknowledged contents or those of a whole transaction in doubt.
THEOREM CrashSafe ==
    ASSUME "power" \notin Failures
    PROVE  Spec => []RecoversCommitted
<1>1. TypeInv /\ CrashInv => RecoversCommitted
  BY NextOpenRecovers DEF Power
<1> QED
  BY <1>1, SyncedInvariant, PageCacheIsFile, PTL

\* Atomic durability across power losses as well: whatever subset of the
\* unsynchronized writes is on the medium, there is a valid page with a whole
\* Base, and an open that succeeds shows the acknowledged contents or those of a
\* whole transaction in doubt; as long as no open took over writes of a dead
\* process that were not on the medium.
THEOREM PowerLossSafe == SyncedSpec => []SurvivesPowerLoss
<1>1. TypeInv /\ CrashInv => SurvivesPowerLoss
  BY ImageSurvives
<1> QED
  BY <1>1, SyncedInvariant, PTL

\* The mapping of an available handle is never written or cut under it.
THEOREM MappingSafe ==
    /\ SyncedSpec => []HandleMappingIntact
    /\ "power" \notin Failures => (Spec => []HandleMappingIntact)
<1>1. TypeInv /\ CrashInv => HandleMappingIntact
  BY MappingIntact
<1> QED
  BY <1>1, SyncedInvariant, PageCacheIsFile, PTL

\* A handle that takes writes shows what a reopen would find, even after a
\* relocation that was given up half way.
THEOREM HandleAgrees ==
    /\ SyncedSpec => []HealthyHandleAgrees
    /\ "power" \notin Failures => (Spec => []HealthyHandleAgrees)
<1>1. TypeInv /\ CrashInv => HealthyHandleAgrees
  <2> SUFFICES ASSUME TypeInv, CrashInv, Writable
               PROVE  Recoverable(file, flen) /\ RecoveredMap(file, flen) = View
    BY DEF HealthyHandleAgrees
  <2>1. Attached(flen) /\ DiskType /\ flen \in Nat
    BY TypeParts, ImageAssumption DEF Writable, CrashInv, AtIdle, DiskType, DATA_START
  <2>2. Recovers(file, flen, base, flen, View)
    BY SMTT(60), <2>1, AttachedRecovers
  <2> QED
    BY <2>1, <2>2, RootRecovers DEF DiskType
<1> QED
  BY <1>1, SyncedInvariant, PageCacheIsFile, PTL

-----------------------------------------------------------------------------
(* The pages.                                                              *)

\* Recovery picks the root.
LEMMA RootIsLatest ==
    ASSUME DiskType, NEW s, Root(file, flen, s)
    PROVE  read_latest_from(file, flen) = s /\ file[Slot(s.gen)] = s /\ s.gen \in Nat
<1>1. flen \in Nat /\ file \in [Offsets -> Cell]
  BY ImageAssumption DEF DiskType, DATA_START
<1> QED
  BY <1>1, RootLatest

\* The page that holds the root stays when another page is written: the staging
\* generation and the relocated one go to the page of the other parity, the copy
\* of the relocated one to the page of the staging generation.
LEMMA PageWriteKeepsRoot ==
    ASSUME TypeInv, CrashInv, CompactPublish \/ CompactSwitch \/ CompactCopy
    PROVE  \E p \in {0, 1} : file'[p] = read_latest_from(file, flen)
<1>1. DiskType
  BY ZenonT(60), TypeParts
<1>2. ASSUME NEW s, Root(file, flen, s), PageSame(Slot(s.gen))
      PROVE  \E p \in {0, 1} : file'[p] = read_latest_from(file, flen)
  <2>1. /\ read_latest_from(file, flen) = s /\ file[Slot(s.gen)] = s
        /\ Slot(s.gen) \in {0, 1}
    BY <1>1, <1>2, RootIsLatest, SlotProps
  <2> QED
    BY ZenonT(60), <1>2, <2>1 DEF PageSame
<1>3. CASE CompactPublish
  <2>1. Root(file, flen, base) /\ op.src.gen = base.gen + 1
    BY ZenonT(60), <1>3
       DEF CompactPublish, CrashInv, Undoable, Staging, AtUndoable, Attached, AtStaging, Carried
  <2>2. RedundantSlot(op.src.gen) = Slot(base.gen)
    BY <1>1, <2>1, RootIsLatest, SlotProps
  <2>3. PageSame(Slot(base.gen))
    BY ZenonT(60), <1>3, <2>2, PageWrites
  <2> QED
    BY ZenonT(60), <1>2, <2>1, <2>3
<1>4. CASE CompactSwitch
  <2>1. Root(file, flen, op.src) /\ op.dst.gen = op.src.gen + 1
    BY ZenonT(60), <1>4 DEF CompactSwitch, CrashInv, Relocating, AtRelocating, Carried
  <2>2. RedundantSlot(op.dst.gen) = Slot(op.src.gen)
    BY <1>1, <2>1, RootIsLatest, SlotProps
  <2>3. PageSame(Slot(op.src.gen))
    BY ZenonT(60), <1>4, <2>2, PageWrites
  <2> QED
    BY ZenonT(60), <1>2, <2>1, <2>3
<1>5. CASE CompactCopy
  <2>1. Root(file, flen, op.dst)
    BY ZenonT(60), <1>5 DEF CompactCopy, CrashInv, Switched, AtSwitched
  <2>2. PageSame(Slot(op.dst.gen))
    BY ZenonT(60), <1>5, PageWrites
  <2> QED
    BY ZenonT(60), <1>2, <2>1, <2>2
<1> QED
  BY ZenonT(60), <1>3, <1>4, <1>5

\* No step of any operation destroys the last copy of the page recovery would
\* pick, wherever the process dies and whatever call fails.
THEOREM RootPageSafe ==
    ASSUME "power" \notin Failures
    PROVE  Spec => RootPageKept
<1> DEFINE Kept == RootIntact(file, flen) =>
                       \E p \in {0, 1} : file'[p] = read_latest_from(file, flen)
<1>1. ASSUME TypeInv, CrashInv, [Next]_vars
      PROVE  Kept
  <2> SUFFICES ASSUME RootIntact(file, flen)
               PROVE  \E p \in {0, 1} : file'[p] = read_latest_from(file, flen)
    OBVIOUS
  <2>1. LatestPage(file, flen) \in {0, 1}
    <3>1. file \in [Offsets -> Cell] /\ flen \in Nat
      BY <1>1, TypeParts, ImageAssumption DEF DiskType, DATA_START
    <3> QED
      BY <3>1, LatestProps DEF RootIntact, ValidPages
  <2>2. CASE PagesSame \/ PagesSynced
    BY ZenonT(60), <2>1, <2>2 DEF PagesSame, PageSame, PagesSynced, read_latest_from
  <2>3. CASE CompactPublish \/ CompactSwitch \/ CompactCopy
    BY ZenonT(60), <1>1, <2>3, PageWriteKeepsRoot
  <2>4. ~PowerFail
    BY DEF PowerFail, Power
  <2> QED
    BY ZenonT(60), <1>1, <2>2, <2>3, <2>4, PageSteps
<1>2. TypeInv /\ CrashInv /\ [Next]_vars => [Kept]_vars
  BY <1>1
<1> QED
  BY <1>2, SyncedInvariant, PageCacheIsFile, PTL DEF Spec, RootPageKept

-----------------------------------------------------------------------------
(* The image a compaction leaves.                                          *)

\* Behind the copy both pages hold the relocated root.
LEMMA CopiedStep ==
    ASSUME TypeInv, CrashInv, PagesCopied, [Next]_vars
    PROVE  PagesCopied'
<1> SUFFICES ASSUME pc' \in Copied
             PROVE  file'[0] = op'.dst /\ file'[1] = op'.dst
  BY DEF PagesCopied
<1>1. CASE CompactCopy /\ Step("compact_redundant_superblock_write")
  <2>1. /\ Root(file, flen, op.dst) /\ DiskType /\ op' = op
        /\ pc' = "compact_redundant_superblock_write"
    BY ZenonT(60), <1>1, TypeParts DEF CompactCopy, CrashInv, Switched, AtSwitched, Step, Goto
  <2>2. file[Slot(op.dst.gen)] = op.dst /\ op.dst.gen \in Nat
    BY ZenonT(60), <2>1, RootIsLatest
  <2>3. PageSame(Slot(op.dst.gen))
    BY ZenonT(60), <1>1, PageWrites
  <2>4. WriteCell(RedundantSlot(op.dst.gen), op.dst)
    BY ZenonT(60), <1>1, <2>1 DEF CompactCopy, PoisonAndReturn, Return
  <2>5. file'[RedundantSlot(op.dst.gen)] = op.dst
    BY <2>1, <2>2, <2>4, SlotProps DEF WriteCell, WriteCells
  <2> QED
    BY <2>1, <2>2, <2>3, <2>5, SlotProps DEF PageSame
<1>2. CASE pc \in Copied /\ op' = op
  <2>1. pc \notin BeforePage
    BY <1>2 DEF Copied, Truncating, BeforePage
  <2>2. ~CompactPublish /\ ~CompactSwitch /\ ~CompactCopy
    BY ZenonT(60), <2>1, PageWrites
  <2>3. ~PowerFail
    BY DEF PowerFail, NoHandle, Return, Copied, Truncating
  <2>4. PagesSame \/ PagesSynced
    BY ZenonT(60), <2>2, <2>3, PageSteps
  <2> QED
    BY ZenonT(60), <1>2, <2>4 DEF PagesCopied, PagesSame, PageSame, PagesSynced
<1> QED
  BY ZenonT(60), <1>1, <1>2, CopiedMoves

\* The handle becomes healthy behind the cut only through install_superblock.
LEMMA RemapOnly ==
    ASSUME CrashInv, [Next]_vars, pc = "compact_truncate_sync", state' = "Healthy"
    PROVE  CompactRemap
<1>1. state = "Unavailable"
  BY ZenonT(60) DEF CrashInv, Truncating, AtTruncating
<1>2. CASE UNCHANGED vars
  BY ZenonT(60), <1>1, <1>2 DEF vars
<1>3. CASE Commit \/ Rollback
  BY ZenonT(60), <1>3 DEF Commit, CommitAppend, CommitSync, CommitPublish, Rollback, Writable
<1>4. CASE Compact
  BY ZenonT(60), <1>4 DEF Compact, CompactMark, CompactStage, CompactStageSync, CompactPublish,
                CompactPublishSync, CompactInstall, CompactRelocate, CompactRelocateMark,
                CompactRelocateSync, CompactSwitch, CompactSwitchSync, CompactCopy,
                CompactCopySync, CompactTruncate, CompactTruncateSync, Writable
<1>5. CASE Open \/ OpenSync \/ OpenRejected \/ Close \/ Kill \/ PowerFail
  BY ZenonT(60), <1>1, <1>5 DEF Open, OpenSync, OpenRejected, Close, Kill, PowerFail, NoHandle
<1>6. CASE TakeSnapshot \/ DropSnapshot
  BY ZenonT(60), <1>1, <1>6 DEF TakeSnapshot, DropSnapshot, handle
<1> QED
  BY ZenonT(60), <1>2, <1>3, <1>4, <1>5, <1>6 DEF Next, OtherSteps

\* A compaction that returns Ok leaves two equal pages and one Base of the
\* acknowledged contents and nothing behind it, whatever failed before.
THEOREM CompactionMinimal ==
    /\ SyncedSpec => CompactedImage
    /\ "power" \notin Failures => (Spec => CompactedImage)
<1> DEFINE Minimal == pc = "compact_truncate_sync" /\ state' = "Healthy" =>
                          /\ flen' = DATA_START + BaseSize(acked)
                          /\ file'[0] = file'[1]
                          /\ base' = file'[0]
                          /\ RecoveredMap(file', flen') = acked
<1>1. ASSUME TypeInv, CrashInv, PagesCopied, [Next]_vars
      PROVE  Minimal
  <2> SUFFICES ASSUME pc = "compact_truncate_sync", state' = "Healthy"
               PROVE  /\ flen' = DATA_START + BaseSize(acked)
                      /\ file'[0] = file'[1]
                      /\ base' = file'[0]
                      /\ RecoveredMap(file', flen') = acked
    OBVIOUS
  <2>1. CompactRemap /\ pc \in Truncating /\ pc \in Compacting /\ pc \in Copied
    BY ZenonT(60), <1>1, RemapOnly DEF Truncating, Compacting, Copied
  <2>2. /\ AtTruncating /\ LayoutBounds /\ DiskType
        /\ file[0] = op.dst /\ file[1] = op.dst
    BY ZenonT(60), <1>1, <2>1, TypeParts DEF CrashInv, PagesCopied, OpType
  <2>3. UNCHANGED <<file, flen>> /\ base' = op.dst
    BY ZenonT(60), <2>1, <2>2 DEF CompactRemap, disk, AtTruncating
  <2>4. /\ flen = op.dst.log /\ op.dst.sum = acked /\ Root(file, flen, op.dst)
        /\ op.dst.log = DATA_START + BaseSize(acked)
    BY ZenonT(60), <2>2 DEF AtTruncating, LayoutBounds, Carried
  <2>5. RecoveredMap(file, flen) = acked
    <3>1. flen \in Nat /\ op.dst \in SuperCell /\ op.dst.log \in Nat /\ acked \in Map
      BY SMTT(60), <1>1, <2>1, <2>4, CompactingOp
    <3>2. Recovers(file, flen, op.dst, flen, acked)
      BY SMTT(60), <2>4, <3>1, EmptyLog
    <3> QED
      BY SMTT(60), <2>2, <3>1, <3>2, RootRecovers DEF DiskType
  <2> QED
    BY ZenonT(60), <2>2, <2>3, <2>4, <2>5
<1>2. Init => PagesCopied
  BY DEF Init, PagesCopied, Copied, Truncating
<1>3. TypeInv /\ CrashInv /\ PagesCopied /\ [Next]_vars => PagesCopied' /\ [Minimal]_vars
  BY <1>1, CopiedStep
<1>4. [SyncedNext]_vars => [Next]_vars
  BY DEF SyncedNext, Next
<1> QED
  BY <1>2, <1>3, <1>4, SyncedInvariant, PageCacheIsFile, PTL DEF SyncedSpec, CompactedImage

-----------------------------------------------------------------------------
(* What snapshots and readers see.                                         *)

\* The bytes under a snapshot of the open handle never change: commits append
\* behind them, rollbacks cut behind them, and compact refuses to run.
THEOREM SnapshotsHold ==
    /\ SyncedSpec => []SnapshotStable
    /\ "power" \notin Failures => (Spec => []SnapshotStable)
<1>1. Init => SnapshotInv
  BY DEF Init, SnapshotInv
<1>2. ASSUME TypeInv, CrashInv, SnapshotInv, [Next]_vars
      PROVE  SnapshotInv'
  <2>1. TypeInv'
    BY ZenonT(60), <1>2, TypeStep
  <2> QED
    BY ZenonT(60), <1>2, <2>1, CommitSnapshots, CompactSnapshots, HandleSnapshots DEF Next, OtherSteps
<1>3. TypeInv /\ CrashInv /\ SnapshotInv /\ [Next]_vars => SnapshotInv'
  BY <1>2
<1>4. SnapshotInv => SnapshotStable
  BY ZenonT(60) DEF SnapshotInv, SnapshotHeld, SnapshotStable
<1>5. [SyncedNext]_vars => [Next]_vars
  BY DEF SyncedNext, Next
<1> QED
  BY <1>1, <1>3, <1>4, <1>5, SyncedInvariant, PageCacheIsFile, PTL DEF SyncedSpec

\* The end of a compaction: readers wait while the file is cut, then see the
\* acknowledged contents again.
LEMMA TruncateSteps ==
    ASSUME Safely,
           CompactTruncate \/ CompactTruncateSync \/ CompactRemap
    PROVE  Store!Next \/ UNCHANGED Store!svars
<1> SUFFICES ASSUME TypeInv, TypeInv', CrashInv, CrashInv'
             PROVE  Store!Next \/ UNCHANGED Store!svars
  BY DEF Safely
<1>1. CASE CompactTruncate
  <2>1. state' = "Unavailable" /\ pc' \in {"compact_truncate", "idle"} /\ UNCHANGED <<acked, maybe>>
    BY ZenonT(60), <1>1 DEF CompactTruncate, Goto, Return, ghost
  <2>2. ~Available' /\ Pending' = Down
    BY ZenonT(60), <2>1 DEF Available, Pending
  <2>3. Seen' = Down
    BY ZenonT(60), <2>2, SeenIsNext
  <2> QED
    BY ZenonT(60), <2>1, <2>2, <2>3 DEF Store!Next, Store!GoDown
<1>2. CASE CompactTruncateSync
  <2>1. /\ pc = "compact_truncate" /\ pc' \in {"compact_truncate_sync", "idle"}
        /\ UNCHANGED <<state, acked, maybe>>
    BY ZenonT(60), <1>2 DEF CompactTruncateSync, Step, Goto, Return, handle, ghost
  <2>2. state = "Unavailable"
    BY ZenonT(60), <2>1 DEF CrashInv, Truncating, AtTruncating
  <2>3. ~Available /\ Available' = Available /\ Pending = Down /\ Pending' = Down
    BY ZenonT(60), <2>1, <2>2 DEF Available, Pending
  <2> QED
    BY ZenonT(60), <2>1, <2>3, StoreStutters
<1>3. CASE CompactRemap
  <2>1. /\ pc = "compact_truncate_sync" /\ pc' = "idle" /\ UNCHANGED <<overlay, acked, maybe>>
        /\ (state' = "Healthy" /\ base' = op.dst) \/ UNCHANGED <<state, base>>
    BY ZenonT(60), <1>3 DEF CompactRemap, Return, ghost
  <2>2. state = "Unavailable" /\ overlay = NoEntries /\ op.dst.sum = acked
    BY ZenonT(60), <2>1 DEF CrashInv, Truncating, AtTruncating, Carried
  <2>3. ~Available /\ Pending = Down /\ Pending' = Down
    BY ZenonT(60), <2>1, <2>2 DEF Available, Pending
  <2>4. CASE state' = "Healthy" /\ base' = op.dst
    <3>1. Available' /\ View' = Apply(acked, NoEntries) /\ acked \in Map
      BY ZenonT(60), <2>1, <2>2, <2>4 DEF Available, View, TypeInv, TypeOK
    <3>2. View' = acked
      BY ZenonT(60), <3>1, ApplyNothing
    <3>3. Seen = Down /\ Seen' = acked
      BY ZenonT(60), <2>3, <3>1, <3>2, SeenIs, SeenIsNext
    <3> QED
      BY ZenonT(60), <2>1, <2>3, <3>3 DEF Store!Next, Store!Recover
  <2>5. CASE UNCHANGED <<state, base>>
    <3>1. Available' = Available
      BY ZenonT(60), <2>5 DEF Available
    <3> QED
      BY ZenonT(60), <2>1, <2>3, <3>1, StoreStutters
  <2> QED
    BY ZenonT(60), <2>1, <2>4, <2>5
<1> QED
  BY ZenonT(60), <1>1, <1>2, <1>3

\* open: the store recovers, or is not yet readable.
LEMMA OpenRecovers ==
    ASSUME Safely, Open
    PROVE  Store!Next \/ UNCHANGED Store!svars
<1> SUFFICES ASSUME TypeInv, TypeInv', CrashInv, CrashInv'
             PROVE  Store!Next \/ UNCHANGED Store!svars
  BY DEF Safely
<1>1. state = "Closed" /\ pc = "idle" /\ pc' \in {"idle", "open_truncate"}
  BY ZenonT(60), ClosedIdle DEF Open
<1>2. ~Available /\ Pending = Down /\ Pending' = Down
  BY ZenonT(60), <1>1 DEF Available, Pending
<1>3. View' = RecoveredMap(file, flen)
  BY ZenonT(60) DEF Open, View, RecoveredMap
<1>4. View' \in {acked} \cup maybe
  BY ZenonT(60), <1>3, CrashImage DEF ImageOK, Admissible, Open
<1>5. CASE state' = "Healthy" /\ Settle
  <2>1. (acked' = View' /\ maybe' = {}) \/ UNCHANGED <<acked, maybe>>
    BY ZenonT(60), <1>5 DEF Settle, View, ghost
  <2>2. Available'
    BY ZenonT(60), <1>5 DEF Available
  <2>3. Seen = Down /\ Seen' = View'
    BY ZenonT(60), <1>2, <2>2, SeenIs, SeenIsNext
  <2>4. Store!Recover
    BY ZenonT(60), <1>2, <1>4, <2>1, <2>3 DEF Store!Recover
  <2> QED
    BY ZenonT(60), <2>4 DEF Store!Next
<1>6. CASE state' = "Opening" /\ UNCHANGED ghost
  <2>1. Available' = Available /\ UNCHANGED <<acked, maybe>>
    BY <1>1, <1>6 DEF Available, ghost
  <2> QED
    BY ZenonT(60), <1>2, <2>1, StoreStutters
<1> QED
  BY ZenonT(60), <1>5, <1>6 DEF Open

\* The sync inside open: the same.
LEMMA OpenSyncRecovers ==
    ASSUME Safely, OpenSync
    PROVE  Store!Next \/ UNCHANGED Store!svars
<1> SUFFICES ASSUME TypeInv, TypeInv', CrashInv, CrashInv'
             PROVE  Store!Next \/ UNCHANGED Store!svars
  BY DEF Safely
<1>1. pc = "open_truncate" /\ pc' = "idle"
  BY ZenonT(60) DEF OpenSync, Return, NoHandle
<1>2. state = "Opening" /\ View \in {acked} \cup maybe
  BY ZenonT(60), <1>1 DEF CrashInv, AtOpenTruncate, Admissible
<1>3. ~Available /\ Pending = Down /\ Pending' = Down
  BY ZenonT(60), <1>1, <1>2 DEF Available, Pending
<1>4. CASE state' = "Healthy" /\ UNCHANGED <<base, overlay>> /\ Settle
  <2>1. (acked' = View' /\ maybe' = {}) \/ UNCHANGED <<acked, maybe>>
    BY ZenonT(60), <1>4 DEF Settle, View, ghost
  <2>2. Available' /\ View' = View
    BY ZenonT(60), <1>4 DEF Available, View
  <2>3. Seen = Down /\ Seen' = View'
    BY ZenonT(60), <1>3, <2>2, SeenIs, SeenIsNext
  <2>4. Store!Recover
    BY ZenonT(60), <1>2, <1>3, <2>1, <2>2, <2>3 DEF Store!Recover
  <2> QED
    BY ZenonT(60), <2>4 DEF Store!Next
<1>5. CASE UNCHANGED ghost /\ NoHandle
  <2>1. Available' = Available /\ UNCHANGED <<acked, maybe>>
    BY <1>2, <1>5 DEF Available, NoHandle, ghost
  <2> QED
    BY ZenonT(60), <1>3, <2>1, StoreStutters
<1> QED
  BY ZenonT(60), <1>4, <1>5 DEF OpenSync, ghost

\* A handle that is dropped or dies takes its view with it.
LEMMA HandleGoesDown ==
    ASSUME Safely, NoHandle, UNCHANGED ghost
    PROVE  Store!Next
<1> SUFFICES ASSUME TypeInv, TypeInv', CrashInv, CrashInv'
             PROVE  Store!Next
  BY DEF Safely
<1>1. state' = "Closed" /\ pc' = "idle" /\ UNCHANGED <<acked, maybe>>
  BY ZenonT(60) DEF NoHandle, Return, ghost
<1>2. ~Available' /\ Pending' = Down
  BY ZenonT(60), <1>1 DEF Available, Pending
<1>3. Seen' = Down
  BY ZenonT(60), <1>2, SeenIsNext
<1> QED
  BY ZenonT(60), <1>1, <1>2, <1>3 DEF Store!Next, Store!GoDown

\* Snapshots and rejected opens change nothing of the handle.
LEMMA HandleStutters ==
    ASSUME Safely,
           TakeSnapshot \/ DropSnapshot \/ OpenRejected \/ UNCHANGED vars
    PROVE  UNCHANGED Store!svars
<1> SUFFICES ASSUME TypeInv, TypeInv', CrashInv, CrashInv'
             PROVE  UNCHANGED Store!svars
  BY DEF Safely
<1>1. UNCHANGED <<state, base, overlay, pc, op, acked, maybe>>
  BY ZenonT(60) DEF TakeSnapshot, DropSnapshot, OpenRejected, vars, handle, ghost
<1>2. Available' = Available /\ View' = View
  BY ZenonT(60), <1>1 DEF Available, View
<1>3. Pending' = Pending
  BY ZenonT(60), <1>1, <1>2 DEF Pending
<1> QED
  BY ZenonT(60), <1>1, <1>2, <1>3, StoreStutters

\* Every step of the database is one of the atomic store, or shows nothing.
LEMMA StoreStep ==
    ASSUME Safely, OpBatch, [Next]_vars
    PROVE  Store!Next \/ UNCHANGED Store!svars
<1> SUFFICES ASSUME TypeInv, TypeInv', CrashInv, CrashInv'
             PROVE  Store!Next \/ UNCHANGED Store!svars
  BY DEF Safely
<1>1. CASE Commit \/ Rollback
  BY ZenonT(60), <1>1, AppendSubmits, CommitSyncStutters, PublishAcks, RollbackFails DEF Commit
<1>2. CASE Compact
  BY ZenonT(60), <1>2, CompactStutters, TruncateSteps DEF Compact
<1>3. CASE Close \/ Kill \/ PowerFail
  BY ZenonT(60), <1>3, HandleGoesDown DEF Close, Kill, PowerFail, ghost
<1>4. CASE Open \/ OpenSync
  BY ZenonT(60), <1>4, OpenRecovers, OpenSyncRecovers
<1>5. CASE TakeSnapshot \/ DropSnapshot \/ OpenRejected \/ UNCHANGED vars
  BY ZenonT(60), <1>5, HandleStutters
<1> QED
  BY ZenonT(60), <1>1, <1>2, <1>3, <1>4, <1>5 DEF Next, OtherSteps

\* A new database is an empty store.
LEMMA StoreInit ==
    ASSUME Init
    PROVE  Store!Init
<1>1. TypeInv /\ CrashInv
  BY ZenonT(60), InitType, InitCrash
<1>2. pc = "idle" /\ state = "Healthy" /\ acked = EmptyMap /\ maybe = {}
  BY ZenonT(60) DEF Init
<1>3. View = acked
  BY ZenonT(60), <1>1, <1>2 DEF CrashInv, AtIdle
<1>4. Available /\ Pending = Down
  BY ZenonT(60), <1>2 DEF Available, Pending
<1>5. Seen = acked
  BY ZenonT(60), <1>1, <1>3, <1>4, SeenIs
<1> QED
  BY ZenonT(60), <1>2, <1>4, <1>5 DEF Store!Init, EmptyMap

\* Through every commit, rollback, compaction, crash, power loss and reopen a reader of the
\* database sees an atomic store: the detailed steps of commit_staged_with,
\* rollback_or_poison, compact_file and open implement AtomicStore.
THEOREM StoreIsAtomic ==
    /\ SyncedSpec => ImplementsAtomicStore
    /\ "power" \notin Failures => (Spec => ImplementsAtomicStore)
<1>1. [SyncedNext]_vars => [Next]_vars
  BY DEF SyncedNext, Next
<1>2. Init => OpBatch
  BY ZenonT(60) DEF Init, OpBatch, Staging
<1>3. OpBatch /\ [Next]_vars => OpBatch'
  BY OpBatchStep
<1>4. Init => Store!Init
  BY StoreInit
<1>5. /\ TypeInv /\ CrashInv /\ OpBatch
      /\ (TypeInv /\ CrashInv)'
      /\ [Next]_vars
      => [Store!Next]_(Store!svars)
  BY StoreStep DEF Safely
<1> QED
  BY <1>1, <1>2, <1>3, <1>4, <1>5, SyncedInvariant, PageCacheIsFile, PTL
     DEF SyncedSpec, ImplementsAtomicStore, Store!Spec
=============================================================================
