------------------------- MODULE CrashStaging_proofs ------------------------
(***************************************************************************)
(* CrashInv and MediumInv are kept by commits, rollbacks and a compaction  *)
(* up to the point where the staging Base is complete and synced; and what *)
(* CrashInv shows to snapshots and readers at every step.                  *)
(***************************************************************************)
EXTENDS CrashFile_proofs

-----------------------------------------------------------------------------
(* Each action keeps CrashInv: commits.                                    *)

\* From the idle handle to the window in which an operation can be undone.
LEMMA ToUndoable ==
    ASSUME TypeInv, TypeInv', CrashInv, Writable, UNCHANGED <<handle, acked>>,
           op'.end = flen, flen' >= flen,
           \A o \in 0 .. (flen - 1) : file'[o] = file[o],
           UndoableTail'
    PROVE  AtUndoable'
<1>1. Attached(flen) /\ View = acked /\ state = "Healthy"
  BY DEF Writable, CrashInv, AtIdle
<1>2. /\ flen \in Nat /\ flen' \in Nat
      /\ base \in SuperCell /\ base.log \in Nat /\ base.log <= flen
  BY <1>1, TypeParts, TypePartsPrimed, ImageAssumption
     DEF HandleType, DiskType, SuperCell, DATA_START, Attached
<1>3. base' = base /\ overlay' = overlay /\ acked' = acked /\ state' = state
  BY DEF handle
<1>4. /\ Root(file', flen', base) /\ Batches(file', base.log, flen)
      /\ ScannedOverlay(file', base.log, flen) = ScannedOverlay(file, base.log, flen)
  BY <1>1, <1>2, LogKept DEF Attached
<1>5. Attached(op.end)'
  BY <1>1, <1>2, <1>3, <1>4 DEF Attached
<1>6. View' = acked'
  BY <1>1, <1>3 DEF View
<1> QED
  BY Zenon, <1>1, <1>3, <1>5, <1>6 DEF AtUndoable

\* An undoable operation that keeps the published part of the file and the
\* handle stays undoable.
LEMMA StillUndoable ==
    ASSUME TypeInv, TypeInv', AtUndoable, UNCHANGED <<handle, acked, op>>,
           flen' >= op.end,
           \A o \in 0 .. (op.end - 1) : file'[o] = file[o],
           UndoableTail'
    PROVE  AtUndoable'
<1>1. Attached(op.end) /\ View = acked /\ state = "Healthy"
  BY SMTT(60) DEF AtUndoable
<1>2. /\ flen \in Nat /\ flen' \in Nat /\ op.end \in Nat
      /\ base \in SuperCell /\ base.log \in Nat /\ base.log <= op.end
  BY <1>1, TypeParts, TypePartsPrimed, ImageAssumption
     DEF HandleType, DiskType, OpType, SuperCell, DATA_START, Attached
<1>3. base' = base /\ overlay' = overlay /\ acked' = acked /\ state' = state /\ op' = op
  BY DEF handle
<1>4. /\ Root(file', flen', base) /\ Batches(file', base.log, op.end)
      /\ ScannedOverlay(file', base.log, op.end) = ScannedOverlay(file, base.log, op.end)
  <2> DEFINE end == op.end
  <2>1. /\ Root(file, flen, base) /\ Batches(file, base.log, end)
        /\ end \in Nat /\ base.log <= end /\ end <= flen'
        /\ \A o \in 0 .. (end - 1) : file'[o] = file[o]
    BY SMTT(60), <1>1, <1>2 DEF Attached
  <2> HIDE DEF end
  <2>2. /\ Root(file', flen', base) /\ Batches(file', base.log, end)
        /\ ScannedOverlay(file', base.log, end) = ScannedOverlay(file, base.log, end)
    BY SMTT(60), <1>2, <2>1, LogKept
  <2> QED
    BY SMTT(60), <2>2 DEF end
<1>5. Attached(op.end)'
  BY <1>1, <1>2, <1>3, <1>4 DEF Attached
<1>6. View' = acked'
  BY <1>1, <1>3 DEF View
<1> QED
  BY Zenon, <1>1, <1>3, <1>5, <1>6 DEF AtUndoable

\* CrashInv at the points a commit goes through.
LEMMA ToCommit ==
    ASSUME pc' \in {"batch_written", "batch_synced", "rollback"}, AtUndoable',
           pc' # "rollback" => AtCommit'
    PROVE  StaysSafe
BY DEF StaysSafe, CrashInv, Undoable, Staging, Published, Relocating, Switched, Truncating

\* Appending a batch, whole or torn, leaves the old contents recoverable, or
\* the new ones.
LEMMA CommitAppendCrash ==
    ASSUME Running, NEW b \in Batch, CommitAppend(b)
    PROVE  StaysSafe
<1> SUFFICES ASSUME TypeInv, TypeInv', CrashInv
             PROVE  StaysSafe
  BY DEF Running
<1>1. DiskType /\ View = acked /\ flen \in Nat /\ flen < MaxDatabaseBytes
  BY TypeParts, ImageAssumption
     DEF CommitAppend, CrashInv, Writable, AtIdle, DiskType, DATA_START, BATCH_RECORD_SIZE
<1>2. /\ Writable /\ UNCHANGED <<handle, acked>> /\ maybe' = maybe \cup {Apply(View, b)}
      /\ op' = [NoOp EXCEPT !.end = flen, !.batch = b]
  BY DEF CommitAppend
<1>3. op'.end = flen /\ op'.batch = b /\ View' = View /\ Apply(View', op'.batch) \in maybe'
  BY <1>2 DEF NoOp, View, handle
<1>4. 0 .. (flen - 1) \subseteq Offsets /\ \A o \in 0 .. (flen - 1) : o # flen
  BY <1>1, ImageAssumption DEF Offsets
<1>5. CASE WriteCell(flen, BatchRecord(b)) /\ pc' = "batch_written"
  <2>1. /\ file'[flen] = BatchRecord(b) /\ flen' = flen + 1
        /\ \A o \in 0 .. (flen - 1) : file'[o] = file[o]
    BY SMTT(60), <1>1, <1>4, <1>5, WriteCellEffect
  <2>2. UndoableTail' /\ AtCommit'
    BY <1>3, <2>1 DEF UndoableTail, AtCommit
  <2>3. AtUndoable'
    BY <1>1, <1>2, <1>3, <2>1, <2>2, ToUndoable
  <2> QED
    BY Zenon, <1>5, <2>1, <2>2, <2>3, ToCommit
<1>6. CASE TornCell(flen, BatchRecord(b), Short) /\ pc' = "rollback"
  <2>1. /\ \/ file' = file /\ flen' = flen
           \/ /\ file'[flen] \in {BatchRecord(b), Short}
              /\ \A x \in Offsets : x # flen => file'[x] = file[x]
              /\ flen' = IF flen + 1 > flen THEN flen + 1 ELSE flen
    BY SMTT(60), <1>1, <1>6, TornCellEffect
  <2>2. /\ flen' >= flen
        /\ \A o \in 0 .. (flen - 1) : file'[o] = file[o]
        /\ UndoableTail'
    BY <1>1, <1>3, <1>4, <2>1 DEF UndoableTail
  <2>3. AtUndoable'
    BY Zenon, <1>2, <1>3, <2>2, ToUndoable
  <2> QED
    BY Zenon, <1>6, <2>1, <2>3, ToCommit
<1> QED
  BY <1>5, <1>6 DEF CommitAppend

\* The sync of a batch changes no contents.
LEMMA CommitSyncCrash ==
    ASSUME Running, CommitSync
    PROVE  StaysSafe
<1> SUFFICES ASSUME TypeInv, TypeInv', CrashInv
             PROVE  StaysSafe
  BY DEF Running
<1>1. DiskType /\ AtUndoable /\ AtCommit
  BY SMTT(60), TypeParts DEF CommitSync, CrashInv, Undoable
<1>2. UNCHANGED <<file, flen>>
  BY <1>1 DEF CommitSync, Sync, disk
<1>3. UNCHANGED <<handle, op, ghost>> /\ pc' \in {"batch_synced", "rollback"}
  BY SMTT(60) DEF CommitSync, Step, Goto
<1>4. AtUndoable' /\ AtCommit'
  BY Zenon, <1>1, <1>2, <1>3
     DEF AtUndoable, AtCommit, Attached, UndoableTail, View, handle, ghost
<1> QED
  BY Zenon, <1>2, <1>3, <1>4, ToCommit

\* Publishing a batch makes the handle show what the file holds.
LEMMA CommitPublishCrash ==
    ASSUME Running, CommitPublish
    PROVE  StaysSafe
<1> SUFFICES ASSUME TypeInv, TypeInv', CrashInv
             PROVE  StaysSafe
  BY DEF Running
<1>1. DiskType /\ AtUndoable /\ AtCommit
  BY TypeParts DEF CommitPublish, CrashInv, Undoable
<1>2. UNCHANGED <<file, flen>>
  BY <1>1 DEF CommitPublish, disk
<1>3. CASE Goto("rollback") /\ UNCHANGED <<handle, ghost>>
  <2>1. AtUndoable'
    BY Zenon, <1>1, <1>2, <1>3
       DEF AtUndoable, Attached, UndoableTail, View, handle, ghost, Goto
  <2> QED
    BY SMTT(60), <1>2, <1>3, <2>1, ToCommit DEF Goto
<1>4. CASE /\ overlay' = Shadow(overlay, op.batch) /\ acked' = Apply(View, op.batch)
           /\ Return /\ UNCHANGED <<state, base>>
  <2>1. /\ Root(file, flen, base) /\ op.end \in base.log .. flen
        /\ Batches(file, base.log, op.end)
        /\ overlay = ScannedOverlay(file, base.log, op.end)
        /\ state = "Healthy" /\ flen = op.end + 1 /\ file[op.end] = BatchRecord(op.batch)
    BY <1>1 DEF AtUndoable, AtCommit, Attached
  <2>2. base.log \in Nat /\ op.end \in Nat /\ op.batch \in Overlay
    BY TypeParts DEF HandleType, OpType, SuperCell
  <2>3. ScannedOverlay(file, base.log, op.end + 1) = Shadow(overlay, op.batch)
    BY SMTT(60), <2>1, <2>2, ScanAppend
  <2>4. Batches(file, base.log, op.end + 1)
    BY SMTT(60), <2>1, <2>2 DEF Batches, BatchRecord
  <2>5. Attached(flen)'
    BY <1>2, <1>4, <2>1, <2>2, <2>3, <2>4 DEF Attached
  <2>6. View' = acked'
    BY <1>4, ApplyShadow DEF View
  <2> QED
    BY Zenon, <1>2, <1>4, <2>1, <2>5, <2>6, ToHealthy DEF Return
<1> QED
  BY SMTT(60), <1>3, <1>4 DEF CommitPublish

\* rollback_or_poison: whether or not the tail goes away.
LEMMA RollbackCrash ==
    ASSUME Running, Rollback
    PROVE  StaysSafe
<1> SUFFICES ASSUME TypeInv, TypeInv', CrashInv
             PROVE  StaysSafe
  BY DEF Running
<1>1. DiskType /\ DiskType' /\ AtUndoable /\ op.end \in DATA_START .. MaxDatabaseBytes
  BY Zenon, TypeParts, TypePartsPrimed DEF Rollback, CrashInv, Undoable, OpType
<1>2. Return /\ state' = "WritePoisoned" /\ base' = base /\ acked' = acked /\ maybe' = maybe
  BY DEF Rollback, PoisonAndReturn, ghost
<1>3. CASE SetLen(op.end) \/ SetLenSynced(op.end)
  <2>1. /\ flen' = op.end
        /\ \A o \in 0 .. (op.end - 1) : file'[o] = file[o]
    BY Zenon, <1>1, <1>3, SetLenEffect
  <2>2. /\ Root(file, flen, base) /\ Batches(file, base.log, op.end)
        /\ overlay = ScannedOverlay(file, base.log, op.end) /\ View = acked
        /\ op.end \in base.log .. flen
    BY SMTT(60), <1>1 DEF AtUndoable, Attached
  <2>3. base \in SuperCell /\ base.log \in Nat /\ op.end \in Nat /\ flen \in Nat
    BY <1>1, TypeParts, ImageAssumption DEF HandleType, SuperCell, OpType, DiskType, DATA_START
  <2>4. /\ Root(file', flen', base) /\ Batches(file', base.log, op.end)
        /\ ScannedOverlay(file', base.log, op.end) = overlay
    <3> DEFINE end == op.end
    <3>1. /\ Batches(file, base.log, end) /\ overlay = ScannedOverlay(file, base.log, end)
          /\ end \in Nat /\ base.log <= end /\ end <= flen' /\ flen' \in Nat
          /\ \A o \in 0 .. (end - 1) : file'[o] = file[o]
      BY SMTT(60), <2>1, <2>2, <2>3
    <3> HIDE DEF end
    <3>2. /\ Root(file', flen', base) /\ Batches(file', base.log, end)
          /\ ScannedOverlay(file', base.log, end) = overlay
      BY SMTT(60), <2>2, <2>3, <3>1, LogKept
    <3> QED
      BY SMTT(60), <3>2 DEF end
  <2>5. Recovers(file', flen', base, op.end, acked)
    BY <2>1, <2>2, <2>3, <2>4 DEF Recovers, Accepted, Contents, View
  <2>6. BaseIntact(file', base)
    BY <2>4 DEF Root, Whole
  <2> QED
    BY Zenon, <1>1, <1>2, <2>1, <2>5, <2>6, ToPoisoned
<1>4. CASE UNCHANGED disk
  <2>1. file' = file /\ flen' = flen
    BY Zenon, <1>1, <1>4 DEF disk
  <2>2. PICK e : \E m \in {acked} \cup maybe : Recovers(file, flen, base, e, m)
    BY SMTT(60), <1>1, UndoableRecovers
  <2>3. BaseIntact(file, base)
    BY <2>2 DEF Recovers, Root, Whole
  <2> QED
    BY Zenon, <1>1, <1>2, <2>1, <2>2, <2>3, ToPoisoned
<1> QED
  BY SMTT(60), <1>3, <1>4 DEF Rollback

-----------------------------------------------------------------------------
(* Each action keeps CrashInv: compaction up to the staging generation.    *)

\* CrashInv at the points of staging.
LEMMA ToStaging ==
    ASSUME pc' \in Staging, AtUndoable', AtStaging'
    PROVE  StaysSafe
BY DEF StaysSafe, CrashInv, Undoable, Staging, Published, Relocating, Switched, Truncating

\* What AtStaging says once the staging Base is written.
LEMMA StagedIntro ==
    ASSUME pc' \in Staged, Carried(base.gen + 1)', op'.src.off > op'.end,
           file'[op'.end] = CompactMarker, flen' = op'.src.log, BaseIntact(file', op'.src)
    PROVE  AtStaging'
BY DEF AtStaging

\* The compact marker ends the log where the commits end.
LEMMA CompactMarkCrash ==
    ASSUME Running, CompactMark
    PROVE  StaysSafe
<1> SUFFICES ASSUME TypeInv, TypeInv', CrashInv
             PROVE  StaysSafe
  BY DEF Running
<1>1. DiskType /\ TypeOK /\ View = acked /\ Writable /\ StagingFits
  BY SMTT(60), TypeParts DEF CompactMark, CrashInv, Writable, AtIdle, TypeInv
<1>2. flen \in Nat /\ flen < MaxDatabaseBytes /\ base.gen \in Nat
  BY <1>1, LayoutProps, ImageAssumption DEF DiskType, DATA_START, TypeOK, SuperCell
<1>3. /\ op'.end = flen /\ op'.src = StagingPage /\ op'.dst = RelocatedPage
      /\ UNCHANGED <<handle, acked>>
  BY DEF CompactMark, NoOp, ghost
<1>4. 0 .. (flen - 1) \subseteq Offsets /\ \A o \in 0 .. (flen - 1) : o # flen
  BY <1>2, ImageAssumption DEF Offsets
<1>5. CASE WriteCell(flen, CompactMarker) /\ pc' = "compact_marker_write"
  <2>1. /\ file'[flen] = CompactMarker /\ flen' = flen + 1
        /\ \A o \in 0 .. (flen - 1) : file'[o] = file[o]
    BY <1>1, <1>2, <1>4, <1>5, WriteCellEffect
  <2>2. UndoableTail' /\ flen' >= flen
    BY SMTT(60), <1>2, <1>3, <2>1 DEF UndoableTail
  <2>3. AtUndoable'
    BY Zenon, <1>1, <1>3, <2>1, <2>2, ToUndoable
  <2>4. Carried(base.gen + 1)'
    <3>1. /\ op'.src.sum = acked' /\ op'.dst.sum = acked'
          /\ op'.src.gen = base.gen + 1 /\ op'.dst.gen = base.gen + 2 /\ base'.gen = base.gen
      BY SMTT(60), <1>1, <1>3, LayoutProps DEF handle
    <3> QED
      BY SMTT(60), <1>2, <3>1 DEF Carried
  <2>5. AtStaging'
    <3>1. op'.src.off > op'.end
      BY Zenon, <1>1, <1>3, LayoutProps
    <3>2. pc' \notin Staged
      BY <1>5 DEF Staged
    <3> QED
      BY SMTT(60), <1>3, <2>1, <2>4, <3>1, <3>2 DEF AtStaging
  <2> QED
    BY SMTT(60), <1>5, <2>1, <2>3, <2>5, ToStaging DEF Staging
<1>6. CASE TornCell(flen, CompactMarker, Short) /\ pc' = "rollback"
  <2>1. /\ \/ file' = file /\ flen' = flen
           \/ /\ file'[flen] \in {CompactMarker, Short}
              /\ \A x \in Offsets : x # flen => file'[x] = file[x]
              /\ flen' = IF flen + 1 > flen THEN flen + 1 ELSE flen
    BY SMTT(60), <1>1, <1>2, <1>6, TornCellEffect
  <2>2. /\ flen' >= flen
        /\ \A o \in 0 .. (flen - 1) : file'[o] = file[o]
        /\ UndoableTail'
    BY <1>2, <1>3, <1>4, <2>1 DEF UndoableTail
  <2>3. AtUndoable'
    BY SMTT(60), <1>1, <1>3, <2>2, ToUndoable
  <2> QED
    BY SMTT(60), <1>6, <2>1, <2>3, ToCommit
<1> QED
  BY Zenon, <1>5, <1>6 DEF CompactMark

\* The staging Base, whole or torn, lies behind the marker and is not scanned.
LEMMA CompactStageCrash ==
    ASSUME Running, CompactStage
    PROVE  StaysSafe
<1> SUFFICES ASSUME TypeInv, TypeInv', CrashInv
             PROVE  StaysSafe
  BY DEF Running
<1> DEFINE cells == BaseCells(op.src.off, op.src.sum)
<1>1. /\ pc = "compact_marker_write" /\ pc \in Staging /\ pc \in Undoable /\ pc \in Compacting
      /\ pc \notin Staged
  BY DEF CompactStage, Staging, Undoable, Compacting, Staged
<1>2. DiskType /\ AtUndoable /\ AtStaging
  BY SMTT(60), <1>1, TypeParts DEF CrashInv
<1>3. /\ op.src \in SuperCell /\ op.src.size = BaseSize(op.src.sum)
      /\ op.src.off \in Nat /\ op.src.size \in Nat /\ op.src.log \in Nat
      /\ op.src.log = op.src.off + op.src.size /\ op.src.log <= MaxDatabaseBytes
  BY Zenon, <1>1, CompactingOp
<1>4. /\ op.end \in Nat /\ op.end < op.src.off /\ flen = op.end + 1
      /\ file[op.end] = CompactMarker
  BY SMTT(60), <1>1, <1>2, TypeParts DEF AtStaging, OpType
<1>5. 0 .. op.end \subseteq Offsets
  BY SMTT(60), <1>3, <1>4, ImageAssumption DEF Offsets
<1>6. \A x \in 0 .. op.end : x \notin op.src.off .. (op.src.off + op.src.size - 1)
  BY SMTT(60), <1>3, <1>4
<1>7. ASSUME \A x \in Offsets :
                 x \notin op.src.off .. (op.src.off + op.src.size - 1) => file'[x] = file[x],
             flen' >= flen, flen' \in Nat, UNCHANGED <<handle, ghost, op>>
      PROVE  AtUndoable' /\ file'[op.end] = CompactMarker
  <2>1. \A o \in 0 .. op.end : file'[o] = file[o]
    BY SMTT(60), <1>5, <1>6, <1>7
  <2>2. (\A o \in 0 .. (op.end - 1) : file'[o] = file[o]) /\ file'[op.end] = CompactMarker
        /\ flen' >= op.end /\ flen' > op.end
    BY SMTT(60), <1>4, <1>7, <2>1
  <2>3. UndoableTail'
    BY Zenon, <1>7, <2>2 DEF UndoableTail
  <2> QED
    BY SMTT(60), <1>2, <1>7, <2>2, <2>3, StillUndoable DEF ghost
<1>8. flen' \in Nat
  BY SMTT(60), TypePartsPrimed, ImageAssumption DEF DiskType, DATA_START
<1>9. CASE WriteCells(cells, op.src.log) /\ Step("compact_base_write")
  <2>1. /\ \A x \in Offsets :
               x \notin op.src.off .. (op.src.off + op.src.size - 1) => file'[x] = file[x]
        /\ flen' = Longer(op.src.log) /\ BaseIntact(file', op.src)
    BY SMTT(60), <1>2, <1>3, <1>9, BaseWriteEffect
  <2>2. flen' = op.src.log /\ flen' >= flen
    BY <1>3, <1>4, <2>1 DEF Longer
  <2>3. UNCHANGED <<handle, ghost, op>> /\ pc' = "compact_base_write"
    BY SMTT(60), <1>9 DEF Step, Goto
  <2>4. AtUndoable' /\ file'[op.end] = CompactMarker
    BY Zenon, <1>7, <1>8, <2>1, <2>2, <2>3
  <2>5. Carried(base.gen + 1)'
    BY Zenon, <1>2, <2>3 DEF AtStaging, Carried, handle, ghost
  <2>6. pc' \in Staged
    BY Zenon, <2>3 DEF Staged
  <2>7. AtStaging'
    BY Zenon, <1>4, <2>1, <2>2, <2>3, <2>4, <2>5, <2>6, StagedIntro
  <2> QED
    BY SMTT(60), <2>1, <2>3, <2>4, <2>7, ToStaging DEF Staging
<1>10. CASE TornBase(cells, op.src.off, op.src.size) /\ Step("rollback")
  <2>1. /\ \A x \in Offsets :
               x \notin op.src.off .. (op.src.off + op.src.size - 1) => file'[x] = file[x]
        /\ flen' >= flen
    BY <1>2, <1>3, <1>10, BaseWriteEffect, Zenon
  <2>2. UNCHANGED <<handle, ghost, op>> /\ pc' = "rollback"
    BY SMTT(60), <1>10 DEF Step, Goto
  <2>3. AtUndoable'
    BY Zenon, <1>7, <1>8, <2>1, <2>2
  <2> QED
    BY SMTT(60), <2>1, <2>2, <2>3, ToCommit
<1> QED
  BY Zenon, <1>9, <1>10 DEF CompactStage

\* The sync of the staging Base changes no contents.
LEMMA CompactStageSyncCrash ==
    ASSUME Running, CompactStageSync
    PROVE  StaysSafe
<1> SUFFICES ASSUME TypeInv, TypeInv', CrashInv
             PROVE  StaysSafe
  BY DEF Running
<1>1. DiskType /\ AtUndoable /\ AtStaging /\ pc \in Staged
  BY TypeParts DEF CompactStageSync, CrashInv, Undoable, Staging, Staged
<1>2. UNCHANGED <<file, flen>>
  BY <1>1 DEF CompactStageSync, Sync, disk
<1>3. UNCHANGED <<handle, op, ghost>> /\ pc' \in {"compact_base_sync", "rollback"}
  BY SMTT(60) DEF CompactStageSync, Step, Goto
<1>4. AtUndoable'
  BY Zenon, <1>1, <1>2, <1>3 DEF AtUndoable, Attached, UndoableTail, View, handle, ghost
<1>5. CASE pc' = "rollback"
  BY Zenon, <1>2, <1>4, <1>5, ToCommit
<1>6. CASE pc' = "compact_base_sync"
  <2>1. pc' \in Staged /\ Carried(base.gen + 1)'
    <3>1. Carried(base.gen + 1)
      BY <1>1 DEF AtStaging
    <3>2. base' = base /\ acked' = acked /\ op' = op
      BY Zenon, <1>3 DEF handle, ghost
    <3> QED
      BY Zenon, <1>6, <3>1, <3>2 DEF Carried, Staged
  <2>2. /\ op.src.off > op.end /\ file[op.end] = CompactMarker
        /\ flen = op.src.log /\ BaseIntact(file, op.src)
    BY SMTT(60), <1>1 DEF AtStaging
  <2>3. AtStaging'
    BY Zenon, <1>2, <1>3, <2>1, <2>2, StagedIntro
  <2> QED
    BY SMTT(60), <1>2, <1>4, <1>6, <2>3, ToStaging DEF Staging
<1> QED
  BY Zenon, <1>3, <1>5, <1>6

-----------------------------------------------------------------------------
(* The medium through commits, rollbacks and staging.                      *)

\* One record appended to a log that is on the medium.
LEMMA AppendMedium ==
    ASSUME Powered, Writable, UNCHANGED handle, op'.end = flen, flen < MaxDatabaseBytes,
           pc' \in Undoable \ SyncedPoints, NEW c,
           WriteCell(flen, c) \/ TornCell(flen, c, Short),
           c.t = "batch" =>
               c = BatchRecord(op'.batch) /\ Apply(View, op'.batch) \in Admissible',
           pc' \in Staging => c.t # "batch"
    PROVE  StaysOnMedium
<1>1. /\ TypeInv' /\ CrashInv' /\ DiskType /\ CleanTail /\ SyncedFrom(base.off)
      /\ flen \in Nat /\ flen >= DATA_START /\ base' = base /\ overlay' = overlay
      /\ flen \in Offsets
  BY TypeParts, ImageAssumption
     DEF Powered, MediumInv, DiskType, DATA_START, handle, Offsets
<1>2. base.off \in Nat /\ base.off <= flen
  <2>1. Root(file, flen, base) /\ base \in SuperCell
    BY TypeParts DEF Powered, CrashInv, Writable, AtIdle, Attached, HandleType
  <2> QED
    BY <1>1, <2>1, RootLatest DEF DiskType
<1>3. /\ OnlyIn(flen, flen) /\ Grown /\ flen' <= flen + 1
      /\ dur'[flen] \subseteq dur[flen] \cup {c, Short, Garbage}
  <2>1. /\ OnlyIn(flen, flen) /\ Grown /\ flen' <= Longer(flen + 1)
        /\ dur'[flen] \subseteq dur[flen] \cup {c, Short, Garbage}
    BY ZenonT(60), <1>1, CellMedium
  <2>2. Longer(flen + 1) = flen + 1
    BY <1>1 DEF Longer
  <2> QED
    BY ZenonT(60), <2>1, <2>2
<1>4. dur[flen] = {Garbage} /\ durLen = {flen}
  BY <1>1, <1>2 DEF SyncedFrom, CleanTail
<1>5. flen' \in Nat /\ flen' >= flen /\ durLen' \subseteq {flen, flen + 1}
  BY <1>1, <1>3, <1>4 DEF Grown
<1>6. CleanTail'
  BY Zenon, <1>1, <1>3, GrownTail
<1>7. ASSUME NEW o \in Offsets, o < DATA_START \/ o \in base.off .. (flen - 1)
      PROVE  dur'[o] = {file'[o]}
  <2>1. o \notin flen .. flen /\ dur[o] = {file[o]}
    BY <1>1, <1>2, <1>7, ImageAssumption DEF SyncedFrom, Offsets, DATA_START
  <2> QED
    BY Zenon, <1>3, <2>1 DEF OnlyIn
<1>8. Contents(file', base, flen) = View
  <2>1. AtUndoable'
    BY Zenon, <1>1 DEF CrashInv
  <2> QED
    BY <1>1, <2>1, Zenon DEF AtUndoable, Attached, Contents, View
<1>9. ASSUME NEW d \in dur'[flen], d.t = "batch"
      PROVE  d = BatchRecord(op'.batch) /\ Apply(View, op'.batch) \in Admissible' /\ d = c
  BY <1>3, <1>4, <1>9 DEF Garbage, Short
<1>10. LogOnMedium(base, op.end, op.batch)'
  BY <1>1, <1>5, <1>7, <1>8, <1>9 DEF LogOnMedium
<1>11. (pc \in Staging /\ op.end \in Offsets => \A d \in dur[op.end] : d.t # "batch")'
  BY Zenon, <1>9
<1> QED
  BY Zenon, <1>1, <1>6, <1>10, <1>11, UndoableMediumNext DEF StaysOnMedium

\* Appending a batch: a power loss leaves the old log, or the whole new one.
LEMMA CommitAppendMedium ==
    ASSUME Powered, NEW b \in Batch, CommitAppend(b)
    PROVE  StaysOnMedium
<1>1. /\ flen < MaxDatabaseBytes /\ UNCHANGED handle /\ Writable
      /\ op'.end = flen /\ op'.batch = b
  BY TypeParts, ImageAssumption
     DEF Powered, CommitAppend, DiskType, DATA_START, BATCH_RECORD_SIZE, NoOp
<1>2. Apply(View, b) \in Admissible'
  BY DEF CommitAppend, Admissible
<1>3. /\ pc' \in {"batch_written", "rollback"}
      /\ WriteCell(flen, BatchRecord(b)) \/ TornCell(flen, BatchRecord(b), Short)
  BY DEF CommitAppend
<1>4. pc' \in Undoable \ SyncedPoints /\ pc' \notin Staging
  BY <1>3 DEF Undoable, SyncedPoints, Staging
<1> QED
  BY Zenon, <1>1, <1>2, <1>3, <1>4, AppendMedium

\* The compact marker.
LEMMA CompactMarkMedium ==
    ASSUME Powered, CompactMark
    PROVE  StaysOnMedium
<1>1. Writable /\ UNCHANGED handle /\ op'.end = flen
  BY Zenon DEF CompactMark, NoOp
<1>2. flen < MaxDatabaseBytes
  <2>1. DiskType /\ TypeOK /\ View = acked /\ StagingFits
    BY TypeParts DEF Powered, CompactMark, CrashInv, Writable, AtIdle, TypeInv
  <2> QED
    BY Zenon, <2>1, LayoutProps, ImageAssumption DEF DiskType, DATA_START, TypeOK, SuperCell
<1>3. /\ pc' \in {"compact_marker_write", "rollback"}
      /\ WriteCell(flen, CompactMarker) \/ TornCell(flen, CompactMarker, Short)
  BY DEF CompactMark
<1>4. pc' \in Undoable \ SyncedPoints /\ CompactMarker.t # "batch"
  BY Zenon, <1>3 DEF Undoable, SyncedPoints, CompactMarker
<1> QED
  BY Zenon, <1>1, <1>2, <1>3, <1>4, AppendMedium

\* An operation that will be rolled back.
LEMMA ToRollbackMedium ==
    ASSUME Powered, pc \in Undoable, pc' = "rollback", UNCHANGED <<disk, handle, op, ghost>>
    PROVE  StaysOnMedium
<1>1. /\ TypeInv' /\ CrashInv' /\ file' = file /\ dur' = dur /\ durLen' = durLen /\ op' = op
      /\ base' = base /\ acked' = acked /\ maybe' = maybe
  BY DEF Powered, disk, handle, ghost
<1>2. CleanTail'
  BY Zenon, SameSurvivors DEF Powered
<1>3. LogOnMedium(base, op.end, op.batch)'
  BY <1>1 DEF Powered, MediumInv, LogOnMedium, Admissible
<1>4. pc' \in Undoable \ SyncedPoints /\ pc' \notin Staging
  BY DEF Undoable, SyncedPoints, Staging
<1> QED
  BY Zenon, <1>1, <1>2, <1>3, <1>4, UndoableMediumNext DEF StaysOnMedium

\* The sync of a batch.
LEMMA CommitSyncMedium ==
    ASSUME Powered, CommitSync
    PROVE  StaysOnMedium
<1>1. CASE Sync
  BY Zenon, <1>1, SyncMedium
<1>2. CASE UNCHANGED disk /\ Step("rollback")
  BY <1>2, ToRollbackMedium DEF CommitSync, Step, Goto, Undoable
<1> QED
  BY Zenon, <1>1, <1>2 DEF CommitSync

\* A batch is published from the medium.
LEMMA CommitPublishMedium ==
    ASSUME Powered, CommitPublish
    PROVE  StaysOnMedium
<1>1. Durable /\ UNCHANGED disk
  BY DEF Powered, MediumInv, CommitPublish, SyncedPoints
<1> QED
  BY Zenon, <1>1, SyncedMedium

\* A rollback, whether or not the cut reaches the medium.
LEMMA RollbackMedium ==
    ASSUME Powered, Rollback
    PROVE  StaysOnMedium
<1>1. /\ TypeInv /\ TypeInv' /\ CrashInv' /\ AtUndoable
      /\ LogOnMedium(base, op.end, op.batch)
      /\ DiskType /\ DiskType' /\ HandleType /\ OpType
      /\ op.end \in DATA_START .. MaxDatabaseBytes
  BY Zenon, TypeParts, TypePartsPrimed DEF Powered, MediumInv, CrashInv, Rollback, Undoable, OpType
<1>2. UNCHANGED ghost /\ Unsettled'
  BY DEF Rollback, PoisonAndReturn, Return, Unsettled
<1>3. CASE SetLenSynced(op.end)
  <2>1. Durable' /\ CleanTail'
    BY <1>3 DEF SetLenSynced, Durable, CleanTail
  <2> QED
    BY Zenon, <1>1, <2>1, DurableMediumNext DEF StaysOnMedium
<1>4. CASE SetLen(op.end)
  <2>1. /\ base \in SuperCell /\ op.batch \in Overlay /\ Root(file, flen, base)
        /\ base.log <= op.end /\ op.end <= flen /\ Batches(file, base.log, op.end)
    BY <1>1, ImageAssumption
       DEF AtUndoable, Attached, HandleType, OpType, SuperCell, DiskType, DATA_START
  <2>2. Contents(file, base, op.end) \in Admissible
    BY <1>1 DEF AtUndoable, Attached, Contents, View, Admissible
  <2>3. CleanTail' /\ SurvivorsOK'
    BY Zenon, <1>1, <1>2, <1>4, <2>1, <2>2, CutMedium
  <2> QED
    BY Zenon, <1>2, <2>3, UnsettledMediumNext DEF StaysOnMedium
<1>5. CASE UNCHANGED disk
  BY Zenon, <1>2, <1>5, LostMedium
<1> QED
  BY Zenon, <1>3, <1>4, <1>5 DEF Rollback

\* The staging Base lies behind the marker.
LEMMA CompactStageMedium ==
    ASSUME Powered, CompactStage
    PROVE  StaysOnMedium
<1> DEFINE cells == BaseCells(op.src.off, op.src.sum)
<1>1. /\ pc \in Staging /\ pc \in Undoable /\ pc \in Compacting /\ pc \notin Staged
      /\ pc' \in {"compact_base_write", "rollback"} /\ UNCHANGED <<handle, op, ghost>>
  BY Zenon DEF CompactStage, Staging, Undoable, Compacting, Staged, Step, Goto
<1>2. /\ TypeInv /\ TypeInv' /\ CrashInv' /\ DiskType /\ OpType /\ AtUndoable /\ AtStaging
      /\ CleanTail /\ LogOnMedium(base, op.end, op.batch)
      /\ op.end \in Offsets => \A c \in dur[op.end] : c.t # "batch"
  BY Zenon, <1>1, TypeParts DEF Powered, MediumInv, CrashInv
<1>3. /\ op.src \in SuperCell /\ op.src.size = BaseSize(op.src.sum)
      /\ op.src.off \in Nat /\ op.src.log = op.src.off + op.src.size
      /\ op.end \in Nat /\ op.end < op.src.off /\ flen = op.end + 1
  BY Zenon, <1>1, <1>2, CompactingOp DEF AtStaging, OpType
<1>4. OnlyIn(op.src.off, op.src.off + op.src.size - 1) /\ Grown
  BY <1>2, <1>3, BaseWriteEffect, Zenon DEF CompactStage
<1>5. op' = op /\ base' = base /\ Admissible' = Admissible
  BY <1>1 DEF handle, Admissible, ghost
<1>6. \A o \in Offsets : o <= op.end => file'[o] = file[o] /\ dur'[o] = dur[o]
  BY <1>3, <1>4 DEF OnlyIn, Offsets
<1>7. CleanTail'
  BY Zenon, <1>2, <1>4, GrownTail
<1>8. Contents(file', base, op.end) = Contents(file, base, op.end)
  <2>1. AtUndoable'
    BY Zenon, <1>1, <1>2 DEF CrashInv, Undoable
  <2> QED
    BY Zenon, <1>1, <1>2, <2>1 DEF AtUndoable, Attached, Contents, handle
<1>9. \A n \in durLen' : n >= op.end
  <2>1. \A n \in durLen : n >= op.end
    BY Zenon, <1>2 DEF LogOnMedium
  <2> QED
    BY <1>3, <1>4, <2>1 DEF Grown
<1>10. \A o \in Offsets : (o < DATA_START \/ o \in base.off .. (op.end - 1)) =>
                              dur'[o] = {file'[o]}
  <2>1. op.end >= DATA_START
    BY <1>1, TypeParts DEF Powered, TypeInv
  <2>2. \A o \in Offsets : (o < DATA_START \/ o \in base.off .. (op.end - 1)) => o <= op.end
    BY <1>3, <2>1, ImageAssumption DEF Offsets, DATA_START
  <2> QED
    BY <1>2, <1>6, <2>2, Zenon DEF LogOnMedium
<1>11. op.end \in Offsets => \A c \in dur'[op.end] : c.t # "batch"
  BY <1>2, <1>3, <1>6
<1>12. LogOnMedium(base, op.end, op.batch)'
  BY Zenon, <1>5, <1>9, <1>10, <1>11 DEF LogOnMedium
<1>13. pc' \in Undoable \ SyncedPoints
  BY <1>1 DEF Undoable, SyncedPoints
<1> QED
  BY Zenon, <1>2, <1>5, <1>7, <1>11, <1>12, <1>13, UndoableMediumNext DEF StaysOnMedium

\* The sync of the staging Base.
LEMMA CompactStageSyncMedium ==
    ASSUME Powered, CompactStageSync
    PROVE  StaysOnMedium
<1>1. CASE Sync
  BY <1>1, SyncMedium
<1>2. CASE UNCHANGED disk /\ Step("rollback")
  BY <1>2, ToRollbackMedium DEF CompactStageSync, Step, Goto, Undoable
<1> QED
  BY Zenon, <1>1, <1>2 DEF CompactStageSync

-----------------------------------------------------------------------------
(* Snapshots.                                                              *)

\* What a snapshot maps stays as it is when the bytes before n do.
LEMMA SnapshotFrame ==
    ASSUME TypeInv, NEW s \in snaps, NEW n \in Nat,
           BaseIntact(file, s.base), \A o \in DOMAIN s.log : file[o] = s.log[o],
           s.base.off + s.base.size <= n, \A o \in DOMAIN s.log : o < n,
           \A o \in Offsets : o < n => file'[o] = file[o],
           n <= MaxDatabaseBytes
    PROVE  BaseIntact(file', s.base) /\ \A o \in DOMAIN s.log : file'[o] = s.log[o]
<1>1. s.base \in SuperCell /\ s.log \in LogImage
  BY ZenonT(60), TypeParts DEF HandleType
<1>2. s.base.off \in Nat /\ s.base.size \in Nat
  BY ZenonT(60), <1>1 DEF SuperCell
<1>3. DOMAIN s.log \subseteq Offsets
  BY SMTT(60), <1>1 DEF LogImage
<1>4. \A i \in 0 .. (s.base.size - 1) :
          s.base.off + i \in Offsets /\ s.base.off + i < n
  BY SMTT(60), <1>2, ImageAssumption DEF Offsets
<1>5. BaseIntact(file', s.base)
  BY <1>4 DEF BaseIntact
<1> QED
  BY ZenonT(60), <1>3, <1>5

\* Steps that leave what is below the published end alone keep the snapshots of
\* the open handle.
LEMMA SnapshotKept ==
    ASSUME TypeInv, SnapshotInv, NEW n \in Nat, n = PublishedEnd, state = "Healthy",
           n <= MaxDatabaseBytes,
           \A o \in Offsets : o < n => file'[o] = file[o],
           pc' \in {"idle", "batch_written", "batch_synced", "rollback"},
           state' \in {"Healthy", "WritePoisoned"},
           PublishedEnd' \in Nat, PublishedEnd' >= n, snaps' = snaps
    PROVE  SnapshotInv'
<1> SUFFICES ASSUME NEW s \in snaps, s.own
             PROVE  SnapshotHeld(s)'
  BY DEF SnapshotInv
<1>1. /\ BaseIntact(file, s.base) /\ \A o \in DOMAIN s.log : file[o] = s.log[o]
      /\ s.base.off + s.base.size <= n /\ \A o \in DOMAIN s.log : o < n
  BY ZenonT(60) DEF SnapshotInv, SnapshotHeld
<1>2. BaseIntact(file', s.base) /\ \A o \in DOMAIN s.log : file'[o] = s.log[o]
  BY ZenonT(60), <1>1, SnapshotFrame
<1>3. /\ s.base.off \in Nat /\ s.base.size \in Nat
      /\ \A o \in DOMAIN s.log : o \in Nat
  <2>1. s.base \in SuperCell /\ s.log \in LogImage
    BY ZenonT(60), TypeParts DEF HandleType
  <2> QED
    BY <2>1, ImageAssumption DEF LogImage, Offsets, SuperCell
<1>4. s.base.off + s.base.size <= PublishedEnd' /\ \A o \in DOMAIN s.log : o < PublishedEnd'
  BY <1>1, <1>3
<1> QED
  BY ZenonT(60), <1>2, <1>4 DEF SnapshotHeld, Available

\* No snapshot of the open handle is alive, and none appears.
LEMMA NoSnapshots ==
    ASSUME \A s \in snaps : ~s.own, snaps' = snaps
    PROVE  SnapshotInv'
BY DEF SnapshotInv

\* Commits append behind the published bytes and rollbacks cut there.
LEMMA CommitSnapshots ==
    ASSUME TypeInv, TypeInv', CrashInv, SnapshotInv, Commit \/ Rollback
    PROVE  SnapshotInv'
<1>1. DiskType /\ flen \in Nat /\ flen <= MaxDatabaseBytes /\ flen' \in Nat
      /\ snaps' = snaps
  <2>1. snaps' = snaps
    BY ZenonT(60) DEF Commit, CommitAppend, CommitSync, CommitPublish, Rollback,
                      PoisonAndReturn, Step
  <2>2. DiskType /\ DiskType'
    BY ZenonT(60), TypeParts, TypePartsPrimed
  <2> QED
    BY <2>1, <2>2, ImageAssumption DEF DiskType, DATA_START
<1>2. ASSUME NEW b \in Batch, CommitAppend(b)
      PROVE  SnapshotInv'
  <2>1. /\ pc = "idle" /\ state = "Healthy" /\ state' = state
        /\ pc' \in {"batch_written", "rollback"} /\ op'.end = flen
        /\ WriteCell(flen, BatchRecord(b)) \/ TornCell(flen, BatchRecord(b), Short)
    BY SMTT(60), <1>2 DEF CommitAppend, Writable, handle, NoOp
  <2>2. \A o \in Offsets : o < flen => file'[o] = file[o]
    BY SMTT(60), <1>1, <2>1 DEF TornCell, WriteCell, WriteCells, disk
  <2>3. PublishedEnd = flen /\ PublishedEnd' = flen
    BY Zenon, <2>1 DEF PublishedEnd
  <2> QED
    BY <1>1, <2>1, <2>2, <2>3, SnapshotKept
<1>3. ASSUME pc \in {"batch_written", "batch_synced", "rollback"}
      PROVE  /\ state = "Healthy" /\ PublishedEnd = op.end
             /\ op.end \in Nat /\ op.end <= MaxDatabaseBytes /\ op.end <= flen
  <2>1. AtUndoable /\ OpType
    BY ZenonT(60), <1>3, TypeParts DEF CrashInv, Undoable
  <2>2. op.end \in DATA_START .. MaxDatabaseBytes
    BY ZenonT(60), <1>3, <2>1 DEF OpType, Undoable
  <2>3. op.end <= flen
    BY SMTT(60), <1>1, <2>1, TypeParts DEF AtUndoable, Attached, HandleType, SuperCell
  <2> QED
    BY <1>3, <2>1, <2>2, <2>3, ImageAssumption DEF AtUndoable, PublishedEnd, DATA_START
<1>4. CASE CommitSync
  <2>1. /\ pc = "batch_written" /\ pc' \in {"batch_synced", "rollback"}
        /\ op' = op /\ state' = state /\ file' = file
    BY ZenonT(60), <1>4 DEF CommitSync, Step, Goto, handle, Sync, disk
  <2>2. PublishedEnd' = op.end
    BY ZenonT(60), <2>1 DEF PublishedEnd
  <2> QED
    BY <1>1, <1>3, <2>1, <2>2, SnapshotKept
<1>5. CASE CommitPublish
  <2>1. /\ pc = "batch_synced" /\ pc' \in {"idle", "rollback"}
        /\ state' = state /\ file' = file /\ flen' = flen
        /\ pc' = "rollback" => op' = op
    BY ZenonT(60), <1>5 DEF CommitPublish, Return, Goto, handle, disk
  <2>2. PublishedEnd' = IF pc' = "idle" THEN flen ELSE op.end
    BY ZenonT(60), <2>1 DEF PublishedEnd
  <2> QED
    BY <1>1, <1>3, <2>1, <2>2, SnapshotKept
<1>6. CASE Rollback
  <2>1. /\ pc = "rollback" /\ pc' = "idle" /\ state' = "WritePoisoned"
        /\ SetLenSynced(op.end) \/ SetLen(op.end) \/ UNCHANGED disk
    BY ZenonT(60), <1>6 DEF Rollback, PoisonAndReturn, Return
  <2>2. op.end \in Nat /\ op.end <= flen
    BY ZenonT(60), <1>3, <2>1
  <2>3. \A o \in Offsets : o \in Nat
    BY ImageAssumption DEF Offsets
  <2>4. (\A o \in Offsets : o < op.end => file'[o] = file[o]) /\ flen' >= op.end
    <3>1. CASE UNCHANGED disk
      BY ZenonT(60), <2>2, <3>1 DEF disk
    <3>2. CASE SetLenSynced(op.end) \/ SetLen(op.end)
      <4>1. /\ file' = [o \in Offsets |-> IF o >= op.end THEN Garbage ELSE file[o]]
            /\ flen' = op.end
        BY ZenonT(60), <3>2 DEF SetLenSynced, SetLen
      <4> QED
        BY <2>2, <2>3, <4>1
    <3> QED
      BY ZenonT(60), <2>1, <3>1, <3>2
  <2>5. PublishedEnd' = flen'
    BY ZenonT(60), <2>1 DEF PublishedEnd
  <2> QED
    BY Zenon, <1>1, <1>3, <2>1, <2>4, <2>5, SnapshotKept
<1> QED
  BY ZenonT(60), <1>2, <1>4, <1>5, <1>6 DEF Commit

\* compact_file runs only while no snapshot of its handle is alive.
LEMMA CompactSnapshots ==
    ASSUME SnapshotInv, Compact
    PROVE  SnapshotInv'
<1>1. snaps' = snaps
  BY ZenonT(60) DEF Compact, CompactMark, CompactStage, CompactStageSync, CompactPublish,
     CompactPublishSync, CompactInstall, CompactRelocate, CompactRelocateMark,
     CompactRelocateSync, CompactSwitch, CompactSwitchSync, CompactCopy, CompactCopySync,
     CompactTruncate, CompactTruncateSync, CompactRemap, Step, PoisonAndReturn,
     GiveUpRelocation
<1>2. CASE CompactMark
  BY ZenonT(60), <1>1, <1>2, NoSnapshots DEF CompactMark, SnapshotGuardFree
<1>3. CASE ~CompactMark
  <2>1. pc \notin {"idle", "batch_written", "batch_synced", "rollback"}
    BY ZenonT(60), <1>3 DEF Compact, CompactMark, CompactStage, CompactStageSync, CompactPublish,
       CompactPublishSync, CompactInstall, CompactRelocate, CompactRelocateMark,
       CompactRelocateSync, CompactSwitch, CompactSwitchSync, CompactCopy, CompactCopySync,
       CompactTruncate, CompactTruncateSync, CompactRemap
  <2>2. \A s \in snaps : ~s.own
    BY ZenonT(60), <2>1 DEF SnapshotInv, SnapshotHeld
  <2> QED
    BY ZenonT(60), <1>1, <2>2, NoSnapshots
<1> QED
  BY Zenon, <1>2, <1>3

\* A new snapshot maps the handle's Base and the published log.
LEMMA TakeSnapshotHeld ==
    ASSUME TypeInv, CrashInv, SnapshotInv, TakeSnapshot
    PROVE  SnapshotInv'
<1>1. PICK r : /\ snaps' = snaps \cup {r} /\ r.base = base
               /\ r.log = [o \in base.log .. (flen - 1) |-> file[o]]
  <2> DEFINE image == [o \in base.log .. (flen - 1) |-> file[o]]
             new(id) == [id |-> id, own |-> TRUE, base |-> base, log |-> image]
  <2>1. PICK id : snaps' = snaps \cup {new(id)}
    BY ZenonT(60) DEF TakeSnapshot
  <2> HIDE DEF image
  <2>2. new(id).base = base /\ new(id).log = image
    OBVIOUS
  <2> HIDE DEF new
  <2> QED
    BY ZenonT(60), <2>1, <2>2 DEF image
<1>2. /\ pc = "idle" /\ Available /\ UNCHANGED <<file, flen, state, base, pc, op>>
  BY ZenonT(60) DEF TakeSnapshot, disk, handle
<1>3. DiskType /\ HandleType /\ AtIdle /\ flen \in Nat /\ base.log \in Nat
      /\ base.off \in Nat /\ base.size \in Nat
  BY <1>2, TypeParts, ImageAssumption
     DEF CrashInv, DiskType, HandleType, SuperCell, DATA_START
<1>4. BaseIntact(file, base)
  BY ZenonT(60), <1>2, <1>3 DEF AtIdle, Available, Attached, Root, Whole
<1>5. PublishedEnd = flen /\ PublishedEnd' = flen
  BY ZenonT(60), <1>2 DEF PublishedEnd
<1>6. state = "Healthy" => base.off + base.size <= flen
  <2>1. state = "Healthy" => base.log >= base.off + base.size /\ base.log <= flen
    BY ZenonT(60), <1>3 DEF AtIdle, Attached, Root, Whole
  <2> QED
    BY <1>3, <2>1
<1>7. \A o \in base.log .. (flen - 1) : o < flen
  BY <1>3
<1>8. SnapshotHeld(r)'
  <2>1. BaseIntact(file', r.base) /\ \A o \in DOMAIN r.log : file'[o] = r.log[o]
    BY ZenonT(60), <1>1, <1>2, <1>4
  <2>2. state' = "Healthy" =>
            /\ r.base.off + r.base.size <= PublishedEnd'
            /\ \A o \in DOMAIN r.log : o < PublishedEnd'
    BY ZenonT(60), <1>1, <1>2, <1>5, <1>6, <1>7
  <2> QED
    BY ZenonT(60), <1>2, <2>1, <2>2 DEF SnapshotHeld, Available
<1>9. ASSUME NEW s \in snaps, s.own
       PROVE  SnapshotHeld(s)'
  <2>1. SnapshotHeld(s)
    BY ZenonT(60), <1>9 DEF SnapshotInv
  <2> QED
    BY ZenonT(60), <1>2, <1>5, <2>1 DEF SnapshotHeld, Available
<1> QED
  BY ZenonT(60), <1>1, <1>8, <1>9 DEF SnapshotInv

\* Opening, closing and dying: no snapshot belongs to the next handle.
LEMMA HandleSnapshots ==
    ASSUME TypeInv, CrashInv, SnapshotInv,
           \/ Open \/ OpenSync \/ OpenRejected \/ Close \/ Kill \/ PowerFail
           \/ TakeSnapshot \/ DropSnapshot \/ UNCHANGED vars
    PROVE  SnapshotInv'
<1>1. CASE Open \/ OpenSync
  <2>1. state = "Closed" \/ pc = "open_truncate"
    BY ZenonT(60), <1>1 DEF Open, OpenSync
  <2>2. \A s \in snaps : ~s.own
    BY ZenonT(60), <2>1 DEF SnapshotInv, SnapshotHeld, Available
  <2> QED
    BY ZenonT(60), <1>1, <2>2, NoSnapshots DEF Open, OpenSync
<1>2. CASE Close
  <2>1. \A s \in snaps : [s EXCEPT !.own = FALSE].own = FALSE
    <3>1. \A s \in [id : Nat, own : BOOLEAN, base : SuperCell, log : LogImage] :
              [s EXCEPT !.own = FALSE].own = FALSE
      BY ZenonT(60)
    <3> QED
      BY ZenonT(60), <3>1, TypeParts DEF HandleType
  <2> QED
    BY ZenonT(60), <1>2, <2>1 DEF Close, SnapshotInv
<1>3. CASE Kill \/ PowerFail
  BY ZenonT(60), <1>3 DEF Kill, PowerFail, SnapshotInv
<1>4. CASE OpenRejected \/ DropSnapshot \/ UNCHANGED vars
  <2>1. /\ UNCHANGED <<file, flen, state, base, pc, op>>
        /\ \A s \in snaps' : s \in snaps
    BY ZenonT(60), <1>4 DEF OpenRejected, DropSnapshot, vars, disk, handle
  <2>2. PublishedEnd' = PublishedEnd
    BY ZenonT(60), <2>1 DEF PublishedEnd
  <2> QED
    BY ZenonT(60), <2>1, <2>2 DEF SnapshotInv, SnapshotHeld, Available
<1> QED
  BY ZenonT(60), <1>1, <1>2, <1>3, <1>4, TakeSnapshotHeld

-----------------------------------------------------------------------------
(* Readers see an atomic store.                                            *)

\* An available handle reads from a whole Base.
LEMMA MappingIntact == TypeInv /\ CrashInv => HandleMappingIntact
<1> SUFFICES ASSUME TypeInv, CrashInv, Available
             PROVE  BaseIntact(file, base)
  BY SMTT(60) DEF HandleMappingIntact
<1>1. pc \in ProgramPoints /\ state \in {"Healthy", "WritePoisoned"}
  BY SMTT(60) DEF TypeInv, TypeOK, Available
<1>2. CASE pc = "idle"
  BY SMTT(60), <1>1, <1>2 DEF CrashInv, AtIdle, Attached, Root, Whole
<1>3. CASE pc \in Undoable
  BY Zenon, <1>3 DEF CrashInv, AtUndoable, Attached, Root, Whole
<1>4. CASE pc \in Published
  BY SMTT(60), <1>4 DEF CrashInv, AtPublished
<1>5. CASE pc \in Relocating
  BY SMTT(60), <1>5 DEF CrashInv, AtRelocating, Root, Whole
<1>6. CASE pc \in Switched
  BY <1>6 DEF CrashInv, AtSwitched
<1>7. pc # "open_truncate" /\ pc \notin Truncating
  BY <1>1 DEF CrashInv, AtOpenTruncate, AtTruncating
<1> QED
  BY Zenon, <1>1, <1>2, <1>3, <1>4, <1>5, <1>6, <1>7
     DEF ProgramPoints, Undoable, Published, Relocating, Switched, Truncating

\* What the lemmas on single actions assume: the invariant before and after.
Safely == TypeInv /\ TypeInv' /\ CrashInv /\ CrashInv'

\* Every step keeps apart the rollback of a commit and that of a compaction.
LEMMA OpBatchStep ==
    ASSUME OpBatch, [Next]_vars
    PROVE  OpBatch'
<1> USE DEF OpBatch, Staging
<1>1. CASE UNCHANGED vars
  BY ZenonT(60), <1>1 DEF vars
<1>2. ASSUME NEW b \in Batch, CommitAppend(b)
      PROVE  OpBatch'
  <2>1. op'.batch = b /\ pc' \in {"batch_written", "rollback"}
    BY ZenonT(60), <1>2 DEF CommitAppend, NoOp
  <2> QED
    BY ZenonT(60), <2>1 DEF Batch
<1>3. CASE CommitSync \/ CommitPublish \/ Rollback
  BY ZenonT(60), <1>3 DEF CommitSync, CommitPublish, Rollback, PoisonAndReturn, Return, Step, Goto
<1>4. CASE CompactMark
  <2>1. op'.batch = NoEntries /\ pc' \in {"compact_marker_write", "rollback"}
    BY ZenonT(60), <1>4 DEF CompactMark, NoOp
  <2> QED
    BY ZenonT(60), <2>1
<1>5. CASE CompactStage \/ CompactStageSync \/ CompactPublish \/ CompactPublishSync
           \/ CompactInstall
  BY ZenonT(60), <1>5 DEF CompactStage, CompactStageSync, CompactPublish, CompactPublishSync,
                CompactInstall, PoisonAndReturn, Return, Step, Goto
<1>6. CASE CompactRelocate \/ CompactRelocateMark \/ CompactRelocateSync \/ CompactSwitch
           \/ CompactSwitchSync \/ CompactCopy \/ CompactCopySync
  BY ZenonT(60), <1>6 DEF CompactRelocate, CompactRelocateMark, CompactRelocateSync, CompactSwitch,
                CompactSwitchSync, CompactCopy, CompactCopySync, PoisonAndReturn,
                GiveUpRelocation, Return, Step, Goto
<1>7. CASE CompactTruncate \/ CompactTruncateSync \/ CompactRemap
  BY ZenonT(60), <1>7 DEF CompactTruncate, CompactTruncateSync, CompactRemap, Return, Step, Goto
<1>8. CASE Open \/ OpenSync \/ OpenRejected
  BY ZenonT(60), <1>8 DEF Open, OpenSync, OpenRejected, NoHandle, Return, vars
<1>9. CASE Close \/ Kill \/ PowerFail \/ TakeSnapshot \/ DropSnapshot
  BY ZenonT(60), <1>9 DEF Close, Kill, PowerFail, NoHandle, Return, TakeSnapshot, DropSnapshot
<1> QED
  BY ZenonT(60), <1>1, <1>2, <1>3, <1>4, <1>5, <1>6, <1>7, <1>8, <1>9 DEF Next, OtherSteps, Compact, Commit

\* What a reader of an available handle sees is what its Base and index hold.
LEMMA SeenIs == TypeInv /\ CrashInv => Seen = IF Available THEN View ELSE Down
BY ZenonT(60), MappingIntact DEF HandleMappingIntact, Seen

\* The same after a step.
LEMMA SeenIsNext == (TypeInv /\ CrashInv => Seen = IF Available THEN View ELSE Down)'
BY SeenIs, PTL

\* Contents are not mistaken for a closed database.
LEMMA ContentsUp ==
    ASSUME TypeInv
    PROVE  /\ View \in Map /\ View # Down
           /\ \A b \in Overlay : Apply(View, b) \in Map /\ Apply(View, b) # Down
<1>1. View \in Map
  BY ZenonT(60), PageTypes DEF TypeInv
<1>2. \A b \in Overlay : Apply(View, b) \in Map
  BY ZenonT(60), <1>1, ApplyType
<1> QED
  BY ZenonT(60), <1>1, <1>2, DatabaseAssumption

\* A batch is a mutation of the store.
LEMMA BatchMutation == Batch \subseteq Store!Mutation
<1> SUFFICES ASSUME NEW b \in Batch
             PROVE  b \in Store!Mutation
  OBVIOUS
<1>1. PICK D \in SUBSET Keys : b \in [D -> Value]
  BY ZenonT(60) DEF Batch, Overlay
<1>2. D # {}
  BY <1>1 DEF Batch, NoEntries
<1> QED
  BY ZenonT(60), <1>1, <1>2 DEF Store!Mutation, Value

\* append: the commit is submitted.
LEMMA AppendSubmits ==
    ASSUME Safely, NEW b \in Batch, CommitAppend(b)
    PROVE  Store!Next
<1> SUFFICES ASSUME TypeInv, TypeInv', CrashInv, CrashInv'
             PROVE  Store!Next
  BY DEF Safely
<1>1. /\ pc = "idle" /\ state = "Healthy" /\ UNCHANGED <<state, base, overlay, acked>>
      /\ pc' \in {"batch_written", "rollback"} /\ maybe' = maybe \cup {Apply(View, b)}
  BY ZenonT(60) DEF CommitAppend, Writable, handle
<1>2. op'.batch = b /\ b # NoEntries
  BY ZenonT(60) DEF CommitAppend, NoOp, Batch
<1>3. View' = View /\ Available /\ Available'
  BY ZenonT(60), <1>1 DEF View, Available
<1>4. Seen = View /\ Seen' = View
  BY ZenonT(60), <1>3, SeenIs, SeenIsNext
<1>5. Pending = Down /\ Pending' = Apply(View, b)
  BY ZenonT(60), <1>1, <1>2, <1>3 DEF Pending
<1>6. Store!Submit(b)
  BY ZenonT(60), <1>1, <1>4, <1>5, ContentsUp DEF Store!Submit, Store!Updated, Apply
<1> QED
  BY ZenonT(60), <1>6, BatchMutation DEF Store!Next

\* Steps that change nothing a reader or a waiting commit can tell.
LEMMA StoreStutters ==
    ASSUME Safely,
           Available' = Available, Available => View' = View, Pending' = Pending,
           acked' = acked, maybe' = maybe
    PROVE  UNCHANGED Store!svars
<1> SUFFICES ASSUME TypeInv, TypeInv', CrashInv, CrashInv'
             PROVE  UNCHANGED Store!svars
  BY DEF Safely
<1>1. Seen = IF Available THEN View ELSE Down
  BY ZenonT(60), SeenIs
<1>2. Seen' = IF Available' THEN View' ELSE Down
  BY ZenonT(60), SeenIsNext
<1>3. Seen' = Seen
  BY ZenonT(60), <1>1, <1>2
<1> QED
  BY ZenonT(60), <1>3 DEF Store!svars

\* The sync of a commit shows nothing.
LEMMA CommitSyncStutters ==
    ASSUME Safely, CommitSync
    PROVE  UNCHANGED Store!svars
<1> SUFFICES ASSUME TypeInv, TypeInv', CrashInv, CrashInv'
             PROVE  UNCHANGED Store!svars
  BY DEF Safely
<1>1. /\ UNCHANGED <<state, base, overlay, op, acked, maybe>>
      /\ pc = "batch_written" /\ pc' \in {"batch_synced", "rollback"}
  BY ZenonT(60) DEF CommitSync, Step, Goto, handle, ghost
<1>2. Available' = Available /\ View' = View
  BY ZenonT(60), <1>1 DEF Available, View
<1>3. Pending' = Pending
  BY ZenonT(60), <1>1, <1>2 DEF Pending
<1> QED
  BY ZenonT(60), <1>1, <1>2, <1>3, StoreStutters

\* install_tail: the commit is acknowledged; or it will be rolled back.
LEMMA PublishAcks ==
    ASSUME Safely, OpBatch, CommitPublish
    PROVE  Store!Next \/ UNCHANGED Store!svars
<1> SUFFICES ASSUME TypeInv, TypeInv', CrashInv, CrashInv'
             PROVE  Store!Next \/ UNCHANGED Store!svars
  BY Zenon DEF Safely
<1>1. pc = "batch_synced" /\ op.batch # NoEntries /\ state = "Healthy" /\ op.batch \in Overlay
  BY DEF CommitPublish, OpBatch, CrashInv, Undoable, AtUndoable, TypeInv, TypeOK
<1>2. Pending = Apply(View, op.batch) /\ Pending # Down
  BY ZenonT(60), <1>1, ContentsUp DEF Pending
<1>3. CASE /\ overlay' = Shadow(overlay, op.batch)
           /\ acked' = Apply(View, op.batch)
           /\ maybe' = {}
           /\ Return
           /\ UNCHANGED <<state, base>>
  <2>1. View' = Apply(View, op.batch)
    <3>1. View' = Apply(base.sum, Shadow(overlay, op.batch))
      BY ZenonT(60), <1>3 DEF View
    <3>2. Apply(base.sum, Shadow(overlay, op.batch)) = Apply(Apply(base.sum, overlay), op.batch)
      BY ApplyShadow
    <3> QED
      BY ZenonT(60), <3>1, <3>2 DEF View
  <2>2. Seen' = View'
    BY ZenonT(60), <1>1, <1>3, SeenIsNext DEF Available
  <2>3. Pending' = Down
    BY ZenonT(60), <1>3 DEF Pending, Return
  <2> QED
    BY ZenonT(60), <1>2, <1>3, <2>1, <2>2, <2>3 DEF Store!Next, Store!Ack
<1>4. CASE Goto("rollback") /\ UNCHANGED <<handle, ghost>>
  <2>1. UNCHANGED <<state, base, overlay, op, acked, maybe>> /\ pc' = "rollback"
    BY ZenonT(60), <1>4 DEF Goto, handle, ghost
  <2>2. Available' = Available /\ View' = View
    BY ZenonT(60), <2>1 DEF Available, View
  <2>3. Pending' = Pending
    BY ZenonT(60), <1>1, <2>1, <2>2 DEF Pending
  <2> QED
    BY ZenonT(60), <2>1, <2>2, <2>3, StoreStutters
<1> QED
  BY ZenonT(60), <1>3, <1>4 DEF CommitPublish

\* rollback_or_poison: a commit fails; a compaction shows nothing.
LEMMA RollbackFails ==
    ASSUME Safely, Rollback
    PROVE  Store!Next \/ UNCHANGED Store!svars
<1> SUFFICES ASSUME TypeInv, TypeInv', CrashInv, CrashInv'
             PROVE  Store!Next \/ UNCHANGED Store!svars
  BY DEF Safely
<1>1. /\ pc = "rollback" /\ pc' = "idle" /\ state = "Healthy" /\ state' = "WritePoisoned"
      /\ UNCHANGED <<base, overlay, acked, maybe>>
  BY ZenonT(60) DEF Rollback, PoisonAndReturn, Return, CrashInv, Undoable, AtUndoable, ghost
<1>2. Available /\ Available' /\ View' = View /\ Pending' = Down
  BY ZenonT(60), <1>1 DEF Available, View, Pending
<1>3. Seen' = Seen
  BY ZenonT(60), <1>2, SeenIs, SeenIsNext
<1> QED
  BY ZenonT(60), <1>1, <1>2, <1>3 DEF Store!Next, Store!Fail, Store!svars

\* Steps of a compaction on a readable handle: no commit runs, and the handle
\* stays as it is or poisons itself.
LEMMA CompactStutters ==
    ASSUME Safely, OpBatch,
           \/ CompactMark \/ CompactStage \/ CompactStageSync
           \/ CompactPublish \/ CompactPublishSync \/ CompactInstall
           \/ CompactRelocate \/ CompactRelocateMark \/ CompactRelocateSync
           \/ CompactSwitch \/ CompactSwitchSync \/ CompactCopy \/ CompactCopySync
    PROVE  UNCHANGED Store!svars
<1> SUFFICES ASSUME TypeInv, TypeInv', CrashInv, CrashInv'
             PROVE  UNCHANGED Store!svars
  BY DEF Safely
<1> DEFINE Same == UNCHANGED <<base, overlay, acked, maybe>>
           Quiet(l, o) == l \notin {"batch_written", "batch_synced", "rollback"} \/ o.batch = NoEntries
           Readable(s) == s = "Healthy" \/ s = "WritePoisoned"
<1>1. ASSUME Quiet(pc, op), Quiet(pc', op'), Readable(state), Readable(state'), View' = View,
             UNCHANGED <<acked, maybe>>
      PROVE  UNCHANGED Store!svars
  <2>1. Pending = Down /\ Pending' = Down
    BY ZenonT(60), <1>1 DEF Pending
  <2>2. Available /\ Available'
    BY ZenonT(60), <1>1 DEF Available
  <2> QED
    BY ZenonT(60), <1>1, <2>1, <2>2, StoreStutters
<1>2. Same => View' = View /\ UNCHANGED <<acked, maybe>>
  BY ZenonT(60) DEF View
<1>3. CASE CompactMark
  <2>1. Quiet(pc, op) /\ Quiet(pc', op') /\ Same /\ Readable(state) /\ Readable(state')
    BY ZenonT(60), <1>3 DEF CompactMark, Writable, NoOp, handle, ghost
  <2> QED
    BY ZenonT(60), <1>1, <1>2, <2>1
<1>4. CASE CompactStage \/ CompactStageSync
  <2>1. /\ pc \in {"compact_marker_write", "compact_base_write"} /\ op' = op
        /\ Same /\ state' = state
    BY ZenonT(60), <1>4 DEF CompactStage, CompactStageSync, Step, Goto, handle, ghost
  <2>2. op.batch = NoEntries /\ state = "Healthy"
    BY ZenonT(60), <2>1 DEF OpBatch, Staging, CrashInv, Undoable, AtUndoable
  <2> QED
    BY ZenonT(60), <1>1, <1>2, <2>1, <2>2
<1>5. CASE CompactPublish \/ CompactPublishSync
  <2>1. /\ pc \in {"compact_base_sync", "compact_superblock_write"}
        /\ pc' \in {"compact_superblock_write", "compact_superblock_sync", "idle"}
        /\ Same /\ (state' = state \/ state' = "WritePoisoned")
    BY ZenonT(60), <1>5 DEF CompactPublish, CompactPublishSync, Step, Goto, PoisonAndReturn, Return,
                           handle, ghost
  <2>2. state = "Healthy"
    BY ZenonT(60), <2>1 DEF CrashInv, Undoable, AtUndoable, Published, AtPublished
  <2>3. Quiet(pc, op) /\ Quiet(pc', op')
    BY ZenonT(60), <2>1
  <2> QED
    BY ZenonT(60), <1>1, <1>2, <2>1, <2>2, <2>3
<1>6. CASE CompactInstall
  <2>1. /\ pc = "compact_superblock_sync" /\ pc' \in {"compact_installed", "idle"}
        /\ UNCHANGED <<acked, maybe>> /\ (state' = state \/ state' = "WritePoisoned")
        /\ (base' = op.src /\ overlay' = NoEntries) \/ UNCHANGED <<base, overlay>>
    BY ZenonT(60), <1>6 DEF CompactInstall, Goto, PoisonAndReturn, Return, ghost
  <2>2. AtPublished
    BY ZenonT(60), <2>1 DEF CrashInv, Published
  <2>3. state = "Healthy" /\ op.src.sum = acked /\ View = acked /\ acked \in Map
    BY ZenonT(60), <2>2 DEF AtPublished, Carried, TypeInv, TypeOK
  <2>4. View' = View
    BY ZenonT(60), <2>1, <2>3, ApplyNothing DEF View
  <2>5. Quiet(pc, op) /\ Quiet(pc', op')
    BY ZenonT(60), <2>1
  <2> QED
    BY ZenonT(60), <1>1, <2>1, <2>3, <2>4, <2>5
<1>7. CASE CompactRelocate \/ CompactRelocateMark \/ CompactRelocateSync \/ CompactSwitch
  <2>1. /\ pc \in Relocating /\ pc' \in (Relocating \cup Switched \cup {"idle"})
        /\ Same /\ (state' = state \/ state' = "WritePoisoned")
    BY ZenonT(60), <1>7 DEF CompactRelocate, CompactRelocateMark, CompactRelocateSync, CompactSwitch,
                   Step, Goto, GiveUpRelocation, PoisonAndReturn, Return, handle, ghost,
                   Relocating, Switched
  <2>2. state = "Healthy"
    BY ZenonT(60), <2>1 DEF CrashInv, AtRelocating
  <2>3. Quiet(pc, op) /\ Quiet(pc', op')
    BY <2>1 DEF Relocating, Switched
  <2> QED
    BY ZenonT(60), <1>1, <1>2, <2>1, <2>2, <2>3
<1>8. CASE CompactSwitchSync \/ CompactCopy \/ CompactCopySync
  <2>1. /\ pc \in Switched /\ pc' \in (Switched \cup {"idle"})
        /\ Same /\ (state' = state \/ state' = "WritePoisoned")
    BY ZenonT(60), <1>8 DEF CompactSwitchSync, CompactCopy, CompactCopySync, Step, Goto,
                   PoisonAndReturn, Return, handle, ghost, Switched
  <2>2. state = "Healthy"
    BY ZenonT(60), <2>1 DEF CrashInv, AtSwitched
  <2>3. Quiet(pc, op) /\ Quiet(pc', op')
    BY <2>1 DEF Switched
  <2> QED
    BY ZenonT(60), <1>1, <1>2, <2>1, <2>2, <2>3
<1> QED
  BY ZenonT(60), <1>3, <1>4, <1>5, <1>6, <1>7, <1>8

=============================================================================
