------------------------ MODULE CrashRelocate_proofs ------------------------
(***************************************************************************)
(* CrashInv and MediumInv are kept while a compaction publishes the        *)
(* staging generation, moves the handle to it, relocates the Base to the   *)
(* front of the file, switches to it and cuts the file.                    *)
(***************************************************************************)
EXTENDS CrashFile_proofs

-----------------------------------------------------------------------------
(* Each action keeps CrashInv: the staging generation is published.        *)

\* CrashInv once the staging generation is on its page.
LEMMA ToPublished ==
    ASSUME pc' \in Published, AtPublished'
    PROVE  StaysSafe
BY DEF StaysSafe, CrashInv, Undoable, Staging, Published, Relocating, Switched, Truncating

\* g is the file but for page p, which holds c, is torn or is as it was.
PageImage(g, p, c) ==
    /\ g[p] \in {c, Garbage, file[p]}
    /\ g[1 - p] = file[1 - p]
    /\ \A o \in Offsets : o >= DATA_START => g[o] = file[o]

\* A page written or torn at the slot of a generation: the data stands.
LEMMA PageWrite ==
    ASSUME DiskType, NEW p \in {0, 1}, NEW c,
           WriteCell(p, c) \/ TornCell(p, c, Garbage)
    PROVE  /\ PageImage(file', p, c)
           /\ WriteCell(p, c) => file'[p] = c
           /\ flen' = flen
<1>1. /\ p \in Nat /\ p < MaxDatabaseBytes /\ 1 - p \in Offsets /\ 1 - p # p
      /\ flen \in Nat /\ flen >= p + 1
      /\ \A o \in Offsets : o >= DATA_START => o # p
  BY ImageAssumption DEF DATA_START, Offsets, DiskType
<1>2. CASE WriteCell(p, c)
  BY <1>1, <1>2, WriteCellEffect DEF PageImage
<1>3. CASE TornCell(p, c, Garbage) /\ ~WriteCell(p, c)
  <2>1. /\ \/ file' = file /\ flen' = flen
           \/ /\ file'[p] \in {c, Garbage}
              /\ \A x \in Offsets : x # p => file'[x] = file[x]
              /\ flen' = IF p + 1 > flen THEN p + 1 ELSE flen
    BY Zenon, <1>1, <1>3, TornCellEffect
  <2> QED
    BY <1>1, <1>3, <2>1 DEF PageImage
<1> QED
  BY <1>2, <1>3

\* A torn page beside the root leaves the old root, whose log still ends at the
\* marker.
LEMMA OldRootRecovers ==
    ASSUME NEW f, NEW g, NEW n \in Nat, NEW s \in SuperCell, NEW e \in s.log .. n, NEW m,
           Root(f, n, s), Whole(g, n, s), g[Slot(s.gen)] = f[Slot(s.gen)],
           g[RedundantSlot(s.gen)] \in {Garbage, s, f[RedundantSlot(s.gen)]},
           Batches(g, s.log, e), g[e] = CompactMarker,
           Apply(s.sum, ScannedOverlay(g, s.log, e)) = m
    PROVE  Recovers(g, n, s, e, m)
<1>1. Root(g, n, s)
  BY ZenonT(60), TornPage
<1>2. Accepted(g, n, s.log, e)
  BY ZenonT(60) DEF Accepted
<1> QED
  BY ZenonT(60), <1>1, <1>2 DEF Recovers, Contents

\* The staging Superblock goes to the page the current root does not use: a torn
\* page leaves the old root, a whole one points to the complete staging Base.
LEMMA PublishImage ==
    ASSUME TypeInv, CrashInv, pc = "compact_base_sync",
           NEW g, PageImage(g, Slot(op.src.gen), op.src)
    PROVE  /\ BaseIntact(g, base)
           /\ g[Slot(op.src.gen)] = op.src => Root(g, flen, op.src)
           /\ \E s, e : Recovers(g, flen, s, e, acked)
<1> DEFINE p == Slot(op.src.gen)
<1>1. pc \in Staging /\ pc \in Undoable /\ pc \in Compacting /\ pc \in Staged
  BY DEF Staging, Undoable, Compacting, Staged
<1>2. DiskType /\ AtUndoable /\ AtStaging
  BY Zenon, <1>1, TypeParts DEF CrashInv
<1>3. /\ Root(file, flen, base) /\ op.end \in base.log .. flen
      /\ Batches(file, base.log, op.end)
      /\ overlay = ScannedOverlay(file, base.log, op.end)
      /\ View = acked
      /\ Carried(base.gen + 1) /\ op.src.off > op.end /\ file[op.end] = CompactMarker
      /\ flen = op.src.log /\ BaseIntact(file, op.src)
  BY Zenon, <1>1, <1>2 DEF AtUndoable, Attached, AtStaging
<1>4. /\ base \in SuperCell /\ base.gen \in Nat /\ base.log \in Nat /\ op.end \in Nat
      /\ op.end >= DATA_START
  BY SMTT(60), <1>1, TypeParts, ImageAssumption DEF HandleType, OpType, SuperCell, DATA_START
<1>5. /\ op.src \in SuperCell /\ op.src.gen \in Nat /\ op.src.off \in Nat /\ op.src.size \in Nat
      /\ op.src.log = op.src.off + op.src.size /\ op.src.size >= 1
      /\ flen \in Nat /\ flen <= MaxDatabaseBytes /\ flen >= DATA_START
      /\ op.src.gen = base.gen + 1 /\ op.src.sum = acked
  BY Zenon, <1>1, <1>3, CompactingOp DEF Carried
<1>6. p \in {0, 1} /\ 1 - p = Slot(base.gen) /\ p = RedundantSlot(base.gen)
  BY Zenon, <1>4, <1>5, SlotProps
<1> HIDE DEF p
<1>8. /\ g[p] \in {op.src, Garbage, file[p]}
      /\ g[1 - p] = file[1 - p]
      /\ \A o \in Offsets : o >= DATA_START => g[o] = file[o]
  BY DEF PageImage, p
<1>9. Whole(g, flen, base) /\ Batches(g, base.log, op.end)
      /\ ScannedOverlay(g, base.log, op.end) = overlay
  <2> DEFINE end == op.end
  <2>1. end \in Nat /\ end <= flen /\ Batches(file, base.log, end)
        /\ overlay = ScannedOverlay(file, base.log, end) /\ Whole(file, flen, base)
    BY <1>3, <1>4 DEF Root
  <2> HIDE DEF end
  <2>2. /\ Whole(g, flen, base) /\ Batches(g, base.log, end)
        /\ ScannedOverlay(g, base.log, end) = ScannedOverlay(file, base.log, end)
    BY <1>4, <1>5, <1>8, <2>1, DataFrame
  <2> QED
    BY Zenon, <2>1, <2>2 DEF end
<1>10. Whole(g, flen, op.src)
  <2>1. \A o \in op.src.off .. (op.src.off + op.src.size - 1) : g[o] = file[o]
    BY <1>3, <1>4, <1>5, <1>8, ImageAssumption DEF Offsets, DATA_START
  <2>2. BaseIntact(g, op.src)
    BY SMTT(60), <1>3, <1>5, <2>1, BaseFrame
  <2> QED
    BY SMTT(60), <1>3, <1>4, <1>5, <2>2 DEF Whole, DATA_START
<1>11. g[op.end] = CompactMarker
  BY SMTT(60), <1>3, <1>4, <1>5, <1>8, ImageAssumption DEF Offsets, DATA_START
<1>12. ASSUME g[p] = op.src
       PROVE  Root(g, flen, op.src)
  <2>1. g[Slot(op.src.gen)] = op.src /\ g[Slot(base.gen)] = file[Slot(base.gen)]
    BY <1>6, <1>8, <1>12 DEF p
  <2> QED
    BY Zenon, <1>3, <1>4, <1>5, <1>8, <1>10, <2>1, NewRoot
<1>13. CASE g[p] = op.src
  <2> DEFINE s == op.src
  <2>1. Root(g, flen, s) /\ flen \in Nat /\ s.log = flen /\ s.sum = acked
    BY ZenonT(60), <1>3, <1>5, <1>12, <1>13
  <2> HIDE DEF s
  <2>2. Recovers(g, flen, s, s.log, acked)
    BY ZenonT(60), <2>1, EmptyLog
  <2> QED
    BY ZenonT(60), <1>9, <1>12, <2>2 DEF Whole, p
<1>14. CASE g[p] # op.src
  <2> DEFINE end == op.end
  <2>1. g[Slot(base.gen)] = file[Slot(base.gen)]
    BY ZenonT(60), <1>6, <1>8
  <2>2. g[RedundantSlot(base.gen)] \in {Garbage, base, file[RedundantSlot(base.gen)]}
    BY ZenonT(60), <1>6, <1>8, <1>14
  <2>3. /\ Root(file, flen, base) /\ end \in base.log .. flen /\ g[end] = CompactMarker
        /\ base \in SuperCell /\ flen \in Nat
    BY ZenonT(60), <1>3, <1>4, <1>5, <1>11
  <2>4. Whole(g, flen, base) /\ Batches(g, base.log, end)
    BY ZenonT(60), <1>9
  <2>5. Apply(base.sum, ScannedOverlay(g, base.log, end)) = acked
    BY ZenonT(60), <1>3, <1>9 DEF View
  <2> HIDE DEF end
  <2>6. Recovers(g, flen, base, end, acked)
    BY ZenonT(60), <2>1, <2>2, <2>3, <2>4, <2>5, OldRootRecovers
  <2> QED
    BY ZenonT(60), <1>9, <1>14, <2>6 DEF Whole, p
<1> QED
  BY ZenonT(60), <1>13, <1>14

\* So CrashInv is kept, whole or torn.
LEMMA CompactPublishCrash ==
    ASSUME Running, CompactPublish
    PROVE  StaysSafe
<1> SUFFICES ASSUME TypeInv, TypeInv', CrashInv
             PROVE  StaysSafe
  BY DEF Running
<1> DEFINE p == Slot(op.src.gen)
<1>1. pc = "compact_base_sync" /\ pc \in Undoable /\ pc \in Staging /\ pc \in Compacting
  BY DEF CompactPublish, Undoable, Staging, Compacting
<1>2. DiskType /\ DiskType' /\ AtUndoable /\ AtStaging
  BY Zenon, <1>1, TypeParts, TypePartsPrimed DEF CrashInv
<1>3. /\ View = acked /\ state = "Healthy" /\ Carried(op.src.gen) /\ flen = op.src.log
  BY Zenon, <1>1, <1>2 DEF AtUndoable, AtStaging, Staged, Carried
<1>4. p \in {0, 1}
  BY Zenon, <1>1, CompactingOp, SlotProps
<1>5. WriteCell(p, op.src) \/ TornCell(p, op.src, Garbage)
  BY DEF CompactPublish
<1>6. PageImage(file', p, op.src) /\ (WriteCell(p, op.src) => file'[p] = op.src) /\ flen' = flen
  BY ZenonT(60), <1>2, <1>4, <1>5, PageWrite
<1>7. /\ BaseIntact(file', base)
      /\ file'[p] = op.src => Root(file', flen', op.src)
      /\ \E s, e : Recovers(file', flen', s, e, acked)
  BY ZenonT(60), <1>1, <1>6, PublishImage
<1> HIDE DEF p
<1>8. CASE WriteCell(p, op.src) /\ Step("compact_superblock_write")
  <2>1. UNCHANGED <<handle, ghost, op>> /\ pc' = "compact_superblock_write"
    BY Zenon, <1>8 DEF Step, Goto
  <2>2. AtPublished'
    BY Zenon, <1>3, <1>6, <1>7, <1>8, <2>1 DEF AtPublished, Carried, View, handle, ghost
  <2> QED
    BY Zenon, <2>1, <2>2, ToPublished DEF Published
<1>9. CASE TornCell(p, op.src, Garbage) /\ PoisonAndReturn
  <2>1. Return /\ state' = "WritePoisoned" /\ base' = base /\ acked' \in {acked'} \cup maybe'
        /\ acked' = acked
    BY <1>9 DEF PoisonAndReturn, ghost
  <2> QED
    BY ZenonT(60), <1>2, <1>7, <2>1, ToPoisoned
<1> QED
  BY <1>8, <1>9 DEF CompactPublish, p

\* CrashInv while the front of the file is rewritten.
LEMMA ToRelocating ==
    ASSUME pc' \in Relocating, AtRelocating'
    PROVE  StaysSafe
BY DEF StaysSafe, CrashInv, Undoable, Staging, Published, Relocating, Switched, Truncating

\* Installing the staging Base: the handle follows the durable root.
LEMMA CompactInstallCrash ==
    ASSUME Running, CompactPublishSync \/ CompactInstall
    PROVE  StaysSafe
<1> SUFFICES ASSUME TypeInv, TypeInv', CrashInv
             PROVE  StaysSafe
  BY DEF Running
<1>1. DiskType /\ DiskType' /\ AtPublished
  BY Zenon, TypeParts, TypePartsPrimed DEF CompactPublishSync, CompactInstall, CrashInv, Published
<1>2. UNCHANGED <<file, flen>>
  BY <1>1 DEF CompactPublishSync, CompactInstall, Sync, disk
<1>3. CASE Step("compact_superblock_sync")
  <2>1. AtPublished'
    BY Zenon, <1>1, <1>2, <1>3 DEF AtPublished, Carried, View, handle, ghost, Step, Goto
  <2> QED
    BY Zenon, <1>2, <1>3, <2>1, ToPublished DEF Step, Goto, Published
<1>4. CASE /\ base' = op.src /\ overlay' = NoEntries /\ Goto("compact_installed")
           /\ UNCHANGED <<state, snaps, ghost>>
  <2>1. AtRelocating'
    BY Zenon, <1>1, <1>2, <1>4 DEF AtPublished, AtRelocating, Carried, ghost, Goto, Relocated
  <2> QED
    BY Zenon, <1>2, <1>4, <2>1, ToRelocating DEF Goto, Relocating
<1>5. CASE PoisonAndReturn
  <2>1. Return /\ state' = "WritePoisoned" /\ base' = base /\ acked' = acked /\ maybe' = maybe
    BY <1>5 DEF PoisonAndReturn, ghost
  <2>2. flen \in Nat
    BY <1>1, ImageAssumption DEF DiskType, DATA_START
  <2>3. Recovers(file, flen, op.src, op.src.log, acked) /\ BaseIntact(file, base)
    BY Zenon, <1>1, <2>2, EmptyLog DEF AtPublished, Carried
  <2> QED
    BY Zenon, <1>1, <1>2, <2>1, <2>3, ToPoisoned
<1> QED
  BY Zenon, <1>3, <1>4, <1>5 DEF CompactPublishSync, CompactInstall

-----------------------------------------------------------------------------
(* Each action keeps CrashInv: relocation, the switch and the cut.         *)

\* Returning to a handle on a Base with an empty log.
LEMMA ToHealthyEmpty ==
    ASSUME TypeInv', Return, state' = "Healthy", Root(file', flen', base'),
           base'.log = flen', overlay' = NoEntries, base'.sum = acked'
    PROVE  StaysSafe
<1>1. flen' \in Nat /\ acked' \in Map /\ pc' = "idle"
  BY TypePartsPrimed, ImageAssumption DEF HandleType, DiskType, DATA_START, Return
<1>2. overlay' = ScannedOverlay(file', base'.log, flen')
  BY Zenon, <1>1, ScanNothing
<1>3. Attached(flen)'
  <2>1. flen' \in base'.log .. flen'
    BY <1>1
  <2>2. \A o : o \notin base'.log .. (flen' - 1)
    BY <1>1
  <2>3. Batches(file', base'.log, flen')
    BY <2>2 DEF Batches
  <2> QED
    BY Zenon, <1>2, <2>1, <2>3 DEF Attached
<1>4. View' = acked'
  BY SMTT(60), <1>1, ApplyNothing DEF View
<1> QED
  BY Zenon, <1>1, <1>3, <1>4, ToHealthy

\* A root whose page pair and Base are untouched.
LEMMA FrontFrame ==
    ASSUME NEW f, NEW g, NEW n \in Nat, NEW s, Root(f, n, s),
           n <= MaxDatabaseBytes, NEW d \in Nat, d < s.off,
           \A x \in Offsets : x \notin DATA_START .. d => g[x] = f[x]
    PROVE  Root(g, n, s)
<1>1. /\ s \in SuperCell /\ s.gen \in Nat /\ s.off \in Nat /\ s.size \in Nat /\ s.log \in Nat
      /\ s.off >= DATA_START /\ s.log >= s.off + s.size /\ s.log <= n /\ BaseIntact(f, s)
  BY DEF Root, Whole, SuperCell
<1>2. \A o \in s.off .. (s.off + s.size - 1) : g[o] = f[o]
  BY <1>1, ImageAssumption DEF Offsets, DATA_START
<1>3. BaseIntact(g, s)
  BY Zenon, <1>1, <1>2, BaseFrame
<1>4. /\ Slot(s.gen) \in Offsets \ (DATA_START .. d)
      /\ RedundantSlot(s.gen) \in Offsets \ (DATA_START .. d)
  BY <1>1, SlotProps, ImageAssumption DEF DATA_START
<1>5. g[Slot(s.gen)] = f[Slot(s.gen)] /\ g[RedundantSlot(s.gen)] = f[RedundantSlot(s.gen)]
  BY <1>4
<1> QED
  BY Zenon, <1>1, <1>3, <1>5 DEF Root, Whole

\* The destination Base overwrites only bytes no root points to.
LEMMA CompactRelocateCrash ==
    ASSUME Running, CompactRelocate
    PROVE  StaysSafe
<1> SUFFICES ASSUME TypeInv, TypeInv', CrashInv
             PROVE  StaysSafe
  BY DEF Running
<1> DEFINE cells == BaseCells(DATA_START, op.dst.sum)
           rest == \A x \in Offsets : x \notin DATA_START .. (op.dst.log - 1) => file'[x] = file[x]
<1>1. pc = "compact_installed" /\ pc \in Relocating /\ pc \in Compacting
  BY DEF CompactRelocate, Relocating, Compacting
<1>2. DiskType /\ AtRelocating
  BY SMTT(60), <1>1, TypeParts DEF CrashInv
<1>3. /\ op.dst \in SuperCell /\ op.dst.size = BaseSize(op.dst.sum) /\ op.dst.off = DATA_START
      /\ op.dst.size \in Nat /\ op.dst.log \in Nat /\ op.dst.size >= 1
      /\ op.dst.log = DATA_START + op.dst.size /\ op.dst.log < op.src.off
      /\ op.src.log = op.src.off + op.src.size
      /\ op.src.off \in Nat /\ op.src.size \in Nat /\ op.src.log \in Nat
      /\ flen \in Nat /\ flen <= MaxDatabaseBytes
  BY Zenon, <1>1, CompactingOp
<1>4. /\ state = "Healthy" /\ base = op.src /\ overlay = NoEntries /\ Carried(op.src.gen)
      /\ flen = op.src.log /\ Root(file, flen, op.src)
  BY SMTT(60), <1>2 DEF AtRelocating
<1>5. ASSUME rest, flen' = flen
      PROVE  Root(file', flen', op.src)
  <2> DEFINE d == op.dst.log - 1
  <2>1. d \in Nat /\ d < op.src.off /\ \A x \in Offsets : x \notin DATA_START .. d => file'[x] = file[x]
    BY SMTT(60), <1>3, <1>5 DEF DATA_START
  <2> HIDE DEF d
  <2> QED
    BY Zenon, <1>3, <1>4, <1>5, <2>1, FrontFrame
<1>6. Longer(op.dst.log) = flen
  BY SMTT(60), <1>3, <1>4 DEF Longer
<1>7. DATA_START .. (op.dst.log - 1) = op.dst.off .. (op.dst.off + op.dst.size - 1)
      /\ op.dst.off + op.dst.size = op.dst.log /\ op.dst.log <= MaxDatabaseBytes
  BY <1>3, <1>4, ImageAssumption DEF DATA_START
<1>8. CASE WriteCells(cells, op.dst.log) /\ Step("compact_destination_base_write")
  <2>1. rest /\ flen' = flen /\ BaseIntact(file', op.dst)
    BY ZenonT(60), <1>2, <1>3, <1>6, <1>7, <1>8, BaseWriteEffect
  <2>2. UNCHANGED <<handle, ghost, op>> /\ pc' = "compact_destination_base_write"
    BY SMTT(60), <1>8 DEF Step, Goto
  <2>3. AtRelocating'
    BY SMTT(60), <1>4, <1>5, <2>1, <2>2 DEF AtRelocating, Carried, Relocated, handle, ghost
  <2> QED
    BY Zenon, <2>1, <2>2, <2>3, ToRelocating DEF Relocating
<1>9. CASE TornBase(cells, DATA_START, op.dst.size) /\ GiveUpRelocation
  <2>1. rest /\ flen' >= flen /\ flen' <= Longer(op.dst.log)
    BY ZenonT(60), <1>2, <1>3, <1>7, <1>9, BaseWriteEffect
  <2>2. flen' = flen
    <3>1. flen' \in Nat
      BY TypePartsPrimed, ImageAssumption DEF DiskType, DATA_START
    <3> QED
      BY <1>3, <1>6, <2>1, <3>1
  <2>3. UNCHANGED <<handle, ghost>> /\ Return
    BY <1>9 DEF GiveUpRelocation
  <2> QED
    BY Zenon, <1>4, <1>5, <2>1, <2>2, <2>3, ToHealthyEmpty DEF handle, ghost, Carried
<1> QED
  BY Zenon, <1>8, <1>9 DEF CompactRelocate

\* So does the destination marker.
LEMMA CompactRelocateMarkCrash ==
    ASSUME Running, CompactRelocateMark
    PROVE  StaysSafe
<1> SUFFICES ASSUME TypeInv, TypeInv', CrashInv
             PROVE  StaysSafe
  BY DEF Running
<1>1. pc = "compact_destination_base_write" /\ pc \in Relocating /\ pc \in Compacting
  BY DEF CompactRelocateMark, Relocating, Compacting
<1>2. DiskType /\ AtRelocating
  BY Zenon, <1>1, TypeParts DEF CrashInv
<1>3. /\ op.dst \in SuperCell /\ op.dst.off = DATA_START
      /\ op.dst.size \in Nat /\ op.dst.log \in Nat
      /\ op.dst.log = DATA_START + op.dst.size /\ op.dst.log < op.src.off
      /\ op.src.log = op.src.off + op.src.size
      /\ op.src.off \in Nat /\ op.src.size \in Nat /\ op.src.log \in Nat
      /\ flen \in Nat /\ flen <= MaxDatabaseBytes
  BY Zenon, <1>1, CompactingOp
<1>4. /\ state = "Healthy" /\ base = op.src /\ overlay = NoEntries /\ Carried(op.src.gen)
      /\ flen = op.src.log /\ Root(file, flen, op.src) /\ BaseIntact(file, op.dst)
  BY SMTT(60), <1>1, <1>2 DEF AtRelocating
<1>5. op.dst.log < MaxDatabaseBytes /\ ~(op.dst.log + 1 > flen) /\ op.dst.log \in Offsets
  BY SMTT(60), <1>3, <1>4, ImageAssumption DEF Offsets
<1>6. ASSUME \A x \in Offsets : x # op.dst.log => file'[x] = file[x]
      PROVE  Root(file', flen, op.src) /\ BaseIntact(file', op.dst)
  <2> DEFINE d == op.dst.log
  <2>1. d \in Nat /\ d < op.src.off /\ \A x \in Offsets : x \notin DATA_START .. d => file'[x] = file[x]
    BY SMTT(60), <1>3, <1>6 DEF DATA_START
  <2>2. \A o \in op.dst.off .. (op.dst.off + op.dst.size - 1) : file'[o] = file[o]
    BY SMTT(60), <1>3, <1>5, <1>6, ImageAssumption DEF Offsets, DATA_START
  <2> HIDE DEF d
  <2>3. Root(file', flen, op.src)
    BY Zenon, <1>3, <1>4, <2>1, FrontFrame
  <2> QED
    BY Zenon, <1>3, <1>4, <2>2, <2>3, BaseFrame
<1>7. CASE WriteCell(op.dst.log, CompactMarker) /\ Step("compact_relocation_marker_write")
  <2>1. /\ file'[op.dst.log] = CompactMarker /\ flen' = flen
        /\ \A x \in Offsets : x # op.dst.log => file'[x] = file[x]
    BY Zenon, <1>2, <1>3, <1>5, <1>7, WriteCellEffect
  <2>2. UNCHANGED <<handle, ghost, op>> /\ pc' = "compact_relocation_marker_write"
    BY SMTT(60), <1>7 DEF Step, Goto
  <2>3. AtRelocating'
    BY SMTT(60), <1>4, <1>6, <2>1, <2>2 DEF AtRelocating, Carried, Relocated, handle, ghost
  <2> QED
    BY SMTT(60), <2>1, <2>2, <2>3, ToRelocating DEF Relocating
<1>8. CASE TornCell(op.dst.log, CompactMarker, Garbage) /\ GiveUpRelocation
  <2>1. /\ flen' = flen
        /\ \A x \in Offsets : x # op.dst.log => file'[x] = file[x]
    BY Zenon, <1>2, <1>3, <1>5, <1>8, TornCellEffect
  <2>2. UNCHANGED <<handle, ghost>> /\ Return
    BY <1>8 DEF GiveUpRelocation
  <2> QED
    BY Zenon, <1>4, <1>6, <2>1, <2>2, ToHealthyEmpty DEF handle, ghost, Carried
<1> QED
  BY Zenon, <1>7, <1>8 DEF CompactRelocateMark

\* The sync of the destination changes no contents.
LEMMA CompactRelocateSyncCrash ==
    ASSUME Running, CompactRelocateSync
    PROVE  StaysSafe
<1> SUFFICES ASSUME TypeInv, TypeInv', CrashInv
             PROVE  StaysSafe
  BY DEF Running
<1>1. DiskType /\ AtRelocating /\ pc \in Relocated
  BY TypeParts DEF CompactRelocateSync, CrashInv, Relocating, Relocated
<1>2. UNCHANGED <<file, flen>>
  BY <1>1 DEF CompactRelocateSync, Sync, disk
<1>3. CASE Step("compact_relocation_sync")
  <2>1. UNCHANGED <<handle, ghost, op>> /\ pc' = "compact_relocation_sync"
    BY SMTT(60), <1>3 DEF Step, Goto
  <2>2. AtRelocating'
    BY SMTT(60), <1>1, <1>2, <2>1 DEF AtRelocating, Carried, Relocated, handle, ghost
  <2> QED
    BY Zenon, <1>2, <2>1, <2>2, ToRelocating DEF Relocating
<1>4. CASE GiveUpRelocation
  <2>1. UNCHANGED <<handle, ghost>> /\ Return
    BY <1>4 DEF GiveUpRelocation
  <2> QED
    BY Zenon, <1>1, <1>2, <2>1, ToHealthyEmpty DEF AtRelocating, handle, ghost, Carried
<1> QED
  BY Zenon, <1>3, <1>4 DEF CompactRelocateSync

\* CrashInv once the relocated generation is on its page.
LEMMA ToSwitched ==
    ASSUME pc' \in Switched, AtSwitched'
    PROVE  StaysSafe
BY DEF StaysSafe, CrashInv, Undoable, Staging, Published, Relocating, Switched, Truncating

\* The destination Superblock goes to the page the staging root does not use.
LEMMA SwitchImage ==
    ASSUME TypeInv, CrashInv, pc = "compact_relocation_sync",
           NEW g, PageImage(g, Slot(op.dst.gen), op.dst)
    PROVE  /\ BaseIntact(g, op.src) /\ g[op.dst.log] = CompactMarker
           /\ g[Slot(op.dst.gen)] = op.dst => Root(g, flen, op.dst)
           /\ \E s, e : Recovers(g, flen, s, e, acked)
<1> DEFINE p == Slot(op.dst.gen)
<1>1. pc \in Relocating /\ pc \in Relocated /\ pc \in Compacting /\ pc # "compact_installed"
  BY DEF Relocating, Relocated, Compacting
<1>2. DiskType /\ AtRelocating
  BY Zenon, <1>1, TypeParts DEF CrashInv
<1>3. /\ Carried(op.src.gen)
      /\ flen = op.src.log /\ Root(file, flen, op.src)
      /\ BaseIntact(file, op.dst) /\ file[op.dst.log] = CompactMarker
  BY SMTT(60), <1>1, <1>2 DEF AtRelocating
<1>4. /\ op.src \in SuperCell /\ op.dst \in SuperCell
      /\ op.src.gen \in Nat /\ op.dst.gen \in Nat
      /\ op.src.off \in Nat /\ op.src.size \in Nat /\ op.src.log \in Nat
      /\ op.dst.size \in Nat /\ op.dst.log \in Nat
      /\ op.src.log = op.src.off + op.src.size
      /\ op.dst.off = DATA_START /\ op.dst.log = DATA_START + op.dst.size
      /\ op.dst.log < op.src.off
      /\ flen \in Nat /\ flen <= MaxDatabaseBytes
  BY Zenon, <1>1, CompactingOp
<1>5. op.dst.gen = op.src.gen + 1 /\ op.src.sum = acked /\ op.dst.sum = acked
  BY Zenon, <1>3 DEF Carried
<1>6. p \in {0, 1} /\ 1 - p = Slot(op.src.gen) /\ p = RedundantSlot(op.src.gen)
  BY Zenon, <1>4, <1>5, SlotProps
<1> HIDE DEF p
<1>8. /\ g[p] \in {op.dst, Garbage, file[p]}
      /\ g[1 - p] = file[1 - p]
      /\ \A o \in Offsets : o >= DATA_START => g[o] = file[o]
  BY Zenon DEF PageImage, p
<1>9. Whole(g, flen, op.src)
  <2>1. \A o \in op.src.off .. (op.src.off + op.src.size - 1) : g[o] = file[o]
    BY SMTT(60), <1>3, <1>4, <1>8, ImageAssumption DEF Offsets, DATA_START
  <2> QED
    BY SMTT(60), <1>3, <1>4, <2>1, BaseFrame DEF Root, Whole
<1>10. Whole(g, flen, op.dst) /\ g[op.dst.log] = CompactMarker
  <2>1. \A o \in op.dst.off .. (op.dst.off + op.dst.size - 1) : g[o] = file[o]
    BY SMTT(60), <1>3, <1>4, <1>8, ImageAssumption DEF Offsets, DATA_START
  <2>2. BaseIntact(g, op.dst)
    BY SMTT(60), <1>3, <1>4, <2>1, BaseFrame
  <2>3. g[op.dst.log] = file[op.dst.log]
    BY SMTT(60), <1>3, <1>4, <1>8, ImageAssumption DEF Offsets, DATA_START
  <2> QED
    BY SMTT(60), <1>3, <1>4, <2>2, <2>3 DEF Whole, DATA_START
<1>11. ASSUME g[p] = op.dst
       PROVE  Root(g, flen, op.dst)
  <2>1. g[Slot(op.dst.gen)] = op.dst /\ g[Slot(op.src.gen)] = file[Slot(op.src.gen)]
    BY SMTT(60), <1>6, <1>8, <1>11 DEF p
  <2> QED
    BY <1>3, <1>4, <1>5, <1>8, <1>10, <2>1, NewRoot
<1>12. CASE g[p] = op.dst
  <2>1. Recovers(g, flen, op.dst, op.dst.log, acked)
    BY Zenon, <1>4, <1>5, <1>10, <1>11, <1>12, EmptyLog
  <2> QED
    BY ZenonT(60), <1>9, <1>10, <1>11, <2>1 DEF Whole, p
<1>13. CASE g[p] # op.dst
  <2>1. Root(g, flen, op.src)
    BY <1>3, <1>4, <1>6, <1>8, <1>9, <1>13, TornPage
  <2>2. Recovers(g, flen, op.src, op.src.log, acked)
    BY Zenon, <1>3, <1>4, <1>5, <2>1, EmptyLog
  <2> QED
    BY ZenonT(60), <1>9, <1>10, <1>13, <2>2 DEF Whole, p
<1> QED
  BY ZenonT(60), <1>12, <1>13

\* So CrashInv is kept, whole or torn.
LEMMA CompactSwitchCrash ==
    ASSUME Running, CompactSwitch
    PROVE  StaysSafe
<1> SUFFICES ASSUME TypeInv, TypeInv', CrashInv
             PROVE  StaysSafe
  BY DEF Running
<1> DEFINE p == Slot(op.dst.gen)
<1>1. pc = "compact_relocation_sync" /\ pc \in Relocating /\ pc \in Compacting
  BY DEF CompactSwitch, Relocating, Compacting
<1>2. DiskType /\ DiskType' /\ AtRelocating
  BY Zenon, <1>1, TypeParts, TypePartsPrimed DEF CrashInv
<1>3. /\ state = "Healthy" /\ base = op.src /\ overlay = NoEntries /\ Carried(op.src.gen)
      /\ flen = op.src.log
  BY Zenon, <1>2 DEF AtRelocating
<1>4. p \in {0, 1}
  BY Zenon, <1>1, CompactingOp, SlotProps
<1>5. WriteCell(p, op.dst) \/ TornCell(p, op.dst, Garbage)
  BY DEF CompactSwitch
<1>6. PageImage(file', p, op.dst) /\ (WriteCell(p, op.dst) => file'[p] = op.dst) /\ flen' = flen
  BY ZenonT(60), <1>2, <1>4, <1>5, PageWrite
<1>7. /\ BaseIntact(file', op.src) /\ file'[op.dst.log] = CompactMarker
      /\ file'[p] = op.dst => Root(file', flen', op.dst)
      /\ \E s, e : Recovers(file', flen', s, e, acked)
  BY ZenonT(60), <1>1, <1>6, SwitchImage
<1> HIDE DEF p
<1>8. CASE WriteCell(p, op.dst) /\ Step("compact_destination_superblock_write")
  <2>1. UNCHANGED <<handle, ghost, op>> /\ pc' = "compact_destination_superblock_write"
    BY Zenon, <1>8 DEF Step, Goto
  <2>2. AtSwitched'
    BY Zenon, <1>3, <1>6, <1>7, <1>8, <2>1 DEF AtSwitched, Carried, handle, ghost
  <2> QED
    BY Zenon, <2>1, <2>2, ToSwitched DEF Switched
<1>9. CASE TornCell(p, op.dst, Garbage) /\ PoisonAndReturn
  <2>1. Return /\ state' = "WritePoisoned" /\ base' = op.src /\ acked' \in {acked'} \cup maybe'
        /\ acked' = acked
    BY Zenon, <1>3, <1>9 DEF PoisonAndReturn, ghost
  <2> QED
    BY ZenonT(60), <1>2, <1>7, <2>1, ToPoisoned
<1> QED
  BY Zenon, <1>8, <1>9 DEF CompactSwitch, p

\* The syncs around the copy of the page.
LEMMA CompactSwitchSyncCrash ==
    ASSUME Running, CompactSwitchSync \/ CompactCopySync
    PROVE  StaysSafe
<1> SUFFICES ASSUME TypeInv, TypeInv', CrashInv
             PROVE  StaysSafe
  BY DEF Running
<1>1. DiskType /\ DiskType' /\ AtSwitched /\ flen \in Nat
  BY SMTT(60), TypeParts, TypePartsPrimed, ImageAssumption
     DEF CompactSwitchSync, CompactCopySync, CrashInv, Switched, DiskType, DATA_START
<1>2. UNCHANGED <<file, flen>>
  BY <1>1 DEF CompactSwitchSync, CompactCopySync, Sync, disk
<1>3. CASE Step("compact_destination_superblock_sync")
           \/ Step("compact_redundant_superblock_sync")
  <2>1. UNCHANGED <<handle, ghost, op>> /\ pc' \in Switched
    BY SMTT(60), <1>3 DEF Step, Goto, Switched
  <2>2. AtSwitched'
    BY SMTT(60), <1>1, <1>2, <2>1 DEF AtSwitched, Carried, handle, ghost
  <2> QED
    BY Zenon, <1>2, <2>1, <2>2, ToSwitched
<1>4. CASE PoisonAndReturn
  <2>1. Return /\ state' = "WritePoisoned" /\ base' = base /\ acked' = acked /\ maybe' = maybe
    BY <1>4 DEF PoisonAndReturn, ghost
  <2>2. Recovers(file, flen, op.dst, op.dst.log, acked) /\ BaseIntact(file, base)
    BY Zenon, <1>1, EmptyLog DEF AtSwitched, Carried
  <2> QED
    BY Zenon, <1>1, <1>2, <2>1, <2>2, ToPoisoned
<1> QED
  BY SMTT(60), <1>3, <1>4 DEF CompactSwitchSync, CompactCopySync

\* The redundant copy replaces the staging page: either page is then the root.
LEMMA CopyImage ==
    ASSUME TypeInv, CrashInv, pc = "compact_destination_superblock_sync",
           NEW g, PageImage(g, RedundantSlot(op.dst.gen), op.dst)
    PROVE  /\ BaseIntact(g, op.src) /\ g[op.dst.log] = CompactMarker
           /\ Root(g, flen, op.dst)
           /\ Recovers(g, flen, op.dst, op.dst.log, acked)
<1> DEFINE p == RedundantSlot(op.dst.gen)
<1>1. pc \in Switched /\ pc \in Compacting
  BY DEF Switched, Compacting
<1>2. DiskType /\ AtSwitched
  BY SMTT(60), <1>1, TypeParts DEF CrashInv
<1>3. /\ Carried(op.src.gen)
      /\ flen = op.src.log /\ BaseIntact(file, op.src)
      /\ Root(file, flen, op.dst) /\ file[op.dst.log] = CompactMarker
  BY SMTT(60), <1>2 DEF AtSwitched
<1>4. /\ op.src \in SuperCell /\ op.dst \in SuperCell /\ op.dst.gen \in Nat
      /\ op.src.off \in Nat /\ op.src.size \in Nat /\ op.src.log \in Nat
      /\ op.dst.size \in Nat /\ op.dst.log \in Nat
      /\ op.src.log = op.src.off + op.src.size
      /\ op.dst.off = DATA_START /\ op.dst.log = DATA_START + op.dst.size
      /\ op.dst.log < op.src.off
      /\ flen \in Nat /\ flen <= MaxDatabaseBytes
  BY SMTT(60), <1>1, CompactingOp
<1>5. p \in {0, 1} /\ 1 - p = Slot(op.dst.gen)
  BY Zenon, <1>4, SlotProps
<1> HIDE DEF p
<1>7. /\ g[p] \in {op.dst, Garbage, file[p]}
      /\ g[1 - p] = file[1 - p]
      /\ \A o \in Offsets : o >= DATA_START => g[o] = file[o]
  BY Zenon DEF PageImage, p
<1>8. BaseIntact(g, op.src)
  <2>1. \A o \in op.src.off .. (op.src.off + op.src.size - 1) : g[o] = file[o]
    BY <1>3, <1>4, <1>7, ImageAssumption DEF Offsets, DATA_START
  <2> QED
    BY Zenon, <1>3, <1>4, <2>1, BaseFrame
<1>9. Whole(g, flen, op.dst) /\ g[op.dst.log] = CompactMarker
  <2>1. \A o \in op.dst.off .. (op.dst.off + op.dst.size - 1) : g[o] = file[o]
    BY SMTT(60), <1>3, <1>4, <1>7, ImageAssumption DEF Offsets, DATA_START
  <2>2. g[op.dst.log] = file[op.dst.log]
    BY SMTT(60), <1>3, <1>4, <1>7, ImageAssumption DEF Offsets, DATA_START
  <2> QED
    BY Zenon, <1>3, <1>4, <2>1, <2>2, BaseFrame DEF Root, Whole
<1>10. Root(g, flen, op.dst)
  <2>1. /\ g[Slot(op.dst.gen)] = file[Slot(op.dst.gen)]
        /\ g[RedundantSlot(op.dst.gen)] \in {Garbage, op.dst, file[RedundantSlot(op.dst.gen)]}
    BY SMTT(60), <1>5, <1>7 DEF p
  <2> QED
    BY Zenon, <1>3, <1>4, <1>7, <1>9, <2>1, TornPage
<1>11. Recovers(g, flen, op.dst, op.dst.log, acked)
  BY Zenon, <1>3, <1>4, <1>9, <1>10, EmptyLog DEF Carried
<1> QED
  BY Zenon, <1>8, <1>9, <1>10, <1>11

\* So CrashInv is kept, whole or torn.
LEMMA CompactCopyCrash ==
    ASSUME Running, CompactCopy
    PROVE  StaysSafe
<1> SUFFICES ASSUME TypeInv, TypeInv', CrashInv
             PROVE  StaysSafe
  BY DEF Running
<1> DEFINE p == RedundantSlot(op.dst.gen)
<1>1. pc = "compact_destination_superblock_sync" /\ pc \in Switched /\ pc \in Compacting
  BY DEF CompactCopy, Switched, Compacting
<1>2. DiskType /\ DiskType' /\ AtSwitched
  BY Zenon, <1>1, TypeParts, TypePartsPrimed DEF CrashInv
<1>3. /\ state = "Healthy" /\ base = op.src /\ overlay = NoEntries /\ Carried(op.src.gen)
      /\ flen = op.src.log
  BY Zenon, <1>2 DEF AtSwitched
<1>4. p \in {0, 1}
  BY Zenon, <1>1, CompactingOp, SlotProps
<1>5. WriteCell(p, op.dst) \/ TornCell(p, op.dst, Garbage)
  BY DEF CompactCopy
<1>6. PageImage(file', p, op.dst) /\ flen' = flen
  BY ZenonT(60), <1>2, <1>4, <1>5, PageWrite
<1>7. /\ BaseIntact(file', op.src) /\ file'[op.dst.log] = CompactMarker
      /\ Root(file', flen', op.dst) /\ Recovers(file', flen', op.dst, op.dst.log, acked)
  BY ZenonT(60), <1>1, <1>6, CopyImage
<1> HIDE DEF p
<1>8. CASE Step("compact_redundant_superblock_write")
  <2>1. UNCHANGED <<handle, ghost, op>> /\ pc' = "compact_redundant_superblock_write"
    BY SMTT(60), <1>8 DEF Step, Goto
  <2>2. AtSwitched'
    BY Zenon, <1>3, <1>6, <1>7, <2>1 DEF AtSwitched, Carried, handle, ghost
  <2> QED
    BY Zenon, <2>1, <2>2, ToSwitched DEF Switched
<1>9. CASE PoisonAndReturn
  <2>1. Return /\ state' = "WritePoisoned" /\ base' = op.src /\ acked' \in {acked'} \cup maybe'
        /\ acked' = acked
    BY SMTT(60), <1>3, <1>9 DEF PoisonAndReturn, ghost
  <2> QED
    BY ZenonT(60), <1>2, <1>7, <2>1, ToPoisoned
<1> QED
  BY <1>8, <1>9 DEF CompactCopy

\* CrashInv while the file is cut and mapped again.
LEMMA ToTruncating ==
    ASSUME pc' \in Truncating, AtTruncating'
    PROVE  StaysSafe
BY DEF StaysSafe, CrashInv, Undoable, Staging, Published, Relocating, Switched, Truncating

\* The truncation cuts only what lies behind the destination marker or log.
LEMMA CompactTruncateCrash ==
    ASSUME Running, CompactTruncate
    PROVE  StaysSafe
<1> SUFFICES ASSUME TypeInv, TypeInv', CrashInv
             PROVE  StaysSafe
  BY DEF Running
<1>1. pc \in Switched /\ pc \in Compacting
  BY SMTT(60) DEF CompactTruncate, Switched, Compacting
<1>2. DiskType /\ DiskType' /\ AtSwitched
  BY Zenon, <1>1, TypeParts, TypePartsPrimed DEF CrashInv
<1>3. /\ overlay = NoEntries /\ Carried(op.src.gen) /\ flen = op.src.log
      /\ Root(file, flen, op.dst) /\ file[op.dst.log] = CompactMarker
  BY SMTT(60), <1>2 DEF AtSwitched
<1>4. /\ op.dst \in SuperCell /\ op.dst.log \in Nat /\ op.dst.size \in Nat
      /\ op.dst.log = DATA_START + op.dst.size /\ op.dst.log < op.src.off
      /\ op.src.log = op.src.off + op.src.size /\ op.src.off \in Nat /\ op.src.size \in Nat
      /\ flen \in Nat /\ flen <= MaxDatabaseBytes
  BY Zenon, <1>1, CompactingOp
<1>5. state' = "Unavailable" /\ overlay' = overlay /\ acked' = acked /\ maybe' = maybe
  BY DEF CompactTruncate, ghost
<1>6. CASE SetLen(op.dst.log) /\ Goto("compact_truncate")
  <2>1. op.dst.log \in DATA_START .. MaxDatabaseBytes
    BY SMTT(60), <1>3, <1>4, ImageAssumption DEF DATA_START
  <2>2. /\ flen' = op.dst.log
        /\ \A o \in 0 .. (op.dst.log - 1) : file'[o] = file[o]
    BY Zenon, <1>2, <1>6, <2>1, SetLenEffect
  <2>3. Root(file', flen', op.dst)
    <3> DEFINE s == op.dst
               e == op.dst.log
    <3>1. /\ s \in SuperCell /\ Root(file, flen, s)
          /\ e \in Nat /\ flen \in Nat /\ flen' \in Nat /\ s.log <= e /\ e <= flen'
          /\ \A o \in 0 .. (e - 1) : file'[o] = file[o]
      BY <1>3, <1>4, <2>2
    <3>2. Batches(file, s.log, e)
      <4>1. \A o : o \notin s.log .. (e - 1)
        BY SMTT(60), <1>4
      <4> QED
        BY Zenon, <4>1 DEF Batches
    <3> HIDE DEF s, e
    <3>3. /\ Root(file', flen', s) /\ Batches(file', s.log, e)
          /\ ScannedOverlay(file', s.log, e) = ScannedOverlay(file, s.log, e)
      BY SMTT(60), <3>1, <3>2, LogKept
    <3> QED
      BY SMTT(60), <3>3 DEF s
  <2>4. AtTruncating'
    BY Zenon, <1>3, <1>5, <1>6, <2>2, <2>3 DEF AtTruncating, Carried, Goto
  <2> QED
    BY SMTT(60), <1>6, <2>2, <2>4, ToTruncating DEF Goto, Truncating
<1>7. CASE UNCHANGED disk /\ Return
  <2>1. file' = file /\ flen' = flen
    BY SMTT(60), <1>2, <1>7 DEF disk
  <2>2. Recovers(file, flen, op.dst, op.dst.log, acked)
    BY Zenon, <1>3, <1>4, EmptyLog DEF Carried
  <2> QED
    BY Zenon, <1>2, <1>5, <1>7, <2>1, <2>2, ToPoisoned
<1> QED
  BY Zenon, <1>6, <1>7 DEF CompactTruncate

\* The last sync and the new mapping leave the relocated root in place.
LEMMA CompactRemapCrash ==
    ASSUME Running, CompactTruncateSync \/ CompactRemap
    PROVE  StaysSafe
<1> SUFFICES ASSUME TypeInv, TypeInv', CrashInv
             PROVE  StaysSafe
  BY DEF Running
<1>1. DiskType /\ DiskType' /\ AtTruncating /\ flen \in Nat
  BY SMTT(60), TypeParts, TypePartsPrimed, ImageAssumption
     DEF CompactTruncateSync, CompactRemap, CrashInv, Truncating, DiskType, DATA_START
<1>2. UNCHANGED <<file, flen>>
  BY Zenon, <1>1 DEF CompactTruncateSync, CompactRemap, Sync, disk
<1>3. UNCHANGED <<overlay, ghost>>
  BY DEF CompactTruncateSync, CompactRemap, Step, handle
<1>4. CASE Step("compact_truncate_sync")
  <2>1. AtTruncating'
    BY SMTT(60), <1>1, <1>2, <1>4 DEF AtTruncating, Carried, Step, Goto, handle, ghost
  <2> QED
    BY SMTT(60), <1>2, <1>4, <2>1, ToTruncating DEF Step, Goto, Truncating
<1>5. CASE Return /\ state' = state
  <2>1. Recovers(file, flen, op.dst, op.dst.log, acked)
    BY SMTT(60), <1>1, EmptyLog DEF AtTruncating, Carried
  <2>2. state' = "Unavailable" /\ acked' = acked
    BY SMTT(60), <1>1, <1>3, <1>5 DEF AtTruncating, ghost
  <2> QED
    BY Zenon, <1>1, <1>2, <1>5, <2>1, <2>2, ToPoisoned
<1>6. CASE Return /\ state' = "Healthy" /\ base' = op.dst
  BY Zenon, <1>1, <1>2, <1>3, <1>6, ToHealthyEmpty DEF AtTruncating, Carried, ghost
<1> QED
  BY SMTT(60), <1>4, <1>5, <1>6 DEF CompactTruncateSync, CompactRemap, handle

-----------------------------------------------------------------------------
(* The medium through publishing, relocation, the switch and the cut.      *)

\* A page written over a file that is on the medium: a power loss leaves the
\* page whole, torn or as it was.
LEMMA PageMedium ==
    ASSUME Powered, Durable, Unsettled', UNCHANGED ghost, NEW p \in {0, 1}, NEW c,
           WriteCell(p, c) \/ TornCell(p, c, Garbage),
           \A g : PageImage(g, p, c) => \E s, e : Recovers(g, flen, s, e, acked)
    PROVE  StaysOnMedium
<1>1. /\ TypeInv /\ CrashInv /\ DiskType /\ DiskType' /\ CleanTail
      /\ flen \in Nat /\ flen >= DATA_START /\ file \in [Offsets -> Cell]
      /\ p \in Nat /\ p < MaxDatabaseBytes /\ p + 1 <= flen /\ p < DATA_START
  BY TypeParts, TypePartsPrimed, ImageAssumption DEF Powered, MediumInv, DiskType, DATA_START
<1>2. /\ OnlyIn(p, p) /\ Grown /\ flen' <= Longer(p + 1)
      /\ dur'[p] \subseteq dur[p] \cup {c, Garbage, Garbage}
  BY Zenon, <1>1, CellMedium
<1>3. flen' = flen /\ durLen' \subseteq {flen}
  BY <1>1, <1>2 DEF Grown, Longer, Durable
<1>4. CleanTail'
  BY Zenon, <1>1, <1>2, GrownTail
<1>5. flen - 1 # p
  <2>1. ImageOK(file, flen, Admissible)
    BY Zenon, <1>1, CrashImage
  <2>2. PICK s : Root(file, flen, s)
    BY <2>1 DEF ImageOK
  <2>3. s.off \in Nat /\ s.log \in Nat /\ s.off >= DATA_START /\ s.off < s.log /\ s.log <= flen
    BY <1>1, <2>2, RootLatest
  <2> QED
    BY <1>1, <2>3 DEF DATA_START
<1>6. ASSUME NEW h, NEW n, Leaves(h, n)'
      PROVE  ImageOK(h, n, Admissible)'
  <2>1. n = flen /\ h \in [Offsets -> Cell]
    BY Zenon, <1>3, <1>6 DEF Leaves
  <2>2. p \in Offsets /\ 1 - p \in Offsets /\ 1 - p # p /\ \A o \in Offsets : o \in Nat
    BY <1>1, ImageAssumption DEF Offsets, DATA_START
  <2>3. ASSUME NEW o \in Offsets, o # p PROVE h[o] = file[o]
    <3>1. o \notin p .. p
      BY <1>1, <2>2, <2>3
    <3>2. dur'[o] = {file'[o]} /\ file'[o] = file[o]
      BY Zenon, <1>2, <3>1 DEF OnlyIn, Durable
    <3>3. CASE o >= n
      BY Zenon, <1>1, <1>6, <2>1, <3>3 DEF Leaves, CleanTail
    <3>4. CASE ~(o >= n)
      BY Zenon, <1>6, <3>2, <3>4 DEF Leaves
    <3> QED
      BY Zenon, <3>3, <3>4
  <2>4. h[p] \in {c, Garbage, file[p]}
    <3>1. ~(p >= n) /\ p # n - 1
      BY <1>1, <1>5, <2>1
    <3>2. h[p] \in dur'[p] /\ dur[p] = {file[p]}
      BY Zenon, <1>6, <2>2, <3>1 DEF Leaves, Durable
    <3> QED
      BY Zenon, <1>2, <3>2
  <2>5. PageImage(h, p, c)
    <3>1. \A o \in Offsets : o >= DATA_START => o # p
      BY <1>1, <2>2, ImageAssumption DEF DATA_START
    <3> QED
      BY Zenon, <2>2, <2>3, <2>4, <3>1 DEF PageImage
  <2>6. PICK s, e : Recovers(h, flen, s, e, acked)
    BY <2>5
  <2>7. acked \in Admissible' /\ Admissible' = Admissible
    BY DEF Admissible, ghost
  <2>8. ImageOK(h, flen, Admissible)
    BY Zenon, <1>1, <2>1, <2>6, <2>7, RecoversImage
  <2> QED
    BY Zenon, <2>1, <2>7, <2>8
<1>7. SurvivorsOK'
  BY Zenon, <1>1, <1>6, SurvivorsIntroNext
<1> QED
  BY Zenon, <1>4, <1>7, UnsettledMediumNext DEF StaysOnMedium

\* The three page writes of a compaction.
LEMMA PagesMedium ==
    ASSUME Powered, CompactPublish \/ CompactSwitch \/ CompactCopy
    PROVE  StaysOnMedium
<1>1. /\ TypeInv /\ CrashInv /\ Durable /\ pc \in Compacting
      /\ op.src.gen \in Nat /\ op.dst.gen \in Nat
  BY Zenon, CompactingOp
     DEF Powered, MediumInv, CompactPublish, CompactSwitch, CompactCopy, SyncedPoints,
         Compacting, Staging, Relocating, Switched
<1>2. UNCHANGED ghost /\ Unsettled'
  BY DEF CompactPublish, CompactSwitch, CompactCopy, Step, Goto, PoisonAndReturn, Return,
         Unsettled
<1>3. CASE CompactPublish
  <2> DEFINE p == Slot(op.src.gen)
  <2>1. p \in {0, 1} /\ (WriteCell(p, op.src) \/ TornCell(p, op.src, Garbage))
    BY Zenon, <1>1, <1>3, SlotProps DEF CompactPublish
  <2>2. \A g : PageImage(g, p, op.src) => \E s, e : Recovers(g, flen, s, e, acked)
    BY Zenon, <1>1, <1>3, PublishImage DEF CompactPublish
  <2> HIDE DEF p
  <2> QED
    BY Zenon, <1>1, <1>2, <2>1, <2>2, PageMedium
<1>4. CASE CompactSwitch
  <2> DEFINE p == Slot(op.dst.gen)
  <2>1. p \in {0, 1} /\ (WriteCell(p, op.dst) \/ TornCell(p, op.dst, Garbage))
    BY Zenon, <1>1, <1>4, SlotProps DEF CompactSwitch
  <2>2. \A g : PageImage(g, p, op.dst) => \E s, e : Recovers(g, flen, s, e, acked)
    BY Zenon, <1>1, <1>4, SwitchImage DEF CompactSwitch
  <2> HIDE DEF p
  <2> QED
    BY Zenon, <1>1, <1>2, <2>1, <2>2, PageMedium
<1>5. CASE CompactCopy
  <2> DEFINE p == RedundantSlot(op.dst.gen)
  <2>1. p \in {0, 1} /\ (WriteCell(p, op.dst) \/ TornCell(p, op.dst, Garbage))
    BY Zenon, <1>1, <1>5, SlotProps DEF CompactCopy
  <2>2. \A g : PageImage(g, p, op.dst) => \E s, e : Recovers(g, flen, s, e, acked)
    BY Zenon, <1>1, <1>5, CopyImage DEF CompactCopy
  <2> HIDE DEF p
  <2> QED
    BY Zenon, <1>1, <1>2, <2>1, <2>2, PageMedium
<1> QED
  BY Zenon, <1>3, <1>4, <1>5

\* The syncs and mappings of a compaction that cannot be undone any more.
LEMMA CompactSyncMedium ==
    ASSUME Powered,
           \/ CompactPublishSync \/ CompactInstall \/ CompactSwitchSync \/ CompactCopySync
           \/ CompactTruncateSync \/ CompactRemap
    PROVE  StaysOnMedium
<1>1. CASE Sync
  BY Zenon, <1>1, SyncMedium
<1>2. CASE UNCHANGED disk /\ (CompactInstall \/ CompactRemap)
  <2>1. Durable
    BY <1>2 DEF Powered, MediumInv, CompactInstall, CompactRemap, SyncedPoints
  <2> QED
    BY Zenon, <1>2, <2>1, SyncedMedium
<1>3. CASE /\ UNCHANGED disk /\ ~Sync
           /\ CompactPublishSync \/ CompactSwitchSync \/ CompactCopySync \/ CompactTruncateSync
  <2>1. pc = "compact_truncate" => state # "Healthy"
    BY Zenon DEF Powered, CrashInv, AtTruncating, Truncating
  <2>2. Unsettled' /\ UNCHANGED ghost
    BY Zenon, <1>3, <2>1
       DEF CompactPublishSync, CompactSwitchSync, CompactCopySync, CompactTruncateSync,
           PoisonAndReturn, Return, Unsettled, handle
  <2> QED
    BY Zenon, <1>3, <2>2, LostMedium
<1> QED
  BY Zenon, <1>1, <1>2, <1>3
     DEF CompactPublishSync, CompactInstall, CompactSwitchSync, CompactCopySync,
         CompactTruncateSync, CompactRemap

\* While the front is rewritten the staging Base and both pages are on the medium.
LEMMA RelocatingMedium ==
    /\ TypeInv /\ CrashInv /\ CleanTail /\ SyncedFrom(op.src.off)
    /\ pc \in {"compact_destination_base_write", "compact_relocation_marker_write"}
    => MediumInv
<1> SUFFICES ASSUME TypeInv, CrashInv, CleanTail, SyncedFrom(op.src.off),
                    pc \in {"compact_destination_base_write", "compact_relocation_marker_write"}
             PROVE  MediumInv
  OBVIOUS
<1>1. pc \in Relocating /\ pc \in Compacting
  BY Zenon DEF Relocating, Compacting
<1>2. /\ DiskType /\ op.src \in SuperCell /\ Root(file, flen, op.src) /\ flen = op.src.log
      /\ op.src.sum = acked /\ flen \in Nat
  BY Zenon, <1>1, TypeParts, CompactingOp DEF CrashInv, AtRelocating, Carried
<1>3. Recovers(file, flen, op.src, flen, acked)
  BY Zenon, <1>2, EmptyLog
<1>4. Batches(file, op.src.log, flen) /\ Contents(file, op.src, flen) \in Admissible
  BY Zenon, <1>3 DEF Recovers, Accepted, Admissible
<1>5. SurvivorsOK
  BY Zenon, <1>2, <1>4, SyncedImages
<1> QED
  BY <1>5 DEF MediumInv, Writable, SyncedPoints, Undoable, Staging

\* The same in the next state.
LEMMA RelocatingMediumNext ==
    (/\ TypeInv /\ CrashInv /\ CleanTail /\ SyncedFrom(op.src.off)
     /\ pc \in {"compact_destination_base_write", "compact_relocation_marker_write"}
     => MediumInv)'
BY RelocatingMedium, PTL

\* A write to the front, or none, and the next point or an early return.
LEMMA FrontMedium ==
    ASSUME Powered, SyncedFrom(op.src.off), base = op.src, state = "Healthy",
           OnlyIn(DATA_START, op.src.off - 1), Grown, flen' = flen, op.src.off \in Nat,
           \/ /\ pc' \in {"compact_destination_base_write", "compact_relocation_marker_write"}
              /\ op' = op
           \/ pc' = "idle" /\ UNCHANGED handle
    PROVE  StaysOnMedium
<1>1. CleanTail'
  BY Zenon, GrownTail, TypeParts DEF Powered, MediumInv
<1>2. \A o \in Offsets : (o < DATA_START \/ o >= op.src.off) =>
          o \notin DATA_START .. (op.src.off - 1)
  BY ImageAssumption DEF Offsets, DATA_START
<1>3. \A o \in Offsets : (o < DATA_START \/ o >= op.src.off) => dur'[o] = {file'[o]}
  BY <1>2 DEF OnlyIn, SyncedFrom
<1>4. durLen' = {flen'}
  <2>1. flen \in Nat
    BY TypeParts, ImageAssumption DEF Powered, DiskType, DATA_START
  <2>2. durLen' \subseteq {flen} /\ flen \in durLen'
    BY <2>1 DEF Grown, SyncedFrom
  <2> QED
    BY Zenon, <2>2
<1>5. CASE /\ pc' \in {"compact_destination_base_write", "compact_relocation_marker_write"}
           /\ op' = op
  <2>1. SyncedFrom(op.src.off)'
    BY Zenon, <1>3, <1>4, <1>5 DEF SyncedFrom
  <2> QED
    BY Zenon, <1>1, <1>5, <2>1, RelocatingMediumNext DEF Powered, StaysOnMedium
<1>6. CASE pc' = "idle" /\ UNCHANGED handle
  <2>1. SyncedFrom(base.off)' /\ Writable'
    BY Zenon, <1>3, <1>4, <1>6 DEF SyncedFrom, Writable, handle
  <2> QED
    BY Zenon, <1>1, <2>1, HealthyMediumNext DEF Powered, StaysOnMedium
<1> QED
  BY Zenon, <1>5, <1>6

\* The destination Base and its marker, and their sync.
LEMMA RelocateMedium ==
    ASSUME Powered, CompactRelocate \/ CompactRelocateMark \/ CompactRelocateSync
    PROVE  StaysOnMedium
<1>1. pc \in Relocating /\ pc \in Compacting /\ pc \notin Undoable
  BY Zenon DEF CompactRelocate, CompactRelocateMark, CompactRelocateSync, Relocating, Compacting,
         Undoable
<1>2. /\ DiskType /\ base = op.src /\ state = "Healthy" /\ flen = op.src.log
      /\ TypeInv' /\ flen' \in Nat
  BY <1>1, TypeParts, TypePartsPrimed, ImageAssumption
     DEF Powered, CrashInv, AtRelocating, DiskType, DATA_START
<1>3. /\ op.dst \in SuperCell /\ op.dst.size = BaseSize(op.dst.sum) /\ op.dst.off = DATA_START
      /\ op.dst.size \in Nat /\ op.dst.log \in Nat /\ op.dst.size >= 1
      /\ op.dst.log = DATA_START + op.dst.size /\ op.dst.log < op.src.off
      /\ op.src.log = op.src.off + op.src.size
      /\ op.src.off \in Nat /\ op.src.size \in Nat /\ op.src.log \in Nat
      /\ flen \in Nat /\ flen <= MaxDatabaseBytes
  BY Zenon, <1>1, CompactingOp DEF Powered
<1>4. ~CompactRelocateSync \/ ~Sync => SyncedFrom(op.src.off)
  BY Zenon DEF Powered, MediumInv, CompactRelocate, CompactRelocateMark, CompactRelocateSync,
         SyncedPoints, Durable, SyncedFrom
<1>5. CASE CompactRelocate
  <2>1. /\ OnlyIn(op.dst.off, op.dst.off + op.dst.size - 1) /\ Grown
        /\ flen' <= Longer(op.dst.off + op.dst.size)
    <3>1. op.dst.off + op.dst.size = op.dst.log
      BY <1>3
    <3>2. \/ WriteCells(BaseCells(op.dst.off, op.dst.sum), op.dst.off + op.dst.size)
          \/ TornBase(BaseCells(op.dst.off, op.dst.sum), op.dst.off, op.dst.size)
      BY Zenon, <1>3, <1>5, <3>1 DEF CompactRelocate
    <3>3. /\ OnlyIn(op.dst.off, op.dst.off + op.dst.size - 1) /\ Grown
          /\ \/ flen' = Longer(op.dst.off + op.dst.size)
             \/ flen' <= Longer(op.dst.off + op.dst.size)
      BY Zenon, <1>2, <1>3, <3>2, BaseWriteEffect
    <3> QED
      BY <1>2, <1>3, <3>3 DEF Longer
  <2>2. flen' = flen
    BY <1>2, <1>3, <2>1 DEF Longer, Grown
  <2>3. OnlyIn(DATA_START, op.src.off - 1)
    <3>1. \A x \in Offsets : x \notin DATA_START .. (op.src.off - 1)
                          => x \notin op.dst.off .. (op.dst.off + op.dst.size - 1)
      BY SMTT(60), <1>3, ImageAssumption DEF Offsets, DATA_START
    <3> QED
      BY Zenon, <2>1, <3>1 DEF OnlyIn
  <2>4. \/ pc' = "compact_destination_base_write" /\ op' = op
        \/ pc' = "idle" /\ UNCHANGED handle
    BY Zenon, <1>5 DEF CompactRelocate, Step, Goto, GiveUpRelocation, Return
  <2>5. SyncedFrom(op.src.off)
    BY Zenon, <1>4, <1>5 DEF CompactRelocate, CompactRelocateSync
  <2> QED
    BY Zenon, <1>2, <1>3, <2>1, <2>2, <2>3, <2>4, <2>5, FrontMedium
<1>6. CASE CompactRelocateMark
  <2>1. /\ OnlyIn(op.dst.log, op.dst.log) /\ Grown /\ flen' <= Longer(op.dst.log + 1)
    <3>1. op.dst.log < MaxDatabaseBytes
      BY <1>2, <1>3, ImageAssumption
    <3> QED
      BY Zenon, <1>2, <1>3, <1>6, <3>1, CellMedium DEF CompactRelocateMark
  <2>2. flen' = flen
    BY <1>2, <1>3, <2>1 DEF Longer, Grown
  <2>3. OnlyIn(DATA_START, op.src.off - 1)
    <3>1. \A x \in Offsets : x \notin DATA_START .. (op.src.off - 1)
                          => x \notin op.dst.log .. op.dst.log
      BY SMTT(60), <1>3, ImageAssumption DEF Offsets, DATA_START
    <3> QED
      BY Zenon, <2>1, <3>1 DEF OnlyIn
  <2>4. \/ pc' = "compact_relocation_marker_write" /\ op' = op
        \/ pc' = "idle" /\ UNCHANGED handle
    BY <1>6 DEF CompactRelocateMark, Step, Goto, GiveUpRelocation, Return
  <2>5. SyncedFrom(op.src.off)
    BY <1>4, <1>6 DEF CompactRelocateMark, CompactRelocateSync
  <2> QED
    BY Zenon, <1>2, <1>3, <2>1, <2>2, <2>3, <2>4, <2>5, FrontMedium
<1>7. CASE CompactRelocateSync
  <2>1. CASE Sync
    BY Zenon, <2>1, SyncMedium
  <2>2. CASE ~Sync /\ UNCHANGED disk /\ GiveUpRelocation
    <3>1. SyncedFrom(op.src.off)
      BY Zenon, <1>4, <2>2
    <3>2. OnlyIn(DATA_START, op.src.off - 1) /\ Grown /\ flen' = flen
      BY <1>3, <2>2 DEF OnlyIn, Grown, disk
    <3>3. pc' = "idle" /\ UNCHANGED handle
      BY <2>2 DEF GiveUpRelocation, Return
    <3> QED
      BY Zenon, <1>2, <1>3, <3>1, <3>2, <3>3, FrontMedium
  <2> QED
    BY Zenon, <1>7, <2>1, <2>2 DEF CompactRelocateSync
<1> QED
  BY <1>5, <1>6, <1>7

\* The cut behind the relocated Base.
LEMMA CompactTruncateMedium ==
    ASSUME Powered, CompactTruncate
    PROVE  StaysOnMedium
<1>1. pc \in Switched /\ pc \in Compacting /\ Durable
  BY Zenon DEF Powered, MediumInv, CompactTruncate, Switched, Compacting, SyncedPoints
<1>2. /\ DiskType /\ DiskType' /\ Carried(op.src.gen) /\ flen = op.src.log
      /\ Root(file, flen, op.dst) /\ file[op.dst.log] = CompactMarker
  BY <1>1, TypeParts, TypePartsPrimed, Zenon DEF Powered, CrashInv, AtSwitched
<1>3. /\ op.dst \in SuperCell /\ op.dst.log \in Nat /\ flen \in Nat /\ op.dst.log < flen
      /\ op.dst.log \in DATA_START .. MaxDatabaseBytes /\ op.dst.log >= DATA_START
  BY <1>1, <1>2, CompactingOp, ImageAssumption DEF Powered, DATA_START
<1>4. UNCHANGED ghost /\ Unsettled'
  BY DEF CompactTruncate, Goto, Return, Unsettled
<1>5. CASE SetLen(op.dst.log)
  <2> DEFINE s == op.dst
             e == op.dst.log
  <2>1. Recovers(file, flen, s, e, acked)
    BY Zenon, <1>2, <1>3, EmptyLog DEF Carried
  <2>2. Batches(file, s.log, e) /\ Contents(file, s, e) \in Admissible
    BY Zenon, <2>1 DEF Recovers, Accepted, Admissible
  <2>3. LogOnMedium(s, e, NoEntries) /\ NoEntries \in Overlay
    <3>1. dur[e] = {CompactMarker} \/ e \notin Offsets
      BY Zenon, <1>1, <1>2 DEF Durable
    <3>2. \A o \in Offsets : dur[o] = {file[o]}
      BY Zenon, <1>1 DEF Durable
    <3>3. \A n \in durLen : n >= e
      BY <1>1, <1>3 DEF Durable
    <3>4. CompactMarker.t # "batch"
      BY DEF CompactMarker
    <3>5. NoEntries \in Overlay
      BY DEF NoEntries, Overlay
    <3> HIDE DEF s, e
    <3> QED
      BY Zenon, <3>1, <3>2, <3>3, <3>4, <3>5 DEF LogOnMedium
  <2>4. s.log <= e /\ e <= flen
    BY <1>3
  <2>5. s \in SuperCell /\ e \in DATA_START .. MaxDatabaseBytes /\ Root(file, flen, s)
    BY <1>2, <1>3
  <2>6. SetLen(e)
    BY <1>5
  <2> HIDE DEF s, e
  <2>7. CleanTail' /\ SurvivorsOK'
    BY Zenon, <1>2, <1>4, <2>2, <2>3, <2>4, <2>5, <2>6, CutMedium
  <2> QED
    BY Zenon, <1>4, <2>7, UnsettledMediumNext DEF StaysOnMedium
<1>6. CASE UNCHANGED disk
  BY Zenon, <1>1, <1>6, SyncedMedium
<1> QED
  BY Zenon, <1>5, <1>6 DEF CompactTruncate
=============================================================================
