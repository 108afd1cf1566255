---------------------------- MODULE DatabaseInv ----------------------------
(***************************************************************************)
(* The inductive invariants behind the safety properties of Database:      *)
(* where the running operation stands, and what the file looks like there. *)
(***************************************************************************)
EXTENDS Database

\* Program points at which an error still leads to rollback_or_poison.
Undoable ==
    {"batch_written", "batch_synced", "rollback", "compact_marker_write",
     "compact_base_write", "compact_base_sync"}

\* Program points of compact_file, by what is on the file so far.
Staging == {"compact_marker_write", "compact_base_write", "compact_base_sync"}

Staged == {"compact_base_write", "compact_base_sync"}

Published == {"compact_superblock_write", "compact_superblock_sync"}

Relocating ==
    {"compact_installed", "compact_destination_base_write",
     "compact_relocation_marker_write", "compact_relocation_sync"}

Relocated == {"compact_relocation_marker_write", "compact_relocation_sync"}

Switched ==
    {"compact_destination_superblock_write", "compact_destination_superblock_sync",
     "compact_redundant_superblock_write", "compact_redundant_superblock_sync"}

Truncating == {"compact_truncate", "compact_truncate_sync"}

Compacting == Staging \cup Published \cup Relocating \cup Switched \cup Truncating

-----------------------------------------------------------------------------
(* Types and bounds, whatever fails.                                       *)

\* The layout compact_file fixes before it writes anything: the relocated Base
\* and its marker end before the staging Base, which ends within the limit.
LayoutBounds ==
    /\ op.src.size = BaseSize(op.src.sum)
    /\ op.src.log = op.src.off + op.src.size
    /\ op.src.log <= MaxDatabaseBytes
    /\ op.dst.off = DATA_START
    /\ op.dst.size = BaseSize(op.dst.sum)
    /\ op.dst.log = DATA_START + op.dst.size
    /\ op.dst.log < op.src.off

\* TypeOK with what a running operation needs for its next write to fit.
TypeInv ==
    /\ TypeOK
    /\ pc \in Undoable => op.end \in DATA_START .. MaxDatabaseBytes
    /\ pc \in Compacting => LayoutBounds

-----------------------------------------------------------------------------
(* The file at every program point.                                        *)

\* s points to a whole Base inside the file.
Whole(f, n, s) ==
    /\ s \in SuperCell
    /\ s.off >= DATA_START
    /\ s.log >= s.off + s.size
    /\ s.log <= n
    /\ BaseIntact(f, s)

\* s is the root recovery picks: it is on the page of its generation, and the
\* other page holds an older generation, a copy of s, or nothing.
Root(f, n, s) ==
    /\ Whole(f, n, s)
    /\ f[Slot(s.gen)] = s
    /\ f[RedundantSlot(s.gen)].t = "super" =>
           \/ f[RedundantSlot(s.gen)].gen < s.gen
           \/ f[RedundantSlot(s.gen)] = s

\* What recovery reads from root s and a log that ends at e.
Contents(f, s, e) == Apply(s.sum, ScannedOverlay(f, s.log, e))

\* Recovery finds contents m: root s, and a log that ends at e.
Recovers(f, n, s, e, m) ==
    /\ Root(f, n, s)
    /\ Accepted(f, n, s.log, e)
    /\ Contents(f, s, e) = m

\* An image has a root, and an open that accepts it finds contents of M.
ImageOK(f, n, M) ==
    /\ \E s \in {f[0], f[1]} : Root(f, n, s)
    /\ Recoverable(f, n) => RecoveredMap(f, n) \in M

\* The contents the user must be prepared for.
Admissible == {acked} \cup maybe

\* The next open succeeds, with acknowledged contents or those of a whole
\* transaction in doubt.
DiskOK ==
    \E s \in {file[0], file[1]} : \E e \in 0 .. flen :
        \E m \in Admissible : Recovers(file, flen, s, e, m)

\* The handle's Base is the root, and its index that of the log up to end.
Attached(end) ==
    /\ Root(file, flen, base)
    /\ end \in base.log .. flen
    /\ Batches(file, base.log, end)
    /\ overlay = ScannedOverlay(file, base.log, end)

\* What lies behind the published log while a commit or a compaction may
\* still be undone.
UndoableTail ==
    \/ flen = op.end
    \/ flen > op.end /\ file[op.end] = CompactMarker
    \/ flen = op.end + 1 /\ file[op.end] = Short
    \/ /\ flen = op.end + 1
       /\ file[op.end] = BatchRecord(op.batch)
       /\ Apply(View, op.batch) \in maybe

\* The Superblocks of the running compaction hold what the user sees.
Carried(gen) ==
    /\ op.src.sum = acked
    /\ op.dst.sum = acked
    /\ op.src.gen = gen
    /\ op.dst.gen = gen + 1

\* Each program point with the state of the file and the handle there.  Without
\* a handle the file may be what a power loss left, which an open may reject.
AtIdle ==
    /\ state \in {"Healthy", "WritePoisoned", "Unavailable", "Closed"}
    /\ state = "Healthy" => Attached(flen) /\ View = acked
    /\ state = "WritePoisoned" => BaseIntact(file, base)
    /\ IF state = "Closed" /\ Power THEN ImageOK(file, flen, Admissible) ELSE DiskOK

AtOpenTruncate ==
    /\ state = "Opening"
    /\ Attached(flen)
    /\ View \in Admissible

AtUndoable ==
    /\ state = "Healthy"
    /\ Attached(op.end)
    /\ View = acked
    /\ UndoableTail

AtCommit == flen = op.end + 1 /\ file[op.end] = BatchRecord(op.batch)

AtStaging ==
    /\ Carried(base.gen + 1)
    /\ op.src.off > op.end
    /\ file[op.end] = CompactMarker
    /\ flen = IF pc \in Staged THEN op.src.log ELSE op.end + 1
    /\ pc \in Staged => BaseIntact(file, op.src)

AtPublished ==
    /\ state = "Healthy"
    /\ BaseIntact(file, base)
    /\ Carried(op.src.gen)
    /\ flen = op.src.log
    /\ Root(file, flen, op.src)
    /\ View = acked

AtRelocating ==
    /\ state = "Healthy"
    /\ base = op.src
    /\ overlay = NoEntries
    /\ Carried(op.src.gen)
    /\ flen = op.src.log
    /\ Root(file, flen, op.src)
    /\ pc # "compact_installed" => BaseIntact(file, op.dst)
    /\ pc \in Relocated => file[op.dst.log] = CompactMarker

AtSwitched ==
    /\ state = "Healthy"
    /\ base = op.src
    /\ overlay = NoEntries
    /\ Carried(op.src.gen)
    /\ flen = op.src.log
    /\ BaseIntact(file, op.src)
    /\ Root(file, flen, op.dst)
    /\ file[op.dst.log] = CompactMarker

AtTruncating ==
    /\ state = "Unavailable"
    /\ overlay = NoEntries
    /\ Carried(op.src.gen)
    /\ flen = op.dst.log
    /\ Root(file, flen, op.dst)

CrashInv ==
    /\ pc = "idle" => AtIdle
    /\ pc = "open_truncate" => AtOpenTruncate
    /\ pc \in Undoable => AtUndoable
    /\ pc \in {"batch_written", "batch_synced"} => AtCommit
    /\ pc \in Staging => AtStaging
    /\ pc \in Published => AtPublished
    /\ pc \in Relocating => AtRelocating
    /\ pc \in Switched => AtSwitched
    /\ pc \in Truncating => AtTruncating

-----------------------------------------------------------------------------
(* The medium at every program point, when no open takes over              *)
(* unsynchronized writes.                                                  *)

\* Program points right after a sync.
SyncedPoints ==
    {"batch_synced", "compact_base_sync", "compact_superblock_sync", "compact_installed",
     "compact_relocation_sync", "compact_destination_superblock_sync",
     "compact_redundant_superblock_sync", "compact_truncate_sync"}

\* Nothing is visible behind the end of the file.
CleanTail == \A o \in Offsets : o >= flen => file[o] = Garbage

\* The pages, and everything from off on, are on the medium.
SyncedFrom(off) ==
    /\ \A o \in Offsets : (o < DATA_START \/ o >= off) => dur[o] = {file[o]}
    /\ durLen = {flen}

\* Root s and its log up to e are on the medium; behind them a power loss leaves
\* at most batch b, as the last record, and only if that is admissible.
LogOnMedium(s, e, b) ==
    /\ \A o \in Offsets : (o < DATA_START \/ o \in s.off .. (e - 1)) => dur[o] = {file[o]}
    /\ \A n \in durLen : n >= e
    /\ e \in Offsets => \A c \in dur[e] :
           c.t = "batch" => /\ c = BatchRecord(b)
                            /\ Apply(Contents(file, s, e), b) \in Admissible
                            /\ durLen \subseteq {e, e + 1}

\* Whatever a power loss leaves now is an admissible image.
SurvivorsOK ==
    \A n \in durLen : \A g \in Survivors(n) : ImageOK(AfterPowerLoss(n, g), n, Admissible)

MediumInv ==
    /\ CleanTail
    /\ SurvivorsOK
    /\ pc \in SyncedPoints => Durable
    /\ Writable => SyncedFrom(base.off)
    /\ pc \in {"compact_destination_base_write", "compact_relocation_marker_write"} =>
           SyncedFrom(op.src.off)
    /\ pc \in Undoable => LogOnMedium(base, op.end, op.batch)
    /\ pc \in Staging /\ op.end \in Offsets => \A c \in dur[op.end] : c.t # "batch"

-----------------------------------------------------------------------------
(* What the other properties need beside CrashInv.                         *)

\* A running commit has a batch, a compaction has none: the two are told apart
\* when they roll back.
OpBatch ==
    /\ pc \in {"batch_written", "batch_synced"} => op.batch # NoEntries
    /\ pc \in Staging => op.batch = NoEntries

\* Program points of compact_file after the relocated page was copied.
Copied ==
    {"compact_redundant_superblock_write", "compact_redundant_superblock_sync"}
        \cup Truncating

\* From then on both pages hold it.
PagesCopied == pc \in Copied => file[0] = op.dst /\ file[1] = op.dst

\* The end of the bytes a snapshot may have mapped: those of published commits.
PublishedEnd == IF pc = "idle" THEN flen ELSE op.end

\* A snapshot of the open handle: no compaction runs, the handle is readable,
\* and while it is writable what the snapshot maps lies before PublishedEnd.
SnapshotHeld(s) ==
    /\ pc \in {"idle", "batch_written", "batch_synced", "rollback"}
    /\ Available
    /\ BaseIntact(file, s.base)
    /\ \A o \in DOMAIN s.log : file[o] = s.log[o]
    /\ state = "Healthy" =>
           /\ s.base.off + s.base.size <= PublishedEnd
           /\ \A o \in DOMAIN s.log : o < PublishedEnd

SnapshotInv == \A s \in snaps : s.own => SnapshotHeld(s)

\* compact_file is about to write a Superblock page.
BeforePage ==
    {"compact_base_sync", "compact_relocation_sync", "compact_destination_superblock_sync"}

\* There both pages are on the medium, so a page write leaves one that is.
PageInv ==
    /\ OnePageInFlight
    /\ pc \in BeforePage => dur[0] = {file[0]} /\ dur[1] = {file[1]}
=============================================================================
