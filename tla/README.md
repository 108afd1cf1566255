# A TLA+ model of lkv

lkv is an embedded key-value store. A database is one file: two Superblock
pages, an immutable Base segment (a hash table with its records) and, behind
it, an append-only Overlay log of atomic batches. This directory holds
TLA+ modules for the parts of lkv that decide whether data survives, the
TLC configurations that check them on small instances, and TLAPS proofs of the
main results for every instance.

Paths below are relative to `src/`; line numbers refer to the sources there.
`PROJECT.json` maps every definition that models code to its lines.

## 1. The system

| part | source | state | operations | model |
|---|---|---|---|---|
| Superblock pages | `format/superblock.rs` | two pages: generation, Base range, log start, checksum | `write`, `write_redundant`, `read_latest_from` | `Image`, `Database` |
| Base segment | `format/segment.rs` | header, slots, records, block checksums | `write_base_with_metadata_at`, `validate_base`, `map` | `Image` (where it lies), `BaseRead` (its contents), `SegmentVerifier` |
| Overlay log | `format/log.rs` | batch records, compact markers | `append_batch`, `write_compact_marker`, parsing | `Image`, `OverlayIndex`, `Transaction` |
| Handle | `database/mod.rs` | storage, Base, index, `HandleState`, snapshot guard | open, begin_write, commit, snapshot, drop | `Database` |
| Compaction | `database/maintenance.rs` | the handle and the file | `compact`, `compact_file` | `Database` |
| Recovery | `database/recovery.rs` | the index under construction | `scan_overlay` | `Image`, `OverlayIndex` |
| Overlay index | `database/state.rs` | mapped table, tail, memory count, `Arc` | `install_tail`, `install_mapped`, lookup, iteration | `OverlayIndex` |
| Lazy verification | `database/state.rs` | bitmap, counter, two flags (all atomics) | `verify_range`, `verify_all`, `ActiveBase::verify` | `SegmentVerifier` |
| Creation, locking | `database/mod.rs` | directory entries, file lock | `create_database_file`, open, `Drop` | `Creation` |
| Reads | `database/view.rs`, `transaction.rs` | none of their own | `get`, iterators, `len` | `BaseRead` |
| Transactions | `database/transaction.rs` | staged mutations, cached checksums | `put`, `put_reserved`, `delete`, `commit`, `abort` | `Transaction` |
| In-memory storage | `database/storage.rs`, `maintenance.rs` | a byte vector | `commit_staged_memory`, `compact_memory` | `MemoryDatabase` |
| C API | `ffi.rs` | a lock per handle, write batches | the `lkv_*` functions | `CApi` |

How they interact. A commit appends one batch record, synchronizes it, and only
then enters it into the index. Readers look in the index first and in the
mapped Base second. `compact_file` writes the live entries as a *staging* Base
behind the file, publishes it with the next generation, moves the handle to it,
writes the same entries again at the front (the *relocated* Base), publishes
that with one more generation on both pages, and cuts the file. Open picks the
newest valid page, scans the log behind its Base and cuts whatever follows the
last complete batch. Snapshots share the handle's mappings and its index.

What makes it hard: a crash, a failing call or a power loss between any two of
these steps; bytes rewritten under a mapping; several readers that verify one
Base; several processes that create one path; an index that is split in two
and shared copy-on-write; C threads that share one handle and keep pointers into
it. The hazards in `PROJECT.json` give the lines.

## 2. The modules

**`Image`** is the file format as pure operators. A file is a function from
offsets to cells and a length. A Superblock page and a log record are one
cell each. A Base is one cell (header, table, footer) and one per live entry.
A page carries the contents of its Base where the code has a checksum,
so checksums never collide. `SuperValid`, `LatestPage`, `ScanEnd`,
`ScanAccepts` and `BaseIntact` are the conditions of `read_latest_from`,
`scan_overlay` and `ActiveBase::open`. `Recoverable` and `RecoveredMap` say
whether open succeeds and what it shows.

**`Database`** is one file and its handle. The values of `pc` are the code's
failpoints, so that an action is the code between two of them. Variables: the
visible file (`file`, `flen`), what may be on the medium (`dur`, `durLen`), the
handle (`state`, `base`, `overlay`), live snapshots, the running operation
(`pc`, `op`), and two ghosts: `acked`, the contents after the last commit that
returned Ok, and `maybe`, the contents that commits in doubt would give.

| actions | code |
|---|---|
| `CommitAppend`, `CommitSync`, `CommitPublish` | `commit_staged_with` |
| `Rollback` | `rollback_or_poison` |
| `CompactMark` ... `CompactRemap` (16 actions) | `compact`, `compact_file` |
| `Open`, `OpenSync`, `OpenRejected` | `open_with_options`, `load_storage_state` |
| `Close`, `TakeSnapshot`, `DropSnapshot` | `Drop`, `snapshot` |
| `Kill`, `PowerFail` | the environment |

The constant `Failures` says what may go wrong. `"io"`: any call on the file
returns an error after any part of its effect. `"kill"`: the process
dies; the page cache survives. `"power"`: the machine dies, and of the
unsynchronized writes, length changes included, any combination survives.

`Spec` lets an open follow any failure. `SyncedSpec` is `Spec` restricted to
behaviours in which an open finds a file that is on the medium: after a killed
process or a failed call the machine lost power, or the system wrote its pages
back, before the next open. `load_storage_state` synchronizes nothing unless it
cuts a tail, so it takes over whatever the page cache shows; section 4 says what
that costs.

**`AtomicStore`** is what a user is promised: a map that transactions change
atomically, in order, when acknowledged; a transaction in doubt appears whole or
not at all after a restart. `Database` implements it: `view` is what the handle
shows (a value of no map at all if its Base mapping is damaged), `pending` the
batch of the running commit.

**`DatabaseInv`** holds the inductive invariants: `TypeInv`, `CrashInv` for the visible
file, `MediumInv` for what a power loss may leave of it, and what snapshots,
Superblock pages and rollbacks need beside them.

**`SegmentVerifier`** is `SegmentVerifier` and `ActiveBase::verify` with one
step per atomic access, for any number of readers. The checksum of a block is
computed over immutable bytes and is part of the step that loaded the bit.

**`Creation`** is several processes that create and open one path. The directory
and its synchronized copy, file contents (blank, written, synced), the lock and
the loop over temporary names are modelled; hard link, remove and `try_lock`
are atomic, as on Unix.

**`OverlayIndex`** is `OverlayMap::Mapped` with byte offsets: operations of a
batch at the offsets `mapped_mutations` computes, the tail of owned entries,
promotion of the tail once `OVERLAY_MAPPING_THRESHOLD` bytes are unmapped,
the memory count with its two kinds of charge, `Arc::make_mut` on a heap of
indices, rebuilding on open, and clearing by compaction.

**`Transaction`** extends `OverlayIndex` with the staging area: `put`,
`put_reserved` and the writes of its callback, `delete`, `commit`, `abort`, the
limits on operations and payload, and the record header whose checksum
is put together from the checksums cached when long values were staged. A checksum
is the list of what went into it, so equal checksums mean equal bytes.

**`BaseRead`** extends `SegmentVerifier` with the bytes it guards: the builder
(hash index with linear probing, records, block checksums), `validate_base`,
and readers that look up, iterate, count and verify. Every check of a range
goes through the verifier's atomics. A cell is a header, a slot, the two
lengths of a record, a key or a part of a value. Any one cell may have
changed, after the checksums were taken or before. `UsesVerifier` says
that `BaseRead` implements `SegmentVerifier`, so the theorems about the latter
carry over.

**`MemoryDatabase`** is a database in memory: the commit that changes the index
entry by entry, compaction, the memory count, and `Arc`s as a
heap of maps, so that freeing and copying are visible.

**`CApi`** is threads that call `lkv_*` on one such database. A call takes the
`RwLock` for reading or writing, works in one or several steps and returns; a
panic anywhere under the lock is caught by `ffi_call` and poisons the lock if
the call was a writer. `borrowed` is the pointer of the last `get_ref`, with
whether its allocation is still there. `CApi` implements `AtomicStore` too: a
poisoned lock, like a closed handle, takes the store down.

| actions | code |
|---|---|
| `read_database`, `write_database`, `Return`, `Panic` | the functions of that name, `ffi_call` |
| `Get`, `GetRef`, `DatabaseLen`, `VisitEntry`, `VisitEnd`, `SnapshotCreate` | the bodies of the reading calls |
| `CommitRefused`, `CommitExtend`, `CommitApply` | `lkv_database_put`, `delete`, `commit_write_batch` over `commit_staged_memory` |
| `CompactEarly`, `Compact` | `lkv_database_compact` over `compact_memory` |
| `BatchInsert`, `BatchClear`, `SnapshotVisit`, `SnapshotGetRef`, `SnapshotClose`, `DatabaseClose` | the calls that take no lock |

The `MC` modules only name the
values of the constants. Definitions marked "a plausible slip" are mutated
versions of the definition below them. They are not part of the
specifications; each shows that a property notices the slip.

## 3. Runs

All configurations are named `<module>_<run>.cfg`.

| run | instance | checks | states |
|---|---|---|---|
| `process_crash` | 2 keys, 10 cells, I/O errors and kills | `TypeOK`, `RecoversCommitted`, `HandleMappingIntact`, `ImplementsAtomicStore` | 255 k |
| `repeated_compaction` | 1 key, 10 cells, 2 compactions, I/O errors and kills, fairness | `HealthyHandleAgrees`, `CompactedImage`, `RootPageKept`, `ReopenConverges` | 133 k |
| `power_loss` | 1 key, 7 cells, 2 snapshots, all failures, `SyncedSpec` | `SurvivesPowerLoss`, `SnapshotStable`, `OnePageInFlight` | 486 k |
| `base_reads` | 2 readers, one call each, 10 cells in 4 blocks (the last one short), any one cell damaged | the four invariants of the verifier, `LookupRight`, `NoFalseAlarm`, `PairsStored`, `IterationExact`, `TrustedWalk`, `BuilderAgrees`, `UsesVerifier` | 319 k |
| `creation` | 2 processes, 2 attempts, all failures | `TypeOK`, `PublishedReady`, `CreatedStays`, `OneOwner` | 194 k |
| `transactions` | 3 keys, 2 operations to a batch; a short, a long and a too long value; 12 bytes of log | `IndexMatchesLog`, `MemoryExact`, `OffsetsResolve`, `SnapshotIsolated`, `RecordsReadable`, `PublishesOwnReads` | 159 k |
| `c_api` | 2 threads, 2 keys, 1 snapshot, 8 cells, panics and failing allocations | `MemoryExact`, `ReadsCommitted`, `CopyWhole`, `VisitConsistent`, `BorrowsValid`, `NoCallStuck`, `BatchKept`, `ImplementsStore` | 643 k |
| `snapshot_lifetime` | 1 key, 1 snapshot, no failures | `SnapshotOutlivesHandle`: violated | |
| `unsynced_marker` | 1 key, power loss | `MarkerStopsRecovery`: violated | |
| `unsynced_root` | 1 key, kill and power loss | `RootSurvives`: violated | |
| `bare_name` | 1 process, no failures | `CreateOpens`: violated | |
| `unchecked_header` | as `base_reads` | `CheckedOnRead`: violated | |

Bounds. Seven cells hold both pages, an empty Base, one batch, a marker and a
staging Base of one entry. Ten are the smallest file in which two keys, a log
and a full compaction fit, and in which the staging Base sometimes must leave a
gap and sometimes does not fit; with one key, ten also hold a second compaction,
after a finished one and from the layout an abandoned one left. Generation 3 is
one compaction, 5 are two. Generations only matter by order and parity, so two
compactions meet both pages in both roles. `OverlayMemoryLimit` 0 or 1 makes the
limit bite. `MAX_ATTEMPTS` is 2 for the code's 16.

In `transactions` a long value alone crosses both thresholds, as a value of
1 MiB does in the code; a too long one fits no record; two long ones fit no
batch together; three keys can be staged where a batch takes two operations, so
both limits are passed as well as met. Twelve bytes of log hold several batches
around a promotion.

In `base_reads` a block is three cells and the Base ten, so records straddle
blocks and the last block is short. Either all keys share fingerprint and slot,
or an Overlay deletes one key and adds another. Any one cell may be damaged, to
any value of its kind. Each reader makes one call, of any kind, which meets
every stage of the other's. `BuilderAgrees` evaluates the Base builder and the
lookup on every Base of up to three entries.

In `c_api` eight cells hold a Base of one entry or two log records, so that commits
and the compaction of two entries meet `max_database_bytes`; `MaxGeneration` allows one compaction.
Values have two bytes and buffers room for one or two. There is one batch, one
snapshot and one borrowed pointer. A direct call writes one key or
deletes the other and a batch does the reverse, so each overtakes the other on
both keys.

Keys, values, processes, readers and threads are interchangeable where a run
declares them symmetric; the liveness run declares none.

Fairness. Only `repeated_compaction` needs it: weak fairness of `Open` and
`OpenSync`, a caller that keeps opening and a thread that is scheduled. Nothing
is assumed of commits or compactions. The process may die inside open, and the
sync there may fail, again and again: the property holds because the cut stays in
the file and the next open has nothing left to cut. `Open` stands for one that
reads the file without an error; weak fairness says that reads do not fail
forever.

Deadlock is checked in every run except `base_reads`, where a reader stops after
its one call.

## 4. What the violated runs show

1. `snapshot_lifetime`. `compact` counts the snapshots of its own handle
   (`maintenance.rs:23`). Take a snapshot, drop the handle, open the file again,
   commit, compact: the relocated Base is written and the file cut under the old
   snapshot's mapping. The documentation of `Database::snapshot` says that a
   snapshot may outlive the writer handle.
2. `unsynced_marker`. No sync separates the compact marker from the staging Base
   (`maintenance.rs:64-88`). A power loss can keep the new length and lose
   the marker; the scan then returns an error, where `docs/design.md:178`
   says that recovery stops at the marker.
3. `unsynced_root`. A process dies between writing the relocated Superblock and
   its sync. The next open follows that page and cuts the staging Base
   (`mod.rs:523`) before the page is synchronized. A power loss then can keep the
   cut and lose the page, and the other page points past the end of the file.
   `SurvivesPowerLoss` states what holds otherwise: as long as no open takes over
   writes that are not on the medium, a usable root survives every combination of
   failures. Batches have the same gap. With two keys: a commit of A fails in its sync, the
   rollback's cut is not synchronized either, a reopen accepts the file, commits B
   at the same place and is killed before its sync, a second reopen shows B from
   the page cache and commits C behind it; a power loss may then keep A's record
   where B was, and a later open shows A and C. This is why `SurvivesPowerLoss`
   is stated of `SyncedSpec`, and it is where `docs/design.md:185`, "A batch is
   appended and synchronized before it is considered visible", holds for a commit
   that returns but not for one that a reopen takes over.
4. `bare_name`. `Path::new("example.lkv").parent()` is `Some("")`, so
   `sync_directory` opens the empty path and fails, after `hard_link` has
   published the database (`mod.rs:582-609`, Unix). `create` returns an error for
   the path of its own documentation example.
5. `unchecked_header`. `options.rs:6` says that `VerificationMode::OnRead` checks
   record bounds and data blocks on first access. `lookup_segment` checks a record from
   its header on; the iterators take both lengths from the header and `verify_pair`
   (`view.rs:38`) checks only from the key on. A header whose lengths were damaged, in
   a block that no other read has checked, yields a pair that was never stored.
   `PairsStored`, which holds, is about the other records: no damage elsewhere makes a
   pair up.

## 5. Proofs

| theorem | module | assumes | states |
|---|---|---|---|
| `TypeCorrect` | `Database_proofs` | constants only | `Spec => []TypeOK`, with every kind of failure |
| `PagesOneAtATime` | `Database_proofs` | constants only | `Spec => []OnePageInFlight`, with every kind of failure |
| `CrashSafe` | `Crash_proofs` | no power loss | `Spec => []RecoversCommitted` |
| `PowerLossSafe` | `Crash_proofs` | constants only | `SyncedSpec => []SurvivesPowerLoss`, with every kind of failure |
| `PageCacheIsFile` | `Crash_proofs` | no power loss | `Spec => SyncedSpec` |
| `MappingSafe` | `Crash_proofs` | constants only | `SyncedSpec => []HandleMappingIntact` (*) |
| `HandleAgrees` | `Crash_proofs` | constants only | `SyncedSpec => []HealthyHandleAgrees` (*) |
| `RootPageSafe` | `Crash_proofs` | no power loss | `Spec => RootPageKept`, an action property |
| `CompactionMinimal` | `Crash_proofs` | constants only | `SyncedSpec => CompactedImage`, an action property (*) |
| `SnapshotsHold` | `Crash_proofs` | constants only | `SyncedSpec => []SnapshotStable` (*) |
| `StoreIsAtomic` | `Crash_proofs` | constants only | `SyncedSpec => ImplementsAtomicStore`: `Database` refines `AtomicStore` (*) |
| `VerifierTypeCorrect`, `OkRangeSound`, `OkVerifySound`, `ShortCutSound` | `SegmentVerifier_proofs` | constants only | the four invariants of `SegmentVerifier` |
| `CreationTypes`, `PathReady`, `CreatedForGood`, `SingleOwner` | `Creation_proofs` | constants only | the four invariants of `Creation`, with every kind of failure |
| `ReadersSeeCommitted`, `CopiesAreWhole`, `VisitsConsistent`, `PointersValid` | `CApi_proofs` | constants only | `[]ReadsCommitted`, `[]CopyWhole`, `[]VisitConsistent`, `[]BorrowsValid` of `CApi` |
| `BatchOnce` | `CApi_proofs` | constants only | `CSpec => BatchKept`, an action property |
| `LockedStoreIsAtomic` | `CApi_proofs` | constants only | `CSpec => ImplementsStore`: `CApi` refines `AtomicStore` |

(*) and the same of `Spec` if there is no power loss, by `PageCacheIsFile`.

They hold for any finite set of keys, any values, file limit, memory limit,
generation bound and number of snapshots; for any number of readers and blocks;
for any set of processes and files; for any set of threads and finite set of
snapshots.

The assumptions on constants are `ImageAssumption`, `DatabaseAssumption`,
`VerifierAssumption`, `CreationAssumption`, `MemoryAssumption` and
`CApiAssumption`; TLC evaluates each in the runs of its module. They say that bounds are
numbers, that markers such as `Absent`, `Down` and `NoOne` are none of the values
they stand apart from, and that keys and snapshots are finitely many. "No
power loss" is `"power" \notin Failures`, a hypothesis of the theorem: I/O
errors and kills stay. `SyncedSpec` is the weaker hypothesis: power losses stay
too, and only opens of a file with unsynchronized writes are left out. Section 4
shows what fails without either.

**The file.** The argument is spread over five modules: `Database_proofs` (lemmas
about the format, `TypeInv`, `PageInv` and the file operations), on it
`CrashFile_proofs` (what a write, a cut or a sync does to a root, its log and the
medium), on that `CrashStaging_proofs` (commits, rollback, the marker, the
staging Base; what snapshots and readers see of each step) and
`CrashRelocate_proofs` (the new root is published, the front is rewritten and the root
moves back), and over both `Crash_proofs` (open, close, crashes, and the
theorems). The lemmas about the format say which page `LatestPage` picks, that the
log scan ends where `Accepted` says, and how appending a batch or a marker,
cutting the file or writing elsewhere changes what recovery reads.

`TypeOK` is not inductive: that a write stays within `MaxDatabaseBytes` depends
on the layout fixed steps earlier. `TypeInv` adds `LayoutBounds` (the relocated
Base and its marker end before the staging Base, which ends within the limit).

`OnePageInFlight` needs to know when a page write begins: `PageInv` adds that
before each of the three, both pages are on the medium.

`RecoversCommitted` is not inductive either: it says nothing of why the next
step keeps the file recoverable. `CrashInv` describes the file at every program
point: which page is the root (`Root`), that the handle's index is that of the
log (`Attached`), what lies behind the log while the operation can still be
undone (`UndoableTail`), and that both new Superblocks carry the acknowledged
contents (`Carried`). The proof has one lemma per group of actions. The
delicate steps are the switch, where two roots are whole, and
`GiveUpRelocation`, after which the handle is Healthy on the staging
Base while the front of the file is half rewritten.

With power losses `CrashInv` cannot say that the next open succeeds: an open of what
a power loss left may be refused (`unsynced_marker`). For a closed file it says
`ImageOK` instead: there is a root, and an open that succeeds finds admissible
contents. For that to follow from `PowerFail`, every image that
the unsynchronized writes can leave has to be `ImageOK` already before it:
`SurvivorsOK`. This is not inductive either, because whether the next write
endangers a survivor depends on what is on the medium. `MediumInv` says so per
program point: right after a sync everything is (`Durable`); for a handle that
takes writes, the pages and everything from its Base on (`SyncedFrom`: an
abandoned relocation may have left the front of the file half on the medium);
while an operation can be undone, the root and its log, and behind them at most the batch
of the running commit, as the last record (`LogOnMedium`). The two images that matter
are those of a torn log (`LogImages`: a root and a log on the medium, anything behind)
and of a torn page (`PageMedium`: two roots, either of which is whole with all
that it points to). `Open` is where the hypothesis of `SyncedSpec` is used, and
nowhere else: without it an open cuts the file on the word of a page that is not on
the medium, or a commit appends behind a batch that is not.

`RootPageSafe` and `CompactionMinimal` follow from `CrashInv` step by step; the second
also needs `PagesCopied`, that both pages are equal from the redundant copy on.
`SnapshotsHold` rests on `SnapshotInv`: a snapshot of the open handle excludes a
compaction, and what it maps lies before the end of the published log, so that
neither an append nor a rollback reaches it.

For `StoreIsAtomic`, `CrashInv` makes what an available handle shows the acknowledged
contents, so `CommitAppend` is the store's `Submit`, `CommitPublish` its `Ack`, a
rollback its `Fail`, the end of the process or of the handle its `GoDown`, and opening
its `Recover`, with `acked` or an element of `maybe`. A compaction changes nothing
that the store sees until it loses the handle. `OpBatch` tells a commit that is
rolled back from a compaction that is.

**The verifier.** `VerifierInv` ties the counter to the bitmap: unverified blocks plus
the decrements that readers still owe. From it follow both that the counter never
wraps and that the short cut opens only when every block was checked.

**Creation.** `CreationInv` says for every program point of `create` and `open` which
file the process holds, whether it still is private to it, whether its content was
synchronized before `hard_link`, and whose name the directory and its synchronized
copy have. `OneOwner` needs all of it: a process may pass the lock only on the
file that the path names.

**The C API.** `CApiInv` has a part per thread, `ThreadInv`
(`Guarded`: a call inside the database holds the lock it needs; `HalfApplied`: what is
visible of a batch and what is still to be applied make up the batch; `VisitOK`
and `ReadOK`: answers so far come from committed contents), and a part for the
whole (`Exclusive`: the lock's own rule; `OneEach`: one call per batch and per
snapshot; `Settled`: with no writer inside, what is shown is what was
committed, unless the lock is poisoned; `Borrowing`: a borrowed pointer belongs to a
snapshot or handle that is there). Entering, leaving, panics, the steps inside a
call and the calls without a lock keep it, a lemma for each. A thread that panics while half a batch is applied
is the delicate case: `Settled` is lost for good, and only the poisoned lock keeps
`ReadsCommitted` true. `BatchOnce` adds `Emptied`: a commit of the batch that has
returned Ok left it empty. In the refinement that panic is `GoDown`, `CommitExtend` is
`Submit`, and the `Return` of a commit is `Ack`.

Only model-checked, and why:

- `ReopenConverges`, `NoCallStuck`: liveness and `ENABLED` are outside the prover's
  reach.
- `MemoryExact` (both), `IndexMatchesLog`, `OffsetsResolve`, `SnapshotIsolated`,
  `RecordsReadable`, `PublishesOwnReads`: offsets, sizes and charges are sums
  over sets and folds over sequences, and what a fold computes needs an induction
  that the installed provers cannot do. The same property of snapshots is proved where
  it does not depend on offsets: `SnapshotsHold` and `PointersValid`.
- `LookupRight`, `NoFalseAlarm`, `PairsStored`, `IterationExact`, `TrustedWalk`,
  `BuilderAgrees`, `UsesVerifier` of `BaseRead`: they depend on the hash table the
  builder folds together.

## 6. Assumptions and abstractions

- Log records are one cell, a partly written one is `Short`; a Base takes one
  cell more than it has entries. Sizes matter only through capacity and overlap.
- `TornBase` follows the order of `write_base_with_metadata_at`: records first,
  header and table last.
- A failed sync leaves the pages dirty; nothing is assumed written.
- `Database` uses `VerificationMode::Full`; options do not change across opens;
  the Overlay memory is one unit per entry (exact charges: `OverlayIndex`).
- Errors of pure reads change nothing and are left out; the `verify` at the
  start of `compact` is the guard `BaseIntact`. A failing `detached_base` is
  the case of `CompactRelocate` that leaves the file unchanged.
- The atomics of `SegmentVerifier` interleave sequentially consistently.
- `BaseRead` fixes the Overlay: `commit` and `compact` take the handle
  exclusively, so neither runs beside a reader. At most one cell differs
  from what was written, and a block's checksum detects it.
- With `VerificationMode::OnRead` an iteration checks a pair from its key to its
  value (`view.rs:38`), not the record's header with the two lengths. `PairsStored`
  therefore requires the headers to be whole, and `CheckedOnRead` shows what
  happens otherwise (section 4); `LookupRight` needs no such proviso.
- `Transaction` writes one record per commit and leaves out I/O errors, which
  `Database` has.
- `CApi` assumes what the `SAFETY` comments of `ffi.rs` rely on, pointers that are
  valid and a handle that is closed only when no call uses it, and that a visitor
  does not call back into its database, on which `lkv.h` is silent. The order in which the read-write lock of the standard library admits
  waiting threads is arbitrary. `get_stats`, `sync` and `verify` take the same
  path as `len`. NULL checks and error texts are left out.
- At `overlay_memory_limit` a write is refused until a compaction, and at
  `max_database_bytes` a compaction is refused: a handle at both limits can only
  be read. The code promises nothing else, so this is no property.

## 7. Not modelled

- CRC arithmetic and the byte encodings of records, pages and options: data. A
  cell is whole or it is not.
- Cursor, read, write and seek of `MemoryStorage` and `OffsetBuffer`: byte copies
  without control of their own. What the memory backend does with them is in
  `MemoryDatabase`.
- `lkv_database_open` and `lkv_database_create` on files: they call
  `Database::open` and `create`, which `Database` and `Creation` model. `CApi` has
  the memory database, where the locks, borrows and batches are the same.
- Option decoding, marshalling and the texts of `LAST_ERROR` in the C API.
- `create_dir_all` for the parent directories of a new database.
- Options and errors (plain values), benches and fuzz targets.
- A visitor that calls a writing function of the same database waits for a lock
  its own thread holds (`ffi.rs:676`). `CApi` assumes that visitors do not.
