----------------------------- MODULE Database -----------------------------
(***************************************************************************)
(* One file database: opening, committing, compacting and crashing         *)
(* (lkv/src/database/{mod,maintenance,recovery}.rs).                       *)
(*                                                                         *)
(* Each action is one piece of an operation between two points where a     *)
(* crash can be told apart: the program points of the code's failpoints    *)
(* are the values of pc.  An operation takes &mut Database, so at most one *)
(* runs at a time.  Every call to the file may fail; the action then takes *)
(* the code's error path.                                                  *)
(***************************************************************************)
EXTENDS Image

CONSTANTS
    Down,               \* "nothing to read": the database is not open
    Failures,           \* which failures happen: see FailureKinds
    OverlayMemoryLimit, \* DatabaseOptions.overlay_memory_limit, one unit per entry
    MaxGeneration,      \* bound: no compaction starts that would pass it
    MaxSnapshots        \* bound: snapshots alive at once

\* "io": a call on the file returns an error; "kill": the process dies;
\* "power": the machine dies, and unsynchronized writes survive or not, in
\* any combination.
FailureKinds == {"io", "kill", "power"}

ASSUME DatabaseAssumption ==
    /\ Failures \subseteq FailureKinds
    /\ OverlayMemoryLimit \in Nat
    /\ MaxGeneration \in Nat
    /\ MaxSnapshots \in Nat
    /\ Down \notin Map

VARIABLES
    file,       \* the cells a read or a mapping of the file shows
    flen,       \* the file length
    dur,        \* for each offset the cells a power loss may leave there
    durLen,     \* the lengths a power loss may leave
    state,      \* HandleState, or "Closed" and "Opening" when there is no handle
    base,       \* Database.base: the ActiveBase, as its Superblock
    overlay,    \* Database.overlay: the index, as key -> mutation
    snaps,      \* live snapshots
    pc,         \* program point of the running operation, "idle" if none runs
    op,         \* locals of the running operation
    acked,      \* ghost: contents after the last commit that returned Ok
    maybe       \* ghost: contents that commits in doubt would have given

disk == <<file, flen, dur, durLen>>
handle == <<state, base, overlay>>
ghost == <<acked, maybe>>
vars == <<file, flen, dur, durLen, state, base, overlay, snaps, pc, op, acked, maybe>>

-----------------------------------------------------------------------------
(* The file.                                                               *)

Power == "power" \in Failures

\* What may be on the medium after c is written over what may be there now.
Persisted(old, c) == IF Power THEN old \cup {c, Garbage} ELSE {c}

Longer(n) == IF n > flen THEN n ELSE flen

\* write_all of the cells w (a function on offsets), the last of which ends
\* at end.  Skipped offsets beyond the old end are holes.
WriteCells(w, end) ==
    /\ file' = [o \in Offsets |-> IF o \in DOMAIN w THEN w[o] ELSE file[o]]
    /\ flen' = Longer(end)
    /\ dur' = [o \in Offsets |->
                IF o \in DOMAIN w THEN Persisted(dur[o], w[o]) ELSE dur[o]]
    /\ durLen' = IF Power THEN durLen \cup (flen .. flen') ELSE {flen'}

WriteCell(o, c) == WriteCells([x \in {o} |-> c], o + 1)

\* A record or page write that failed part way: torn is what a partly
\* written cell reads as.
TornCell(o, c, torn) ==
    \/ UNCHANGED disk
    \/ WriteCell(o, torn)
    \/ WriteCell(o, c)

\* A write of the Base w of size cells at off that failed part way: the
\* records go out in order, the header, table and footer (the first cell) last;
\* the cell it stopped at is written, or torn.
TornBase(w, off, size) ==
    \/ UNCHANGED disk
    \/ \E j \in 1 .. size :
           LET hit == IF j = size THEN off ELSE off + j
               end == IF j = size THEN off + size ELSE off + j + 1
           IN  \E c \in {Garbage, w[hit]} :
                   WriteCells([o \in ((off + 1) .. (off + j - 1)) \cup {hit} |->
                                  IF o = hit THEN c ELSE w[o]], end)

\* sync_data and sync_all.
Sync ==
    /\ dur' = [o \in Offsets |-> {file[o]}]
    /\ durLen' = {flen}
    /\ UNCHANGED <<file, flen>>

\* set_len(n) with n <= flen.
SetLen(n) ==
    /\ file' = [o \in Offsets |-> IF o >= n THEN Garbage ELSE file[o]]
    /\ flen' = n
    /\ dur' = [o \in Offsets |->
                IF o >= n THEN Persisted(dur[o], Garbage) ELSE dur[o]]
    /\ durLen' = IF Power THEN durLen \cup {n} ELSE {n}

\* set_len(n) followed by a successful sync.
SetLenSynced(n) ==
    /\ file' = [o \in Offsets |-> IF o >= n THEN Garbage ELSE file[o]]
    /\ flen' = n
    /\ dur' = [o \in Offsets |-> {file'[o]}]
    /\ durLen' = {n}

IOError == "io" \in Failures

\* What the file shows is on the medium.
Durable == (\A o \in Offsets : dur[o] = {file[o]}) /\ durLen = {flen}

-----------------------------------------------------------------------------
(* The handle.                                                             *)

NoPage == Superblock(0, 0, 0, 0, EmptyMap)

NoOp == [end |-> 0, batch |-> NoEntries, src |-> NoPage, dst |-> NoPage]

\* detached_base: an empty Base in memory, so that no mapping is left.
Detached(gen) ==
    Superblock(gen, DATA_START, EMPTY_SEGMENT_SIZE,
               DATA_START + EMPTY_SEGMENT_SIZE, EmptyMap)

\* ensure_available.
Available == state \in {"Healthy", "WritePoisoned"}

\* ensure_writable, for an operation about to start.
Writable == pc = "idle" /\ state = "Healthy"

\* What the handle's reads return while its Base mapping is whole.
View == Apply(base.sum, overlay)

OverlayMemory == Cardinality(DOMAIN overlay)

Goto(label) == pc' = label /\ UNCHANGED op

Return == pc' = "idle" /\ op' = NoOp

\* The handle poisons itself and the operation returns its error.
PoisonAndReturn ==
    /\ Return
    /\ state' = "WritePoisoned"
    /\ UNCHANGED <<base, overlay, snaps, ghost>>

Step(label) == Goto(label) /\ UNCHANGED <<handle, snaps, ghost>>

-----------------------------------------------------------------------------
(* commit_staged_with.                                                     *)

\* Up to and including append: begin_write's limit, ensure_capacity, then
\* one batch record at the end of the file.
CommitAppend(b) ==
    /\ Writable
    /\ OverlayMemory <= OverlayMemoryLimit
    /\ flen + BATCH_RECORD_SIZE <= MaxDatabaseBytes
    /\ op' = [NoOp EXCEPT !.end = flen, !.batch = b]
    /\ maybe' = maybe \cup {Apply(View, b)}
    /\ \/ WriteCell(flen, BatchRecord(b)) /\ pc' = "batch_written"
       \/ IOError /\ TornCell(flen, BatchRecord(b), Short) /\ pc' = "rollback"
    /\ UNCHANGED <<handle, snaps, acked>>

\* A plausible slip: the record is not synchronized before it is published.
CommitSyncSkipped == pc = "batch_written" /\ UNCHANGED disk /\ Step("batch_synced")

CommitSync ==
    /\ pc = "batch_written"
    /\ \/ Sync /\ Step("batch_synced")
       \/ IOError /\ UNCHANGED disk /\ Step("rollback")

\* A plausible slip: the new batch replaces the index.
CommitPublishReplaces ==
    /\ pc = "batch_synced"
    /\ overlay' = op.batch
    /\ acked' = Apply(View, op.batch)
    /\ maybe' = {}
    /\ Return
    /\ UNCHANGED <<disk, snaps, state, base>>

\* The new length is read, the log mapped again if it grew enough, and the
\* mutations enter the Overlay.
CommitPublish ==
    /\ pc = "batch_synced"
    /\ UNCHANGED <<disk, snaps>>
    /\ \/ /\ overlay' = Shadow(overlay, op.batch)
          /\ acked' = Apply(View, op.batch)
          /\ maybe' = {}
          /\ Return
          /\ UNCHANGED <<state, base>>
       \/ IOError /\ Goto("rollback") /\ UNCHANGED <<handle, ghost>>

\* rollback_or_poison.
Rollback ==
    /\ pc = "rollback"
    /\ PoisonAndReturn
    /\ \/ SetLenSynced(op.end)
       \/ IOError /\ SetLen(op.end)
       \/ IOError /\ UNCHANGED disk

-----------------------------------------------------------------------------
(* compact and compact_file.                                               *)

\* A plausible slip: the staging Base right behind the marker.
SourceOffsetNoGap(end, dstEnd) == end + LOG_HEADER_SIZE

\* Where the staging Base goes: behind the current file and its marker, and
\* behind the relocated Base and its marker.
SourceOffset(end, dstEnd) ==
    IF end >= dstEnd THEN end + LOG_HEADER_SIZE ELSE dstEnd + LOG_HEADER_SIZE

StagingPage ==
    LET size == BaseSize(View)
        src == SourceOffset(flen, DATA_START + size)
    IN  Superblock(base.gen + 1, src, size, src + size, View)

RelocatedPage ==
    LET size == BaseSize(View)
    IN  Superblock(base.gen + 2, DATA_START, size, DATA_START + size, View)

\* The image is already one Base at the front with nothing behind it.
AlreadyCompact ==
    /\ base.off = DATA_START
    /\ overlay = NoEntries
    /\ flen = base.log

\* A plausible slip: snapshots do not stop a compaction.
SnapshotGuardIgnored == TRUE

\* The snapshot guard: no snapshot of this handle is alive.
SnapshotGuardFree == \A s \in snaps : ~s.own

\* A plausible slip: room for the staging Base, but not for the marker and gap.
StagingFitsBaseOnly == flen + BaseSize(View) <= MaxDatabaseBytes

\* ensure_capacity for marker, gap and staging Base.
StagingFits == StagingPage.log <= MaxDatabaseBytes

\* compact's checks, the layout, ensure_capacity, and the marker that closes
\* the old log.
CompactMark ==
    /\ Writable
    /\ SnapshotGuardFree
    /\ BaseIntact(file, base)
    /\ ~AlreadyCompact
    /\ base.gen + 2 <= MaxGeneration
    /\ StagingFits
    /\ op' = [NoOp EXCEPT !.end = flen, !.src = StagingPage, !.dst = RelocatedPage]
    /\ \/ WriteCell(flen, CompactMarker) /\ pc' = "compact_marker_write"
       \/ IOError /\ TornCell(flen, CompactMarker, Short) /\ pc' = "rollback"
    /\ UNCHANGED <<handle, snaps, ghost>>

CompactStage ==
    /\ pc = "compact_marker_write"
    /\ LET cells == BaseCells(op.src.off, op.src.sum)
       IN  \/ WriteCells(cells, op.src.log) /\ Step("compact_base_write")
           \/ IOError /\ TornBase(cells, op.src.off, op.src.size) /\ Step("rollback")

\* A plausible slip: the Superblock is written over an unsynchronized Base.
CompactStageSyncSkipped ==
    pc = "compact_base_write" /\ UNCHANGED disk /\ Step("compact_base_sync")

CompactStageSync ==
    /\ pc = "compact_base_write"
    /\ \/ Sync /\ Step("compact_base_sync")
       \/ IOError /\ UNCHANGED disk /\ Step("rollback")

\* The staging generation is published; from here on errors cannot be
\* rolled back.
CompactPublish ==
    /\ pc = "compact_base_sync"
    /\ \/ WriteCell(Slot(op.src.gen), op.src) /\ Step("compact_superblock_write")
       \/ IOError /\ TornCell(Slot(op.src.gen), op.src, Garbage) /\ PoisonAndReturn

CompactPublishSync ==
    /\ pc = "compact_superblock_write"
    /\ \/ Sync /\ Step("compact_superblock_sync")
       \/ IOError /\ UNCHANGED disk /\ PoisonAndReturn

\* A plausible slip: the handle stays on the old Base while it is rewritten.
CompactInstallLate ==
    pc = "compact_superblock_sync" /\ UNCHANGED disk /\ Step("compact_installed")

\* install_superblock: the handle moves to the staging Base.
CompactInstall ==
    /\ pc = "compact_superblock_sync"
    /\ UNCHANGED disk
    /\ \/ /\ base' = op.src
          /\ overlay' = NoEntries
          /\ Goto("compact_installed")
          /\ UNCHANGED <<state, snaps, ghost>>
       \/ IOError /\ PoisonAndReturn

\* An error while the front is rewritten leaves the handle on the staging
\* Base and Healthy.
GiveUpRelocation == Return /\ UNCHANGED <<handle, snaps, ghost>>

CompactRelocate ==
    /\ pc = "compact_installed"
    /\ LET cells == BaseCells(DATA_START, op.dst.sum)
       IN  \/ WriteCells(cells, op.dst.log) /\ Step("compact_destination_base_write")
           \/ IOError /\ TornBase(cells, DATA_START, op.dst.size) /\ GiveUpRelocation

CompactRelocateMark ==
    /\ pc = "compact_destination_base_write"
    /\ \/ WriteCell(op.dst.log, CompactMarker) /\ Step("compact_relocation_marker_write")
       \/ IOError /\ TornCell(op.dst.log, CompactMarker, Garbage) /\ GiveUpRelocation

CompactRelocateSync ==
    /\ pc = "compact_relocation_marker_write"
    /\ \/ Sync /\ Step("compact_relocation_sync")
       \/ IOError /\ UNCHANGED disk /\ GiveUpRelocation

\* A plausible slip: a failed page write leaves the handle Healthy.
CompactSwitchForgiven ==
    /\ pc = "compact_relocation_sync"
    /\ \/ WriteCell(Slot(op.dst.gen), op.dst)
          /\ Step("compact_destination_superblock_write")
       \/ IOError /\ TornCell(Slot(op.dst.gen), op.dst, Garbage) /\ GiveUpRelocation

\* The relocated generation is published, then copied to the other page.
CompactSwitch ==
    /\ pc = "compact_relocation_sync"
    /\ \/ WriteCell(Slot(op.dst.gen), op.dst)
          /\ Step("compact_destination_superblock_write")
       \/ IOError /\ TornCell(Slot(op.dst.gen), op.dst, Garbage) /\ PoisonAndReturn

\* A plausible slip: the copy is written before the first page is durable.
CompactSwitchSyncSkipped ==
    /\ pc = "compact_destination_superblock_write"
    /\ UNCHANGED disk
    /\ Step("compact_destination_superblock_sync")

CompactSwitchSync ==
    /\ pc = "compact_destination_superblock_write"
    /\ \/ Sync /\ Step("compact_destination_superblock_sync")
       \/ IOError /\ UNCHANGED disk /\ PoisonAndReturn

\* A plausible slip: the other page keeps the staging generation.
CompactCopySkipped ==
    /\ pc = "compact_destination_superblock_sync"
    /\ UNCHANGED disk
    /\ Step("compact_redundant_superblock_write")

CompactCopy ==
    /\ pc = "compact_destination_superblock_sync"
    /\ \/ WriteCell(RedundantSlot(op.dst.gen), op.dst)
          /\ Step("compact_redundant_superblock_write")
       \/ /\ IOError
          /\ TornCell(RedundantSlot(op.dst.gen), op.dst, Garbage)
          /\ PoisonAndReturn

CompactCopySync ==
    /\ pc = "compact_redundant_superblock_write"
    /\ \/ Sync /\ Step("compact_redundant_superblock_sync")
       \/ IOError /\ UNCHANGED disk /\ PoisonAndReturn

\* The mapping is let go and the file cut behind the relocated Base.
CompactTruncate ==
    /\ pc = "compact_redundant_superblock_sync"
    /\ state' = "Unavailable"
    /\ base' = Detached(op.dst.gen)
    /\ \/ SetLen(op.dst.log) /\ Goto("compact_truncate")
       \/ IOError /\ UNCHANGED disk /\ Return
    /\ UNCHANGED <<overlay, snaps, ghost>>

CompactTruncateSync ==
    /\ pc = "compact_truncate"
    /\ \/ Sync /\ Step("compact_truncate_sync")
       \/ IOError /\ UNCHANGED <<disk, handle, snaps, ghost>> /\ Return

CompactRemap ==
    /\ pc = "compact_truncate_sync"
    /\ Return
    /\ \/ state' = "Healthy" /\ base' = op.dst
       \/ IOError /\ UNCHANGED <<state, base>>
    /\ UNCHANGED <<disk, overlay, snaps, ghost>>

-----------------------------------------------------------------------------
(* Opening and losing a handle.                                            *)

\* An open that found the file fully synchronized settles what was in doubt.
Settle ==
    IF Durable'
    THEN acked' = Apply(base'.sum, overlay') /\ maybe' = {}
    ELSE UNCHANGED ghost

\* open_with_options up to the end of load_storage_state when the log runs to
\* the end of the file; otherwise up to the set_len that drops the tail.
Open ==
    /\ state = "Closed"
    /\ Recoverable(file, flen)
    /\ LET s == read_latest_from(file, flen)
           e == ScanEnd(file, flen, s.log)
       IN  /\ base' = s
           /\ overlay' = ScannedOverlay(file, s.log, e)
           /\ \/ /\ e = flen
                 /\ state' = "Healthy"
                 /\ UNCHANGED <<disk, pc>>
                 /\ Settle
              \/ /\ e < flen
                 /\ state' = "Opening"
                 /\ pc' = "open_truncate"
                 /\ SetLen(e)
                 /\ UNCHANGED ghost
    /\ UNCHANGED <<snaps, op>>

\* There is no handle: what the next open reads does not depend on one.
NoHandle ==
    /\ state' = "Closed"
    /\ base' = NoPage
    /\ overlay' = NoEntries
    /\ Return

\* The sync behind that set_len, and the new mappings.
OpenSync ==
    /\ pc = "open_truncate"
    /\ \/ /\ Sync
          /\ state' = "Healthy"
          /\ UNCHANGED <<base, overlay>>
          /\ Return
          /\ Settle
       \/ IOError /\ UNCHANGED <<disk, ghost>> /\ NoHandle
    /\ UNCHANGED snaps

\* open returns an error and changes nothing.
OpenRejected ==
    /\ state = "Closed"
    /\ ~Recoverable(file, flen)
    /\ UNCHANGED vars

\* Drop for Database: the lock is released, snapshots live on.
Close ==
    /\ pc = "idle"
    /\ state # "Closed"
    /\ NoHandle
    /\ snaps' = {[s EXCEPT !.own = FALSE] : s \in snaps}
    /\ UNCHANGED <<disk, ghost>>

\* The process dies at any point; the page cache survives it.
Kill ==
    /\ "kill" \in Failures
    /\ state # "Closed"
    /\ NoHandle
    /\ snaps' = {}
    /\ UNCHANGED <<disk, ghost>>

Unsynced(n) == {o \in Offsets : o < n /\ dur[o] # {file[o]}}

\* What a power loss may leave in the unsynchronized cells of a file that
\* survives with length n; its last record may have lost its tail.
Survivors(n) ==
    LET cut == IF n - 1 \in Unsynced(n) THEN {Short} ELSE {}
    IN  {g \in [Unsynced(n) -> cut \cup UNION {dur[o] : o \in Unsynced(n)}] :
            \A o \in Unsynced(n) : g[o] \in dur[o] \/ (o = n - 1 /\ g[o] \in cut)}

AfterPowerLoss(n, g) ==
    [o \in Offsets |->
        IF o >= n THEN Garbage ELSE IF o \in DOMAIN g THEN g[o] ELSE file[o]]

\* The machine dies: of the unsynchronized writes any subset is on the medium.
PowerFail ==
    /\ Power
    /\ NoHandle
    /\ snaps' = {}
    /\ flen' \in durLen
    /\ \E g \in Survivors(flen') : file' = AfterPowerLoss(flen', g)
    /\ dur' = [o \in Offsets |-> {file'[o]}]
    /\ durLen' = {flen'}
    /\ UNCHANGED ghost

-----------------------------------------------------------------------------
(* Snapshots.                                                              *)

\* Database::snapshot clones the mappings of the Base and of the log, and the
\* guard; own says that the guard is still the open handle's.
TakeSnapshot ==
    /\ pc = "idle"
    /\ Available
    /\ \E id \in (1 .. MaxSnapshots) \ {s.id : s \in snaps} :
           snaps' = snaps \cup
               {[id |-> id, own |-> TRUE, base |-> base,
                 log |-> [o \in base.log .. (flen - 1) |-> file[o]]]}
    /\ UNCHANGED <<disk, handle, pc, op, ghost>>

DropSnapshot ==
    /\ \E s \in snaps : snaps' = snaps \ {s}
    /\ UNCHANGED <<disk, handle, pc, op, ghost>>

-----------------------------------------------------------------------------

\* A file fresh from create_database_file, opened.
Init ==
    LET page == Superblock(1, DATA_START, EMPTY_SEGMENT_SIZE,
                           DATA_START + EMPTY_SEGMENT_SIZE, EmptyMap)
    IN  /\ file = [o \in Offsets |->
                     IF o = Slot(1) THEN page
                     ELSE IF o = DATA_START THEN BaseCell(DATA_START, EmptyMap, 0)
                     ELSE Garbage]
        /\ flen = DATA_START + EMPTY_SEGMENT_SIZE
        /\ dur = [o \in Offsets |-> {file[o]}]
        /\ durLen = {flen}
        /\ state = "Healthy"
        /\ base = page
        /\ overlay = NoEntries
        /\ snaps = {}
        /\ pc = "idle"
        /\ op = NoOp
        /\ acked = EmptyMap
        /\ maybe = {}

Commit == (\E b \in Batch : CommitAppend(b)) \/ CommitSync \/ CommitPublish

Compact ==
    \/ CompactMark \/ CompactStage \/ CompactStageSync
    \/ CompactPublish \/ CompactPublishSync \/ CompactInstall
    \/ CompactRelocate \/ CompactRelocateMark \/ CompactRelocateSync
    \/ CompactSwitch \/ CompactSwitchSync \/ CompactCopy \/ CompactCopySync
    \/ CompactTruncate \/ CompactTruncateSync \/ CompactRemap

OtherSteps ==
    \/ Commit \/ Rollback \/ Compact
    \/ OpenSync \/ OpenRejected \/ Close \/ Kill \/ PowerFail
    \/ TakeSnapshot \/ DropSnapshot

Next == Open \/ OtherSteps

Spec == Init /\ [][Next]_vars

\* The behaviours in which no open takes over writes that a killed process, or
\* one that was told of an error, left unsynchronized: the machine lost power in
\* between, or the system wrote them back.
SyncedNext ==
    \/ Durable /\ Open
    \/ OtherSteps

SyncedSpec == Init /\ [][SyncedNext]_vars

\* A caller that keeps calling open, and an open that runs to its end.
Fairness == WF_vars(Open) /\ WF_vars(OpenSync)

FairSpec == Spec /\ Fairness

-----------------------------------------------------------------------------
(* Properties.                                                             *)

ProgramPoints ==
    {"idle", "batch_written", "batch_synced", "rollback", "open_truncate",
     "compact_marker_write", "compact_base_write", "compact_base_sync",
     "compact_superblock_write", "compact_superblock_sync", "compact_installed",
     "compact_destination_base_write", "compact_relocation_marker_write",
     "compact_relocation_sync", "compact_destination_superblock_write",
     "compact_destination_superblock_sync", "compact_redundant_superblock_write",
     "compact_redundant_superblock_sync", "compact_truncate",
     "compact_truncate_sync"}

\* A piece of the file, as a snapshot maps it.
LogImage == UNION {[D -> Cell] : D \in SUBSET Offsets}

\* Every variable has its type; the file stays within max_database_bytes at
\* every step of every operation, the doubled image of a compaction included.
TypeOK ==
    /\ file \in [Offsets -> Cell]
    /\ flen \in DATA_START .. MaxDatabaseBytes
    /\ dur \in [Offsets -> SUBSET Cell]
    /\ durLen \in SUBSET (DATA_START .. MaxDatabaseBytes)
    /\ state \in {"Healthy", "WritePoisoned", "Unavailable", "Closed", "Opening"}
    /\ base \in SuperCell
    /\ overlay \in Overlay
    /\ snaps \in SUBSET [id : Nat, own : BOOLEAN, base : SuperCell, log : LogImage]
    /\ pc \in ProgramPoints
    /\ op \in [end : Nat, batch : Overlay, src : SuperCell, dst : SuperCell]
    /\ acked \in Map
    /\ maybe \in SUBSET Map

\* At every point where the process may die, including inside a failed write,
\* the next open succeeds and finds either the acknowledged contents or those
\* with a whole transaction in doubt (load_storage_state after any prefix of
\* commit_staged_with, rollback_or_poison and compact_file).
RecoversCommitted ==
    /\ Recoverable(file, flen)
    /\ RecoveredMap(file, flen) \in {acked} \cup maybe

\* The mapping an available handle reads from is never written or cut: not by
\* its own commits and rollbacks, nor by the relocation that rewrites the front
\* of the file (the SAFETY argument of segment::map).
HandleMappingIntact == Available => BaseIntact(file, base)

\* The bytes under a snapshot of the open handle never change: compact refuses
\* to run while one is alive, and nothing else touches published bytes.
SnapshotStable ==
    \A s \in snaps : s.own =>
        /\ BaseIntact(file, s.base)
        /\ \A o \in DOMAIN s.log : file[o] = s.log[o]

\* A handle that takes writes and the file agree: what a reopen would find is
\* what the handle shows, so that later writes stay recoverable even after an
\* abandoned relocation (the comment above detached_base's call).
HealthyHandleAgrees ==
    Writable => Recoverable(file, flen) /\ RecoveredMap(file, flen) = View

\* No step destroys the last copy of the page recovery would pick: a generation
\* goes to the page of its parity, and its copy to the other page only follows.
RootPageKept ==
    [][RootIntact(file, flen) =>
        \E p \in {0, 1} : file'[p] = read_latest_from(file, flen)]_vars

\* A compaction that returns Ok leaves the two pages, equal, and one live Base
\* and nothing else, whatever failed compactions left behind before it.
CompactedImage ==
    [][pc = "compact_truncate_sync" /\ state' = "Healthy" =>
        /\ flen' = DATA_START + BaseSize(acked)
        /\ file'[0] = file'[1]
        /\ base' = file'[0]
        /\ RecoveredMap(file', flen') = acked]_vars

\* Whatever a power loss leaves of the unsynchronized writes, a valid page with
\* a whole Base is there, and an open that succeeds never shows contents other
\* than the acknowledged ones or those of a whole transaction in doubt: the syncs
\* of commit_staged_with and compact_file stand where they are needed.
SurvivesPowerLoss ==
    /\ RootIntact(file, flen)
    /\ Recoverable(file, flen) => RecoveredMap(file, flen) \in {acked} \cup maybe

\* After a power loss there is a valid page and its Base is whole: every
\* published transition points to a complete synchronized Base.
RootSurvives == RootIntact(file, flen)

\* The two pages are never both unsynchronized, so a power loss tears at most
\* one root, even when a killed process left a page unsynchronized.
OnePageInFlight == dur[0] = {file[0]} \/ dur[1] = {file[1]}

\* The compact marker stops recovery after a crash before the staging
\* Superblock is written, as the format's description of the marker has it.
MarkerStopsRecovery ==
    pc \in {"compact_marker_write", "compact_base_write"} =>
        \A n \in durLen : \A g \in Survivors(n) :
            Recoverable(AfterPowerLoss(n, g), n)

\* A snapshot stays a point-in-time view whatever happens to the handle it was
\* taken from, as Database::snapshot documents.
SnapshotOutlivesHandle == \A s \in snaps : BaseIntact(file, s.base)

\* The abstract store: what a reader of the handle sees.
Pending ==
    IF pc \in {"batch_written", "batch_synced", "rollback"} /\ op.batch # NoEntries
    THEN Apply(View, op.batch) ELSE Down

Seen ==
    IF ~Available THEN Down ELSE IF BaseIntact(file, base) THEN View ELSE NoEntries

Store == INSTANCE AtomicStore WITH pending <- Pending, view <- Seen

\* Through every commit, rollback, compaction, crash and reopen, a reader sees
\* an atomic store: transactions appear whole, in order, when acknowledged, and
\* compaction shows nothing.
ImplementsAtomicStore == Store!Spec

\* Reopening converges: after any crash a caller that keeps calling open gets a
\* healthy handle, even if the process dies again inside open.
ReopenConverges == (state = "Closed") ~> (state = "Healthy")
=============================================================================
