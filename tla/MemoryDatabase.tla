--------------------------- MODULE MemoryDatabase ---------------------------
(***************************************************************************)
(* A database in memory (Storage::Memory): MemoryStorage in                *)
(* lkv/src/database/storage.rs, memory_with_options and                    *)
(* commit_staged_memory in mod.rs, compact_memory and install_memory_base  *)
(* in maintenance.rs, OverlayMap::Memory and OverlayState::set in          *)
(* state.rs.  Commits change the Overlay entry by entry; snapshots share   *)
(* the Overlay and the Base through Arcs.                                  *)
(*                                                                         *)
(* The Base is the contents it holds.  The log has a length and no bytes.  *)
(* Each operator is one step of the code under the handle's exclusive      *)
(* borrow; who may take it when is up to the module that extends this one. *)
(***************************************************************************)
EXTENDS Integers, FiniteSetsExt, Functions

CONSTANTS
    Keys, Vals, Absent,
    ValLen,             \* value -> its length in bytes
    MaxDatabaseBytes,   \* DatabaseOptions.max_database_bytes
    OverlayMemoryLimit, \* DatabaseOptions.overlay_memory_limit
    MaxGeneration,      \* bound: compactions
    Snapshots           \* the snapshots that may be held

DATA_START == 2
EMPTY_SEGMENT_SIZE == 1
KEY_LEN == 1
BASE_ENTRY == 3     \* a record and its hash slots

ASSUME MemoryAssumption ==
    /\ Absent \notin Vals
    /\ IsFiniteSet(Keys) /\ IsFiniteSet(Snapshots)
    /\ ValLen \in [Vals -> Nat]
    /\ MaxDatabaseBytes >= DATA_START + EMPTY_SEGMENT_SIZE

VARIABLES
    base,           \* the contents of the active Base
    generation,
    storageLen,     \* MemoryStorage.len
    heap,           \* Arc -> the OverlayMap it points to
    index,          \* OverlayState.index: the handle's Arc
    memory,         \* OverlayState.memory
    state,          \* HandleState, or "Closed"
    snapshots       \* snapshot -> its Base and Arc and, a ghost, what it showed

mvars == <<base, generation, storageLen, heap, index, memory, state, snapshots>>

EmptyMap == [k \in Keys |-> Absent]

Live(m) == {k \in Keys : m[k] # Absent}

\* measure_base_iter, in cells.
BaseSize(m) == EMPTY_SEGMENT_SIZE + BASE_ENTRY * Cardinality(Live(m))

log_start == DATA_START + BaseSize(base)

\* LOG_HEADER_SIZE and batch_payload_len, in cells.
RecordSize(b) == 1 + Cardinality(DOMAIN b)

Length(v) == IF v = Absent THEN 0 ELSE ValLen[v]

overlay_entry_memory(v) == KEY_LEN + Length(v)

\* OverlayMap::set_memory; a batch inserts into its map in the same way.
Inserted(f, k, v) == [x \in DOMAIN f \cup {k} |-> IF x = k THEN v ELSE f[x]]

\* ReadView::get for every key.
View(m, overlay) == [k \in Keys |-> IF k \in DOMAIN overlay THEN overlay[k] ELSE m[k]]

Shown == View(base, heap[index])

-----------------------------------------------------------------------------
(* Arc<OverlayMap>.                                                        *)

Arcs == 0 .. Cardinality(Snapshots)

NoSnapshot == [base |-> <<>>, arc |-> -1, shown |-> <<>>]

Held(a) == \E s \in Snapshots : snapshots[s].arc = a

\* A plausible slip: the map is changed where it is.
MakeMutInPlace(a) == a

\* Arc::make_mut: a shared map is copied to a fresh Arc.
MakeMut(a) == IF Held(a) THEN CHOOSE n \in Arcs : n # a /\ ~Held(n) ELSE a

-----------------------------------------------------------------------------
(* Operations.                                                             *)

\* memory_with_options: initialize_storage and from_storage.
MemoryInit ==
    /\ base = EmptyMap
    /\ generation = 1
    /\ storageLen = DATA_START + EMPTY_SEGMENT_SIZE
    /\ heap = [a \in Arcs |-> <<>>]
    /\ index = 0
    /\ memory = 0
    /\ state = "Healthy"
    /\ snapshots = [s \in Snapshots |-> NoSnapshot]

\* begin_write, then the checks of commit_staged_memory.
CommitError(b) ==
    IF state # "Healthy" THEN "poisoned"
    ELSE IF memory > OverlayMemoryLimit THEN "maintenance_required"
    ELSE IF b # <<>> /\ storageLen + RecordSize(b) > MaxDatabaseBytes THEN "full"
    ELSE "none"

\* extend_memory_log.
ExtendLog(b) ==
    /\ storageLen' = storageLen + RecordSize(b)
    /\ UNCHANGED <<base, generation, heap, index, memory, state, snapshots>>

\* A plausible slip: the entry that is replaced stays charged.
ReplacedForgotten(k) == 0

\* The charge of the entry that a new one for k replaces.
Replaced(k) ==
    IF k \in DOMAIN heap[index] THEN overlay_entry_memory(heap[index][k]) ELSE 0

\* OverlayState::set.
SetEntry(k, v) ==
    LET a == MakeMut(index)
        kept == IF memory >= Replaced(k) THEN memory - Replaced(k) ELSE 0
    IN  /\ index' = a
        /\ heap' = [heap EXCEPT ![a] = Inserted(heap[index], k, v)]
        /\ memory' = kept + overlay_entry_memory(v)
        /\ UNCHANGED <<base, generation, storageLen, state, snapshots>>

\* compact up to the point where something is written.
CompactError ==
    IF state # "Healthy" THEN "poisoned"
    ELSE IF \E s \in Snapshots : snapshots[s] # NoSnapshot THEN "busy"
    ELSE IF DATA_START + BaseSize(Shown) > MaxDatabaseBytes THEN "full"
    ELSE "none"

NothingToCompact == heap[index] = <<>> /\ storageLen = log_start

\* install_memory_base: superblock::write, replace_base, and the new Base in
\* the handle, whose Overlay is cleared.  The page is written into bytes that
\* MemoryStorage has from the start and the Base is handed over, so none of it
\* can fail; what can is the allocation of the Base before.
InstallMemoryBase ==
    /\ generation < MaxGeneration
    /\ base' = Shown
    /\ generation' = generation + 1
    /\ storageLen' = DATA_START + BaseSize(Shown)
    /\ LET a == MakeMut(index) IN index' = a /\ heap' = [heap EXCEPT ![a] = <<>>]
    /\ memory' = 0
    /\ UNCHANGED <<state, snapshots>>

TakeSnapshot(s) ==
    /\ snapshots' = [snapshots EXCEPT ![s] = [base |-> base, arc |-> index, shown |-> Shown]]
    /\ UNCHANGED <<base, generation, storageLen, heap, index, memory, state>>

\* The handle holds its Arc until it is closed.
HandleHolds(a) == state # "Closed" /\ index = a

\* The last reference to an Arc frees its map.
DropSnapshot(s) ==
    /\ snapshots[s] # NoSnapshot
    /\ snapshots' = [snapshots EXCEPT ![s] = NoSnapshot]
    /\ heap' = [a \in Arcs |-> IF HandleHolds(a) \/ \E t \in Snapshots \ {s} : snapshots[t].arc = a
                               THEN heap[a] ELSE <<>>]
    /\ UNCHANGED <<base, generation, storageLen, index, memory, state>>

\* The handle is dropped; snapshots live on.
DropHandle ==
    /\ state # "Closed"
    /\ state' = "Closed"
    /\ heap' = [a \in Arcs |-> IF Held(a) THEN heap[a] ELSE <<>>]
    /\ base' = EmptyMap /\ memory' = 0
    /\ UNCHANGED <<generation, storageLen, index, snapshots>>

-----------------------------------------------------------------------------
(* Properties.                                                             *)

\* The running count of Overlay memory, on which begin_write decides, is the
\* charge of the entries the Overlay holds, over any sequence of overwrites,
\* deletes, copies for snapshots and compactions (state.rs:610).
MemoryExact ==
    state # "Closed" =>
    memory = MapThenSumSet(LAMBDA k : overlay_entry_memory(heap[index][k]), DOMAIN heap[index])
=============================================================================
