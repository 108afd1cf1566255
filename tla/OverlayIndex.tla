---------------------------- MODULE OverlayIndex ----------------------------
(***************************************************************************)
(* The index of the Overlay log that a handle on a file keeps in memory    *)
(* (OverlayMap::Mapped and OverlayState in lkv/src/database/state.rs, the  *)
(* publication half of commit_staged_with in mod.rs, scan_overlay in       *)
(* recovery.rs).  A committed mutation is held in one of two places: as an *)
(* owned entry of the tail, or, once the log has grown enough since it was *)
(* last mapped, as an offset into the mapped log.  Snapshots share the     *)
(* index through an Arc and a commit copies it only if it is shared.       *)
(*                                                                         *)
(* The module takes the log as durable: what a failing write or a crash    *)
(* does to it is in module Database.                                       *)
(***************************************************************************)
EXTENDS SequencesExt, FiniteSetsExt, Functions

CONSTANTS
    Keys, Vals, Absent,
    ValLen,                     \* value -> its length in bytes
    MAPPED_VALUE_THRESHOLD,     \* from this length a value costs no memory
    OVERLAY_MAPPING_THRESHOLD,  \* unmapped bytes that trigger a new mapping
    OverlayMemoryLimit,         \* DatabaseOptions.overlay_memory_limit
    MaxBatch,                   \* bound: mutations of one transaction
    MaxLog,                     \* bound: bytes of log
    Snapshots                   \* the snapshots that may be held

KEY_LEN == 1                    \* every key, in bytes
OPERATION_HEADER_SIZE == 1
BATCH_HEADER_SIZE == 1          \* LOG_HEADER_SIZE and the operation count

ASSUME OverlayAssumption ==
    /\ Absent \notin Vals
    /\ ValLen \in [Vals -> Nat]
    /\ {MAPPED_VALUE_THRESHOLD, OVERLAY_MAPPING_THRESHOLD, OverlayMemoryLimit,
        MaxBatch, MaxLog} \subseteq Nat

VARIABLES
    log,        \* offset of an operation -> the operation
    logLen,
    heap,       \* Arc -> the OverlayMap it points to
    index,      \* OverlayState.index: the handle's Arc
    memory,     \* OverlayState.memory
    snapshots   \* snapshot -> its Arc and, a ghost, what it showed when taken

vars == <<log, logLen, heap, index, memory, snapshots>>

-----------------------------------------------------------------------------
(* Operations and batches.                                                 *)

Operation == [key : Keys, val : Vals \cup {Absent}]

Length(val) == IF val = Absent THEN 0 ELSE ValLen[val]

OperationSize(op) == OPERATION_HEADER_SIZE + KEY_LEN + Length(op.val)

\* A transaction stages at most one mutation per key; the record holds them
\* in the order in which the map iterates.
Batches ==
    {b \in UNION {[1 .. n -> Operation] : n \in 1 .. MaxBatch} :
        \A i, j \in DOMAIN b : b[i].key = b[j].key => i = j}

\* A plausible slip: value lengths are left out.
OperationOffsetNoValue(b, start, i) ==
    start + BATCH_HEADER_SIZE + (i - 1) * (OPERATION_HEADER_SIZE + KEY_LEN)

\* mapped_mutations: the offset of the i-th operation of the record at start.
OperationOffset(b, start, i) ==
    start + BATCH_HEADER_SIZE
          + MapThenSumSet(LAMBDA j : OperationSize(b[j]), 1 .. (i - 1))

\* Where append_batch puts the operations.
WrittenAt(b, start, i) ==
    start + BATCH_HEADER_SIZE
          + MapThenSumSet(LAMBDA j : OperationSize(b[j]), 1 .. (i - 1))

RecordSize(b) ==
    BATCH_HEADER_SIZE + MapThenSumSet(LAMBDA i : OperationSize(b[i]), DOMAIN b)

\* MappedRecord::memory_charge: a long value stays in the mapped file.
MappedCharge(op) ==
    KEY_LEN + (IF Length(op.val) < MAPPED_VALUE_THRESHOLD THEN Length(op.val) ELSE 0)

\* overlay_entry_memory of a value that put copied to the heap.
OwnedCharge(op) == KEY_LEN + Length(op.val)

SaturatingSub(a, b) == IF a >= b THEN a - b ELSE 0

-----------------------------------------------------------------------------
(* OverlayMap::Mapped.                                                     *)

\* mapped is the length of the mapped log, table a set of offsets into it,
\* tail the owned entries with the offset each will have once mapped.
EmptyIndex == [mapped |-> 0, table |-> {}, tail |-> <<>>]

\* MappedRecord::slices: an offset at which no operation starts has no key.
KeyAt(f, o) == IF o \in DOMAIN f THEN f[o].key ELSE Absent

\* The records of a table that hold key k.
RecordsOf(table, k) == {o \in table : KeyAt(log, o) = k}

\* get_hashed: the tail first, then the table; {} if the key is in neither.
Lookup(x, k) ==
    IF k \in DOMAIN x.tail
    THEN {x.tail[k].val}
    ELSE {log[o].val : o \in RecordsOf(x.table, k)}

\* What a reader finds in the index.
Shown(x) == [k \in Keys |-> Lookup(x, k)]

\* iter: every record of the table, then every entry of the tail.
Iterated(x) == [k \in Keys |-> Cardinality(RecordsOf(x.table, k))
                                + (IF k \in DOMAIN x.tail THEN 1 ELSE 0)]

\* insert_mapped_record for each offset of ats, over the log f.
InsertAll(f, table, ats) ==
    {o \in table : \A n \in ats : KeyAt(f, n) # KeyAt(f, o)} \cup ats

TailOffsets(x) == {x.tail[k].at : k \in DOMAIN x.tail}

\* A plausible slip: the old tail is promoted over the new batch.
InstallMappedTailLast(f, len, x, at) ==
    [mapped |-> len,
     table |-> InsertAll(f, InsertAll(f, x.table, Range(at)), TailOffsets(x)),
     tail |-> <<>>]

\* install_mapped: the tail is promoted into the table, then the batch.
InstallMapped(f, len, x, at) ==
    [mapped |-> len,
     table |-> InsertAll(f, InsertAll(f, x.table, TailOffsets(x)), Range(at)),
     tail |-> <<>>]

KeysOf(b) == {b[i].key : i \in DOMAIN b}

\* The tail with the batch's entries, each with its own value and offset.
Extended(tail, b, at) ==
    [k \in DOMAIN tail \cup KeysOf(b) |->
        IF k \in KeysOf(b)
        THEN LET i == CHOOSE i \in DOMAIN b : b[i].key = k IN [val |-> b[i].val, at |-> at[i]]
        ELSE tail[k]]

\* install_tail: each mutation replaces the tail's entry of its key, or takes
\* the key's record out of the table.
InstallTail(x, b, at) ==
    [x EXCEPT !.table = {o \in @ : KeyAt(log, o) \notin KeysOf(b)},
              !.tail = Extended(@, b, at)]

\* A plausible slip: replaced entries of the tail are not counted.
ReplacedInTailForgotten(x, b) == {}

\* The entries of the tail that a batch replaces ...
ReplacedInTail(x, b) ==
    {[key |-> k, val |-> x.tail[k].val] : k \in KeysOf(b) \cap DOMAIN x.tail}

\* ... and the records of the table.
ReplacedInTable(x, b) ==
    {log[o] : o \in UNION {RecordsOf(x.table, k) : k \in KeysOf(b) \ DOMAIN x.tail}}

\* The memory after install_mapped: the replaced tail was promoted first, so
\* that its entries are records too.
MemoryMapped(x, b) ==
    SaturatingSub(memory, MapThenSumSet(MappedCharge, ReplacedInTail(x, b) \cup ReplacedInTable(x, b)))
        + MapThenSumSet(MappedCharge, ToSet(b))

\* The memory after install_tail.
MemoryTail(x, b) ==
    SaturatingSub(memory, MapThenSumSet(OwnedCharge, ReplacedInTail(x, b))
                            + MapThenSumSet(MappedCharge, ReplacedInTable(x, b)))
        + MapThenSumSet(OwnedCharge, ToSet(b))

needs_mapping(x, len) == SaturatingSub(len, x.mapped) >= OVERLAY_MAPPING_THRESHOLD

-----------------------------------------------------------------------------
(* Arc<OverlayMap>.                                                        *)

Arcs == 0 .. Cardinality(Snapshots)

NoSnapshot == [arc |-> -1, shown |-> <<>>]

Held(a) == \E s \in Snapshots : snapshots[s].arc = a

\* A plausible slip: the index is changed where it is.
MakeMutInPlace(a) == a

\* Arc::make_mut: a shared index is copied to a fresh Arc.
MakeMut(a) ==
    IF Held(a) THEN CHOOSE n \in Arcs : n # a /\ ~Held(n) ELSE a

\* The handle's index becomes x.
SetIndex(x) ==
    LET a == MakeMut(index)
    IN  /\ index' = a
        /\ heap' = [heap EXCEPT ![a] = x]

-----------------------------------------------------------------------------
(* The operations of a handle.                                             *)

\* begin_write and a commit_staged_with whose I/O succeeds.
Commit(b) ==
    LET f == [o \in {WrittenAt(b, logLen, i) : i \in DOMAIN b} |->
                b[CHOOSE i \in DOMAIN b : WrittenAt(b, logLen, i) = o]] @@ log
        len == logLen + RecordSize(b)
        at == [i \in DOMAIN b |-> OperationOffset(b, logLen, i)]
        x == heap[index]
    IN  /\ memory <= OverlayMemoryLimit
        /\ len <= MaxLog
        /\ log' = f
        /\ logLen' = len
        /\ \/ /\ needs_mapping(x, len)
              /\ SetIndex(InstallMapped(f, len, x, at))
              /\ memory' = MemoryMapped(x, b)
           \/ /\ ~needs_mapping(x, len)
              /\ SetIndex(InstallTail(x, b, at))
              /\ memory' = MemoryTail(x, b)
        /\ UNCHANGED snapshots

\* One mutation of the scan: install_recovered.
Recovered(state, o) ==
    LET old == RecordsOf(state.table, log[o].key)
    IN  [table |-> (state.table \ old) \cup {o},
         memory |-> SaturatingSub(state.memory, MapThenSumSet(MappedCharge, {log[q] : q \in old}))
                        + MappedCharge(log[o])]

\* scan_overlay: the records in the order of the log.
Scan ==
    LET Starts(o) == o \in DOMAIN log
        offsets == SelectSeq([i \in 1 .. logLen |-> i - 1], Starts)
    IN  FoldLeft(Recovered, [table |-> {}, memory |-> 0], offsets)

\* The process ends, with every snapshot in it, and another opens the file.
Reopen ==
    /\ snapshots' = [s \in Snapshots |-> NoSnapshot]
    /\ index' = 0
    /\ LET scan == Scan
           x == [mapped |-> logLen, table |-> scan.table, tail |-> <<>>]
       IN  /\ heap' = [a \in Arcs |-> IF a = 0 THEN x ELSE EmptyIndex]
           /\ memory' = scan.memory
    /\ UNCHANGED <<log, logLen>>

\* Database::compact: the Overlay is folded into a new Base, the index cleared.
Clear ==
    /\ logLen > 0
    /\ \A s \in Snapshots : snapshots[s] = NoSnapshot
    /\ log' = <<>>
    /\ logLen' = 0
    /\ SetIndex(EmptyIndex)
    /\ memory' = 0
    /\ UNCHANGED snapshots

TakeSnapshot(s) ==
    /\ snapshots[s] = NoSnapshot
    /\ snapshots' = [snapshots EXCEPT ![s] = [arc |-> index, shown |-> Shown(heap[index])]]
    /\ UNCHANGED <<log, logLen, heap, index, memory>>

\* The last reference to an Arc that is not the handle's frees its index.
DropSnapshot(s) ==
    /\ snapshots[s] # NoSnapshot
    /\ snapshots' = [snapshots EXCEPT ![s] = NoSnapshot]
    /\ heap' = [a \in Arcs |-> IF a = index \/ \E t \in Snapshots \ {s} : snapshots[t].arc = a
                               THEN heap[a] ELSE EmptyIndex]
    /\ UNCHANGED <<log, logLen, index, memory>>

Init ==
    /\ log = <<>>
    /\ logLen = 0
    /\ heap = [a \in Arcs |-> EmptyIndex]
    /\ index = 0
    /\ memory = 0
    /\ snapshots = [s \in Snapshots |-> NoSnapshot]

Next ==
    \/ \E b \in Batches : Commit(b)
    \/ Reopen
    \/ Clear
    \/ \E s \in Snapshots : TakeSnapshot(s) \/ DropSnapshot(s)

Spec == Init /\ [][Next]_vars

-----------------------------------------------------------------------------
(* Properties.                                                             *)

\* The operations of the log that are the last of their key.
Latest == {o \in DOMAIN log : \A q \in DOMAIN log : log[q].key = log[o].key => q <= o}

\* The index answers every key as the log does, last record first, however its
\* entries are spread over the tail and the mapped table: a handle reads what a
\* reopen would read.  Iteration meets each key of the log once, so len, the
\* number of entries of stats and the entries a compaction writes are right.
IndexMatchesLog ==
    \A k \in Keys :
        /\ Lookup(heap[index], k) = {log[o].val : o \in {q \in Latest : log[q].key = k}}
        /\ Iterated(heap[index])[k] = (IF \E o \in DOMAIN log : log[o].key = k THEN 1 ELSE 0)

\* The running count of overlay memory, on which begin_write decides, is what a
\* reopen of the same log would count: it neither drifts nor saturates over any
\* sequence of overwrites, promotions and deletes.  A long value, which the tail
\* and the table charge differently, is always mapped, because the record that
\* holds it reaches OVERLAY_MAPPING_THRESHOLD by itself.
MemoryExact == memory = MapThenSumSet(LAMBDA o : MappedCharge(log[o]), Latest)

\* Every offset in the index denotes, in the log, the operation it was stored
\* for: the assertions of install_mapped (state.rs:384-386) and the expect of
\* MappedRecord::slices hold, and a mapped record lies inside the mapping.
OffsetsResolve ==
    LET x == heap[index]
    IN  /\ \A o \in x.table : o \in DOMAIN log /\ o < x.mapped
        /\ \A k \in DOMAIN x.tail :
            /\ x.tail[k].at \in DOMAIN log /\ x.tail[k].at >= x.mapped
            /\ log[x.tail[k].at] = [key |-> k, val |-> x.tail[k].val]

\* A snapshot shows what it showed when it was taken, through every later
\* commit: a shared index is copied before it is changed.
SnapshotIsolated ==
    \A s \in Snapshots :
        snapshots[s] # NoSnapshot => Shown(heap[snapshots[s].arc]) = snapshots[s].shown
=============================================================================
