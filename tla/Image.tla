------------------------------- MODULE Image -------------------------------
(***************************************************************************)
(* The bytes of a database file and what recovery reads out of them:       *)
(* lkv/src/format/{superblock,segment,log}.rs and the read-only half of    *)
(* database/recovery.rs.                                                   *)
(*                                                                         *)
(* A file is a pair (f, n): a function f from offsets to cells and a       *)
(* length n.  Offsets 0 and 1 are the two Superblock pages; everything     *)
(* from DATA_START on is Base segments and log records.  A log record is   *)
(* one cell, a Base takes one cell for its header, hash table and checksum *)
(* footer and one per live entry.  Checksums do not collide: a cell that   *)
(* is not exactly what was written is recognised as such.                  *)
(***************************************************************************)
EXTENDS FiniteSetsExt

CONSTANTS
    Keys,               \* the user's keys
    Vals,               \* the user's values
    Absent,             \* "no value": an absent key, and a tombstone in a batch
    MaxDatabaseBytes    \* DatabaseOptions.max_database_bytes, in cells

DATA_START == 2

ASSUME ImageAssumption ==
    /\ IsFiniteSet(Keys)
    /\ Absent \notin Vals
    /\ MaxDatabaseBytes \in Nat
    /\ MaxDatabaseBytes >= DATA_START + 1   \* MIN_DATABASE_BYTES

Offsets == 0 .. (MaxDatabaseBytes - 1)

-----------------------------------------------------------------------------
(* Contents: what a user reads, and the mutations of one transaction.      *)

Value == Vals \cup {Absent}

Map == [Keys -> Value]

EmptyMap == [k \in Keys |-> Absent]

\* KeyMap<OverlayEntry>: the keys a transaction or the Overlay touches, each
\* with OverlayEntry::Put(value) or, for Absent, OverlayEntry::Delete.
Overlay == UNION {[D -> Value] : D \in SUBSET Keys}

NoEntries == [k \in {} |-> Absent]

Batch == Overlay \ {NoEntries}

\* Entries of b shadow those of a.
Shadow(a, b) ==
    [k \in DOMAIN a \cup DOMAIN b |-> IF k \in DOMAIN b THEN b[k] ELSE a[k]]

\* What a reader sees through an Overlay: the Overlay first, then the Base.
Apply(m, b) == [k \in Keys |-> IF k \in DOMAIN b THEN b[k] ELSE m[k]]

-----------------------------------------------------------------------------
(* Cells.                                                                  *)

LOG_HEADER_SIZE == 1

BATCH_RECORD_SIZE == 1

EMPTY_SEGMENT_SIZE == 1

\* measure_base_iter: the size of the Base that holds the live entries of m.
BaseSize(m) == EMPTY_SEGMENT_SIZE + Cardinality({k \in Keys : m[k] # Absent})

\* sum stands for the checksum of the Base's metadata: it binds the page to
\* the contents of one Base.
Superblock(gen, off, size, log, sum) ==
    [t |-> "super", gen |-> gen, off |-> off, size |-> size, log |-> log, sum |-> sum]

\* Cell i of a Base written at off; its hash table holds absolute offsets.
BaseCell(off, m, i) == [t |-> "base", off |-> off, map |-> m, i |-> i]

BatchRecord(b) == [t |-> "batch", ops |-> b]

CompactMarker == [t |-> "compact"]

\* A record cut short by the end of the file.
Short == [t |-> "short"]

\* Anything whose checksum does not match: a hole, a torn or a lost write.
Garbage == [t |-> "garbage"]

SuperCell ==
    [t : {"super"}, gen : Nat, off : Nat, size : Nat, log : Nat, sum : Map]

Cell ==
    SuperCell
    \cup [t : {"base"}, off : Nat, map : Map, i : Nat]
    \cup [t : {"batch"}, ops : Overlay]
    \cup {CompactMarker, Short, Garbage}

-----------------------------------------------------------------------------
(* Superblocks.                                                            *)

\* superblock::write: the page of a generation.
Slot(gen) == gen % 2

\* A plausible slip: the copy goes where the original is.
RedundantSlotSame(gen) == gen % 2

\* write_redundant: the other page.
RedundantSlot(gen) == (gen + 1) % 2

\* The checks of read_latest_from on one page.  One cell is header and footer
\* of a Base, so BASE_HEADER, with which the code compares, is the size of an
\* empty segment.  Pages of another format version do not occur.
SuperValid(f, n, p) ==
    /\ f[p].t = "super"
    /\ f[p].off >= DATA_START
    /\ f[p].size >= EMPTY_SEGMENT_SIZE
    /\ f[p].off + f[p].size <= n
    /\ f[p].log >= f[p].off + f[p].size
    /\ f[p].log <= n

ValidPages(f, n) == {p \in {0, 1} : SuperValid(f, n, p)}

\* The valid page with the highest generation; page 0 is read first.
LatestPage(f, n) ==
    CHOOSE p \in ValidPages(f, n) :
        \A q \in ValidPages(f, n) :
            f[p].gen > f[q].gen \/ (f[p].gen = f[q].gen /\ p <= q)

read_latest_from(f, n) == f[LatestPage(f, n)]

-----------------------------------------------------------------------------
(* The Base a Superblock points to.                                        *)

\* write_base_with_metadata_at: the cells of a Base holding m at off.
BaseCells(off, m) ==
    [o \in off .. (off + BaseSize(m) - 1) |-> BaseCell(off, m, o - off)]

\* ActiveBase::open with VerificationMode::Full accepts the Base of page s.
BaseIntact(f, s) ==
    /\ s.size = BaseSize(s.sum)
    /\ \A i \in 0 .. (s.size - 1) : f[s.off + i] = BaseCell(s.off, s.sum, i)

-----------------------------------------------------------------------------
(* The Overlay log: scan_overlay from log_start.                           *)

\* The first offset that is not a complete batch record: OverlayScan.valid_len.
ScanEnd(f, n, start) == Min({o \in start .. n : o = n \/ f[o].t # "batch"})

\* A plausible slip: a compact marker is an unexpected record.
ScanAcceptsNoMarker(f, n, start) ==
    LET e == ScanEnd(f, n, start)
    IN  e < n => (f[e] = Short /\ e = n - 1)

\* Whether the scan breaks there, rather than returning an error.
ScanAccepts(f, n, start) ==
    LET e == ScanEnd(f, n, start)
    IN  e < n => (f[e] = CompactMarker \/ (f[e] = Short /\ e = n - 1))

\* The records that touch k.
WritersOf(f, start, e, k) == {o \in start .. (e - 1) : k \in DOMAIN f[o].ops}

\* The index the scan builds: for each key the mutation of its last record.
ScannedOverlay(f, start, e) ==
    [k \in {k \in Keys : WritersOf(f, start, e, k) # {}} |->
        f[Max(WritersOf(f, start, e, k))].ops[k]]

-----------------------------------------------------------------------------
(* The shape of a log that the scan accepts, for invariants.               *)

\* Every cell of the log from start up to e is a complete batch record.
Batches(f, start, e) == \A o \in start .. (e - 1) : f[o].t = "batch"

\* The scan of a log that ends at e: there the file ends, or a compact marker
\* stands, or a record that was cut short at the end of the file.
Accepted(f, n, start, e) ==
    /\ e \in start .. n
    /\ Batches(f, start, e)
    /\ \/ e = n
       \/ f[e] = CompactMarker
       \/ f[e] = Short /\ e = n - 1

-----------------------------------------------------------------------------
(* load_storage_state as a whole.                                          *)

\* A usable root: some page is valid and the newest one has a whole Base.
RootIntact(f, n) ==
    /\ ValidPages(f, n) # {}
    /\ BaseIntact(f, read_latest_from(f, n))

\* open returns Ok.
Recoverable(f, n) ==
    /\ RootIntact(f, n)
    /\ ScanAccepts(f, n, read_latest_from(f, n).log)

\* The contents of the database open returns.
RecoveredMap(f, n) ==
    LET s == read_latest_from(f, n)
    IN  Apply(s.sum, ScannedOverlay(f, s.log, ScanEnd(f, n, s.log)))
=============================================================================
