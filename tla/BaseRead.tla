------------------------------ MODULE BaseRead ------------------------------
(***************************************************************************)
(* The Base segment as bytes: its builder and its validator                *)
(* (lkv/src/format/segment.rs), and the readers that share one Base: point *)
(* lookups (lookup_segment in view.rs), iteration and counting (RawEntries *)
(* and Entries in transaction.rs, raw_len in mod.rs).  Every check of a    *)
(* byte range goes through the verifier of module SegmentVerifier, whose   *)
(* atomics the readers race on.                                            *)
(*                                                                         *)
(* One cell stands for the Base header, for a slot of the hash index, for  *)
(* the two lengths before a record, for a key and for each part of a       *)
(* value.  One cell may have changed: since the Base was written, and then *)
(* the checksum of its block does not match; or before the checksums were  *)
(* taken, and then only validate_base can tell.  The Overlay does not      *)
(* change while readers hold the handle.                                   *)
(***************************************************************************)
EXTENDS SegmentVerifier, SequencesExt, Functions

CONSTANTS
    Keys, Absent,
    Entries,    \* the entries written: a sequence of a key and a value each
    Setups,     \* a hash: key -> [low, high], the halves of xxh3_64, and an
                \* overlay: a partial function from keys to values or Absent
    Lengths,    \* lengths a damaged record header may hold
    Junk,       \* the lengths read where no record header was written
    SmallBases, \* the sequences of entries the builder is tried on
    Err, Panic, Pending

ASSUME ReadAssumption ==
    /\ Absent \notin Keys
    /\ \A i, j \in DOMAIN Entries : Entries[i].key = Entries[j].key => i = j

BASE_HEADER == 1
SLOT_SIZE == 1
RECORD_HEADER == 1
FOOTER_SIZE == 1
SEGMENT_OFFSET == 2     \* where the Base lies in the file

VARIABLES
    bytes,      \* the mapped data of the segment
    sealed,     \* the checksums were taken over these very bytes
    hash,
    overlay,
    mode,       \* DatabaseOptions.verification
    task        \* reader -> its call

image == <<bytes, sealed, hash, overlay, mode>>
rvars == <<vars, image, task>>

-----------------------------------------------------------------------------
(* The builder.                                                            *)

NextPowerOfTwo(n) == Min({p \in {2 ^ e : e \in 0 .. n} : p >= n})

base_slot_count(n) == IF n = 0 THEN 0 ELSE NextPowerOfTwo((5 * n + 3) \div 4)

RecordSize(e) == RECORD_HEADER + 1 + Len(e.value)

RecordsSize(entries) == FoldLeft(LAMBDA n, e : n + RecordSize(e), 0, entries)

\* A plausible slip: the checksum of a last block that is not full is left out.
MeasureBaseFloor(entries) ==
    LET size == BASE_HEADER + base_slot_count(Len(entries)) * SLOT_SIZE + RecordsSize(entries)
    IN  size + size \div CHECKSUM_BLOCK_SIZE + FOOTER_SIZE

\* measure_base_iter: the size compaction reserves before it writes.
measure_base(entries) ==
    LET size == BASE_HEADER + base_slot_count(Len(entries)) * SLOT_SIZE + RecordsSize(entries)
    IN  size + (size + CHECKSUM_BLOCK_SIZE - 1) \div CHECKSUM_BLOCK_SIZE + FOOTER_SIZE

records_start(slots) == BASE_HEADER + slots * SLOT_SIZE

RecordStart(entries, i) ==
    records_start(base_slot_count(Len(entries))) + RecordsSize(SubSeq(entries, 1, i - 1))

EmptySlot == [fingerprint |-> 0, offset |-> 0]

SlotOf(h, probe, slots) == (h.low + probe) % slots

\* A plausible slip: the search for a free slot stops at the end of the index.
InsertSlotNoWrap(index, h, offset) ==
    LET slots == Cardinality(DOMAIN index)
        free == {s \in DOMAIN index : s >= h.low % slots /\ index[s].offset = 0}
    IN  IF free = {} THEN index
        ELSE [index EXCEPT ![Min(free)] = [fingerprint |-> h.high, offset |-> offset]]

\* Linear probing from the low bits of the hash.
InsertSlot(index, h, offset) ==
    LET slots == Cardinality(DOMAIN index)
        free == {p \in 0 .. slots - 1 : index[SlotOf(h, p, slots)].offset = 0}
    IN  [index EXCEPT ![SlotOf(h, Min(free), slots)] = [fingerprint |-> h.high, offset |-> offset]]

HashIndex(entries, h) ==
    FoldLeft(LAMBDA index, i : InsertSlot(index, h[entries[i].key], SEGMENT_OFFSET + RecordStart(entries, i)),
             [s \in 0 .. base_slot_count(Len(entries)) - 1 |-> EmptySlot],
             [i \in DOMAIN entries |-> i])

RecordCells(e) ==
    <<[key_len |-> 1, value_len |-> Len(e.value)], e.key>> \o e.value

\* write_base_with_metadata_at, up to the checksums.
WriteBase(entries, h) ==
    LET slots == base_slot_count(Len(entries))
        index == HashIndex(entries, h)
        cells == <<[slots |-> slots, len |-> Len(entries)]>>
                    \o [s \in 1 .. slots |-> index[s - 1]]
                    \o FlattenSeq([i \in DOMAIN entries |-> RecordCells(entries[i])])
    IN  [o \in 0 .. Len(cells) - 1 |-> cells[o + 1]]

\* append_block_checksums: one checksum per block of data, and the footer.
WrittenSize(entries, h) ==
    LET data == Cardinality(DOMAIN WriteBase(entries, h))
    IN  data + Cardinality({BlockOf(o) : o \in 0 .. data - 1}) + FOOTER_SIZE

-----------------------------------------------------------------------------
(* Reading records.                                                        *)

Slice(b, from, to) == [i \in 1 .. (to - from) |-> b[from + i - 1]]

\* The lengths found at offset o; bytes that are no record header read as Junk.
LengthsAt(b, o) ==
    IF o >= records_start(b[0].slots) /\ b[o] \in [key_len : Nat, value_len : Nat] THEN b[o] ELSE Junk

EndOf(b, o) ==
    o + RECORD_HEADER + LengthsAt(b, o).key_len + LengthsAt(b, o).value_len

RecordKey(b, o) ==
    Slice(b, o + RECORD_HEADER, o + RECORD_HEADER + LengthsAt(b, o).key_len)

RecordValue(b, o) ==
    Slice(b, o + RECORD_HEADER + LengthsAt(b, o).key_len, EndOf(b, o))

\* record_at: whether the record lies in the data.
RecordFits(b, o, data_size) ==
    /\ o + RECORD_HEADER <= data_size
    /\ EndOf(b, o) <= data_size

-----------------------------------------------------------------------------
(* validate_base.                                                          *)

\* The starts of the first n records, as long as they fit.
WalkRecords(b, n) ==
    LET size == Cardinality(DOMAIN b)
        Turn(w, i) ==
            IF w.ok /\ RecordFits(b, w.offset, size)
            THEN [w EXCEPT !.offset = EndOf(b, w.offset), !.starts = Append(@, w.offset)]
            ELSE [w EXCEPT !.ok = FALSE]
    IN  FoldLeft(Turn, [ok |-> TRUE, offset |-> records_start(b[0].slots), starts |-> <<>>],
                 [i \in 1 .. n |-> i])

HighHash(h, key) == IF Len(key) = 1 /\ Head(key) \in Keys THEN h[Head(key)].high ELSE 0

validate_base(b, h) ==
    LET slots == b[0].slots
        len == b[0].len
        size == Cardinality(DOMAIN b)
        walk == WalkRecords(b, len)
        slot == [s \in 0 .. slots - 1 |-> b[BASE_HEADER + s * SLOT_SIZE]]
        used == {s \in DOMAIN slot : slot[s].offset # 0}
    IN  /\ len <= (size - records_start(slots)) \div RECORD_HEADER
        /\ walk.ok
        /\ IsInjective([i \in DOMAIN walk.starts |-> RecordKey(b, walk.starts[i])])
        /\ walk.offset = size
        /\ \A s \in DOMAIN slot \ used : slot[s].fingerprint = 0
        /\ \A s \in used : \E i \in DOMAIN walk.starts :
            /\ slot[s].offset = SEGMENT_OFFSET + walk.starts[i]
            /\ slot[s].fingerprint = HighHash(h, RecordKey(b, walk.starts[i]))
        /\ \A s, t \in used : slot[s].offset = slot[t].offset => s = t
        /\ Cardinality(used) = len

-----------------------------------------------------------------------------
(* Opening the Base.                                                       *)

Hashes == {s.hash : s \in Setups}

WrittenBases == [h \in Hashes |-> WriteBase(Entries, h)]

\* The data as it was written.
Written == WrittenBases[hash]

\* verify_segment_blocks.
IntactBlocks(b, s) ==
    {n \in Blocks : s \/ \A o \in 0 .. DataSize - 1 : BlockOf(o) = n => b[o] = Written[o]}

\* A plausible slip: VerificationMode::Full reads the header only.
OpenAcceptsHeader(b, s, m) == b[0] = Written[0]

\* ActiveBase::open.  The checksum table is compared with the superblock, so a
\* damaged table fails the open, and so does a Base header that disagrees with
\* it.
OpenAccepts(b, s, m) ==
    /\ b[0] = Written[0]
    /\ m = "Full" => IntactBlocks(b, s) = Blocks /\ validate_base(b, hash)

\* What a fault may have made of the cell at o.
Altered(o) ==
    IF o < BASE_HEADER THEN {}
    ELSE IF o < records_start(base_slot_count(Len(Entries)))
         THEN [fingerprint : {hash[k].high : k \in Keys} \cup {0},
               offset : {0, SEGMENT_OFFSET + DataSize}
                            \cup {SEGMENT_OFFSET + RecordStart(Entries, i) : i \in DOMAIN Entries}]
    ELSE IF Written[o] \in [key_len : Nat, value_len : Nat] THEN Lengths
    ELSE Keys

-----------------------------------------------------------------------------
(* Readers.                                                                *)

\* step is where the call stands; vor is verify_on_read; record is the offset
\* of the record in hand.  offset, remaining and trusted are the fields of
\* RawEntries; items are the pairs it returned, and failed says that one of
\* them was an error.
NoTask == [op |-> "none", step |-> "none", key |-> Absent, probe |-> 0, vor |-> FALSE,
           record |-> 0, offset |-> 0, remaining |-> 0, trusted |-> FALSE,
           items |-> <<>>, failed |-> FALSE, answer |-> Pending]

\* The reader stands at a step of its call, outside the verifier.
Standing(r, op, step) == task[r].op = op /\ task[r].step = step /\ At(r, "idle")

SetTask(r, t) == task' = [task EXCEPT ![r] = t]

Done(t, answer) == [t EXCEPT !.step = "done", !.answer = answer]

Advance(r, t) == SetTask(r, t) /\ UNCHANGED <<vars, image>>

\* The reader goes on to t and, if it verifies, asks for the byte range first.
\* Every end past the data is the same to the verifier.
Ask(r, t, start, end) ==
    /\ SetTask(r, t)
    /\ IF t.vor THEN EnterRange(r, "verify_range", start, Min({end, DataSize + 1}))
                ELSE UNCHANGED call
    /\ UNCHANGED <<intact, wellFormed, shared, image>>

Refused(r) == task[r].vor /\ call[r].result = "err"

slots == bytes[0].slots

-----------------------------------------------------------------------------
(* Point lookups: ReadView::get and lookup_segment.                        *)

\* The Overlay answers first; otherwise fully_verified is loaded once, before
\* the first probe.
Get(r, k) ==
    /\ task[r].op = "none"
    /\ LET t == [NoTask EXCEPT !.op = "get", !.key = k]
       IN  Advance(r, IF k \in DOMAIN overlay THEN Done(t, overlay[k])
                      ELSE IF slots = 0 THEN Done(t, Absent)
                      ELSE [t EXCEPT !.step = "probe", !.vor = mode = "OnRead" /\ ~fully_verified])

NextProbe(t) == [t EXCEPT !.step = "probe", !.probe = @ + 1]

ProbeSlot(r) ==
    /\ Standing(r, "get", "probe")
    /\ LET t == task[r]
           at == BASE_HEADER + SlotOf(hash[t.key], t.probe, slots) * SLOT_SIZE
       IN  IF t.probe = slots
           THEN Advance(r, Done(t, Absent))
           ELSE Ask(r, [t EXCEPT !.step = "slot", !.record = at], at, at + SLOT_SIZE)

\* An empty slot ends the search, and so does an offset outside the data.
ReadSlot(r) ==
    /\ Standing(r, "get", "slot")
    /\ LET t == task[r]
           s == bytes[t.record]
           o == s.offset - SEGMENT_OFFSET
       IN  IF Refused(r) THEN Advance(r, Done(t, Err))
           ELSE IF s.offset = 0 THEN Advance(r, Done(t, Absent))
           ELSE IF s.fingerprint # hash[t.key].high THEN Advance(r, NextProbe(t))
           ELSE IF o < 0 \/ o + RECORD_HEADER > DataSize THEN Advance(r, Done(t, Absent))
           ELSE Ask(r, [t EXCEPT !.step = "record", !.record = o], o, EndOf(bytes, o))

\* A plausible slip: the fingerprint alone decides.
ReadRecordByFingerprint(r) ==
    /\ Standing(r, "get", "record")
    /\ LET t == task[r]
       IN  Advance(r, IF Refused(r) THEN Done(t, Err)
                      ELSE IF EndOf(bytes, t.record) <= DataSize
                           THEN Done(t, RecordValue(bytes, t.record))
                      ELSE NextProbe(t))

ReadRecord(r) ==
    /\ Standing(r, "get", "record")
    /\ LET t == task[r]
       IN  Advance(r, IF Refused(r) THEN Done(t, Err)
                      ELSE IF /\ EndOf(bytes, t.record) <= DataSize
                              /\ RecordKey(bytes, t.record) = <<t.key>>
                           THEN Done(t, RecordValue(bytes, t.record))
                      ELSE NextProbe(t))

-----------------------------------------------------------------------------
(* Iteration (Entries) and counting (raw_len) over RawEntries.             *)

\* RawEntries::new.  Only Entries verifies the pairs it returns.
NewEntries(r, op) ==
    /\ task[r].op = "none"
    /\ Advance(r, [NoTask EXCEPT !.op = op, !.step = "next", !.vor = op = "iter" /\ mode = "OnRead",
                                 !.offset = records_start(slots), !.remaining = bytes[0].len,
                                 !.trusted = semantically_verified])

Return(t, key, value) == [t EXCEPT !.step = "next", !.items = Append(@, <<key, value>>)]

\* A plausible slip: entries the Overlay replaces or deletes are returned too.
ShadowedNever(key) == FALSE

Shadowed(key) == \E k \in DOMAIN overlay : key = <<k>>

\* One turn over the Base records: record_at, or trusted_record_at, which
\* slices without a check.
NextRecord(r, op) ==
    LET t == task[r]
        o == t.offset
        key == RecordKey(bytes, o)
        passed == [t EXCEPT !.offset = EndOf(bytes, o), !.remaining = @ - 1]
    IN  /\ Standing(r, op, "next") /\ t.remaining > 0
        /\ IF ~RecordFits(bytes, o, DataSize)
           THEN Advance(r, Done([t EXCEPT !.failed = TRUE], IF t.trusted THEN Panic ELSE Err))
           ELSE IF Shadowed(key) THEN Advance(r, passed)
           ELSE IF op = "len" THEN Advance(r, Return(passed, key, RecordValue(bytes, o)))
           ELSE Ask(r, [passed EXCEPT !.step = "pair", !.record = o],
                    o + RECORD_HEADER, EndOf(bytes, o))

\* A plausible slip: the answer of verify_pair is dropped.
ReturnPairUnchecked(r) ==
    /\ Standing(r, "iter", "pair")
    /\ LET t == task[r]
       IN  Advance(r, Return(t, RecordKey(bytes, t.record), RecordValue(bytes, t.record)))

\* verify_pair has answered; after an error the caller may go on or stop.
ReturnPair(r) ==
    /\ Standing(r, "iter", "pair")
    /\ LET t == task[r]
       IN  IF Refused(r)
           THEN \E t2 \in {Done(t, Err), [t EXCEPT !.step = "next"]} :
                    Advance(r, [t2 EXCEPT !.failed = TRUE])
           ELSE Advance(r, Return(t, RecordKey(bytes, t.record), RecordValue(bytes, t.record)))

\* Behind the Base records come the Overlay's puts.
OverlayPuts ==
    LET live == {k \in DOMAIN overlay : overlay[k] # Absent}
    IN  SetToSeq({<<<<k>>, overlay[k]>> : k \in live})

FinishEntries(r, op) ==
    LET t == task[r]
        all == t.items \o OverlayPuts
    IN  /\ Standing(r, op, "next") /\ t.remaining = 0
        /\ Advance(r, IF t.offset # DataSize THEN Done([t EXCEPT !.failed = TRUE], Err)
                      ELSE Done([t EXCEPT !.items = all], IF op = "len" THEN Len(all) ELSE Absent))

-----------------------------------------------------------------------------
\* Database::verify, Snapshot::verify.
VerifyBase(r) ==
    /\ task[r].op = "none"
    /\ Verify(r)
    /\ SetTask(r, [NoTask EXCEPT !.op = "verify", !.step = "done"])
    /\ UNCHANGED image

\* The handle has a Base it opened or, fresh, one it has just written.
ReadInit ==
    /\ \E s \in Setups : hash = s.hash /\ overlay = s.overlay
    /\ mode \in {"OnRead", "Full"}
    /\ \E fresh \in BOOLEAN :
        LET full == fresh \/ mode = "Full"
        IN  /\ bytes \in {Written} \cup
                   (IF fresh THEN {}
                    ELSE UNION {{[Written EXCEPT ![o] = c] : c \in Altered(o)} : o \in DOMAIN Written})
            /\ sealed \in BOOLEAN /\ (sealed => bytes # Written)
            /\ OpenAccepts(bytes, sealed, mode)
            /\ intact = IntactBlocks(bytes, sealed)
            /\ wellFormed = validate_base(bytes, hash)
            /\ verified = (IF full THEN Blocks ELSE {})
            /\ remaining = (IF full THEN 0 ELSE Cardinality(Blocks))
            /\ fully_verified = full
            /\ semantically_verified = full
    /\ call = [r \in Readers |-> Idle]
    /\ task = [r \in Readers |-> NoTask]

InVerifier(r) ==
    /\ \/ LoadBit(r) \/ FetchOr(r) \/ FetchSub(r) \/ StoreFully(r)
       \/ LoadSemantic(r) \/ MarkSemantic(r)
    /\ UNCHANGED <<image, task>>

ReadStep(r) ==
    \/ \E k \in Keys : Get(r, k)
    \/ ProbeSlot(r)
    \/ ReadSlot(r)
    \/ ReadRecord(r)
    \/ \E op \in {"iter", "len"} : NewEntries(r, op) \/ NextRecord(r, op) \/ FinishEntries(r, op)
    \/ ReturnPair(r)
    \/ VerifyBase(r)
    \/ InVerifier(r)

ReadNext == \E r \in Readers : ReadStep(r)

ReadSpec == ReadInit /\ [][ReadNext]_rvars

-----------------------------------------------------------------------------
(* Properties.                                                             *)

\* The readers use the verifier only as module SegmentVerifier says, so what is
\* proved of it there holds of it here; in particular VerificationMode::Full
\* trusts nothing it has not checked (state.rs:59, ActiveBase::open).
UsesVerifier == Spec

StoredPairs == {<<<<Entries[i].key>>, Entries[i].value>> : i \in DOMAIN Entries}

LivePairs ==
    {p \in StoredPairs : ~\E k \in DOMAIN overlay : p[1] = <<k>>} \cup Range(OverlayPuts)

\* What a lookup of k should say.
Expected(k) ==
    IF k \in DOMAIN overlay THEN overlay[k]
    ELSE IF \E p \in StoredPairs : p[1] = <<k>>
         THEN (CHOOSE p \in StoredPairs : p[1] = <<k>>)[2]
    ELSE Absent

\* A lookup that returns Ok returns what was stored, or that nothing was,
\* however keys collide, whichever cell of the Base has changed since, and
\* whatever other readers have verified meanwhile (view.rs:56, lookup_segment).
LookupRight ==
    \A r \in Readers :
        (~sealed /\ task[r].op = "get" /\ task[r].step = "done")
            => task[r].answer \in {Err, Expected(task[r].key)}

\* No call fails on a Base that is as it was written.
NoFalseAlarm ==
    (\E r \in Readers : task[r].failed \/ task[r].answer = Err \/ call[r].result = "err")
        => bytes # Written

\* Iteration returns stored pairs only, even from a damaged Base, provided that
\* the record headers are whole: verify_pair covers the key and the value, not
\* the header in front of them (view.rs:38).  For damaged headers see
\* CheckedOnRead.
PairsStored ==
    (~sealed /\ \A i \in DOMAIN Entries : LET o == RecordStart(Entries, i) IN bytes[o] = Written[o])
        => \A r \in Readers : task[r].op = "iter" => Range(task[r].items) \subseteq LivePairs

\* Iteration returns stored pairs only, whichever cell has changed since the
\* Base was written: VerificationMode::OnRead promises to "check record bounds
\* and immutable data blocks on first access" (options.rs:6).
CheckedOnRead ==
    ~sealed => \A r \in Readers : task[r].op = "iter" => Range(task[r].items) \subseteq LivePairs

\* On a Base that is whole, iteration yields every live entry exactly once and
\* len counts them, alone or beside other readers (transaction.rs:357,
\* RawEntries::next).
IterationExact ==
    \A r \in Readers :
        LET t == task[r]
        IN  (t.op \in {"iter", "len"} /\ t.step = "done" /\ intact = Blocks /\ ~sealed)
                => /\ Range(t.items) = LivePairs
                   /\ Len(t.items) = Cardinality(LivePairs)
                   /\ t.op = "len" => t.answer = Cardinality(LivePairs)

\* What verify has accepted can be walked without a check: trusted_record_at
\* never slices outside the data, and the walk ends where the data ends, even
\* if the checksums were taken over damaged bytes (segment.rs:102).
TrustedWalk ==
    \A r \in Readers : task[r].trusted => task[r].answer \notin {Err, Panic}

\* For every small Base: the builder writes as many bytes as measure_base
\* announced, the validator accepts them, and the hash index keeps free slots
\* ("at or below an 80% load factor", segment.rs:350).
BuilderAgrees ==
    (\A r \in Readers : task[r] = NoTask) =>
        \A entries \in SmallBases :
            LET b == WriteBase(entries, hash)
            IN  /\ WrittenSize(entries, hash) = measure_base(entries)
                /\ validate_base(b, hash)
                /\ Len(entries) * 5 <= b[0].slots * 4
=============================================================================
