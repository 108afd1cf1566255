---------------------------- MODULE Transaction ----------------------------
(***************************************************************************)
(* Write transactions of a handle on a file: the staging area of           *)
(* WriteTransaction and ReservedValue (lkv/src/database/transaction.rs),   *)
(* the record a commit writes (batch_payload_len and batch_record_checksum *)
(* in lkv/src/format/log.rs, commit_staged_with in mod.rs) and what        *)
(* scan_overlay (recovery.rs) asks of that record, over the index of       *)
(* module OverlayIndex.                                                    *)
(*                                                                         *)
(* A checksum is the list of what went into it.  The checksum of a long    *)
(* value is taken when the value is staged and combined into that of the   *)
(* record at the commit.                                                   *)
(***************************************************************************)
EXTENDS OverlayIndex

CONSTANTS
    MAX_BATCH_OPERATIONS,
    MAX_LOG_PAYLOAD_SIZE,
    Reserved    \* the put_reserved calls: a value and the lengths the callback writes

VARIABLES
    txn,        \* the open WriteTransaction, or NoTransaction
    records     \* the record headers of the log, in order

tvars == <<vars, txn, records>>

\* wanted is a ghost: the mutations whose calls returned Ok.
NoTransaction == [open |-> FALSE, staged |-> <<>>, value_checksums |-> <<>>, wanted |-> <<>>]

Without(f, k) == [j \in DOMAIN f \ {k} |-> f[j]]

COUNT_SIZE == 1     \* the operation count that opens a payload

Payload(sizes) ==
    COUNT_SIZE + MapThenSumSet(LAMBDA k : OperationSize([key |-> k, val |-> sizes[k]]), DOMAIN sizes)

\* check_lengths and check_single_put_size: a put that fits no record.
Fits(k, v) == Payload(k :> v) <= MAX_LOG_PAYLOAD_SIZE

\* The checksum of n bytes of value v.
Crc(v, n) == [val |-> v, bytes |-> n]

-----------------------------------------------------------------------------
(* Staging.                                                                *)

\* begin_write.
BeginWrite ==
    /\ ~txn.open
    /\ memory <= OverlayMemoryLimit
    /\ txn' = [NoTransaction EXCEPT !.open = TRUE]
    /\ UNCHANGED <<vars, records>>

\* A plausible slip: a short value leaves the checksum of the long one it replaces.
StagedKeepsChecksum(t, k, v, crc) ==
    [t EXCEPT !.staged = (k :> v) @@ @,
              !.value_checksums = IF Length(v) >= MAPPED_VALUE_THRESHOLD THEN (k :> crc) @@ @ ELSE @]

\* The tail of put and put_reserved.
Staged(t, k, v, crc) ==
    [t EXCEPT !.staged = (k :> v) @@ @,
              !.value_checksums = IF Length(v) >= MAPPED_VALUE_THRESHOLD
                                  THEN (k :> crc) @@ @ ELSE Without(@, k)]

Wanted(t, k, v) == [t EXCEPT !.wanted = (k :> v) @@ @]

Put(k, v) ==
    /\ txn.open
    /\ txn' = IF Fits(k, v) THEN Wanted(Staged(txn, k, v, Crc(v, Length(v))), k, v) ELSE txn
    /\ UNCHANGED <<vars, records>>

\* ReservedValue::write; the callback may ignore the error.
ReservedWrite(w, n) ==
    IF n > w.len - w.position
    THEN w
    ELSE [w EXCEPT !.position = @ + n, !.hashed = @ + n]

Filled(len, writes) ==
    FoldLeft(ReservedWrite, [len |-> len, position |-> 0, hashed |-> 0], writes)

\* A plausible slip: the value is staged before require_complete.
PutReservedEarly(k, v, writes) ==
    LET w == Filled(Length(v), writes)
        staged == Staged(txn, k, v, Crc(v, w.hashed))
    IN  /\ txn.open
        /\ txn' = IF Fits(k, v) /\ w.position = w.len THEN Wanted(staged, k, v) ELSE staged
        /\ UNCHANGED <<vars, records>>

\* put_reserved; a callback that fails or leaves the value incomplete stages
\* nothing.
PutReserved(k, v, writes) ==
    LET w == Filled(Length(v), writes)
    IN  /\ txn.open
        /\ txn' = IF Fits(k, v) /\ w.position = w.len
                  THEN Wanted(Staged(txn, k, v, Crc(v, w.hashed)), k, v)
                  ELSE txn
        /\ UNCHANGED <<vars, records>>

Delete(k) ==
    /\ txn.open
    /\ txn' = Wanted([txn EXCEPT !.staged = (k :> Absent) @@ @,
                                 !.value_checksums = Without(@, k)], k, Absent)
    /\ UNCHANGED <<vars, records>>

Abort ==
    /\ txn.open
    /\ txn' = NoTransaction
    /\ UNCHANGED <<vars, records>>

-----------------------------------------------------------------------------
(* The record.                                                             *)

\* The orders in which the staged map may iterate.
Orders(staged) ==
    {b \in [1 .. Cardinality(DOMAIN staged) -> {[key |-> k, val |-> staged[k]] : k \in DOMAIN staged}] :
        IsInjective(b)}

\* A plausible slip: the operations are not counted.
PayloadFitsAnyCount(staged) == Payload(staged) <= MAX_LOG_PAYLOAD_SIZE

\* batch_payload_len: whether a record can hold the transaction.
PayloadFits(staged) ==
    /\ Cardinality(DOMAIN staged) <= MAX_BATCH_OPERATIONS
    /\ Payload(staged) <= MAX_LOG_PAYLOAD_SIZE

\* The operation with the checksum of its value.
Summed(op, crc) == [key |-> op.key, crc |-> crc]

\* batch_record_checksum: cached checksums stand in for their values.
batch_record_checksum(b, sums) ==
    [i \in DOMAIN b |->
        Summed(b[i], IF b[i].val # Absent /\ b[i].key \in DOMAIN sums
                     THEN sums[b[i].key] ELSE Crc(b[i].val, Length(b[i].val)))]

Header(b, start, sums) ==
    [start |-> start, count |-> Len(b), checksum |-> batch_record_checksum(b, sums)]

\* commit: the transaction ends whether it is written or refused.
CommitStaged ==
    /\ txn.open
    /\ txn' = NoTransaction
    /\ \/ /\ DOMAIN txn.staged = {} \/ ~PayloadFits(txn.staged)
          /\ UNCHANGED <<vars, records>>
       \/ /\ DOMAIN txn.staged # {} /\ PayloadFits(txn.staged)
          /\ \E b \in Orders(txn.staged) :
                /\ Commit(b)
                /\ records' = Append(records, Header(b, logLen, txn.value_checksums))

-----------------------------------------------------------------------------
\* The transaction borrows the handle: meanwhile a snapshot may be dropped or
\* the process may die, and nothing else.
TInit == Init /\ txn = NoTransaction /\ records = <<>>

TNext ==
    \/ BeginWrite
    \/ \E k \in Keys :
        \/ Delete(k)
        \/ \E v \in Vals : Put(k, v)
        \/ \E call \in Reserved : PutReserved(k, call.val, call.writes)
    \/ Abort
    \/ CommitStaged
    \/ Reopen /\ txn' = NoTransaction /\ UNCHANGED records
    \/ ~txn.open /\ Clear /\ records' = <<>> /\ UNCHANGED txn
    \/ ~txn.open /\ UNCHANGED <<txn, records>> /\ \E s \in Snapshots : TakeSnapshot(s)
    \/ UNCHANGED <<txn, records>> /\ \E s \in Snapshots : DropSnapshot(s)

TSpec == TInit /\ [][TNext]_tvars

-----------------------------------------------------------------------------
(* Properties.                                                             *)

\* The operations scan_overlay finds in the i-th record, and their checksum.
ScannedChecksum(i) ==
    LET end == IF i < Len(records) THEN records[i + 1].start ELSE logLen
        InRecord(o) == o \in DOMAIN log /\ o >= records[i].start /\ o < end
        at == SelectSeq([n \in 1 .. logLen |-> n - 1], InRecord)
    IN  [j \in DOMAIN at |-> Summed(log[at[j]], Crc(log[at[j]].val, Length(log[at[j]].val)))]

\* Every record a commit acknowledged is one that the next open accepts: the
\* checksum put together from cached ones is that of the bytes written, whatever
\* puts, reserved puts and deletes of the same key came before, and the limits
\* of the writer are those of scan_overlay and apply_batch_payload.
RecordsReadable ==
    \A i \in DOMAIN records :
        LET crcs == ScannedChecksum(i)
        IN  /\ records[i].checksum = crcs
            /\ records[i].count = Len(crcs) /\ Len(crcs) <= MAX_BATCH_OPERATIONS
            /\ COUNT_SIZE + MapThenSumSet(LAMBDA j : OPERATION_HEADER_SIZE + KEY_LEN + crcs[j].crc.bytes,
                                          DOMAIN crcs)
                    <= MAX_LOG_PAYLOAD_SIZE

\* WriteTransaction::get: the transaction's own mutation first.
TxnGet(k) == IF k \in DOMAIN txn.staged THEN {txn.staged[k]} ELSE Lookup(heap[index], k)

\* A commit publishes, for every key at once, what the transaction's own reads
\* showed just before, which is what the calls that succeeded asked for; a
\* refused commit, an abort, a failed put and a reopen publish nothing.
PublishesOwnReads ==
    [][LET shown == Shown(heap[index])
       IN  /\ (txn.open /\ logLen' > logLen)
                => \A k \in Keys :
                    /\ Shown(heap[index])'[k] = TxnGet(k)
                    /\ k \in DOMAIN txn.wanted => TxnGet(k) = {txn.wanted[k]}
                    /\ k \notin DOMAIN txn.wanted => TxnGet(k) = shown[k]
           /\ logLen' = logLen => Shown(heap[index])' = shown]_tvars
=============================================================================
