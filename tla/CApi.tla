-------------------------------- MODULE CApi --------------------------------
(***************************************************************************)
(* The C API (lkv/src/ffi.rs) over a database in memory.  Threads call     *)
(* lkv_* functions on one lkv_database, whose RwLock they share; a write   *)
(* batch, snapshots and a pointer that get_ref returned live beside it.    *)
(* A panic inside a call is caught at the boundary and, if the call held   *)
(* the lock for writing, poisons it.                                       *)
(*                                                                         *)
(* Assumed of callers: pointers are valid and a handle is closed when no   *)
(* call uses it (the SAFETY comments), a visitor does not call back into   *)
(* its database.  get_stats, sync and verify take the path of len, and     *)
(* snapshot_get that of snapshot_get_ref; NULL arguments, refused before   *)
(* anything is touched, and the texts of errors are left out.              *)
(***************************************************************************)
EXTENDS MemoryDatabase

CONSTANTS
    Threads,
    Writes,         \* bound: the <<key, value>> or <<key, Absent>> put or deleted
    BatchWrites,    \* bound: those a batch holds
    ReadKeys,       \* bound: the keys get and get_ref ask for
    Capacities,     \* value_capacity of a copying get
    Faults,         \* a subset of {"panic", "alloc"}
    NoOne, Down

ASSUME CApiAssumption ==
    /\ Writes \cup BatchWrites \subseteq Keys \X (Vals \cup {Absent})
    /\ ReadKeys \subseteq Keys
    /\ Capacities \subseteq Nat
    /\ NoOne \notin Threads \cup Snapshots \cup {"database"}
    /\ "database" \notin Snapshots
    /\ Down \notin [Keys -> Vals \cup {Absent}]

VARIABLES
    lock,       \* the RwLock: who holds it, and whether it is poisoned
    call,       \* thread -> the call it is in
    batch,      \* lkv_write_batch.entries
    borrowed,   \* the pointer of the last get_ref
    committed,  \* ghost: the contents the last acknowledged write left
    inflight    \* ghost: the contents the running commit would leave, or Down

cvars == <<mvars, lock, call, batch, borrowed, committed, inflight>>
ghosts == <<committed, inflight>>

FreeLock == [readers |-> {}, writer |-> NoOne, poisoned |-> FALSE]

\* What a call hands out: *value_len, and how many bytes of which value it has
\* written to the caller's buffer.
Unset == [len |-> 0, value |-> Absent, copied |-> 0]

Call(op, key, arg) ==
    [op |-> op, at |-> "hold", key |-> key, arg |-> arg, todo |-> <<>>, seen |-> <<>>,
     stopped |-> FALSE, out |-> Unset, status |-> "none"]

NoCall == [Call("none", Absent, Absent) EXCEPT !.at = "idle"]

\* from is a snapshot or "database"; arc is -1 for a value in the Base; live
\* says that the allocation it points into is neither freed nor overwritten.
NoBorrow == [from |-> NoOne, arc |-> -1, key |-> Absent, live |-> TRUE]

-----------------------------------------------------------------------------
(* The lock and the boundary.                                              *)

At(t, op, at) == call[t].op = op /\ call[t].at = at

Become(t, c) == call' = [call EXCEPT ![t] = c]

Done(t, status) == Become(t, [call[t] EXCEPT !.at = "done", !.status = status])

\* A call begins with the lock it needs; until it is free the thread waits.
\* RwLock may let readers pass a waiting writer or not: every order is allowed.
MayEnter(t) == call[t] = NoCall /\ state # "Closed" /\ lock.writer = NoOne

Poisoned(t, c) == Become(t, [c EXCEPT !.at = "done", !.status = "panic"]) /\ UNCHANGED lock

\* A plausible slip: a poisoned lock is taken all the same.
ReadDatabaseAnyway(t, c) ==
    /\ MayEnter(t)
    /\ lock' = [lock EXCEPT !.readers = @ \cup {t}] /\ Become(t, c)
    /\ UNCHANGED <<mvars, batch, borrowed, ghosts>>

read_database(t, c) ==
    /\ MayEnter(t)
    /\ IF lock.poisoned THEN Poisoned(t, c)
       ELSE lock' = [lock EXCEPT !.readers = @ \cup {t}] /\ Become(t, c)
    /\ UNCHANGED <<mvars, batch, borrowed, ghosts>>

write_database(t, c) ==
    /\ MayEnter(t) /\ lock.readers = {}
    /\ IF lock.poisoned THEN Poisoned(t, c)
       ELSE lock' = [lock EXCEPT !.writer = t] /\ Become(t, c)
    /\ UNCHANGED <<mvars, batch, borrowed, ghosts>>

StartRead(t) ==
    \/ \E k \in ReadKeys :
        \/ \E n \in Capacities : read_database(t, Call("get", k, n))
        \/ read_database(t, Call("get_ref", k, Absent))
    \/ \E op \in {"len", "visit"} : read_database(t, Call(op, Absent, Absent))
    \/ \E s \in Snapshots :
        /\ snapshots[s] = NoSnapshot
        /\ \A u \in Threads : call[u].op = "snapshot_create" => call[u].arg # s
        /\ read_database(t, Call("snapshot_create", Absent, s))

StartWrite(t) ==
    \/ \E w \in Writes : write_database(t, Call("put_or_delete", w[1], w[2]))
    \/ write_database(t, Call("compact", Absent, Absent))
    \/ /\ \A u \in Threads : call[u].op # "commit_write_batch"
       /\ write_database(t, Call("commit_write_batch", Absent, Absent))

Unlocked(t) ==
    [lock EXCEPT !.readers = @ \ {t}, !.writer = IF @ = t THEN NoOne ELSE @]

\* The guard is dropped and the status returned; the write is acknowledged.
Return(t) ==
    /\ call[t].at = "done"
    /\ lock' = Unlocked(t)
    /\ Become(t, NoCall)
    /\ IF lock.writer = t /\ inflight # Down
       THEN committed' = inflight /\ inflight' = Down
       ELSE UNCHANGED ghosts
    /\ UNCHANGED <<mvars, batch, borrowed>>

\* Plausible slips: the guard is leaked, or dropped before the panic goes on.
PanicLeaksGuard(t) ==
    /\ "panic" \in Faults
    /\ call[t].at \in {"hold", "apply"}
    /\ Become(t, NoCall)
    /\ UNCHANGED <<mvars, lock, batch, borrowed, ghosts>>

PanicUnpoisoned(t) ==
    /\ "panic" \in Faults
    /\ call[t].at \in {"hold", "apply"}
    /\ lock' = Unlocked(t)
    /\ Become(t, NoCall)
    /\ UNCHANGED <<mvars, batch, borrowed, ghosts>>

\* catch_unwind in ffi_call: the guard is dropped while panicking, and only
\* that of a writer poisons the lock.
Panic(t) ==
    /\ "panic" \in Faults
    /\ call[t].at \in {"hold", "apply"}
    /\ lock' = [Unlocked(t) EXCEPT !.poisoned = @ \/ lock.writer = t]
    /\ Become(t, NoCall)
    /\ UNCHANGED <<mvars, batch, borrowed, ghosts>>

-----------------------------------------------------------------------------
(* Reads.                                                                  *)

\* The borrow ends when whom it was taken from is in gone; otherwise the
\* pointer stays live unless its allocation is freed.
Borrowed(gone, freed) ==
    borrowed' = IF borrowed.from \in gone THEN NoBorrow ELSE [borrowed EXCEPT !.live = @ /\ ~freed]

Reading(t, op) == At(t, op, "hold") /\ UNCHANGED <<mvars, lock, batch, ghosts>>

\* copy_value: the status, *value_len and what is copied.  Nothing is copied of
\* a value that does not fit.
CopyStatus(v, capacity) ==
    IF v = Absent THEN "not_found" ELSE IF capacity < Length(v) THEN "too_small" ELSE "ok"

\* A plausible slip: as much as fits is copied.
CopyOutTruncates(v, capacity) ==
    [len |-> Length(v), value |-> v, copied |-> IF capacity < Length(v) THEN capacity ELSE Length(v)]

CopyOut(v, capacity) ==
    [Unset EXCEPT !.len = Length(v),
                  !.value = IF capacity < Length(v) THEN Absent ELSE v,
                  !.copied = IF capacity < Length(v) THEN 0 ELSE Length(v)]

\* lkv_database_get, with a buffer that may have been allocated for another
\* value; the guard is dropped after the copy.
Get(t) ==
    LET c == call[t] IN
    /\ Reading(t, "get")
    /\ Become(t, [c EXCEPT !.at = "done", !.status = CopyStatus(Shown[c.key], c.arg),
                           !.out = CopyOut(Shown[c.key], c.arg)])
    /\ UNCHANGED borrowed

Borrow(from, arc, k) ==
    [from |-> from, arc |-> IF k \in DOMAIN heap[arc] THEN arc ELSE -1, key |-> k,
     live |-> TRUE]

\* lkv_database_get_ref: the pointer outlives the lock.
GetRef(t) ==
    LET k == call[t].key IN
    /\ Reading(t, "get_ref")
    /\ Done(t, IF Shown[k] = Absent THEN "not_found" ELSE "ok")
    /\ borrowed' = IF Shown[k] = Absent THEN NoBorrow ELSE Borrow("database", index, k)

\* lkv_database_len, and get_stats, verify and sync, which change nothing either.
DatabaseLen(t) ==
    /\ Reading(t, "len")
    /\ Become(t, [call[t] EXCEPT !.at = "done", !.status = "ok", !.out.len = Cardinality(Live(Shown))])
    /\ UNCHANGED borrowed

\* A plausible slip: the lock is released around the callback.
VisitEntryUnlocked(t, k) ==
    /\ At(t, "visit", "hold")
    /\ k \in Live(Shown) \ DOMAIN call[t].seen
    /\ lock' = Unlocked(t)
    /\ Become(t, [call[t] EXCEPT !.seen = Inserted(@, k, Shown[k])])
    /\ UNCHANGED <<mvars, batch, borrowed, ghosts>>

\* What a visit walks over: the database, or the snapshot it was given.
Visited(t) ==
    IF call[t].op = "visit" THEN Shown
    ELSE LET s == snapshots[call[t].arg] IN View(s.base, heap[s.arc])

Visiting(t) ==
    /\ call[t].op \in {"visit", "snapshot_visit"} /\ call[t].at = "hold"
    /\ UNCHANGED <<mvars, lock, batch, borrowed, ghosts>>

\* lkv_database_visit, under the lock, and lkv_snapshot_visit: one callback,
\* which may end the visit.
VisitEntry(t, k) ==
    /\ Visiting(t)
    /\ k \in Live(Visited(t)) \ DOMAIN call[t].seen
    /\ \E stop \in BOOLEAN :
        Become(t, [call[t] EXCEPT !.seen = Inserted(@, k, Visited(t)[k]), !.stopped = stop,
                                  !.at = IF stop THEN "done" ELSE "hold"])

VisitEnd(t) ==
    /\ Visiting(t)
    /\ Live(Visited(t)) \subseteq DOMAIN call[t].seen
    /\ Done(t, "ok")

SnapshotCreate(t) ==
    /\ At(t, "snapshot_create", "hold")
    /\ TakeSnapshot(call[t].arg)
    /\ Done(t, "ok")
    /\ UNCHANGED <<lock, batch, borrowed, ghosts>>

-----------------------------------------------------------------------------
(* Writes.                                                                 *)

\* What the call commits.
Mutations(t) ==
    IF call[t].op = "commit_write_batch" THEN batch ELSE [k \in {call[t].key} |-> call[t].arg]

IsCommit(t) == call[t].op \in {"put_or_delete", "commit_write_batch"}

\* begin_write or commit refuses, or there is nothing to commit.
CommitRefused(t) ==
    LET b == Mutations(t) IN
    /\ IsCommit(t) /\ call[t].at = "hold"
    /\ b = <<>> \/ CommitError(b) # "none"
    /\ Done(t, IF CommitError(b) = "none" THEN "ok" ELSE CommitError(b))
    /\ UNCHANGED <<mvars, lock, batch, borrowed, ghosts>>

\* A plausible slip: the batch is drained into the transaction.
CommitExtendDrains(t) ==
    LET b == Mutations(t) IN
    /\ IsCommit(t) /\ call[t].at = "hold"
    /\ b # <<>> /\ CommitError(b) = "none"
    /\ ExtendLog(b)
    /\ Become(t, [call[t] EXCEPT !.at = "apply", !.todo = b])
    /\ inflight' = View(committed, b)
    /\ batch' = IF call[t].op = "commit_write_batch" THEN <<>> ELSE batch
    /\ UNCHANGED <<lock, borrowed, committed>>

CommitExtend(t) ==
    LET b == Mutations(t) IN
    /\ IsCommit(t) /\ call[t].at = "hold"
    /\ b # <<>> /\ CommitError(b) = "none"
    /\ ExtendLog(b)
    /\ Become(t, [call[t] EXCEPT !.at = "apply", !.todo = b])
    /\ inflight' = View(committed, b)
    /\ UNCHANGED <<lock, batch, borrowed, committed>>

\* A plausible slip: the batch is left as it is.
CommitApplyKeepsBatch(t, k) ==
    LET c == call[t]
        rest == Restrict(c.todo, DOMAIN c.todo \ {k})
    IN  /\ c.at = "apply" /\ k \in DOMAIN c.todo
        /\ SetEntry(k, c.todo[k])
        /\ Become(t, [c EXCEPT !.todo = rest, !.at = IF rest = <<>> THEN "done" ELSE "apply",
                               !.status = IF rest = <<>> THEN "ok" ELSE "none"])
        /\ Borrowed({"database"}, borrowed.arc = MakeMut(index) /\ borrowed.key = k)
        /\ UNCHANGED <<lock, batch, ghosts>>

\* One turn of commit_staged_memory's loop; the last one ends the commit and
\* empties the batch.
CommitApply(t, k) ==
    LET c == call[t]
        rest == Restrict(c.todo, DOMAIN c.todo \ {k})
    IN  /\ c.at = "apply" /\ k \in DOMAIN c.todo
        /\ SetEntry(k, c.todo[k])
        /\ Become(t, [c EXCEPT !.todo = rest, !.at = IF rest = <<>> THEN "done" ELSE "apply",
                               !.status = IF rest = <<>> THEN "ok" ELSE "none"])
        /\ batch' = IF rest = <<>> /\ c.op = "commit_write_batch" THEN <<>> ELSE batch
        /\ Borrowed({"database"}, borrowed.arc = MakeMut(index) /\ borrowed.key = k)
        /\ UNCHANGED <<lock, ghosts>>

CompactEarly(t) ==
    /\ At(t, "compact", "hold")
    /\ \/ CompactError # "none" /\ Done(t, CompactError)
       \/ CompactError = "none" /\ NothingToCompact /\ Done(t, "ok")
       \/ /\ CompactError = "none" /\ ~NothingToCompact
          /\ "alloc" \in Faults /\ Done(t, "io")   \* in build_memory_base
    /\ UNCHANGED <<mvars, lock, batch, borrowed, ghosts>>

Compact(t) ==
    /\ At(t, "compact", "hold")
    /\ CompactError = "none" /\ ~NothingToCompact
    /\ InstallMemoryBase /\ Done(t, "ok")
    /\ Borrowed({"database"}, borrowed.arc = MakeMut(index))
    /\ UNCHANGED <<lock, batch, ghosts>>

-----------------------------------------------------------------------------
(* Calls that take no lock, made by a thread that is in no other call.     *)

SomeIdle == \E t \in Threads : call[t] = NoCall

Committing == \E t \in Threads : call[t].op = "commit_write_batch"

BatchInsert(k, v) ==
    /\ SomeIdle /\ ~Committing
    /\ batch' = Inserted(batch, k, v)
    /\ UNCHANGED <<mvars, lock, call, borrowed, ghosts>>

BatchClear ==
    /\ SomeIdle /\ ~Committing
    /\ batch' = <<>>
    /\ UNCHANGED <<mvars, lock, call, borrowed, ghosts>>

\* lkv_snapshot_visit takes no lock.
SnapshotVisit(t, s) ==
    /\ call[t] = NoCall /\ snapshots[s] # NoSnapshot
    /\ Become(t, Call("snapshot_visit", Absent, s))
    /\ UNCHANGED <<mvars, lock, batch, borrowed, ghosts>>

SnapshotGetRef(s, k) ==
    /\ SomeIdle
    /\ snapshots[s] # NoSnapshot
    /\ View(snapshots[s].base, heap[snapshots[s].arc])[k] # Absent
    /\ borrowed' = Borrow(s, snapshots[s].arc, k)
    /\ UNCHANGED <<mvars, lock, call, batch, ghosts>>

FreedArc == borrowed.arc # -1 /\ heap'[borrowed.arc] = <<>>

SnapshotClose(s) ==
    /\ \A t \in Threads : call[t].op = "snapshot_visit" => call[t].arg # s
    /\ SomeIdle /\ DropSnapshot(s)
    /\ Borrowed({s}, FreedArc)
    /\ UNCHANGED <<lock, call, batch, ghosts>>

\* lkv_database_close, by a caller whose other calls have returned.
DatabaseClose ==
    /\ \A t \in Threads : call[t].op \in {"none", "snapshot_visit"}
    /\ SomeIdle /\ DropHandle
    /\ Borrowed({"database"}, FreedArc)
    /\ UNCHANGED <<lock, call, batch, ghosts>>

-----------------------------------------------------------------------------

CInit ==
    /\ MemoryInit
    /\ lock = FreeLock
    /\ call = [t \in Threads |-> NoCall]
    /\ batch = <<>>
    /\ borrowed = NoBorrow
    /\ committed = EmptyMap
    /\ inflight = Down

\* A step of a call that has begun.
CallStep(t) ==
    \/ Return(t) \/ Panic(t)
    \/ Get(t) \/ GetRef(t) \/ DatabaseLen(t) \/ VisitEnd(t) \/ SnapshotCreate(t)
    \/ CommitRefused(t) \/ CommitExtend(t) \/ CompactEarly(t) \/ Compact(t)
    \/ \E k \in Keys : VisitEntry(t, k) \/ CommitApply(t, k)

CNext ==
    \/ \E t \in Threads : StartRead(t) \/ StartWrite(t) \/ CallStep(t)
    \/ \E w \in BatchWrites : BatchInsert(w[1], w[2])
    \/ BatchClear
    \/ \E s \in Snapshots :
        \/ SnapshotClose(s)
        \/ \E t \in Threads : SnapshotVisit(t, s)
        \/ \E k \in ReadKeys : SnapshotGetRef(s, k)
    \/ DatabaseClose

CSpec == CInit /\ [][CNext]_cvars

-----------------------------------------------------------------------------
(* Properties.                                                             *)

\* A call that reads under the lock answers from the contents the last
\* acknowledged write left, never from a batch applied in part: neither while
\* another thread commits nor after a commit that panicked between two entries
\* (ffi.rs:213, mod.rs:297).
ReadsCommitted ==
    \A t \in lock.readers :
        /\ Shown = committed
        /\ At(t, "len", "done") => call[t].out.len = Cardinality(Live(committed))
        /\ At(t, "get", "done") =>
            /\ call[t].out.len = Length(committed[call[t].key])
            /\ call[t].status = "ok" => call[t].out.value = committed[call[t].key]

\* A copying get into a buffer of any capacity, sized perhaps by the length an
\* earlier call gave before another thread replaced the value, writes the whole
\* committed value or no byte, and never past the buffer; it is refused only if
\* the value does not fit, and then says what would (ffi.rs:275).
CopyWhole ==
    \A t \in lock.readers : At(t, "get", "done") =>
        LET n == Length(committed[call[t].key]) IN
        /\ call[t].out.len = n
        /\ call[t].out.copied <= call[t].arg
        /\ call[t].status = "ok" => call[t].out.copied = n
        /\ call[t].status # "ok" => call[t].out.copied = 0
        /\ call[t].status = "too_small" => call[t].arg < n

\* The pairs a visitor has been given are entries of one single contents, and
\* a visit that was not stopped has given all of them, whatever the other
\* threads write between its callbacks: of the database the last committed
\* contents, of a snapshot those of the moment it was taken (ffi.rs:642, 674).
VisitConsistent ==
    \A t \in Threads : call[t].op \in {"visit", "snapshot_visit"} =>
        LET m == IF call[t].op = "visit" THEN committed ELSE snapshots[call[t].arg].shown
        IN  /\ \A k \in DOMAIN call[t].seen : call[t].seen[k] = m[k] /\ m[k] # Absent
            /\ call[t].at = "done" /\ call[t].status = "ok" /\ ~call[t].stopped =>
                  DOMAIN call[t].seen = Live(m)

\* A snapshot shows what it showed when it was taken, and a pointer that
\* get_ref returned stays valid: one from a snapshot until the snapshot is
\* closed, through any number of commits, compaction attempts, a poisoned lock
\* and the closing of the database; one from the database until the next write
\* (ffi.rs:435, ffi.rs:608, Arc::make_mut at state.rs:613).
BorrowsValid ==
    /\ borrowed.live
    /\ \A s \in Snapshots : snapshots[s] # NoSnapshot =>
          View(snapshots[s].base, heap[snapshots[s].arc]) = snapshots[s].shown

\* Whoever the lock keeps waiting, a call in progress can take a step towards
\* its return: no return path, an error's and a panic's included, keeps the
\* lock (ffi.rs:150).
NoCallStuck ==
    lock.writer # NoOne \/ lock.readers # {} => \E t \in Threads : ENABLED CallStep(t)

\* A batch is committed once: its mutations leave it only by an edit of its
\* owner or when a commit has made all of them visible, so a commit that is
\* refused or panics leaves it whole, to be tried again; and a commit reports Ok
\* only with the batch empty, so the next one cannot apply them again over what
\* was written since (ffi.rs:797).
BatchKept ==
    [][/\ Committing /\ batch' # batch =>
            batch' = <<>> /\ \A k \in DOMAIN batch : Shown'[k] = batch[k]
       /\ \A t \in Threads :
            call'[t].op = "commit_write_batch" /\ call'[t].status = "ok" => batch' = <<>>]_cvars

\* The C API over a database in memory implements the atomic store.  A commit
\* is pending from the first change to the storage until its call returns; a
\* poisoned lock, like closing, takes the store down for good (ffi.rs:213).
Store == INSTANCE AtomicStore WITH
    acked <- committed,
    maybe <- IF inflight = Down THEN {} ELSE {inflight},
    pending <- IF lock.poisoned THEN Down ELSE inflight,
    view <- IF lock.poisoned \/ state = "Closed" THEN Down
            ELSE IF lock.writer # NoOne THEN committed ELSE Shown

ImplementsStore == Store!Spec
=============================================================================
