---------------------------- MODULE CApi_proofs ----------------------------
(***************************************************************************)
(* The C API for every number of threads, keys, values and snapshots: the  *)
(* inductive invariant CApiInv, and that it is kept when a thread enters   *)
(* or leaves a call, panics, or takes a step inside one; and with it:      *)
(* reads under the lock answer from committed contents, visits walk over   *)
(* one contents, a copy is whole or nothing, borrowed pointers and         *)
(* snapshots stay valid, a batch is committed once, and the whole          *)
(* implements the atomic store.                                            *)
(***************************************************************************)
EXTENDS CApi, FiniteSetTheorems, TLAPS

-----------------------------------------------------------------------------
(* The inductive invariant.                                                *)

Value == Vals \cup {Absent}

Contents == [Keys -> Value]

\* A KeyMap: an Overlay, a write batch, what is left of one, what a visit saw.
Entries == UNION {[D -> Value] : D \in SUBSET Keys}

ReadOps == {"get", "get_ref", "len", "visit", "snapshot_create"}

WriteOps == {"put_or_delete", "compact", "commit_write_batch"}

Statuses ==
    {"none", "ok", "not_found", "too_small", "panic", "poisoned", "maintenance_required",
     "full", "busy", "io"}

CallRecord ==
    [op : ReadOps \cup WriteOps \cup {"none", "snapshot_visit"},
     at : {"idle", "hold", "apply", "done"},
     key : Keys \cup {Absent},
     arg : Value \cup Capacities \cup Snapshots,
     todo : Entries,
     seen : Entries,
     stopped : BOOLEAN,
     out : [len : Nat, value : Value, copied : Nat],
     status : Statuses]

\* The storage and what hangs on it.
MemoryTypes ==
    /\ base \in Contents
    /\ heap \in [Arcs -> Entries]
    /\ index \in Arcs
    /\ state \in {"Healthy", "Closed"}
    /\ snapshots \in [Snapshots -> [base : Contents, arc : Arcs, shown : Contents] \cup {NoSnapshot}]

Types ==
    /\ MemoryTypes
    /\ lock \in [readers : SUBSET Threads, writer : Threads \cup {NoOne}, poisoned : BOOLEAN]
    /\ call \in [Threads -> CallRecord]
    /\ batch \in Entries
    /\ borrowed \in [from : Snapshots \cup {"database", NoOne}, arc : Arcs \cup {-1},
                     key : Keys \cup {Absent}, live : BOOLEAN]
    /\ committed \in Contents
    /\ inflight \in Contents \cup {Down}

\* What the call of a thread says of the lock: a guard is held from the start
\* of a call to its return, unless the lock was poisoned.
Guarded(t) ==
    /\ call[t].op = "none" <=> call[t].at = "idle"
    /\ call[t].op = "none" => call[t] = NoCall
    /\ t \in lock.readers => call[t].op \in ReadOps
    /\ lock.writer = t => call[t].op \in WriteOps
    /\ call[t].op \in ReadOps /\ t \notin lock.readers =>
           call[t].at = "done" /\ call[t].status = "panic" /\ call[t].seen = <<>>
    /\ call[t].op \in WriteOps /\ lock.writer # t => call[t].at = "done"
    /\ call[t].at = "apply" => IsCommit(t)

\* The arguments of a call.
Argued(t) ==
    /\ call[t].op \in {"get", "get_ref", "put_or_delete"} => call[t].key \in Keys
    /\ call[t].op = "get" => call[t].arg \in Capacities
    /\ call[t].op = "put_or_delete" => call[t].arg \in Value
    /\ call[t].op \in {"snapshot_create", "snapshot_visit"} => call[t].arg \in Snapshots
    /\ call[t].op = "snapshot_visit" => snapshots[call[t].arg] # NoSnapshot
    /\ call[t].op = "snapshot_create" /\ call[t].at = "hold" =>
           snapshots[call[t].arg] = NoSnapshot

\* Nobody reads while somebody writes; a poisoned or closed database has neither.
Exclusive ==
    /\ lock.writer # NoOne => lock.readers = {}
    /\ lock.poisoned \/ state = "Closed" => lock.readers = {} /\ lock.writer = NoOne

\* Two calls neither create the same snapshot nor commit the same batch.
OneEach ==
    \A t, u \in Threads : call[t].op = call[u].op =>
        /\ call[t].op = "snapshot_create" /\ call[t].arg = call[u].arg => t = u
        /\ call[t].op = "commit_write_batch" => t = u

\* Between writes the storage shows the committed contents; while a commit
\* applies its entries, what is left of them leads to the contents in flight.
Settled ==
    /\ state # "Closed" /\ ~lock.poisoned /\ lock.writer = NoOne =>
           Shown = committed /\ inflight = Down
    /\ \A t \in Threads : lock.writer = t =>
           /\ call[t].at = "hold" => Shown = committed /\ inflight = Down
           /\ call[t].at = "apply" => inflight # Down /\ View(Shown, call[t].todo) = inflight
           /\ call[t].at = "done" => Shown = IF inflight = Down THEN committed ELSE inflight

\* A batch that is being committed is applied in part, the rest is still to do.
HalfApplied(t) ==
    call[t].op = "commit_write_batch" /\ call[t].at = "apply" =>
        \A k \in DOMAIN batch :
            (IF k \in DOMAIN call[t].todo THEN call[t].todo[k] ELSE Shown[k]) = batch[k]

\* A borrowed pointer leads to an entry of the Overlay of whom it was taken from.
Borrowing ==
    /\ borrowed.arc # -1 => borrowed.key \in DOMAIN heap[borrowed.arc]
    /\ borrowed.from = NoOne => borrowed.arc = -1
    /\ borrowed.from = "database" => state # "Closed" /\ borrowed.arc \in {-1, index}
    /\ borrowed.from \in Snapshots =>
           /\ snapshots[borrowed.from] # NoSnapshot
           /\ borrowed.arc \in {-1, snapshots[borrowed.from].arc}

\* What a visit has handed out, and what a finished read answered.
VisitOK(t) ==
    call[t].op \in {"visit", "snapshot_visit"} =>
        LET m == IF call[t].op = "visit" THEN committed ELSE snapshots[call[t].arg].shown
        IN  /\ \A k \in DOMAIN call[t].seen : call[t].seen[k] = m[k] /\ m[k] # Absent
            /\ call[t].at = "done" /\ call[t].status = "ok" /\ ~call[t].stopped =>
                  DOMAIN call[t].seen = Live(m)

\* What a copying get c has answered when the value is v.
Answered(c, v) ==
    /\ c.out.len = Length(v)
    /\ c.out.copied <= c.arg
    /\ c.status = "ok" => c.out.value = v /\ c.out.copied = Length(v)
    /\ c.status # "ok" => c.out.copied = 0
    /\ c.status = "too_small" => c.arg < Length(v)

ReadOK(t) ==
    t \in lock.readers =>
        /\ At(t, "len", "done") => call[t].out.len = Cardinality(Live(committed))
        /\ At(t, "get", "done") => Answered(call[t], committed[call[t].key])

ThreadInv(t) == Guarded(t) /\ Argued(t) /\ HalfApplied(t) /\ VisitOK(t) /\ ReadOK(t)

CApiInv ==
    /\ Types
    /\ \A t \in Threads : ThreadInv(t)
    /\ Exclusive
    /\ OneEach
    /\ Settled
    /\ Borrowing
    /\ BorrowsValid

-----------------------------------------------------------------------------
(* Maps, calls and Arcs.                                                   *)

\* What a KeyMap is.
LEMMA EntriesElim ==
    ASSUME NEW f \in Entries
    PROVE  /\ DOMAIN f \subseteq Keys
           /\ f = [k \in DOMAIN f |-> f[k]]
           /\ \A k \in DOMAIN f : f[k] \in Value
BY DEF Entries

\* A map of some keys to values is a KeyMap.
LEMMA EntriesIntro ==
    ASSUME NEW D \in SUBSET Keys, NEW f \in [D -> Value]
    PROVE  f \in Entries
BY DEF Entries

\* The empty KeyMap.
LEMMA NoneEntries == <<>> \in Entries /\ DOMAIN <<>> = {}
<1>1. <<>> \in [{} -> Value]
  OBVIOUS
<1> QED
  BY <1>1, EntriesIntro, Zenon

\* KeyMap::insert yields a KeyMap.
LEMMA InsertedType ==
    ASSUME NEW f \in Entries, NEW k \in Keys, NEW v \in Value
    PROVE  Inserted(f, k, v) \in Entries /\ DOMAIN Inserted(f, k, v) = DOMAIN f \cup {k}
<1>1. Inserted(f, k, v) \in [DOMAIN f \cup {k} -> Value]
  BY EntriesElim DEF Inserted
<1>2. DOMAIN f \cup {k} \in SUBSET Keys
  BY EntriesElim
<1> QED
  BY <1>1, <1>2, EntriesIntro DEF Inserted

\* So does leaving out entries.
LEMMA RestrictType ==
    ASSUME NEW f \in Entries, NEW S \in SUBSET DOMAIN f
    PROVE  Restrict(f, S) \in Entries /\ DOMAIN Restrict(f, S) = S
<1>1. Restrict(f, S) \in [S -> Value]
  BY EntriesElim DEF Restrict
<1>2. S \in SUBSET Keys
  BY EntriesElim
<1> QED
  BY <1>1, <1>2, EntriesIntro DEF Restrict

\* What a reader sees through an Overlay is a contents.
LEMMA ViewType ==
    ASSUME NEW m \in Contents, NEW b \in Entries
    PROVE  View(m, b) \in Contents
BY EntriesElim DEF View, Contents

\* An empty Overlay shows the Base.
LEMMA ViewNothing ==
    ASSUME NEW m \in Contents
    PROVE  View(m, <<>>) = m
BY DEF View, Contents

\* One turn of the loop: the entry moves from what is left into the Overlay.
LEMMA ApplyOne ==
    ASSUME NEW m \in Contents, NEW o \in Entries, NEW todo \in Entries, NEW k \in DOMAIN todo
    PROVE  View(View(m, Inserted(o, k, todo[k])), Restrict(todo, DOMAIN todo \ {k}))
               = View(View(m, o), todo)
<1>1. k \in Keys
  BY EntriesElim
<1> DEFINE a == View(View(m, Inserted(o, k, todo[k])), Restrict(todo, DOMAIN todo \ {k}))
           b == View(View(m, o), todo)
<1>2. \A x \in Keys : a[x] = b[x]
  BY <1>1 DEF View, Inserted, Restrict
<1> QED
  BY <1>2 DEF View

\* One turn of the loop that merges a batch changes what is shown at its key.
LEMMA ShownAfter ==
    ASSUME NEW o \in Entries, NEW k \in Keys, NEW v \in Value, base \in Contents,
           Shown = View(base, o), Shown' = View(base, Inserted(o, k, v))
    PROVE  \A x \in Keys : Shown'[x] = IF x = k THEN v ELSE Shown[x]
BY DEF View, Inserted

\* A new call.
LEMMA CallType ==
    ASSUME NEW op \in ReadOps \cup WriteOps \cup {"none", "snapshot_visit"},
           NEW key \in Keys \cup {Absent}, NEW arg \in Value \cup Capacities \cup Snapshots
    PROVE  /\ Call(op, key, arg) \in CallRecord
           /\ Call(op, key, arg).op = op /\ Call(op, key, arg).at = "hold"
           /\ Call(op, key, arg).key = key /\ Call(op, key, arg).arg = arg
           /\ Call(op, key, arg).seen = <<>> /\ Call(op, key, arg).status = "none"
<1>1. Unset \in [len : Nat, value : Value, copied : Nat]
  BY DEF Unset, Value
<1>2. "none" \in Statuses
  BY DEF Statuses
<1> QED
  BY <1>1, <1>2, NoneEntries DEF Call, CallRecord

\* A thread that is in no call.
LEMMA NoCallType ==
    NoCall \in CallRecord /\ NoCall.op = "none" /\ NoCall.at = "idle" /\ NoCall.seen = <<>>
<1>1. Absent \in Value
  BY DEF Value
<1>2. Call("none", Absent, Absent) \in CallRecord /\ Call("none", Absent, Absent).op = "none"
      /\ Call("none", Absent, Absent).seen = <<>>
  BY <1>1, CallType
<1> QED
  BY <1>2 DEF NoCall, CallRecord

\* Arc::make_mut never changes a map that a snapshot shares: there is one Arc
\* more than there are snapshots.
LEMMA FreshArc ==
    ASSUME MemoryTypes
    PROVE  MakeMut(index) \in Arcs /\ ~Held(MakeMut(index))
<1>1. Cardinality(Snapshots) \in Nat
  BY MemoryAssumption, FS_CardinalityType
<1>2. IsFiniteSet(Arcs) /\ Cardinality(Arcs) = Cardinality(Snapshots) + 1
  BY <1>1, FS_Interval DEF Arcs
<1>3. CASE Held(index)
  <2> DEFINE f == [s \in Snapshots |-> snapshots[s].arc]
             H == {f[s] : s \in Snapshots}
  <2>1. f \in Surjection(Snapshots, H)
    BY Z3 DEF Surjection
  <2>2. IsFiniteSet(H) /\ Cardinality(H) <= Cardinality(Snapshots)
    BY <2>1, MemoryAssumption, FS_Surjection
  <2>3. ~(Arcs \subseteq H)
    <3> SUFFICES ASSUME Arcs \subseteq H
                 PROVE  FALSE
      OBVIOUS
    <3>1. Cardinality(Arcs) <= Cardinality(H)
      BY <2>2, FS_Subset
    <3>2. Cardinality(H) \in Nat
      BY <2>2, FS_CardinalityType
    <3> QED
      BY <1>1, <1>2, <2>2, <3>1, <3>2
  <2>4. PICK n \in Arcs : n \notin H
    BY <2>3
  <2>5. n # index /\ ~Held(n)
    BY <1>3, <2>4 DEF Held
  <2> QED
    BY <1>3, <2>4, <2>5 DEF MakeMut
<1>4. CASE ~Held(index)
  BY <1>4 DEF MakeMut, MemoryTypes
<1> QED
  BY <1>3, <1>4

-----------------------------------------------------------------------------
(* What steps leave alone.                                                 *)

\* The call of one thread changes.
LEMMA BecomeOne ==
    ASSUME call \in [Threads -> CallRecord], NEW t \in Threads, NEW c \in CallRecord, Become(t, c)
    PROVE  /\ call' \in [Threads -> CallRecord]
           /\ call'[t] = c
           /\ \A u \in Threads \ {t} : call'[u] = call[u]
BY DEF Become

\* A call that comes to its end.
LEMMA EndType ==
    ASSUME NEW c \in CallRecord, NEW s \in Statuses
    PROVE  LET r == [c EXCEPT !.at = "done", !.status = s]
           IN  /\ r \in CallRecord
               /\ r.at = "done" /\ r.status = s /\ r.op = c.op /\ r.key = c.key /\ r.arg = c.arg
               /\ r.todo = c.todo /\ r.seen = c.seen /\ r.stopped = c.stopped /\ r.out = c.out
BY Zenon DEF CallRecord

\* Threads whose call stays as it is, and whose part of the lock too, are not
\* disturbed by what the others do.
LEMMA Others ==
    ASSUME NEW S \in SUBSET Threads, \A u \in S : ThreadInv(u), Types,
           \A u \in S :
               /\ call'[u] = call[u]
               /\ u \in lock'.readers <=> u \in lock.readers
               /\ lock'.writer = u <=> lock.writer = u
               /\ call[u].op = "snapshot_visit" =>
                      snapshots'[call[u].arg] = snapshots[call[u].arg]
               /\ call[u].op = "snapshot_create" /\ call[u].at = "hold" =>
                      snapshots'[call[u].arg] = NoSnapshot
               /\ call[u].op = "commit_write_batch" /\ call[u].at = "apply" =>
                      Shown' = Shown /\ batch' = batch,
           committed' = committed \/ lock.readers = {}
    PROVE  \A u \in S : ThreadInv(u)'
<1> SUFFICES ASSUME NEW u \in S
             PROVE  ThreadInv(u)'
  OBVIOUS
<1>1. ThreadInv(u) /\ call'[u] = call[u] /\ (u \in lock'.readers <=> u \in lock.readers)
      /\ (lock'.writer = u <=> lock.writer = u)
  OBVIOUS
<1>2. Guarded(u)'
  BY <1>1 DEF ThreadInv, Guarded, IsCommit
<1>3. Argued(u)'
  BY <1>1 DEF ThreadInv, Argued
<1>4. HalfApplied(u)'
  BY <1>1 DEF ThreadInv, HalfApplied
<1>5. ReadOK(u)'
  BY <1>1 DEF ThreadInv, ReadOK, At
<1>6. VisitOK(u)'
  <2>1. CASE call[u].op = "visit" /\ committed' = committed
    BY <1>1, <2>1 DEF ThreadInv, VisitOK
  <2>2. CASE call[u].op = "visit" /\ lock.readers = {}
    <3>1. call[u].status = "panic" /\ call[u].seen = <<>>
      BY Zenon, <1>1, <2>2 DEF ThreadInv, Guarded, ReadOps
    <3> QED
      BY <1>1, <2>2, <3>1, NoneEntries DEF VisitOK
  <2>3. CASE call[u].op = "snapshot_visit"
    BY <1>1, <2>3 DEF ThreadInv, VisitOK
  <2>4. CASE call[u].op \notin {"visit", "snapshot_visit"}
    BY <1>1, <2>4 DEF VisitOK
  <2> QED
    BY Zenon, <2>1, <2>2, <2>3, <2>4
<1> QED
  BY <1>2, <1>3, <1>4, <1>5, <1>6 DEF ThreadInv

\* Calls that only go on or end stay apart.
LEMMA OneEachKept ==
    ASSUME OneEach,
           \A u \in Threads : \/ call'[u].op = call[u].op /\ call'[u].arg = call[u].arg
                              \/ call'[u].op = "none"
    PROVE  OneEach'
BY DEF OneEach

\* The storage, the pointer and the snapshots while the storage stands still.
LEMMA StorageKept ==
    ASSUME CApiInv, UNCHANGED <<base, heap, index, state, snapshots>>
    PROVE  /\ MemoryTypes' /\ Shown' = Shown
           /\ \A a \in Arcs : Held(a)' = Held(a)
           /\ UNCHANGED borrowed => Borrowing' /\ BorrowsValid'
<1>1. MemoryTypes' /\ Shown' = Shown /\ \A a \in Arcs : Held(a)' = Held(a)
  BY DEF CApiInv, Types, MemoryTypes, Shown, Held
<1>2. ASSUME UNCHANGED borrowed
      PROVE  Borrowing' /\ BorrowsValid'
  BY <1>2 DEF CApiInv, Borrowing, BorrowsValid
<1> QED
  BY <1>1, <1>2

-----------------------------------------------------------------------------
(* Entering and leaving a call.                                            *)

\* A call that is about to begin: fresh, and with arguments that fit.
Fresh(c) ==
    /\ c \in CallRecord
    /\ c.at = "hold" /\ c.seen = <<>> /\ c.status = "none"
    /\ c.op \in {"get", "get_ref", "put_or_delete"} => c.key \in Keys
    /\ c.op = "get" => c.arg \in Capacities
    /\ c.op = "put_or_delete" => c.arg \in Value
    /\ c.op = "snapshot_create" =>
           /\ c.arg \in Snapshots /\ snapshots[c.arg] = NoSnapshot
           /\ \A u \in Threads : call[u].op = "snapshot_create" => call[u].arg # c.arg
    /\ c.op = "commit_write_batch" => \A u \in Threads : call[u].op # "commit_write_batch"

\* A thread enters a call, with the guard it needs or, if the lock is poisoned,
\* with an error.
LEMMA EnterStep ==
    ASSUME CApiInv, NEW t \in Threads, NEW c, Fresh(c),
           \/ c.op \in ReadOps /\ read_database(t, c)
           \/ c.op \in WriteOps /\ write_database(t, c)
    PROVE  CApiInv'
<1>1. /\ call[t] = NoCall /\ state # "Closed" /\ lock.writer = NoOne
      /\ UNCHANGED <<mvars, batch, borrowed, ghosts>>
      /\ c.op \in WriteOps => lock.readers = {}
  BY DEF read_database, write_database, MayEnter, ReadOps, WriteOps
<1>2. UNCHANGED <<base, heap, index, state, snapshots, batch, borrowed, committed, inflight>>
  BY <1>1 DEF mvars, ghosts
<1>3. /\ Types /\ Exclusive /\ OneEach /\ Settled /\ \A u \in Threads : ThreadInv(u)
  BY DEF CApiInv
<1>4. /\ call \in [Threads -> CallRecord]
      /\ lock \in [readers : SUBSET Threads, writer : Threads \cup {NoOne}, poisoned : BOOLEAN]
  BY <1>3 DEF Types
<1>5. call[t].op = "none" /\ call[t].at = "idle" /\ t \notin lock.readers
  BY <1>1, <1>3, NoCallType DEF ThreadInv, Guarded, ReadOps
<1> DEFINE p == [c EXCEPT !.at = "done", !.status = "panic"]
<1>6. PICK r \in CallRecord :
          /\ Become(t, r)
          /\ r.op = c.op /\ r.arg = c.arg /\ r.key = c.key /\ r.seen = <<>>
          /\ \/ /\ lock.poisoned /\ lock' = lock
                /\ r.at = "done" /\ r.status = "panic"
             \/ /\ ~lock.poisoned /\ r.at = "hold" /\ r.status = "none"
                /\ \/ c.op \in ReadOps /\ lock' = [lock EXCEPT !.readers = @ \cup {t}]
                   \/ c.op \in WriteOps /\ lock' = [lock EXCEPT !.writer = t]
  <2>1. CASE lock.poisoned
    <3>1. Become(t, p) /\ lock' = lock
      BY <2>1 DEF read_database, write_database, Poisoned
    <3>2. c \in CallRecord /\ c.seen = <<>> /\ "panic" \in Statuses
      BY DEF Fresh, Statuses
    <3>3. /\ p \in CallRecord /\ p.at = "done" /\ p.status = "panic" /\ p.op = c.op /\ p.arg = c.arg
          /\ p.key = c.key /\ p.seen = c.seen
      BY <3>2, EndType, Zenon
    <3> QED
      BY <2>1, <3>1, <3>2, <3>3, Zenon
  <2>2. CASE ~lock.poisoned
    BY <2>2 DEF read_database, write_database, Fresh
  <2> QED
    BY <2>1, <2>2
<1>7. /\ call' \in [Threads -> CallRecord] /\ call'[t] = r
      /\ \A u \in Threads \ {t} : call'[u] = call[u]
  BY <1>4, <1>6, BecomeOne
<1>8. /\ lock' \in [readers : SUBSET Threads, writer : Threads \cup {NoOne}, poisoned : BOOLEAN]
      /\ lock'.poisoned = lock.poisoned
      /\ \A u \in Threads \ {t} : /\ u \in lock'.readers <=> u \in lock.readers
                                  /\ lock'.writer = u <=> lock.writer = u
      /\ t \in lock'.readers <=> ~lock.poisoned /\ c.op \in ReadOps
      /\ lock'.writer = t <=> ~lock.poisoned /\ c.op \in WriteOps
      /\ lock'.writer \in {NoOne, t}
  BY <1>1, <1>4, <1>5, <1>6, CApiAssumption DEF ReadOps, WriteOps
<1>9. MemoryTypes' /\ Shown' = Shown /\ Borrowing' /\ BorrowsValid'
  BY <1>2, StorageKept
<1>10. Types'
  BY <1>2, <1>3, <1>7, <1>8, <1>9 DEF Types
<1>11. \A u \in Threads \ {t} : ThreadInv(u)'
  <2>1. \A u \in Threads \ {t} :
            call[u].op = "snapshot_create" /\ call[u].at = "hold" =>
                snapshots'[call[u].arg] = NoSnapshot
    BY <1>2, <1>3 DEF ThreadInv, Argued
  <2> QED
    BY <1>2, <1>3, <1>7, <1>8, <1>9, <2>1, Others, Zenon
<1>12. ThreadInv(t)'
  <2>1. Guarded(t)'
    BY <1>6, <1>7, <1>8 DEF Guarded, Fresh, ReadOps, WriteOps
  <2>2. Argued(t)'
    BY <1>2, <1>6, <1>7 DEF Argued, Fresh, ReadOps, WriteOps
  <2>3. HalfApplied(t)' /\ ReadOK(t)'
    BY <1>6, <1>7, <1>8 DEF HalfApplied, ReadOK, At
  <2>4. VisitOK(t)'
    BY <1>6, <1>7, NoneEntries DEF VisitOK
  <2> QED
    BY <2>1, <2>2, <2>3, <2>4 DEF ThreadInv
<1>13. Exclusive'
  BY Zenon, <1>1, <1>2, <1>3, <1>4, <1>6, CApiAssumption DEF Exclusive, ReadOps, WriteOps
<1>14. OneEach'
  BY <1>3, <1>6, <1>7 DEF OneEach, Fresh
<1>15. Settled'
  <2>1. lock.writer = NoOne /\ state # "Closed"
    BY <1>1
  <2>2. ~lock.poisoned => Shown = committed /\ inflight = Down
    BY <1>3, <2>1 DEF Settled
  <2> QED
    BY <1>2, <1>6, <1>7, <1>8, <1>9, <2>2, CApiAssumption DEF Settled
<1> QED
  BY <1>9, <1>10, <1>11, <1>12, <1>13, <1>14, <1>15 DEF CApiInv

\* The calls that lkv_* functions make are such calls.
LEMMA FreshCall ==
    ASSUME NEW op \in ReadOps \cup WriteOps,
           NEW key \in Keys \cup {Absent}, NEW arg \in Value \cup Capacities \cup Snapshots,
           op \in {"get", "get_ref", "put_or_delete"} => key \in Keys,
           op = "get" => arg \in Capacities,
           op = "put_or_delete" => arg \in Value,
           op = "snapshot_create" =>
               /\ arg \in Snapshots /\ snapshots[arg] = NoSnapshot
               /\ \A u \in Threads : call[u].op = "snapshot_create" => call[u].arg # arg,
           op = "commit_write_batch" => \A u \in Threads : call[u].op # "commit_write_batch"
    PROVE  Fresh(Call(op, key, arg)) /\ Call(op, key, arg).op = op
<1>1. PICK c : c = Call(op, key, arg)
  OBVIOUS
<1>2. /\ c \in CallRecord /\ c.op = op /\ c.at = "hold" /\ c.key = key /\ c.arg = arg
      /\ c.seen = <<>> /\ c.status = "none"
  BY <1>1, CallType
<1>3. Fresh(c)
  BY <1>2 DEF Fresh
<1> QED
  BY <1>1, <1>2, <1>3

\* StartRead and StartWrite.
LEMMA StartSteps ==
    ASSUME CApiInv, NEW t \in Threads, StartRead(t) \/ StartWrite(t)
    PROVE  CApiInv'
<1>1. Absent \in Value /\ Capacities \subseteq Nat /\ ReadKeys \subseteq Keys
  BY CApiAssumption DEF Value
<1>2. ASSUME NEW k \in ReadKeys, NEW n \in Capacities, read_database(t, Call("get", k, n))
      PROVE  CApiInv'
  <2>1. Fresh(Call("get", k, n)) /\ Call("get", k, n).op \in ReadOps
    BY <1>1, FreshCall DEF ReadOps
  <2> QED
    BY <1>2, <2>1, EnterStep
<1>3. ASSUME NEW k \in ReadKeys, read_database(t, Call("get_ref", k, Absent))
      PROVE  CApiInv'
  <2>1. Fresh(Call("get_ref", k, Absent)) /\ Call("get_ref", k, Absent).op \in ReadOps
    BY <1>1, FreshCall DEF ReadOps
  <2> QED
    BY <1>3, <2>1, EnterStep
<1>4. ASSUME NEW op \in {"len", "visit"}, read_database(t, Call(op, Absent, Absent))
      PROVE  CApiInv'
  <2>1. Fresh(Call(op, Absent, Absent)) /\ Call(op, Absent, Absent).op \in ReadOps
    BY <1>1, FreshCall DEF ReadOps
  <2> QED
    BY <1>4, <2>1, EnterStep
<1>5. ASSUME NEW s \in Snapshots, snapshots[s] = NoSnapshot,
             \A u \in Threads : call[u].op = "snapshot_create" => call[u].arg # s,
             read_database(t, Call("snapshot_create", Absent, s))
      PROVE  CApiInv'
  <2>1. Fresh(Call("snapshot_create", Absent, s)) /\ Call("snapshot_create", Absent, s).op \in ReadOps
    BY <1>1, <1>5, FreshCall DEF ReadOps
  <2> QED
    BY Zenon, <1>5, <2>1, EnterStep
<1>6. ASSUME NEW w \in Writes, write_database(t, Call("put_or_delete", w[1], w[2]))
      PROVE  CApiInv'
  <2>1. w[1] \in Keys /\ w[2] \in Value
    BY CApiAssumption DEF Value
  <2>2. Fresh(Call("put_or_delete", w[1], w[2])) /\ Call("put_or_delete", w[1], w[2]).op \in WriteOps
    BY <2>1, FreshCall DEF WriteOps
  <2> QED
    BY <1>6, <2>2, EnterStep
<1>7. ASSUME write_database(t, Call("compact", Absent, Absent))
      PROVE  CApiInv'
  <2>1. Fresh(Call("compact", Absent, Absent)) /\ Call("compact", Absent, Absent).op \in WriteOps
    BY <1>1, FreshCall DEF WriteOps
  <2> QED
    BY <1>7, <2>1, EnterStep
<1>8. ASSUME \A u \in Threads : call[u].op # "commit_write_batch",
             write_database(t, Call("commit_write_batch", Absent, Absent))
      PROVE  CApiInv'
  <2>1. /\ Fresh(Call("commit_write_batch", Absent, Absent))
        /\ Call("commit_write_batch", Absent, Absent).op \in WriteOps
    BY <1>1, <1>8, FreshCall DEF WriteOps
  <2> QED
    BY <1>8, <2>1, EnterStep
<1> QED
  BY Zenon, <1>2, <1>3, <1>4, <1>5, <1>6, <1>7, <1>8 DEF StartRead, StartWrite

\* A thread that leaves its call lets go of its guard.
LEMMA Leaving ==
    ASSUME CApiInv, NEW t \in Threads, Become(t, NoCall), NEW p \in BOOLEAN,
           lock' = [Unlocked(t) EXCEPT !.poisoned = @ \/ p],
           UNCHANGED <<mvars, batch, borrowed>>,
           committed' = committed \/ lock.readers = {}
    PROVE  /\ Shown' = Shown /\ Borrowing' /\ BorrowsValid' /\ MemoryTypes' /\ OneEach'
           /\ \A u \in Threads : ThreadInv(u)'
           /\ call'[t].op = "none" /\ call'[t].at = "idle"
           /\ \A u \in Threads \ {t} : call'[u] = call[u]
           /\ call' \in [Threads -> CallRecord]
           /\ lock' \in [readers : SUBSET Threads, writer : Threads \cup {NoOne}, poisoned : BOOLEAN]
           /\ lock'.readers = lock.readers \ {t}
           /\ lock'.writer = IF lock.writer = t THEN NoOne ELSE lock.writer
           /\ lock'.poisoned = (lock.poisoned \/ p)
<1>1. UNCHANGED <<base, heap, index, state, snapshots, batch, borrowed>>
  BY DEF mvars
<1>2. Types /\ OneEach /\ \A u \in Threads : ThreadInv(u)
  BY DEF CApiInv
<1>3. /\ call \in [Threads -> CallRecord]
      /\ lock \in [readers : SUBSET Threads, writer : Threads \cup {NoOne}, poisoned : BOOLEAN]
  BY <1>2 DEF Types
<1>4. /\ call' \in [Threads -> CallRecord] /\ call'[t] = NoCall
      /\ \A u \in Threads \ {t} : call'[u] = call[u]
  BY <1>3, NoCallType, BecomeOne
<1>5. /\ lock' \in [readers : SUBSET Threads, writer : Threads \cup {NoOne}, poisoned : BOOLEAN]
      /\ lock'.readers = lock.readers \ {t}
      /\ lock'.writer = IF lock.writer = t THEN NoOne ELSE lock.writer
      /\ lock'.poisoned = (lock.poisoned \/ p)
  BY <1>3, Zenon DEF Unlocked
<1>6. MemoryTypes' /\ Shown' = Shown /\ Borrowing' /\ BorrowsValid'
  BY <1>1, StorageKept
<1>7. \A u \in Threads \ {t} : ThreadInv(u)'
  <2>1. \A u \in Threads \ {t} :
            call[u].op = "snapshot_create" /\ call[u].at = "hold" =>
                snapshots'[call[u].arg] = NoSnapshot
    BY <1>1, <1>2 DEF ThreadInv, Argued
  <2>2. \A u \in Threads \ {t} : /\ u \in lock'.readers <=> u \in lock.readers
                                 /\ lock'.writer = u <=> lock.writer = u
    BY <1>5, CApiAssumption
  <2> QED
    BY <1>1, <1>2, <1>4, <1>6, <2>1, <2>2, Others, Zenon
<1>8. ThreadInv(t)'
  <2>1. t \notin lock'.readers /\ lock'.writer # t
    BY <1>5, CApiAssumption
  <2>2. Guarded(t)' /\ Argued(t)' /\ HalfApplied(t)' /\ VisitOK(t)' /\ ReadOK(t)'
    BY <1>4, <2>1, NoCallType
       DEF Guarded, Argued, HalfApplied, VisitOK, ReadOK, ReadOps, WriteOps
  <2> QED
    BY <2>2 DEF ThreadInv
<1>9. OneEach'
  BY <1>2, <1>4, NoCallType, OneEachKept
<1> QED
  BY <1>4, <1>5, <1>6, <1>7, <1>8, <1>9, NoCallType

\* The guard is dropped; what a write left is acknowledged.
LEMMA ReturnStep ==
    ASSUME CApiInv, NEW t \in Threads, Return(t)
    PROVE  CApiInv'
<1>1. Types /\ Exclusive /\ Settled /\ \A u \in Threads : ThreadInv(u)
  BY DEF CApiInv
<1>2. /\ lock \in [readers : SUBSET Threads, writer : Threads \cup {NoOne}, poisoned : BOOLEAN]
      /\ lock' = [Unlocked(t) EXCEPT !.poisoned = @ \/ FALSE]
  BY <1>1, Zenon DEF Types, Return, Unlocked
<1>3. /\ call[t].at = "done" /\ Become(t, NoCall) /\ UNCHANGED <<mvars, batch, borrowed>>
      /\ \/ lock.writer = t /\ inflight # Down /\ committed' = inflight /\ inflight' = Down
         \/ ~(lock.writer = t /\ inflight # Down) /\ committed' = committed /\ inflight' = inflight
  BY Zenon DEF Return, ghosts
<1>4. committed' = committed \/ lock.readers = {}
  BY <1>1, <1>3, CApiAssumption DEF Exclusive
<1>5. /\ Shown' = Shown /\ Borrowing' /\ BorrowsValid' /\ MemoryTypes' /\ OneEach'
      /\ \A u \in Threads : ThreadInv(u)'
      /\ call'[t].op = "none" /\ call'[t].at = "idle"
      /\ \A u \in Threads \ {t} : call'[u] = call[u]
      /\ call' \in [Threads -> CallRecord]
      /\ lock' \in [readers : SUBSET Threads, writer : Threads \cup {NoOne}, poisoned : BOOLEAN]
      /\ lock'.readers = lock.readers \ {t}
      /\ lock'.writer = IF lock.writer = t THEN NoOne ELSE lock.writer
      /\ lock'.poisoned = lock.poisoned
  <2> DEFINE p == FALSE
  <2>1. p \in BOOLEAN /\ lock' = [Unlocked(t) EXCEPT !.poisoned = @ \/ p]
    BY <1>2
  <2>2. (lock.poisoned \/ p) = lock.poisoned
    BY <1>2
  <2> HIDE DEF p
  <2> QED
    BY <1>3, <1>4, <2>1, <2>2, Leaving
<1>6. Types'
  BY Zenon, <1>1, <1>3, <1>5 DEF Types
<1>7. Exclusive'
  BY <1>1, <1>3, <1>5 DEF Exclusive, mvars
<1>8. Settled'
  <2>1. CASE lock.writer = t
    <3>1. Shown = IF inflight = Down THEN committed ELSE inflight
      BY Zenon, <1>1, <1>3, <2>1 DEF Settled
    <3>2. Shown' = committed' /\ inflight' = Down
      BY Zenon, <1>3, <1>5, <2>1, <3>1
    <3> QED
      BY Zenon, <1>5, <2>1, <3>2, CApiAssumption DEF Settled
  <2>2. CASE lock.writer # t
    <3>1. UNCHANGED <<committed, inflight, state>> /\ lock'.writer = lock.writer
      BY Zenon, <1>3, <1>5, <2>2 DEF mvars
    <3> QED
      BY Zenon, <1>1, <1>5, <2>2, <3>1 DEF Settled
  <2> QED
    BY Zenon, <2>1, <2>2
<1> QED
  BY <1>5, <1>6, <1>7, <1>8 DEF CApiInv

\* A panic unwinds through the guard; that of a writer poisons the lock.
LEMMA PanicStep ==
    ASSUME CApiInv, NEW t \in Threads, Panic(t)
    PROVE  CApiInv'
<1>1. Types /\ Exclusive /\ Settled /\ \A u \in Threads : ThreadInv(u)
  BY DEF CApiInv
<1>2. PICK p \in BOOLEAN : p = (lock.writer = t)
  BY Zenon
<1>3. /\ Become(t, NoCall) /\ UNCHANGED <<mvars, batch, borrowed, committed, inflight>>
      /\ lock' = [Unlocked(t) EXCEPT !.poisoned = @ \/ p]
  BY <1>2, Zenon DEF Panic, ghosts
<1>4. /\ Shown' = Shown /\ Borrowing' /\ BorrowsValid' /\ MemoryTypes' /\ OneEach'
      /\ \A u \in Threads : ThreadInv(u)'
      /\ call'[t].op = "none" /\ call'[t].at = "idle"
      /\ \A u \in Threads \ {t} : call'[u] = call[u]
      /\ call' \in [Threads -> CallRecord]
      /\ lock' \in [readers : SUBSET Threads, writer : Threads \cup {NoOne}, poisoned : BOOLEAN]
      /\ lock'.readers = lock.readers \ {t}
      /\ lock'.writer = IF lock.writer = t THEN NoOne ELSE lock.writer
      /\ lock'.poisoned = (lock.poisoned \/ p)
  BY <1>3, Leaving
<1>5. Types'
  BY <1>1, <1>3, <1>4 DEF Types
<1>a. state' = state /\ committed' = committed /\ inflight' = inflight
  BY Zenon, <1>3 DEF mvars
<1>b. ASSUME lock.writer = t PROVE Exclusive' /\ Settled'
  <2>1. lock'.poisoned /\ lock'.writer = NoOne /\ lock.readers = {}
    BY <1>1, <1>2, <1>4, <1>b, CApiAssumption, Zenon DEF Exclusive
  <2>2. lock'.readers = {} /\ \A u \in Threads : u # NoOne
    BY <1>4, <2>1, CApiAssumption
  <2> QED
    BY <2>1, <2>2 DEF Exclusive, Settled
<1>c. ASSUME lock.writer # t PROVE Exclusive' /\ Settled'
  <2>1. lock'.poisoned = lock.poisoned /\ lock'.writer = lock.writer
    BY Zenon, <1>1, <1>2, <1>4, <1>c DEF Types
  <2>2. Exclusive'
    BY Zenon, <1>1, <1>4, <1>a, <2>1 DEF Exclusive
  <2>3. Settled'
    BY <1>1, <1>4, <1>a, <1>c, <2>1 DEF Settled
  <2> QED
    BY <2>2, <2>3
<1>6. Exclusive' /\ Settled'
  BY Zenon, <1>b, <1>c
<1> QED
  BY <1>4, <1>5, <1>6 DEF CApiInv

-----------------------------------------------------------------------------
(* Steps of a call that leave the storage alone.                           *)

BorrowRecord ==
    [from : Snapshots \cup {"database", NoOne}, arc : Arcs \cup {-1},
     key : Keys \cup {Absent}, live : BOOLEAN]

\* A call goes on or comes to its end: it keeps its guard and its arguments.
LEMMA Progress ==
    ASSUME CApiInv, NEW t \in Threads, NEW r \in CallRecord, Become(t, r),
           call[t].at = "hold", r.at \in {"hold", "done"},
           r.op = call[t].op, r.key = call[t].key, r.arg = call[t].arg,
           UNCHANGED <<mvars, lock, batch, ghosts>>,
           borrowed' \in BorrowRecord, Borrowing', BorrowsValid',
           VisitOK(t)', ReadOK(t)'
    PROVE  CApiInv'
<1>1. UNCHANGED <<base, heap, index, state, snapshots, batch, lock, committed, inflight>>
  BY DEF mvars, ghosts
<1>2. Types /\ Exclusive /\ OneEach /\ Settled /\ \A u \in Threads : ThreadInv(u)
  BY DEF CApiInv
<1>3. /\ call' \in [Threads -> CallRecord] /\ call'[t] = r
      /\ \A u \in Threads \ {t} : call'[u] = call[u]
  BY <1>2, BecomeOne DEF Types
<1>4. MemoryTypes' /\ Shown' = Shown
  BY <1>1, StorageKept
<1>5. Types'
  BY <1>1, <1>2, <1>3, <1>4 DEF Types, BorrowRecord
<1>6. \A u \in Threads \ {t} : ThreadInv(u)'
  <2>1. \A u \in Threads \ {t} :
            call[u].op = "snapshot_create" /\ call[u].at = "hold" =>
                snapshots'[call[u].arg] = NoSnapshot
    BY <1>1, <1>2, Zenon DEF ThreadInv, Argued
  <2> QED
    BY <1>1, <1>2, <1>3, <1>4, <2>1, Others, Zenon
<1>7. ThreadInv(t)'
  <2>1. Guarded(t) /\ Argued(t)
    BY Zenon, <1>2 DEF ThreadInv
  <2>2. Guarded(t)'
    BY Zenon, <1>1, <1>3, <2>1 DEF Guarded
  <2>3. Argued(t)'
    BY Zenon, <1>1, <1>3, <2>1 DEF Argued
  <2>4. HalfApplied(t)'
    BY Zenon, <1>3 DEF HalfApplied
  <2> QED
    BY Zenon, <2>2, <2>3, <2>4 DEF ThreadInv
<1>8. Exclusive'
  BY Zenon, <1>1, <1>2 DEF Exclusive
<1>9. OneEach'
  BY <1>2, <1>3, OneEachKept
<1>10. Settled'
  <2>1. ASSUME NEW u \in Threads, lock.writer = u, call'[u].at = "hold"
        PROVE  Shown' = committed' /\ inflight' = Down
    BY <1>1, <1>2, <1>3, <1>4, <2>1, Zenon DEF Settled
  <2>2. ASSUME NEW u \in Threads, lock.writer = u, call'[u].at = "apply"
        PROVE  inflight' # Down /\ View(Shown, call[u].todo)' = inflight'
    <3>1. call'[u] = call[u] /\ call[u].at = "apply"
      BY <1>3, <2>2
    <3>2. inflight # Down /\ View(Shown, call[u].todo) = inflight
      BY <1>2, <2>2, <3>1, Zenon DEF Settled
    <3> QED
      BY <1>1, <1>4, <3>1, <3>2, Zenon
  <2>3. ASSUME NEW u \in Threads, lock.writer = u, call'[u].at = "done"
        PROVE  Shown' = IF inflight' = Down THEN committed' ELSE inflight'
    <3>1. call[u].at \in {"hold", "done"}
      BY <1>3, <2>3
    <3> QED
      BY <1>1, <1>2, <1>4, <2>3, <3>1, Zenon DEF Settled
  <2> QED
    BY <1>1, <1>2, <1>4, <2>1, <2>2, <2>3, Zenon DEF Settled
<1> QED
  BY Zenon, <1>5, <1>6, <1>7, <1>8, <1>9, <1>10 DEF CApiInv

\* A guard shows the committed contents to its reader.
LEMMA ReaderSees ==
    ASSUME CApiInv, NEW t \in Threads, call[t].op \in ReadOps, call[t].at = "hold"
    PROVE  t \in lock.readers /\ Shown = committed
<1>1. Exclusive /\ Settled /\ Guarded(t)
  BY DEF CApiInv, ThreadInv
<1>2. t \in lock.readers
  BY <1>1 DEF Guarded
<1> QED
  BY <1>1, <1>2 DEF Exclusive, Settled

\* What the storage shows is a contents, and lengths are numbers.
LEMMA ShownType ==
    ASSUME CApiInv
    PROVE  /\ Shown \in Contents
           /\ \A k \in Keys : Length(Shown[k]) \in Nat
           /\ Cardinality(Live(Shown)) \in Nat
<1>1. base \in Contents /\ heap[index] \in Entries
  BY DEF CApiInv, Types, MemoryTypes
<1>2. Shown \in Contents
  BY <1>1, ViewType DEF Shown
<1>3. \A k \in Keys : Length(Shown[k]) \in Nat
  BY <1>2, MemoryAssumption DEF Contents, Value, Length
<1>4. IsFiniteSet(Live(Shown))
  BY Zenon, MemoryAssumption, FS_Subset DEF Live
<1> QED
  BY <1>2, <1>3, <1>4, FS_CardinalityType

\* copy_value hands out the whole value or nothing of it.
LEMMA CopyAll ==
    ASSUME NEW v \in Value, NEW n \in Nat, Length(v) \in Nat
    PROVE  /\ CopyOut(v, n) \in [len : Nat, value : Value, copied : Nat]
           /\ CopyStatus(v, n) \in Statuses
           /\ CopyOut(v, n).len = Length(v)
           /\ CopyOut(v, n).copied <= n
           /\ CopyStatus(v, n) = "ok" => CopyOut(v, n).value = v /\ CopyOut(v, n).copied = Length(v)
           /\ CopyStatus(v, n) # "ok" => CopyOut(v, n).copied = 0
           /\ CopyStatus(v, n) = "too_small" => n < Length(v)
<1>1. Unset \in [len : Nat, value : Value, copied : Nat]
  BY DEF Unset, Value
<1>2. PICK w \in Value : w = IF n < Length(v) THEN Absent ELSE v
  BY DEF Value
<1>3. PICK m \in Nat : m = IF n < Length(v) THEN 0 ELSE Length(v)
  OBVIOUS
<1>4. CopyOut(v, n) = [Unset EXCEPT !.len = Length(v), !.value = w, !.copied = m]
  BY <1>2, <1>3, Zenon DEF CopyOut
<1>5. /\ CopyOut(v, n) \in [len : Nat, value : Value, copied : Nat]
      /\ CopyOut(v, n).len = Length(v) /\ CopyOut(v, n).value = w /\ CopyOut(v, n).copied = m
  BY <1>1, <1>4
<1>6. v = Absent => Length(v) = 0
  BY DEF Length
<1>7. m <= n /\ (v = Absent => m = 0)
  BY <1>3, <1>6
<1>8. CASE n < Length(v)
  <2>1. w = Absent /\ m = 0
    BY <1>2, <1>3, <1>8
  <2>2. CopyStatus(v, n) \in {"not_found", "too_small"}
    BY <1>8 DEF CopyStatus
  <2> QED
    BY <1>5, <1>7, <1>8, <2>1, <2>2 DEF Statuses
<1>9. CASE ~(n < Length(v))
  <2>1. w = v /\ m = Length(v)
    BY <1>2, <1>3, <1>9
  <2>2. CopyStatus(v, n) = IF v = Absent THEN "not_found" ELSE "ok"
    BY <1>9 DEF CopyStatus
  <2> QED
    BY <1>5, <1>7, <1>9, <2>1, <2>2 DEF Statuses
<1> QED
  BY <1>8, <1>9

\* A copying read answers with the committed value, or with its length.
LEMMA GetStep ==
    ASSUME CApiInv, NEW t \in Threads, Get(t)
    PROVE  CApiInv'
<1>1. /\ call[t].op = "get" /\ call[t].at = "hold" /\ UNCHANGED <<mvars, lock, batch, ghosts>>
      /\ UNCHANGED borrowed
  BY DEF Get, Reading, At
<1>2. t \in lock.readers /\ Shown = committed
  BY <1>1, ReaderSees DEF ReadOps
<1>3. PICK c : c = call[t]
  OBVIOUS
<1>4. c \in CallRecord /\ c.op = "get" /\ c.at = "hold" /\ c.key \in Keys /\ c.arg \in Nat
  BY <1>1, <1>3, CApiAssumption DEF CApiInv, Types, ThreadInv, Argued
<1>5. PICK v : v = Shown[c.key]
  OBVIOUS
<1>6. v \in Value /\ Length(v) \in Nat /\ v = committed[c.key]
  BY <1>2, <1>4, <1>5, ShownType DEF Contents
<1>7. PICK st \in Statuses : st = CopyStatus(v, c.arg)
  BY Zenon, <1>4, <1>6, CopyAll
<1>8. PICK o \in [len : Nat, value : Value, copied : Nat] : o = CopyOut(v, c.arg)
  BY Zenon, <1>4, <1>6, CopyAll
<1>9. PICK r : r = [c EXCEPT !.at = "done", !.status = st, !.out = o]
  OBVIOUS
<1>10. r \in CallRecord /\ r.op = c.op /\ r.key = c.key /\ r.arg = c.arg /\ r.at = "done"
       /\ r.status = st /\ r.out = o
  BY <1>4, <1>9, Zenon DEF CallRecord
<1>11. Become(t, r)
  BY Zenon, <1>3, <1>5, <1>7, <1>8, <1>9 DEF Get
<1>12. Borrowing' /\ BorrowsValid' /\ borrowed' \in BorrowRecord
  BY Zenon, <1>1, StorageKept DEF CApiInv, Types, BorrowRecord, mvars
<1>13. call'[t] = r
  BY Zenon, <1>10, <1>11, BecomeOne DEF CApiInv, Types
<1>14. VisitOK(t)'
  BY Zenon, <1>4, <1>10, <1>13 DEF VisitOK
<1>15. ReadOK(t)'
  <2>1. committed' = committed
    BY <1>1 DEF ghosts
  <2>2. Answered(r, v)
    <3>1. o.len = Length(v) /\ o.copied <= c.arg
      BY Zenon, <1>4, <1>6, <1>8, CopyAll
    <3>2. st = "ok" => o.value = v /\ o.copied = Length(v)
      BY Zenon, <1>4, <1>6, <1>7, <1>8, CopyAll
    <3>3. (st # "ok" => o.copied = 0) /\ (st = "too_small" => c.arg < Length(v))
      BY <1>4, <1>6, <1>7, <1>8, CopyAll
    <3> QED
      BY Zenon, <1>10, <3>1, <3>2, <3>3 DEF Answered
  <2> QED
    BY Zenon, <1>4, <1>6, <1>10, <1>13, <2>1, <2>2 DEF ReadOK, At
<1> QED
  BY Zenon, <1>1, <1>3, <1>4, <1>10, <1>11, <1>12, <1>14, <1>15, Progress

\* lkv_database_len counts the live keys of the committed contents.
LEMMA LenStep ==
    ASSUME CApiInv, NEW t \in Threads, DatabaseLen(t)
    PROVE  CApiInv'
<1>1. /\ call[t].op = "len" /\ call[t].at = "hold" /\ UNCHANGED <<mvars, lock, batch, ghosts>>
      /\ UNCHANGED borrowed
  BY Zenon DEF DatabaseLen, Reading, At
<1>2. t \in lock.readers /\ Shown = committed
  BY <1>1, ReaderSees DEF ReadOps
<1>3. PICK c : c = call[t]
  OBVIOUS
<1>4. c \in CallRecord /\ c.op = "len" /\ c.at = "hold"
  BY <1>1, <1>3 DEF CApiInv, Types
<1>5. PICK n \in Nat : n = Cardinality(Live(Shown))
  BY ShownType
<1>6. PICK r : r = [c EXCEPT !.at = "done", !.status = "ok", !.out.len = n]
  OBVIOUS
<1>7. r \in CallRecord /\ r.op = c.op /\ r.key = c.key /\ r.arg = c.arg /\ r.at = "done"
      /\ r.out.len = n
  BY <1>4, <1>6, Zenon DEF CallRecord, Statuses
<1>8. Become(t, r)
  BY <1>3, <1>5, <1>6 DEF DatabaseLen
<1>9. Borrowing' /\ BorrowsValid' /\ borrowed' \in BorrowRecord
  BY Zenon, <1>1, StorageKept DEF CApiInv, Types, BorrowRecord, mvars
<1>10. call'[t] = r
  BY <1>7, <1>8, BecomeOne DEF CApiInv, Types
<1>11. VisitOK(t)' /\ ReadOK(t)'
  BY <1>1, <1>2, <1>4, <1>5, <1>7, <1>10, Zenon DEF VisitOK, ReadOK, At, ghosts
<1> QED
  BY <1>1, <1>3, <1>4, <1>7, <1>8, <1>9, <1>11, Progress, Zenon

\* lkv_database_get_ref hands out a pointer into the Overlay of the handle.
LEMMA GetRefStep ==
    ASSUME CApiInv, NEW t \in Threads, GetRef(t)
    PROVE  CApiInv'
<1>1. call[t].op = "get_ref" /\ call[t].at = "hold" /\ UNCHANGED <<mvars, lock, batch, ghosts>>
  BY Zenon DEF GetRef, Reading, At
<1>2. PICK c : c = call[t]
  OBVIOUS
<1>3. c \in CallRecord /\ c.op = "get_ref" /\ c.at = "hold" /\ c.key \in Keys
  BY <1>1, <1>2 DEF CApiInv, Types, ThreadInv, Argued
<1>4. PICK st \in Statuses : st = IF Shown[c.key] = Absent THEN "not_found" ELSE "ok"
  BY DEF Statuses
<1>5. PICK r : r = [c EXCEPT !.at = "done", !.status = st]
  OBVIOUS
<1>6. r \in CallRecord /\ r.op = c.op /\ r.key = c.key /\ r.arg = c.arg /\ r.at = "done"
  BY <1>3, <1>5, EndType, Zenon
<1>7. Become(t, r)
  BY <1>2, <1>4, <1>5 DEF GetRef, Done
<1>8. UNCHANGED <<base, heap, index, state, snapshots>> /\ Types /\ BorrowsValid /\ Exclusive
  BY <1>1, Zenon DEF mvars, CApiInv
<1>9. borrowed' \in BorrowRecord /\ Borrowing' /\ borrowed'.live
  <2>1. state # "Closed"
    <3>1. t \in lock.readers
      BY Zenon, <1>1, ReaderSees DEF ReadOps
    <3> QED
      BY <1>8, <3>1 DEF Exclusive
  <2>2. borrowed' = NoBorrow \/ borrowed' = Borrow("database", index, c.key)
    BY <1>2 DEF GetRef
  <2>3. index \in Arcs
    BY Zenon, <1>8 DEF Types, MemoryTypes
  <2>4. CASE borrowed' = NoBorrow
    BY Zenon, <2>4, CApiAssumption DEF NoBorrow, BorrowRecord, Borrowing
  <2>5. CASE borrowed' = Borrow("database", index, c.key)
    BY <1>3, <1>8, <2>1, <2>3, <2>5, CApiAssumption, Zenon DEF Borrow, BorrowRecord, Borrowing
  <2> QED
    BY Zenon, <2>2, <2>4, <2>5
<1>10. BorrowsValid'
  BY Zenon, <1>8, <1>9 DEF BorrowsValid
<1>11. call'[t] = r
  BY Zenon, <1>6, <1>7, <1>8, BecomeOne DEF Types
<1>12. VisitOK(t)' /\ ReadOK(t)'
  BY Zenon, <1>3, <1>6, <1>11 DEF VisitOK, ReadOK, At
<1> QED
  BY <1>1, <1>2, <1>3, <1>6, <1>7, <1>9, <1>10, <1>12, Progress, Zenon

\* What a visit walks over: the committed contents, or those of a snapshot.
LEMMA VisitedIs ==
    ASSUME CApiInv, NEW t \in Threads, call[t].op \in {"visit", "snapshot_visit"},
           call[t].at = "hold"
    PROVE  /\ Visited(t) = IF call[t].op = "visit" THEN committed
                           ELSE snapshots[call[t].arg].shown
           /\ Visited(t) \in Contents
<1>1. Types /\ BorrowsValid /\ Argued(t)
  BY Zenon DEF CApiInv, ThreadInv
<1>2. CASE call[t].op = "visit"
  BY Zenon, <1>2, ReaderSees, ShownType DEF Visited, ReadOps
<1>3. CASE call[t].op = "snapshot_visit"
  <2>1. PICK s \in Snapshots : s = call[t].arg /\ snapshots[s] # NoSnapshot
    BY <1>1, <1>3 DEF Argued
  <2>2. snapshots[s] \in [base : Contents, arc : Arcs, shown : Contents]
    BY <1>1, <2>1 DEF Types, MemoryTypes
  <2>3. View(snapshots[s].base, heap[snapshots[s].arc]) = snapshots[s].shown
    BY <1>1, <2>1, Zenon DEF BorrowsValid
  <2> QED
    BY <1>3, <2>1, <2>2, <2>3, Zenon DEF Visited
<1> QED
  BY <1>2, <1>3

\* lkv_database_visit and lkv_snapshot_visit hand out one entry after the other.
LEMMA VisitEntryStep ==
    ASSUME CApiInv, NEW t \in Threads, NEW k \in Keys, VisitEntry(t, k)
    PROVE  CApiInv'
<1>1. /\ call[t].op \in {"visit", "snapshot_visit"} /\ call[t].at = "hold"
      /\ UNCHANGED <<mvars, lock, batch, ghosts>> /\ UNCHANGED borrowed
  BY DEF VisitEntry, Visiting
<1>2. PICK c : c = call[t]
  OBVIOUS
<1>3. c \in CallRecord /\ c.op \in {"visit", "snapshot_visit"} /\ c.at = "hold"
      /\ c.seen \in Entries
  BY <1>1, <1>2 DEF CApiInv, Types, CallRecord
<1>4. PICK m \in Contents :
          /\ m = Visited(t)
          /\ m = IF c.op = "visit" THEN committed ELSE snapshots[c.arg].shown
  BY <1>1, <1>2, VisitedIs, Zenon
<1>5. PICK v \in Value : v = m[k] /\ v # Absent
  BY <1>4 DEF VisitEntry, Live, Contents
<1>6. PICK seen \in Entries : seen = Inserted(c.seen, k, v) /\ DOMAIN seen = DOMAIN c.seen \cup {k}
  BY <1>3, InsertedType, Zenon
<1>7. PICK stop \in BOOLEAN :
          Become(t, [call[t] EXCEPT !.seen = Inserted(@, k, Visited(t)[k]), !.stopped = stop,
                                    !.at = IF stop THEN "done" ELSE "hold"])
  BY Zenon DEF VisitEntry
<1>8. PICK at \in {"hold", "done"} : at = IF stop THEN "done" ELSE "hold"
  OBVIOUS
<1>9. PICK r : r = [c EXCEPT !.seen = seen, !.stopped = stop, !.at = at]
  OBVIOUS
<1>10. r \in CallRecord /\ r.op = c.op /\ r.key = c.key /\ r.arg = c.arg /\ r.at = at
       /\ r.seen = seen /\ r.stopped = stop
  BY <1>3, <1>9, Zenon DEF CallRecord
<1>11. Become(t, r)
  BY Zenon, <1>2, <1>4, <1>5, <1>6, <1>7, <1>8, <1>9
<1>12. Borrowing' /\ BorrowsValid' /\ borrowed' \in BorrowRecord
  BY <1>1, StorageKept DEF CApiInv, Types, BorrowRecord, mvars
<1>13. call'[t] = r
  BY <1>10, <1>11, BecomeOne, Zenon DEF CApiInv, Types
<1>14. ReadOK(t)'
  BY <1>3, <1>10, <1>13, Zenon DEF ReadOK, At
<1>15. VisitOK(t)'
  <2>1. committed' = committed /\ snapshots' = snapshots
    BY <1>1, Zenon DEF ghosts, mvars
  <2>2. \A x \in DOMAIN c.seen : c.seen[x] = m[x] /\ m[x] # Absent
    BY <1>1, <1>2, <1>4, Zenon DEF CApiInv, ThreadInv, VisitOK
  <2>3. \A x \in DOMAIN seen : seen[x] = m[x] /\ m[x] # Absent
    BY <1>5, <1>6, <2>2, Zenon DEF Inserted
  <2>4. ~(r.at = "done" /\ ~r.stopped)
    BY <1>8, <1>10
  <2> QED
    BY <1>4, <1>10, <1>13, <2>1, <2>3, <2>4, Zenon DEF VisitOK
<1> QED
  BY Zenon, <1>1, <1>2, <1>3, <1>8, <1>10, <1>11, <1>12, <1>14, <1>15, Progress

\* A visit that was not stopped has handed out everything when it ends.
LEMMA VisitEndStep ==
    ASSUME CApiInv, NEW t \in Threads, VisitEnd(t)
    PROVE  CApiInv'
<1>1. /\ call[t].op \in {"visit", "snapshot_visit"} /\ call[t].at = "hold"
      /\ UNCHANGED <<mvars, lock, batch, ghosts>> /\ UNCHANGED borrowed
  BY Zenon DEF VisitEnd, Visiting
<1>2. PICK c : c = call[t]
  OBVIOUS
<1>3. c \in CallRecord /\ c.op \in {"visit", "snapshot_visit"} /\ c.at = "hold"
      /\ DOMAIN c.seen \subseteq Keys
  BY Zenon, <1>1, <1>2, EntriesElim DEF CApiInv, Types, CallRecord
<1>4. PICK m \in Contents :
          /\ m = Visited(t)
          /\ m = IF c.op = "visit" THEN committed ELSE snapshots[c.arg].shown
  BY <1>1, <1>2, VisitedIs
<1>5. PICK r : r = [c EXCEPT !.at = "done", !.status = "ok"]
  OBVIOUS
<1>6. r \in CallRecord /\ r.op = c.op /\ r.key = c.key /\ r.arg = c.arg /\ r.at = "done"
      /\ r.seen = c.seen
  <2>1. "ok" \in Statuses
    BY DEF Statuses
  <2> QED
    BY <1>3, <1>5, <2>1, EndType, Zenon
<1>7. Become(t, r)
  BY <1>2, <1>5 DEF VisitEnd, Done
<1>8. Borrowing' /\ BorrowsValid' /\ borrowed' \in BorrowRecord
  BY Zenon, <1>1, StorageKept DEF CApiInv, Types, BorrowRecord, mvars
<1>9. call'[t] = r
  BY <1>6, <1>7, BecomeOne DEF CApiInv, Types
<1>10. ReadOK(t)'
  BY <1>3, <1>6, <1>9, Zenon DEF ReadOK, At
<1>11. VisitOK(t)'
  <2>1. committed' = committed /\ snapshots' = snapshots
    BY <1>1 DEF ghosts, mvars
  <2>2. \A x \in DOMAIN c.seen : c.seen[x] = m[x] /\ m[x] # Absent
    BY <1>1, <1>2, <1>4, Zenon DEF CApiInv, ThreadInv, VisitOK
  <2>3. DOMAIN c.seen = Live(m)
    BY <1>2, <1>3, <1>4, <2>2 DEF VisitEnd, Live
  <2> QED
    BY Zenon, <1>4, <1>6, <1>9, <2>1, <2>2, <2>3 DEF VisitOK
<1> QED
  BY <1>1, <1>2, <1>3, <1>6, <1>7, <1>8, <1>10, <1>11, Progress, Zenon

\* A write that ends before it changes anything.
LEMMA EarlyEnd ==
    ASSUME CApiInv, NEW t \in Threads, call[t].op \in WriteOps, call[t].at = "hold",
           NEW st \in Statuses, Done(t, st), UNCHANGED <<mvars, lock, batch, borrowed, ghosts>>
    PROVE  CApiInv'
<1>1. PICK c : c = call[t]
  BY Zenon
<1>2. c \in CallRecord /\ c.op \in WriteOps /\ c.at = "hold"
  BY <1>1 DEF CApiInv, Types
<1>3. PICK r : r = [c EXCEPT !.at = "done", !.status = st]
  OBVIOUS
<1>4. r \in CallRecord /\ r.op = c.op /\ r.key = c.key /\ r.arg = c.arg /\ r.at = "done"
  BY <1>2, <1>3, EndType, Zenon
<1>5. Become(t, r)
  BY <1>1, <1>3 DEF Done
<1>6. Borrowing' /\ BorrowsValid' /\ borrowed' \in BorrowRecord
  BY StorageKept DEF CApiInv, Types, BorrowRecord, mvars
<1>7. call'[t] = r
  BY <1>4, <1>5, BecomeOne, Zenon DEF CApiInv, Types
<1>8. VisitOK(t)' /\ ReadOK(t)'
  BY Zenon, <1>2, <1>4, <1>7 DEF VisitOK, ReadOK, At, WriteOps
<1> QED
  BY <1>1, <1>2, <1>4, <1>5, <1>6, <1>8, Progress, Zenon

\* commit_batch and compact refused, or with nothing to do.
LEMMA EarlySteps ==
    ASSUME CApiInv, NEW t \in Threads, CommitRefused(t) \/ CompactEarly(t)
    PROVE  CApiInv'
<1>1. PICK st \in Statuses : Done(t, st)
  BY DEF CommitRefused, CompactEarly, CommitError, CompactError, Statuses
<1>2. /\ call[t].op \in WriteOps /\ call[t].at = "hold"
      /\ UNCHANGED <<mvars, lock, batch, borrowed, ghosts>>
  BY Zenon DEF CommitRefused, CompactEarly, IsCommit, At, WriteOps
<1> QED
  BY Zenon, <1>1, <1>2, EarlyEnd

-----------------------------------------------------------------------------
(* Steps that change the storage.                                          *)

\* lkv_database_create_snapshot: the snapshot shares what the handle shows.
LEMMA SnapshotCreateStep ==
    ASSUME CApiInv, NEW t \in Threads, SnapshotCreate(t)
    PROVE  CApiInv'
<1>1. /\ call[t].op = "snapshot_create" /\ call[t].at = "hold" /\ TakeSnapshot(call[t].arg)
      /\ Done(t, "ok") /\ UNCHANGED <<lock, batch, borrowed, committed, inflight>>
  BY DEF SnapshotCreate, At, ghosts
<1>2. /\ Types /\ Exclusive /\ OneEach /\ Settled /\ Borrowing /\ BorrowsValid
      /\ \A u \in Threads : ThreadInv(u)
  BY DEF CApiInv
<1>3. PICK s \in Snapshots : s = call[t].arg /\ snapshots[s] = NoSnapshot
  BY <1>1, <1>2, Zenon DEF ThreadInv, Argued
<1>4. t \in lock.readers /\ Shown = committed /\ Shown \in Contents
  BY <1>1, ReaderSees, ShownType, Zenon DEF ReadOps
<1>5. PICK e \in [base : Contents, arc : Arcs, shown : Contents] :
          /\ e = [base |-> base, arc |-> index, shown |-> Shown]
          /\ snapshots' = [snapshots EXCEPT ![s] = e]
          /\ UNCHANGED <<base, heap, index, state>>
  BY <1>1, <1>2, <1>3, <1>4, Zenon DEF TakeSnapshot, Types, MemoryTypes
<1>6. snapshots'[s] = e /\ \A x \in Snapshots \ {s} : snapshots'[x] = snapshots[x]
  BY <1>2, <1>5, Zenon DEF Types, MemoryTypes
<1>7. MemoryTypes' /\ Shown' = Shown
  <2>1. snapshots' \in [Snapshots -> [base : Contents, arc : Arcs, shown : Contents] \cup {NoSnapshot}]
    BY <1>2, <1>5, Zenon DEF Types, MemoryTypes
  <2> QED
    BY <1>2, <1>5, <2>1, Zenon DEF Types, MemoryTypes, Shown
<1>8. PICK c : c = call[t]
  OBVIOUS
<1>9. PICK r : r = [c EXCEPT !.at = "done", !.status = "ok"]
  OBVIOUS
<1>10. r \in CallRecord /\ r.op = c.op /\ r.key = c.key /\ r.arg = c.arg /\ r.at = "done"
  <2>1. "ok" \in Statuses
    BY DEF Statuses
  <2>2. c \in CallRecord
    BY <1>2, <1>8 DEF Types
  <2> QED
    BY <1>9, <2>1, <2>2, EndType, Zenon
<1>11. /\ call' \in [Threads -> CallRecord] /\ call'[t] = r
       /\ \A u \in Threads \ {t} : call'[u] = call[u]
  <2>1. Become(t, r)
    BY Zenon, <1>1, <1>8, <1>9 DEF Done
  <2> QED
    BY <1>2, <1>10, <2>1, BecomeOne, Zenon DEF Types
<1>12. Types'
  BY <1>1, <1>2, <1>7, <1>11 DEF Types
<1>13. \A u \in Threads \ {t} : ThreadInv(u)'
  <2>1. ASSUME NEW u \in Threads \ {t}, call[u].op = "snapshot_visit"
        PROVE  snapshots'[call[u].arg] = snapshots[call[u].arg]
    <3>1. call[u].arg \in Snapshots /\ snapshots[call[u].arg] # NoSnapshot
      BY <1>2, <2>1, Zenon DEF ThreadInv, Argued
    <3> QED
      BY <1>3, <1>6, <3>1, Zenon
  <2>2. ASSUME NEW u \in Threads \ {t}, call[u].op = "snapshot_create", call[u].at = "hold"
        PROVE  snapshots'[call[u].arg] = NoSnapshot
    <3>1. call[u].arg \in Snapshots /\ snapshots[call[u].arg] = NoSnapshot
      BY <1>2, <2>2, Zenon DEF ThreadInv, Argued
    <3>2. call[u].arg # s
      BY <1>1, <1>2, <1>3, <2>2, Zenon DEF OneEach
    <3> QED
      BY <1>6, <3>1, <3>2
  <2> QED
    BY <1>1, <1>2, <1>7, <1>11, <2>1, <2>2, Others, Zenon
<1>14. ThreadInv(t)'
  <2>1. Guarded(t)'
    BY <1>1, <1>4, <1>8, <1>10, <1>11, <1>2, Zenon DEF ThreadInv, Guarded, ReadOps, WriteOps
  <2>2. Argued(t)' /\ HalfApplied(t)' /\ VisitOK(t)' /\ ReadOK(t)'
    BY <1>1, <1>3, <1>8, <1>10, <1>11, Zenon DEF Argued, HalfApplied, VisitOK, ReadOK, At
  <2> QED
    BY <2>1, <2>2 DEF ThreadInv
<1>15. Exclusive'
  BY <1>1, <1>2, <1>5, Zenon DEF Exclusive
<1>16. OneEach'
  BY Zenon, <1>2, <1>8, <1>10, <1>11, OneEachKept
<1>17. Settled'
  <2>1. lock.writer = NoOne /\ state # "Closed" /\ ~lock.poisoned
    BY <1>2, <1>4, Zenon DEF Exclusive
  <2> QED
    BY <1>1, <1>2, <1>5, <1>7, <2>1, CApiAssumption, Zenon DEF Settled
<1>18. Borrowing' /\ BorrowsValid'
  <2>1. borrowed.from # s
    BY <1>2, <1>3, Zenon DEF Borrowing
  <2>2. Borrowing'
    BY <1>1, <1>2, <1>5, <1>6, <2>1, Zenon DEF Borrowing
  <2>3. View(e.base, heap[e.arc]) = e.shown
    BY <1>5 DEF Shown
  <2> QED
    BY <1>1, <1>2, <1>5, <1>6, <2>2, <2>3, Zenon DEF BorrowsValid
<1> QED
  BY Zenon, <1>12, <1>13, <1>14, <1>15, <1>16, <1>17, <1>18 DEF CApiInv

\* The writer goes on: nobody else is inside the database.
LEMMA WriterStep ==
    ASSUME CApiInv, NEW t \in Threads, NEW r \in CallRecord, Become(t, r), call[t].at # "done",
           call[t].op \in WriteOps, r.at \in {"apply", "done"}, r.at = "apply" => IsCommit(t),
           r.op = call[t].op, r.key = call[t].key, r.arg = call[t].arg,
           MemoryTypes', borrowed' \in BorrowRecord, Borrowing', BorrowsValid',
           state' # "Closed", batch' \in Entries, inflight' \in Contents \cup {Down},
           UNCHANGED <<snapshots, lock, committed>>, HalfApplied(t)',
           r.at = "apply" => inflight' # Down /\ View(Shown', r.todo) = inflight',
           r.at = "done" => Shown' = IF inflight' = Down THEN committed ELSE inflight'
    PROVE  CApiInv'
<1>1. Types /\ Exclusive /\ OneEach /\ \A u \in Threads : ThreadInv(u)
  BY Zenon DEF CApiInv
<1>2. lock.writer = t /\ lock.readers = {} /\ ~lock.poisoned
  <2>1. lock.writer = t
    BY <1>1, Zenon DEF ThreadInv, Guarded
  <2> QED
    BY <1>1, <2>1, CApiAssumption, Zenon DEF Exclusive
<1>3. /\ call' \in [Threads -> CallRecord] /\ call'[t] = r
      /\ \A u \in Threads \ {t} : call'[u] = call[u]
  BY Zenon, <1>1, BecomeOne DEF Types
<1>4. Types'
  BY <1>1, <1>3 DEF Types, BorrowRecord
<1>5. \A u \in Threads \ {t} : ThreadInv(u)'
  <2>1. \A u \in Threads \ {t} :
            /\ call[u].op = "snapshot_create" /\ call[u].at = "hold" =>
                   snapshots'[call[u].arg] = NoSnapshot
            /\ ~(call[u].op = "commit_write_batch" /\ call[u].at = "apply")
    BY <1>1, <1>2, Zenon DEF ThreadInv, Argued, Guarded, WriteOps
  <2> QED
    BY <1>1, <1>2, <1>3, <2>1, Others, Zenon
<1>6. ThreadInv(t)'
  <2>1. Guarded(t)'
    BY <1>2, <1>3, <1>1, Zenon DEF ThreadInv, Guarded, IsCommit, ReadOps, WriteOps
  <2>2. Argued(t)'
    BY <1>1, <1>3, Zenon DEF ThreadInv, Argued, WriteOps
  <2>3. VisitOK(t)' /\ ReadOK(t)'
    BY <1>2, <1>3, Zenon DEF VisitOK, ReadOK, WriteOps
  <2> QED
    BY <2>1, <2>2, <2>3, Zenon DEF ThreadInv
<1>7. Exclusive'
  BY <1>2, Zenon DEF Exclusive
<1>8. OneEach'
  BY <1>1, <1>3, OneEachKept, Zenon
<1>9. Settled'
  BY <1>2, <1>3, CApiAssumption, Zenon DEF Settled
<1> QED
  BY <1>4, <1>5, <1>6, <1>7, <1>8, <1>9, Zenon DEF CApiInv

\* What a commit applies is a KeyMap.
LEMMA MutationsType ==
    ASSUME CApiInv, NEW t \in Threads, IsCommit(t)
    PROVE  Mutations(t) \in Entries
<1>1. CASE call[t].op = "commit_write_batch"
  BY Zenon, <1>1 DEF Mutations, CApiInv, Types
<1>2. CASE call[t].op # "commit_write_batch"
  <2>1. PICK k \in Keys, v \in Value : k = call[t].key /\ v = call[t].arg
    BY <1>2, Zenon DEF IsCommit, CApiInv, ThreadInv, Argued
  <2>2. [x \in {k} |-> v] \in [{k} -> Value] /\ {k} \in SUBSET Keys
    OBVIOUS
  <2> QED
    BY <1>2, <2>1, <2>2, EntriesIntro DEF Mutations
<1> QED
  BY <1>1, <1>2

\* MemoryStorage::extend: from here on the commit is in flight.
LEMMA CommitExtendStep ==
    ASSUME CApiInv, NEW t \in Threads, CommitExtend(t)
    PROVE  CApiInv'
<1>1. PICK b \in Entries : b = Mutations(t)
  BY MutationsType DEF CommitExtend
<1>2. /\ IsCommit(t) /\ call[t].at = "hold" /\ inflight' = View(committed, b)
      /\ Become(t, [call[t] EXCEPT !.at = "apply", !.todo = b])
      /\ UNCHANGED <<base, heap, index, state, snapshots, lock, batch, borrowed, committed>>
  BY <1>1 DEF CommitExtend, ExtendLog
<1>3. PICK c : c = call[t]
  OBVIOUS
<1>4. c \in CallRecord
  BY <1>3 DEF CApiInv, Types
<1>5. PICK r : r = [c EXCEPT !.at = "apply", !.todo = b]
  OBVIOUS
<1>6. r \in CallRecord /\ r.op = c.op /\ r.key = c.key /\ r.arg = c.arg /\ r.at = "apply" /\ r.todo = b
  BY <1>4, <1>5, Zenon DEF CallRecord
<1>7. Become(t, r) /\ call[t].op \in WriteOps
  BY <1>2, <1>3, <1>5 DEF IsCommit, WriteOps
<1>8. MemoryTypes' /\ Shown' = Shown /\ Borrowing' /\ BorrowsValid' /\ borrowed' \in BorrowRecord
  BY Zenon, <1>2, StorageKept DEF CApiInv, Types, BorrowRecord
<1>9. committed \in Contents /\ View(committed, b) \in Contents /\ View(committed, b) # Down
      /\ batch' \in Entries
  <2>1. committed \in Contents /\ batch' \in Entries
    BY <1>2 DEF CApiInv, Types
  <2> QED
    BY <2>1, ViewType, CApiAssumption DEF Contents, Value
<1>10. Shown = committed /\ state # "Closed"
  <2>1. lock.writer = t
    BY <1>2, <1>7 DEF CApiInv, ThreadInv, Guarded
  <2> QED
    BY Zenon, <1>2, <2>1, CApiAssumption DEF CApiInv, Settled, Exclusive
<1>11. HalfApplied(t)'
  <2>1. call'[t] = r
    BY Zenon, <1>6, <1>7, BecomeOne DEF CApiInv, Types
  <2> QED
    BY Zenon, <1>1, <1>2, <1>3, <1>6, <2>1 DEF HalfApplied, Mutations
<1> QED
  BY Zenon, <1>2, <1>3, <1>6, <1>7, <1>8, <1>9, <1>10, <1>11, WriterStep

\* The handle changes its Overlay through Arc::make_mut: no snapshot and no
\* pointer taken from one notices, and one taken from the handle is given up.
LEMMA OverlayChange ==
    ASSUME CApiInv, NEW e \in Entries, NEW freed \in BOOLEAN,
           index' = MakeMut(index), heap' = [heap EXCEPT ![MakeMut(index)] = e],
           base' \in Contents, UNCHANGED <<state, snapshots>>,
           freed => borrowed.arc = MakeMut(index), Borrowed({"database"}, freed)
    PROVE  /\ MemoryTypes' /\ Borrowing' /\ BorrowsValid' /\ borrowed' \in BorrowRecord
           /\ Shown' = View(base', e)
<1>1. MemoryTypes /\ Borrowing /\ BorrowsValid /\ borrowed \in BorrowRecord
  BY DEF CApiInv, Types, BorrowRecord
<1>2. PICK a \in Arcs : a = MakeMut(index) /\ ~Held(a)
  BY <1>1, FreshArc
<1>3. a # -1
  BY MemoryAssumption, FS_CardinalityType DEF Arcs
<1>4. /\ index' = a /\ heap' = [heap EXCEPT ![a] = e] /\ heap'[a] = e
      /\ \A x \in Arcs \ {a} : heap'[x] = heap[x]
  BY Zenon, <1>1, <1>2 DEF MemoryTypes
<1>5. MemoryTypes' /\ Shown' = View(base', e)
  BY Zenon, <1>1, <1>4 DEF MemoryTypes, Shown
<1>6. \A s \in Snapshots : snapshots[s].arc # a
  BY Zenon, <1>2 DEF Held
<1>7. BorrowsValid' <=> borrowed'.live
  <2>1. \A s \in Snapshots : snapshots[s] # NoSnapshot => heap'[snapshots[s].arc] = heap[snapshots[s].arc]
    BY <1>1, <1>4, <1>6 DEF MemoryTypes
  <2> QED
    BY <1>1, <2>1, Zenon DEF BorrowsValid
<1>8. CASE borrowed.from = "database"
  <2>1. borrowed' = NoBorrow
    BY <1>8 DEF Borrowed
  <2> QED
    BY <1>5, <1>7, <2>1, CApiAssumption, Zenon DEF NoBorrow, BorrowRecord, Borrowing
<1>9. CASE borrowed.from # "database"
  <2>1. borrowed.arc # a
    BY <1>1, <1>3, <1>6, <1>9 DEF Borrowing, BorrowRecord
  <2>2. ~freed /\ borrowed.live
    BY <1>1, <1>2, <2>1, Zenon DEF BorrowsValid
  <2>3. borrowed' = borrowed
    BY Zenon, <1>1, <1>9, <2>2 DEF Borrowed, BorrowRecord
  <2>4. Borrowing'
    BY Zenon, <1>1, <1>4, <1>9, <2>1, <2>3 DEF Borrowing, BorrowRecord
  <2> QED
    BY Zenon, <1>1, <1>5, <1>7, <2>2, <2>3, <2>4
<1> QED
  BY Zenon, <1>8, <1>9

\* One turn of the loop of commit_staged_memory.
LEMMA CommitApplyStep ==
    ASSUME CApiInv, NEW t \in Threads, NEW k \in Keys, CommitApply(t, k)
    PROVE  CApiInv'
<1>1. PICK c : c = call[t]
  OBVIOUS
<1>2. c \in CallRecord /\ c.todo \in Entries /\ c.at = "apply" /\ k \in DOMAIN c.todo
  BY <1>1 DEF CommitApply, CApiInv, Types, CallRecord
<1>3. PICK rest \in Entries : rest = Restrict(c.todo, DOMAIN c.todo \ {k})
                              /\ DOMAIN rest = DOMAIN c.todo \ {k}
  BY <1>2, RestrictType
<1>4. PICK v \in Value : v = c.todo[k]
  BY <1>2, EntriesElim
<1>5. /\ SetEntry(k, v)
      /\ batch' = IF rest = <<>> /\ c.op = "commit_write_batch" THEN <<>> ELSE batch
      /\ Borrowed({"database"}, borrowed.arc = MakeMut(index) /\ borrowed.key = k)
      /\ UNCHANGED <<lock, committed, inflight>>
  BY <1>1, <1>3, <1>4 DEF CommitApply, ghosts
<1>6. PICK r : r = [c EXCEPT !.todo = rest, !.at = IF rest = <<>> THEN "done" ELSE "apply",
                             !.status = IF rest = <<>> THEN "ok" ELSE "none"]
  OBVIOUS
<1>7. /\ r \in CallRecord /\ r.op = c.op /\ r.key = c.key /\ r.arg = c.arg /\ r.todo = rest
      /\ r.at = IF rest = <<>> THEN "done" ELSE "apply"
  <2>1. PICK at \in {"done", "apply"}, st \in Statuses :
            /\ at = IF rest = <<>> THEN "done" ELSE "apply"
            /\ st = IF rest = <<>> THEN "ok" ELSE "none"
    BY DEF Statuses
  <2>2. r = [c EXCEPT !.todo = rest, !.at = at, !.status = st]
    BY <1>6, <2>1
  <2> QED
    BY <1>2, <2>1, <2>2, Zenon DEF CallRecord
<1>8. Become(t, r) /\ call'[t] = r
  <2>1. Become(t, r)
    BY <1>1, <1>3, <1>6 DEF CommitApply
  <2> QED
    BY <1>7, <2>1, BecomeOne DEF CApiInv, Types
<1>9. IsCommit(t) /\ call[t].op \in WriteOps /\ call[t].at = "apply"
  BY <1>1, <1>2, Zenon DEF CApiInv, ThreadInv, Guarded, IsCommit, WriteOps
<1>10. lock.writer = t /\ state # "Closed" /\ inflight # Down /\ View(Shown, c.todo) = inflight
  <2>1. lock.writer = t
    BY <1>9, Zenon DEF CApiInv, ThreadInv, Guarded
  <2> QED
    BY <1>1, <1>2, <2>1, CApiAssumption, Zenon DEF CApiInv, Exclusive, Settled
<1>11. PICK o \in Entries : o = heap[index]
  BY Zenon DEF CApiInv, Types, MemoryTypes
<1>12. base \in Contents /\ Shown = View(base, o) /\ batch \in Entries
       /\ inflight \in Contents \cup {Down}
  BY <1>11 DEF CApiInv, Types, MemoryTypes, Shown
<1>13. PICK e \in Entries : e = Inserted(o, k, v)
  BY InsertedType, Zenon
<1>14. /\ index' = MakeMut(index) /\ heap' = [heap EXCEPT ![MakeMut(index)] = e]
       /\ UNCHANGED <<base, state, snapshots>>
  BY <1>5, <1>11, <1>13 DEF SetEntry
<1>15. /\ MemoryTypes' /\ Borrowing' /\ BorrowsValid' /\ borrowed' \in BorrowRecord
       /\ Shown' = View(base', e)
  <2>1. PICK freed \in BOOLEAN : freed = (borrowed.arc = MakeMut(index) /\ borrowed.key = k)
    BY Zenon
  <2>2. Borrowed({"database"}, freed) /\ (freed => borrowed.arc = MakeMut(index))
    BY <1>5, <2>1, Zenon
  <2> QED
    BY <1>12, <1>14, <2>2, OverlayChange, Zenon
<1>16. Shown' = View(base, e) /\ Shown' \in Contents
  BY Zenon, <1>12, <1>14, <1>15, ViewType
<1>17. View(Shown', rest) = inflight
  BY <1>2, <1>3, <1>4, <1>10, <1>12, <1>13, <1>16, ApplyOne
<1>18. rest = <<>> => Shown' = inflight
  BY <1>16, <1>17, ViewNothing
<1>19. HalfApplied(t)'
  <2>1. CASE r.op = "commit_write_batch" /\ r.at = "apply"
    <3>1. batch' = batch /\ DOMAIN batch \subseteq Keys
      BY <1>5, <1>7, <1>12, <2>1, EntriesElim
    <3>2. \A x \in DOMAIN batch : (IF x \in DOMAIN c.todo THEN c.todo[x] ELSE Shown[x]) = batch[x]
      BY <1>1, <1>2, <1>7, <2>1, Zenon DEF CApiInv, ThreadInv, HalfApplied
    <3>3. \A x \in Keys : Shown'[x] = IF x = k THEN v ELSE Shown[x]
      BY Zenon, <1>12, <1>13, <1>16, ShownAfter
    <3>4. \A x \in DOMAIN rest : rest[x] = c.todo[x]
      BY <1>3 DEF Restrict
    <3>5. \A x \in DOMAIN batch : (IF x \in DOMAIN rest THEN rest[x] ELSE Shown'[x]) = batch[x]
      <4> SUFFICES ASSUME NEW x \in DOMAIN batch
                   PROVE  (IF x \in DOMAIN rest THEN rest[x] ELSE Shown'[x]) = batch[x]
        BY Zenon
      <4>1. x \in Keys /\ (IF x \in DOMAIN c.todo THEN c.todo[x] ELSE Shown[x]) = batch[x]
        BY <3>1, <3>2, Zenon
      <4>2. CASE x \in DOMAIN rest
        BY Zenon, <1>3, <3>4, <4>1, <4>2
      <4>3. CASE x \notin DOMAIN rest
        BY <1>2, <1>3, <1>4, <3>3, <4>1, <4>3, Zenon
      <4> QED
        BY <4>2, <4>3, Zenon
    <3> QED
      BY <1>7, <1>8, <3>1, <3>5, Zenon DEF HalfApplied
  <2>2. CASE ~(r.op = "commit_write_batch" /\ r.at = "apply")
    BY <1>8, <2>2, Zenon DEF HalfApplied
  <2> QED
    BY <2>1, <2>2
<1>20. batch' \in Entries /\ inflight' \in Contents \cup {Down} /\ state' # "Closed"
  BY <1>5, <1>10, <1>12, <1>14, NoneEntries, Zenon
<1> QED
  BY <1>1, <1>5, <1>7, <1>8, <1>9, <1>10, <1>14, <1>15, <1>17, <1>18, <1>19, <1>20,
     WriterStep, Zenon

\* compact_memory installs the Base it built.
LEMMA CompactStep ==
    ASSUME CApiInv, NEW t \in Threads, Compact(t)
    PROVE  CApiInv'
<1>1. /\ call[t].op = "compact" /\ call[t].at = "hold" /\ UNCHANGED <<lock, batch, committed, inflight>>
  BY Zenon DEF Compact, At, ghosts
<1>2. lock.writer = t /\ state # "Closed" /\ Shown = committed /\ inflight = Down
  <2>1. lock.writer = t
    BY <1>1, Zenon DEF CApiInv, ThreadInv, Guarded, WriteOps
  <2> QED
    BY <1>1, <2>1, CApiAssumption, Zenon DEF CApiInv, Exclusive, Settled
<1>3. PICK c : c = call[t]
  OBVIOUS
<1>4. c \in CallRecord
  BY <1>3 DEF CApiInv, Types
<1>5. PICK st \in Statuses : Done(t, st)
  BY DEF Compact, Statuses
<1>6. PICK r : r = [c EXCEPT !.at = "done", !.status = st]
  OBVIOUS
<1>7. r \in CallRecord /\ r.op = c.op /\ r.key = c.key /\ r.arg = c.arg /\ r.at = "done"
  BY <1>4, <1>6, EndType, Zenon
<1>8. Become(t, r) /\ call'[t] = r
  <2>1. Become(t, r)
    BY <1>3, <1>5, <1>6 DEF Done
  <2> QED
    BY <1>7, <2>1, BecomeOne DEF CApiInv, Types
<1>9. /\ MemoryTypes' /\ Borrowing' /\ BorrowsValid' /\ borrowed' \in BorrowRecord
      /\ Shown' = Shown /\ state' # "Closed" /\ snapshots' = snapshots
  <2>1. /\ index' = MakeMut(index) /\ heap' = [heap EXCEPT ![MakeMut(index)] = <<>>]
        /\ base' = Shown /\ UNCHANGED <<state, snapshots>>
    BY DEF Compact, InstallMemoryBase
  <2>2. PICK freed \in BOOLEAN : freed = (borrowed.arc = MakeMut(index))
    BY Zenon
  <2>3. Borrowed({"database"}, freed)
    BY <2>2, Zenon DEF Compact
  <2>4. Shown \in Contents
    BY ShownType
  <2>5. /\ MemoryTypes' /\ Borrowing' /\ BorrowsValid' /\ borrowed' \in BorrowRecord
        /\ Shown' = View(base', <<>>)
    BY <2>1, <2>2, <2>3, <2>4, NoneEntries, OverlayChange, Zenon
  <2>6. Shown' = Shown
    BY <2>1, <2>4, <2>5, ViewNothing
  <2> QED
    BY <1>2, <2>1, <2>5, <2>6
<1>10. HalfApplied(t)'
  BY <1>7, <1>8, Zenon DEF HalfApplied
<1>11. batch' \in Entries /\ inflight' \in Contents \cup {Down} /\ committed \in Contents
  BY <1>1 DEF CApiInv, Types
<1> QED
  BY <1>1, <1>2, <1>3, <1>7, <1>8, <1>9, <1>10, <1>11, WriterStep, Zenon DEF WriteOps

-----------------------------------------------------------------------------
(* Calls that take no lock.                                                *)

\* lkv_write_batch_*: nobody commits the batch meanwhile.
LEMMA BatchStep ==
    ASSUME CApiInv, ~Committing, batch' \in Entries,
           UNCHANGED <<mvars, lock, call, borrowed, ghosts>>
    PROVE  CApiInv'
<1>1. UNCHANGED <<base, heap, index, state, snapshots, lock, call, borrowed, committed, inflight>>
  BY DEF mvars, ghosts
<1>2. Types /\ Exclusive /\ OneEach /\ Settled /\ \A u \in Threads : ThreadInv(u)
  BY DEF CApiInv
<1>3. MemoryTypes' /\ Shown' = Shown /\ Borrowing' /\ BorrowsValid'
  BY Zenon, <1>1, StorageKept
<1>4. Types'
  BY Zenon, <1>1, <1>2, <1>3 DEF Types
<1>5. \A u \in Threads : ThreadInv(u)'
  <2>1. \A u \in Threads : /\ call[u].op # "commit_write_batch"
                           /\ call[u].op = "snapshot_create" /\ call[u].at = "hold" =>
                                  snapshots'[call[u].arg] = NoSnapshot
    BY <1>1, <1>2, Zenon DEF Committing, ThreadInv, Argued
  <2> QED
    BY Zenon, <1>1, <1>2, <2>1, Others
<1>6. Exclusive' /\ OneEach' /\ Settled'
  BY <1>1, <1>2, <1>3, Zenon DEF Exclusive, OneEach, Settled
<1> QED
  BY <1>3, <1>4, <1>5, <1>6 DEF CApiInv

\* lkv_snapshot_visit begins; it needs no guard.
LEMMA SnapshotVisitStep ==
    ASSUME CApiInv, NEW t \in Threads, NEW s \in Snapshots, SnapshotVisit(t, s)
    PROVE  CApiInv'
<1>1. /\ UNCHANGED <<base, heap, index, state, snapshots, lock, batch, borrowed, committed, inflight>>
      /\ call[t] = NoCall /\ snapshots[s] # NoSnapshot
  BY DEF SnapshotVisit, mvars, ghosts
<1>2. Types /\ Exclusive /\ OneEach /\ Settled /\ \A u \in Threads : ThreadInv(u)
  BY DEF CApiInv
<1>3. MemoryTypes' /\ Shown' = Shown /\ Borrowing' /\ BorrowsValid'
  BY <1>1, StorageKept
<1>4. PICK r : r = Call("snapshot_visit", Absent, s)
  OBVIOUS
<1>5. r \in CallRecord /\ r.op = "snapshot_visit" /\ r.at = "hold" /\ r.arg = s /\ r.seen = <<>>
  BY <1>4, CallType
<1>6. /\ call' \in [Threads -> CallRecord] /\ call'[t] = r
      /\ \A u \in Threads \ {t} : call'[u] = call[u]
  <2>1. Become(t, r)
    BY Zenon, <1>4 DEF SnapshotVisit
  <2> QED
    BY Zenon, <1>2, <1>5, <2>1, BecomeOne DEF Types
<1>7. t \notin lock.readers /\ lock.writer # t
  BY <1>1, <1>2, NoCallType, Zenon DEF ThreadInv, Guarded, ReadOps, WriteOps
<1>8. Types'
  BY <1>1, <1>2, <1>3, <1>6 DEF Types
<1>9. \A u \in Threads \ {t} : ThreadInv(u)'
  <2>1. \A u \in Threads \ {t} :
            call[u].op = "snapshot_create" /\ call[u].at = "hold" =>
                snapshots'[call[u].arg] = NoSnapshot
    BY <1>1, <1>2, Zenon DEF ThreadInv, Argued
  <2> QED
    BY <1>1, <1>2, <1>3, <1>6, <2>1, Others, Zenon
<1>10. ThreadInv(t)'
  <2>1. Guarded(t)' /\ Argued(t)' /\ HalfApplied(t)' /\ ReadOK(t)'
    BY <1>1, <1>5, <1>6, <1>7, Zenon DEF Guarded, Argued, HalfApplied, ReadOK, ReadOps, WriteOps
  <2>2. VisitOK(t)'
    BY <1>5, <1>6, NoneEntries, Zenon DEF VisitOK
  <2> QED
    BY Zenon, <2>1, <2>2 DEF ThreadInv
<1>11. Exclusive'
  BY <1>1, <1>2, Zenon DEF Exclusive
<1>12. OneEach'
  BY <1>2, <1>5, <1>6, Zenon DEF OneEach
<1>13. Settled'
  BY <1>1, <1>2, <1>3, <1>6, <1>7, Zenon DEF Settled
<1> QED
  BY Zenon, <1>3, <1>8, <1>9, <1>10, <1>11, <1>12, <1>13 DEF CApiInv

\* lkv_snapshot_get_ref hands out a pointer into the Overlay of the snapshot.
LEMMA SnapshotGetRefStep ==
    ASSUME CApiInv, NEW s \in Snapshots, NEW k \in ReadKeys, SnapshotGetRef(s, k)
    PROVE  CApiInv'
<1>1. /\ UNCHANGED <<base, heap, index, state, snapshots, lock, call, batch, committed, inflight>>
      /\ snapshots[s] # NoSnapshot /\ borrowed' = Borrow(s, snapshots[s].arc, k)
  BY Zenon DEF SnapshotGetRef, mvars, ghosts
<1>2. /\ Types /\ Exclusive /\ OneEach /\ Settled /\ BorrowsValid
      /\ \A u \in Threads : ThreadInv(u)
  BY DEF CApiInv
<1>3. MemoryTypes' /\ Shown' = Shown
  BY Zenon, <1>1, StorageKept
<1>4. snapshots[s].arc \in Arcs /\ k \in Keys /\ s # NoOne /\ s # "database"
  BY Zenon, <1>1, <1>2, CApiAssumption DEF Types, MemoryTypes
<1>5. Borrowing' /\ borrowed' \in BorrowRecord /\ borrowed'.live
  BY Zenon, <1>1, <1>4 DEF Borrow, Borrowing, BorrowRecord
<1>6. BorrowsValid'
  BY <1>1, <1>2, <1>5, Zenon DEF BorrowsValid
<1>7. Types'
  BY Zenon, <1>1, <1>2, <1>3, <1>5 DEF Types, BorrowRecord
<1>8. \A u \in Threads : ThreadInv(u)'
  <2>1. \A u \in Threads : call[u].op = "snapshot_create" /\ call[u].at = "hold" =>
                               snapshots'[call[u].arg] = NoSnapshot
    BY <1>1, <1>2, Zenon DEF ThreadInv, Argued
  <2> QED
    BY Zenon, <1>1, <1>2, <1>3, <2>1, Others
<1>9. Exclusive' /\ OneEach' /\ Settled'
  BY <1>1, <1>2, <1>3, Zenon DEF Exclusive, OneEach, Settled
<1> QED
  BY Zenon, <1>5, <1>6, <1>7, <1>8, <1>9 DEF CApiInv

\* Dropping Arcs that the pointer does not lead into leaves the pointer valid.
LEMMA PointerKept ==
    ASSUME CApiInv, NEW gone, MemoryTypes', Borrowed(gone, FreedArc),
           borrowed.from \notin gone /\ borrowed.arc # -1 => heap'[borrowed.arc] = heap[borrowed.arc],
           borrowed.from = "database" /\ borrowed.from \notin gone =>
               state' # "Closed" /\ index' = index,
           borrowed.from \in Snapshots \ gone => snapshots'[borrowed.from] = snapshots[borrowed.from]
    PROVE  Borrowing' /\ borrowed' \in BorrowRecord /\ borrowed'.live
<1>1. Borrowing /\ borrowed \in BorrowRecord /\ borrowed.live
  BY Zenon DEF CApiInv, Types, BorrowRecord, BorrowsValid
<1>2. CASE borrowed.from \in gone
  <2>1. borrowed' = NoBorrow
    BY <1>2 DEF Borrowed
  <2> QED
    BY <2>1, CApiAssumption, Zenon DEF NoBorrow, BorrowRecord, Borrowing
<1>3. CASE borrowed.from \notin gone
  <2>1. ~FreedArc
    BY <1>1, <1>3, NoneEntries, Zenon DEF FreedArc, Borrowing
  <2>2. borrowed' = borrowed
    BY Zenon, <1>1, <1>3, <2>1 DEF Borrowed, BorrowRecord
  <2>3. Borrowing'
    BY <1>1, <1>3, <2>2 DEF Borrowing, BorrowRecord
  <2> QED
    BY Zenon, <1>1, <2>2, <2>3
<1> QED
  BY <1>2, <1>3, Zenon

\* lkv_snapshot_close drops the snapshot's reference to its Overlay.
LEMMA SnapshotCloseStep ==
    ASSUME CApiInv, NEW s \in Snapshots, SnapshotClose(s)
    PROVE  CApiInv'
<1>1. /\ UNCHANGED <<base, index, state, lock, call, batch, committed, inflight>>
      /\ \A u \in Threads : call[u].op = "snapshot_visit" => call[u].arg # s
      /\ snapshots' = [snapshots EXCEPT ![s] = NoSnapshot]
      /\ heap' = [a \in Arcs |-> IF HandleHolds(a) \/ \E x \in Snapshots \ {s} : snapshots[x].arc = a
                                 THEN heap[a] ELSE <<>>]
      /\ Borrowed({s}, FreedArc)
  BY Zenon DEF SnapshotClose, DropSnapshot, ghosts
<1>2. /\ Types /\ Exclusive /\ OneEach /\ Settled /\ BorrowsValid /\ Borrowing
      /\ \A u \in Threads : ThreadInv(u)
  BY DEF CApiInv
<1>3. MemoryTypes /\ borrowed \in BorrowRecord
  BY Zenon, <1>2 DEF Types, BorrowRecord
<1>4. snapshots'[s] = NoSnapshot /\ \A x \in Snapshots \ {s} : snapshots'[x] = snapshots[x]
  BY <1>1, <1>3, Zenon DEF MemoryTypes
<1>5. MemoryTypes'
  <2>1. heap' \in [Arcs -> Entries]
    BY <1>1, <1>3, NoneEntries, Zenon DEF MemoryTypes
  <2>2. snapshots' \in [Snapshots -> [base : Contents, arc : Arcs, shown : Contents] \cup {NoSnapshot}]
    BY Zenon, <1>1, <1>3 DEF MemoryTypes
  <2> QED
    BY Zenon, <1>1, <1>3, <2>1, <2>2 DEF MemoryTypes
<1>6. state # "Closed" => heap'[index] = heap[index] /\ Shown' = Shown
  <2>1. state # "Closed" => heap'[index] = heap[index]
    BY Zenon, <1>1, <1>3 DEF MemoryTypes, HandleHolds
  <2> QED
    BY <1>1, <2>1, Zenon DEF Shown
<1>7. \A x \in Snapshots \ {s} : snapshots[x] # NoSnapshot =>
          heap'[snapshots[x].arc] = heap[snapshots[x].arc]
  BY <1>1, <1>3, Zenon DEF MemoryTypes
<1>8. Borrowing' /\ borrowed' \in BorrowRecord /\ borrowed'.live
  <2>1. ASSUME borrowed.from \notin {s}, borrowed.arc # -1
        PROVE  heap'[borrowed.arc] = heap[borrowed.arc]
    BY Zenon, <1>2, <1>3, <1>6, <1>7, <2>1 DEF Borrowing, BorrowRecord
  <2>2. borrowed.from = "database" => state' # "Closed" /\ index' = index
    BY Zenon, <1>1, <1>2 DEF Borrowing
  <2> QED
    BY Zenon, <1>1, <1>4, <1>5, <2>1, <2>2, PointerKept
<1>9. BorrowsValid'
  <2>1. ASSUME NEW x \in Snapshots, snapshots'[x] # NoSnapshot
        PROVE  /\ snapshots[x] # NoSnapshot /\ snapshots'[x] = snapshots[x]
               /\ heap'[snapshots[x].arc] = heap[snapshots[x].arc]
    BY Zenon, <1>4, <1>7, <2>1
  <2>2. ASSUME NEW x \in Snapshots, snapshots'[x] # NoSnapshot
        PROVE  View(snapshots'[x].base, heap'[snapshots'[x].arc]) = snapshots'[x].shown
    BY <1>2, <2>1, <2>2 DEF BorrowsValid
  <2> QED
    BY <1>8, <2>2 DEF BorrowsValid
<1>10. Types'
  BY <1>1, <1>2, <1>5, <1>8, Zenon DEF Types, BorrowRecord
<1>11. \A u \in Threads : ThreadInv(u)'
  <2>1. \A u \in Threads : call[u].op = "snapshot_visit" =>
                               snapshots'[call[u].arg] = snapshots[call[u].arg]
    BY <1>1, <1>2, <1>4, Zenon DEF ThreadInv, Argued
  <2>2. \A u \in Threads : call[u].op = "snapshot_create" /\ call[u].at = "hold" =>
                               snapshots'[call[u].arg] = NoSnapshot
    BY <1>2, <1>4, Zenon DEF ThreadInv, Argued
  <2>3. \A u \in Threads : call[u].op = "commit_write_batch" /\ call[u].at = "apply" =>
                               Shown' = Shown /\ batch' = batch
    BY <1>1, <1>2, <1>6, CApiAssumption, Zenon DEF ThreadInv, Guarded, Exclusive, WriteOps
  <2> QED
    BY <1>1, <1>2, <2>1, <2>2, <2>3, Others, Zenon
<1>12. Exclusive' /\ OneEach'
  BY <1>1, <1>2, Zenon DEF Exclusive, OneEach
<1>13. Settled'
  <2>1. \A u \in Threads : lock.writer = u => state # "Closed"
    BY <1>2, CApiAssumption DEF Exclusive
  <2> QED
    BY <1>1, <1>2, <1>6, <2>1, Zenon DEF Settled
<1> QED
  BY Zenon, <1>8, <1>9, <1>10, <1>11, <1>12, <1>13 DEF CApiInv

\* lkv_database_close drops the handle's reference; snapshots live on.
LEMMA DatabaseCloseStep ==
    ASSUME CApiInv, DatabaseClose
    PROVE  CApiInv'
<1>1. /\ UNCHANGED <<index, snapshots, lock, call, batch, committed, inflight>>
      /\ \A u \in Threads : call[u].op \in {"none", "snapshot_visit"}
      /\ state' = "Closed" /\ base' = EmptyMap
      /\ heap' = [a \in Arcs |-> IF Held(a) THEN heap[a] ELSE <<>>]
      /\ Borrowed({"database"}, FreedArc)
  BY DEF DatabaseClose, DropHandle, ghosts
<1>2. /\ Types /\ Exclusive /\ OneEach /\ Settled /\ BorrowsValid /\ Borrowing
      /\ \A u \in Threads : ThreadInv(u)
  BY DEF CApiInv
<1>3. MemoryTypes /\ borrowed \in BorrowRecord
  BY <1>2 DEF Types, BorrowRecord
<1>4. lock.readers = {} /\ lock.writer = NoOne
  <2>1. \A u \in Threads : u \notin lock.readers /\ lock.writer # u
    BY <1>1, <1>2, Zenon DEF ThreadInv, Guarded, ReadOps, WriteOps
  <2> QED
    BY Zenon, <1>2, <2>1 DEF Types
<1>5. MemoryTypes'
  <2>1. heap' \in [Arcs -> Entries]
    BY <1>1, <1>3, NoneEntries DEF MemoryTypes
  <2>2. EmptyMap \in Contents
    BY Zenon DEF EmptyMap, Contents, Value
  <2> QED
    BY Zenon, <1>1, <1>3, <2>1, <2>2 DEF MemoryTypes
<1>6. \A x \in Snapshots : snapshots[x] # NoSnapshot =>
          heap'[snapshots[x].arc] = heap[snapshots[x].arc]
  BY <1>1, <1>3, Zenon DEF MemoryTypes, Held
<1>7. Borrowing' /\ borrowed' \in BorrowRecord /\ borrowed'.live
  <2>1. ASSUME borrowed.from \notin {"database"}, borrowed.arc # -1
        PROVE  heap'[borrowed.arc] = heap[borrowed.arc]
    BY Zenon, <1>2, <1>3, <1>6, <2>1 DEF Borrowing, BorrowRecord
  <2> QED
    BY <1>1, <1>5, <2>1, PointerKept, Zenon
<1>8. BorrowsValid'
  BY <1>1, <1>2, <1>6, <1>7, Zenon DEF BorrowsValid
<1>9. Types'
  BY Zenon, <1>1, <1>2, <1>5, <1>7 DEF Types, BorrowRecord
<1>10. \A u \in Threads : ThreadInv(u)'
  BY <1>1, <1>2, Others, Zenon
<1>11. Exclusive' /\ OneEach'
  BY Zenon, <1>1, <1>2, <1>4 DEF Exclusive, OneEach
<1>12. Settled'
  BY <1>1, <1>4, CApiAssumption, Zenon DEF Settled
<1> QED
  BY Zenon, <1>7, <1>8, <1>9, <1>10, <1>11, <1>12 DEF CApiInv

-----------------------------------------------------------------------------
(* The invariant.                                                          *)

\* A new database satisfies the invariant.
LEMMA CApiStart ==
    ASSUME CInit
    PROVE  CApiInv
<1>1. 0 \in Arcs /\ EmptyMap \in Contents
  BY MemoryAssumption, FS_CardinalityType DEF Arcs, EmptyMap, Contents, Value
<1>2. /\ base = EmptyMap /\ heap = [a \in Arcs |-> <<>>] /\ index = 0 /\ state = "Healthy"
      /\ snapshots = [s \in Snapshots |-> NoSnapshot]
      /\ lock = FreeLock /\ call = [t \in Threads |-> NoCall] /\ batch = <<>>
      /\ borrowed = NoBorrow /\ committed = EmptyMap /\ inflight = Down
  BY DEF CInit, MemoryInit
<1>3. MemoryTypes
  BY Zenon, <1>1, <1>2, NoneEntries DEF MemoryTypes
<1>4. lock.readers = {} /\ lock.writer = NoOne /\ ~lock.poisoned
      /\ lock \in [readers : SUBSET Threads, writer : Threads \cup {NoOne}, poisoned : BOOLEAN]
  BY Zenon, <1>2 DEF FreeLock
<1>5. borrowed \in BorrowRecord /\ borrowed.from = NoOne /\ borrowed.arc = -1 /\ borrowed.live
  BY Zenon, <1>2 DEF NoBorrow, BorrowRecord
<1>6. call \in [Threads -> CallRecord] /\ \A t \in Threads : call[t] = NoCall
  BY Zenon, <1>2, NoCallType
<1>7. Types
  BY Zenon, <1>1, <1>2, <1>3, <1>4, <1>5, <1>6, NoneEntries DEF Types, BorrowRecord
<1>8. Shown = committed
  BY Zenon, <1>1, <1>2, ViewNothing DEF Shown
<1>9. ASSUME NEW t \in Threads
      PROVE  ThreadInv(t)
  <2>1. lock.writer # t /\ t \notin lock.readers
    BY Zenon, <1>4, CApiAssumption
  <2>2. Guarded(t) /\ Argued(t) /\ HalfApplied(t) /\ VisitOK(t) /\ ReadOK(t)
    BY <1>6, <2>1, NoCallType, Zenon
       DEF Guarded, Argued, HalfApplied, VisitOK, ReadOK, ReadOps, WriteOps
  <2> QED
    BY Zenon, <2>2 DEF ThreadInv
<1>10. Exclusive /\ Settled
  BY <1>2, <1>4, <1>8, CApiAssumption, Zenon DEF Exclusive, Settled
<1>11. OneEach
  BY Zenon, <1>6, NoCallType DEF OneEach
<1>12. Borrowing /\ BorrowsValid
  BY <1>2, <1>5, CApiAssumption DEF Borrowing, BorrowsValid
<1> QED
  BY Zenon, <1>7, <1>9, <1>10, <1>11, <1>12 DEF CApiInv

\* Every step of every thread keeps the invariant.
LEMMA CApiKept ==
    ASSUME CApiInv, [CNext]_cvars
    PROVE  CApiInv'
<1>1. ASSUME NEW t \in Threads, CallStep(t)
      PROVE  CApiInv'
  BY Zenon, <1>1, ReturnStep, PanicStep, GetStep, GetRefStep, LenStep, VisitEndStep, SnapshotCreateStep,
     EarlySteps, CommitExtendStep, CompactStep, VisitEntryStep, CommitApplyStep DEF CallStep
<1>2. ASSUME NEW w \in BatchWrites, BatchInsert(w[1], w[2])
      PROVE  CApiInv'
  <2>1. w[1] \in Keys /\ w[2] \in Value
    BY CApiAssumption DEF Value
  <2>2. batch' \in Entries
    BY <1>2, <2>1, InsertedType, Zenon DEF BatchInsert, CApiInv, Types
  <2> QED
    BY <1>2, <2>2, BatchStep DEF BatchInsert
<1>3. CASE BatchClear
  BY <1>3, NoneEntries, BatchStep DEF BatchClear
<1>4. CASE UNCHANGED cvars
  <2>1. UNCHANGED <<base, heap, index, state, snapshots, lock, call, batch, borrowed, committed, inflight>>
    BY <1>4 DEF cvars, mvars
  <2>2. /\ Types /\ Exclusive /\ OneEach /\ Settled /\ \A u \in Threads : ThreadInv(u)
    BY DEF CApiInv
  <2>3. MemoryTypes' /\ Shown' = Shown /\ Borrowing' /\ BorrowsValid'
    BY Zenon, <2>1, StorageKept
  <2>4. \A u \in Threads : ThreadInv(u)'
    <3>1. \A u \in Threads : call[u].op = "snapshot_create" /\ call[u].at = "hold" =>
                                 snapshots'[call[u].arg] = NoSnapshot
      BY <2>1, <2>2, Zenon DEF ThreadInv, Argued
    <3> QED
      BY <2>1, <2>2, <2>3, <3>1, Others, Zenon
  <2>5. Types' /\ Exclusive' /\ OneEach' /\ Settled'
    BY <2>1, <2>2, <2>3, Zenon DEF Types, Exclusive, OneEach, Settled
  <2> QED
    BY Zenon, <2>3, <2>4, <2>5 DEF CApiInv
<1>5. CASE CNext
  BY Zenon, <1>1, <1>2, <1>3, <1>5, StartSteps, SnapshotVisitStep, SnapshotGetRefStep, SnapshotCloseStep,
     DatabaseCloseStep DEF CNext
<1> QED
  BY Zenon, <1>4, <1>5

\* The invariant holds throughout.
LEMMA CApiInvariant == CSpec => []CApiInv
<1>1. CInit => CApiInv
  BY CApiStart
<1>2. CApiInv /\ [CNext]_cvars => CApiInv'
  BY CApiKept
<1> QED
  BY <1>1, <1>2, PTL DEF CSpec

-----------------------------------------------------------------------------
(* The theorems.                                                           *)

\* Whoever holds the lock of ffi.rs's lkv_database for reading sees, and is
\* answered from, the contents of the last acknowledged write, however many
\* threads commit, compact and panic in between.
THEOREM ReadersSeeCommitted == CSpec => []ReadsCommitted
<1>1. CApiInv => ReadsCommitted
  <2> SUFFICES ASSUME CApiInv, NEW t \in lock.readers
               PROVE  /\ Shown = committed
                      /\ At(t, "len", "done") => call[t].out.len = Cardinality(Live(committed))
                      /\ At(t, "get", "done") =>
                          /\ call[t].out.len = Length(committed[call[t].key])
                          /\ call[t].status = "ok" => call[t].out.value = committed[call[t].key]
    BY Zenon DEF ReadsCommitted
  <2>1. t \in Threads /\ Exclusive /\ Settled /\ ReadOK(t)
    BY Zenon DEF CApiInv, Types, ThreadInv
  <2>2. Shown = committed
    BY Zenon, <2>1 DEF Exclusive, Settled
  <2> QED
    BY <2>1, <2>2, Zenon DEF ReadOK, Answered
<1> QED
  BY <1>1, CApiInvariant, PTL

\* lkv_database_get writes all of the committed value or none of it, whatever
\* the capacity of the buffer and whoever replaced the value since its length
\* was asked for.
THEOREM CopiesAreWhole == CSpec => []CopyWhole
<1>1. CApiInv => CopyWhole
  BY Zenon DEF CApiInv, Types, ThreadInv, ReadOK, Answered, CopyWhole
<1> QED
  BY <1>1, CApiInvariant, PTL

\* A visitor of lkv_database_visit or lkv_snapshot_visit is handed entries of
\* one contents, and unless it stops the visit, all of them.
THEOREM VisitsConsistent == CSpec => []VisitConsistent
<1>1. CApiInv => VisitConsistent
  BY Zenon DEF CApiInv, ThreadInv, VisitOK, VisitConsistent
<1> QED
  BY <1>1, CApiInvariant, PTL

\* The pointer that get_ref handed out stays valid until a call that the header
\* says ends its life, and every snapshot shows what it showed when it was taken:
\* Arc::make_mut never writes to a map that somebody else still reads.
THEOREM PointersValid == CSpec => []BorrowsValid
<1>1. CApiInv => BorrowsValid
  BY DEF CApiInv
<1> QED
  BY <1>1, CApiInvariant, PTL

-----------------------------------------------------------------------------
(* A batch is emptied by the commit that applied it, and by no other.      *)

\* Steps other than the last turn of a commit's loop leave the batch alone while
\* it is being committed.
LEMMA BatchUntouched ==
    ASSUME [CNext]_cvars, Committing, batch' # batch
    PROVE  \E t \in Threads, k \in Keys : CommitApply(t, k)
<1>1. CASE UNCHANGED cvars
  BY <1>1 DEF cvars
<1>2. ASSUME NEW t \in Threads, StartRead(t) \/ StartWrite(t)
      PROVE  FALSE
  BY <1>2 DEF StartRead, StartWrite, read_database, write_database
<1>3. ASSUME NEW t \in Threads, CallStep(t), ~\E k \in Keys : CommitApply(t, k)
      PROVE  FALSE
  <2>1. ~(Return(t) \/ Panic(t) \/ Get(t) \/ GetRef(t) \/ DatabaseLen(t) \/ VisitEnd(t)
          \/ SnapshotCreate(t))
    BY DEF Return, Panic, Get, GetRef, DatabaseLen, Reading, VisitEnd, Visiting, SnapshotCreate
  <2>2. ~(CommitRefused(t) \/ CommitExtend(t) \/ CompactEarly(t) \/ Compact(t))
    BY DEF CommitRefused, CommitExtend, CompactEarly, Compact
  <2>3. ~\E k \in Keys : VisitEntry(t, k)
    BY Zenon DEF VisitEntry, Visiting
  <2> QED
    BY Zenon, <1>3, <2>1, <2>2, <2>3 DEF CallStep
<1>4. ~BatchClear /\ \A w \in BatchWrites : ~BatchInsert(w[1], w[2])
  BY Zenon DEF BatchClear, BatchInsert
<1>5. ~DatabaseClose /\ \A s \in Snapshots :
          /\ ~SnapshotClose(s)
          /\ \A t \in Threads : ~SnapshotVisit(t, s)
          /\ \A k \in ReadKeys : ~SnapshotGetRef(s, k)
  BY Zenon DEF DatabaseClose, SnapshotClose, SnapshotVisit, SnapshotGetRef
<1> QED
  BY Zenon, <1>1, <1>2, <1>3, <1>4, <1>5 DEF CNext

\* The last turn of the loop leaves the whole batch visible.
LEMMA LastApply ==
    ASSUME CApiInv, NEW t \in Threads, NEW k \in Keys, CommitApply(t, k), batch' # batch
    PROVE  batch' = <<>> /\ \A x \in DOMAIN batch : Shown'[x] = batch[x]
<1>1. PICK c : c = call[t]
  OBVIOUS
<1>2. c.todo \in Entries /\ c.at = "apply" /\ k \in DOMAIN c.todo
  BY <1>1 DEF CommitApply, CApiInv, Types, CallRecord
<1>3. PICK rest \in Entries : rest = Restrict(c.todo, DOMAIN c.todo \ {k})
                              /\ DOMAIN rest = DOMAIN c.todo \ {k}
  BY <1>2, RestrictType
<1>4. rest = <<>> /\ c.op = "commit_write_batch" /\ batch' = <<>>
  BY <1>1, <1>3 DEF CommitApply
<1>5. DOMAIN c.todo = {k}
  BY <1>2, <1>3, <1>4, NoneEntries, Zenon
<1>6. PICK v \in Value : v = c.todo[k]
  BY Zenon, <1>2, EntriesElim
<1>7. PICK o \in Entries : o = heap[index]
  BY Zenon DEF CApiInv, Types, MemoryTypes
<1>8. base \in Contents /\ Shown = View(base, o) /\ DOMAIN batch \subseteq Keys
  BY <1>7, EntriesElim, Zenon DEF CApiInv, Types, MemoryTypes, Shown
<1>9. Shown' = View(base, Inserted(o, k, v))
  <2>1. MakeMut(index) \in Arcs /\ heap \in [Arcs -> Entries]
    BY FreshArc DEF CApiInv, Types, MemoryTypes
  <2>2. /\ index' = MakeMut(index) /\ base' = base
        /\ heap' = [heap EXCEPT ![MakeMut(index)] = Inserted(o, k, v)]
    BY <1>1, <1>6, <1>7 DEF CommitApply, SetEntry
  <2> QED
    BY Zenon, <2>1, <2>2 DEF Shown
<1>10. \A x \in Keys : Shown'[x] = IF x = k THEN v ELSE Shown[x]
  BY Zenon, <1>8, <1>9, ShownAfter
<1>11. \A x \in DOMAIN batch : (IF x \in DOMAIN c.todo THEN c.todo[x] ELSE Shown[x]) = batch[x]
  BY <1>1, <1>2, <1>4, Zenon DEF CApiInv, ThreadInv, HalfApplied
<1>12. \A x \in DOMAIN batch : Shown'[x] = batch[x]
  BY <1>5, <1>6, <1>8, <1>10, <1>11, Zenon
<1> QED
  BY <1>4, <1>12

\* A batch whose commit has succeeded is empty.
Emptied ==
    \A t \in Threads : call[t].op = "commit_write_batch" /\ call[t].status = "ok" => batch = <<>>

\* It stays so when the call of a thread moves on and the batch does not change.
LEMMA EmptiedCall ==
    ASSUME Emptied, call \in [Threads -> CallRecord], NEW t \in Threads, NEW r, Become(t, r),
           batch' = batch, r.op = "commit_write_batch" /\ r.status = "ok" => batch = <<>>
    PROVE  Emptied'
<1>1. call'[t] = r /\ \A u \in Threads \ {t} : call'[u] = call[u]
  BY DEF Become
<1> QED
  BY <1>1, Zenon DEF Emptied

\* Calls that do not commit the batch.
LEMMA EmptiedByOthers ==
    ASSUME Emptied, CApiInv, NEW t \in Threads,
           \/ Return(t) \/ Panic(t) \/ Get(t) \/ GetRef(t) \/ DatabaseLen(t) \/ VisitEnd(t)
           \/ SnapshotCreate(t) \/ CompactEarly(t) \/ Compact(t)
           \/ \E k \in Keys : VisitEntry(t, k)
    PROVE  Emptied'
<1>1. PICK c \in CallRecord : c = call[t]
  BY DEF CApiInv, Types
<1>2. call \in [Threads -> CallRecord]
  BY DEF CApiInv, Types
<1>3. CASE Return(t) \/ Panic(t)
  <2>1. Become(t, NoCall) /\ batch' = batch
    BY <1>3, Zenon DEF Return, Panic
  <2> QED
    BY <1>2, <2>1, NoCallType, EmptiedCall, Zenon
<1>4. CASE GetRef(t) \/ VisitEnd(t) \/ SnapshotCreate(t) \/ CompactEarly(t) \/ Compact(t)
  <2>1. PICK st : Done(t, st)
    BY <1>4, Zenon DEF GetRef, VisitEnd, SnapshotCreate, CompactEarly, Compact
  <2>2. c.op # "commit_write_batch" /\ batch' = batch
    BY <1>1, <1>4, Zenon DEF GetRef, Reading, VisitEnd, Visiting, SnapshotCreate, CompactEarly, Compact, At
  <2>3. [c EXCEPT !.at = "done", !.status = st].op = c.op
    BY DEF CallRecord
  <2>4. Become(t, [c EXCEPT !.at = "done", !.status = st])
    BY <1>1, <2>1 DEF Done
  <2> QED
    BY <1>2, <2>2, <2>3, <2>4, EmptiedCall, Zenon
<1>5. CASE Get(t)
  <2>1. PICK r : r = [c EXCEPT !.at = "done", !.status = CopyStatus(Shown[c.key], c.arg),
                               !.out = CopyOut(Shown[c.key], c.arg)]
    OBVIOUS
  <2>2. Become(t, r) /\ c.op = "get" /\ batch' = batch
    BY <1>1, <1>5, <2>1, Zenon DEF Get, Reading, At
  <2>3. r.op = c.op
    BY <2>1 DEF CallRecord
  <2> QED
    BY <1>2, <2>2, <2>3, EmptiedCall, Zenon
<1>6. CASE DatabaseLen(t)
  <2>1. PICK r : r = [c EXCEPT !.at = "done", !.status = "ok", !.out.len = Cardinality(Live(Shown))]
    OBVIOUS
  <2>2. Become(t, r) /\ c.op = "len" /\ batch' = batch
    BY <1>1, <1>6, <2>1, Zenon DEF DatabaseLen, Reading, At
  <2>3. r.op = c.op
    BY <2>1 DEF CallRecord
  <2> QED
    BY <1>2, <2>2, <2>3, EmptiedCall, Zenon
<1>7. ASSUME NEW k \in Keys, VisitEntry(t, k)
      PROVE  Emptied'
  <2>1. PICK stop \in BOOLEAN :
            Become(t, [c EXCEPT !.seen = Inserted(c.seen, k, Visited(t)[k]), !.stopped = stop,
                                !.at = IF stop THEN "done" ELSE "hold"])
    BY <1>1, <1>7 DEF VisitEntry
  <2>2. c.op # "commit_write_batch" /\ batch' = batch
    BY <1>1, <1>7 DEF VisitEntry, Visiting
  <2>3. [c EXCEPT !.seen = Inserted(c.seen, k, Visited(t)[k]), !.stopped = stop,
                  !.at = IF stop THEN "done" ELSE "hold"].op = c.op
    BY DEF CallRecord
  <2> QED
    BY <1>2, <2>1, <2>2, <2>3, EmptiedCall, Zenon
<1> QED
  BY <1>3, <1>4, <1>5, <1>6, <1>7, Zenon

\* Commits: one that is refused is not Ok unless there was nothing to commit,
\* and the last turn of the loop empties the batch.
LEMMA EmptiedByCommits ==
    ASSUME Emptied, CApiInv, NEW t \in Threads,
           CommitRefused(t) \/ CommitExtend(t) \/ \E k \in Keys : CommitApply(t, k)
    PROVE  Emptied'
<1>1. PICK c \in CallRecord : c = call[t]
  BY DEF CApiInv, Types
<1>2. call \in [Threads -> CallRecord] /\ OneEach
  BY DEF CApiInv, Types
<1>3. CASE CommitRefused(t)
  <2>1. PICK st : /\ Done(t, st) /\ batch' = batch
                  /\ st = IF CommitError(Mutations(t)) = "none" THEN "ok" ELSE CommitError(Mutations(t))
                  /\ Mutations(t) = <<>> \/ CommitError(Mutations(t)) # "none"
    BY <1>3, Zenon DEF CommitRefused
  <2>2. CommitError(Mutations(t)) # "ok"
    BY DEF CommitError
  <2>3. c.op = "commit_write_batch" /\ st = "ok" => batch = <<>>
    BY <1>1, <2>1, <2>2, Zenon DEF Mutations
  <2>4. PICK r : r = [c EXCEPT !.at = "done", !.status = st]
    OBVIOUS
  <2>5. r.op = c.op /\ r.status = st /\ Become(t, r)
    BY <1>1, <2>1, <2>4 DEF CallRecord, Done
  <2> QED
    BY <1>2, <2>1, <2>3, <2>5, EmptiedCall, Zenon
<1>4. CASE CommitExtend(t)
  <2>1. PICK r : r = [c EXCEPT !.at = "apply", !.todo = Mutations(t)]
    OBVIOUS
  <2>2. Become(t, r) /\ batch' = batch
    BY <1>1, <1>4, <2>1, Zenon DEF CommitExtend
  <2>3. r.op = c.op /\ r.status = c.status
    BY <2>1 DEF CallRecord
  <2> QED
    BY <1>1, <1>2, <2>2, <2>3, EmptiedCall, Zenon DEF Emptied
<1>5. ASSUME NEW k \in Keys, CommitApply(t, k)
      PROVE  Emptied'
  <2>1. PICK rest : rest = Restrict(c.todo, DOMAIN c.todo \ {k})
    OBVIOUS
  <2>2. PICK r : r = [c EXCEPT !.todo = rest, !.at = IF rest = <<>> THEN "done" ELSE "apply",
                               !.status = IF rest = <<>> THEN "ok" ELSE "none"]
    OBVIOUS
  <2>3. /\ Become(t, r)
        /\ batch' = IF rest = <<>> /\ c.op = "commit_write_batch" THEN <<>> ELSE batch
    BY <1>1, <1>5, <2>1, <2>2, Zenon DEF CommitApply
  <2>4. r.op = c.op /\ (r.status = "ok" => rest = <<>>)
    BY <2>2 DEF CallRecord
  <2>5. CASE batch' = batch
    BY <1>2, <2>3, <2>4, <2>5, EmptiedCall, Zenon
  <2>6. CASE batch' = <<>>
    BY Zenon, <2>6 DEF Emptied
  <2> QED
    BY <2>3, <2>5, <2>6, Zenon
<1> QED
  BY <1>3, <1>4, <1>5, Zenon

\* A call that begins has no status yet, or that of a poisoned lock.
LEMMA EmptiedByStart ==
    ASSUME Emptied, CApiInv, NEW t \in Threads, StartRead(t) \/ StartWrite(t)
    PROVE  Emptied'
<1>1. PICK op, key, arg : read_database(t, Call(op, key, arg)) \/ write_database(t, Call(op, key, arg))
  BY Zenon DEF StartRead, StartWrite
<1>2. PICK c : c = Call(op, key, arg)
  OBVIOUS
<1>3. PICK r : (r = c \/ r = [c EXCEPT !.at = "done", !.status = "panic"]) /\ Become(t, r)
  BY <1>1, <1>2, Zenon DEF read_database, write_database, Poisoned
<1>4. r.status # "ok"
  <2>1. "status" \in DOMAIN c /\ c.status = "none"
    BY <1>2 DEF Call
  <2> QED
    BY <1>3, <2>1
<1>5. call \in [Threads -> CallRecord] /\ batch' = batch
  BY <1>1, Zenon DEF CApiInv, Types, read_database, write_database
<1> QED
  BY <1>3, <1>4, <1>5, EmptiedCall, Zenon

\* Every step keeps it: the owner of the batch edits it only between commits.
LEMMA EmptiedKept ==
    ASSUME Emptied, CApiInv, [CNext]_cvars
    PROVE  Emptied'
<1>1. ASSUME NEW t \in Threads, CallStep(t)
      PROVE  Emptied'
  BY <1>1, EmptiedByOthers, EmptiedByCommits, Zenon DEF CallStep
<1>2. ASSUME call' = call, batch' = batch \/ ~Committing
      PROVE  Emptied'
  BY <1>2, Zenon DEF Emptied, Committing
<1>3. CASE UNCHANGED cvars
  <2>1. call' = call /\ batch' = batch
    BY <1>3 DEF cvars
  <2> QED
    BY <1>2, <2>1
<1>4. CASE BatchClear \/ \E w \in BatchWrites : BatchInsert(w[1], w[2])
  <2>1. call' = call /\ ~Committing
    BY <1>4, Zenon DEF BatchClear, BatchInsert
  <2> QED
    BY <1>2, <2>1
<1>5. ASSUME NEW s \in Snapshots,
             SnapshotClose(s) \/ \E k \in ReadKeys : SnapshotGetRef(s, k)
      PROVE  Emptied'
  <2>1. call' = call /\ batch' = batch
    BY <1>5, Zenon DEF SnapshotClose, SnapshotGetRef
  <2> QED
    BY <1>2, <2>1
<1>6. CASE DatabaseClose
  <2>1. call' = call /\ batch' = batch
    BY <1>6, Zenon DEF DatabaseClose
  <2> QED
    BY <1>2, <2>1
<1>7. ASSUME NEW s \in Snapshots, NEW t \in Threads, SnapshotVisit(t, s)
      PROVE  Emptied'
  <2>1. Become(t, Call("snapshot_visit", Absent, s)) /\ batch' = batch
    BY <1>7, Zenon DEF SnapshotVisit
  <2>2. Call("snapshot_visit", Absent, s).status # "ok"
    BY DEF Call
  <2>3. call \in [Threads -> CallRecord]
    BY DEF CApiInv, Types
  <2> QED
    BY <2>1, <2>2, <2>3, EmptiedCall, Zenon
<1>8. CASE CNext
  BY <1>1, <1>4, <1>5, <1>6, <1>7, <1>8, EmptiedByStart, Zenon DEF CNext
<1> QED
  BY <1>3, <1>8, Zenon

\* lkv_database_commit_write_batch empties the caller's batch exactly when every
\* entry of it is visible: a commit that is refused or panics halfway keeps it,
\* and one that returns Ok leaves nothing to be applied again.
THEOREM BatchOnce == CSpec => BatchKept
<1>1. CApiInv /\ Emptied' /\ [CNext]_cvars =>
          [/\ Committing /\ batch' # batch =>
                 batch' = <<>> /\ \A k \in DOMAIN batch : Shown'[k] = batch[k]
           /\ \A t \in Threads :
                 call'[t].op = "commit_write_batch" /\ call'[t].status = "ok" => batch' = <<>>]_cvars
  BY Zenon, BatchUntouched, LastApply DEF Emptied
<1>2. CInit => Emptied
  BY NoCallType, Zenon DEF CInit, Emptied
<1>3. CApiInv /\ Emptied /\ [CNext]_cvars => Emptied'
  BY EmptiedKept
<1> QED
  BY <1>1, <1>2, <1>3, CApiInvariant, PTL DEF CSpec, BatchKept

-----------------------------------------------------------------------------
(* The C API implements the atomic store.                                  *)

\* What AtomicStore calls maybe, pending and view.
InDoubt == IF inflight = Down THEN {} ELSE {inflight}

Running == IF lock.poisoned THEN Down ELSE inflight

Seen ==
    IF lock.poisoned \/ state = "Closed" THEN Down
    ELSE IF lock.writer # NoOne THEN committed ELSE Shown

Mapped == Store!Next \/ UNCHANGED Store!svars

\* A reader of a database that is neither closed nor poisoned sees the committed
\* contents.
LEMMA SeenIs ==
    CApiInv => /\ Seen = IF lock.poisoned \/ state = "Closed" THEN Down ELSE committed
               /\ committed # Down
<1> SUFFICES ASSUME CApiInv
             PROVE  /\ Seen = IF lock.poisoned \/ state = "Closed" THEN Down ELSE committed
                    /\ committed # Down
  OBVIOUS
<1>1. committed # Down
  BY CApiAssumption DEF CApiInv, Types, Contents, Value
<1> QED
  BY <1>1 DEF CApiInv, Settled, Seen

\* The same after a step.
LEMMA SeenIsNext ==
    (CApiInv => /\ Seen = IF lock.poisoned \/ state = "Closed" THEN Down ELSE committed
                /\ committed # Down)'
BY SeenIs, PTL

\* Steps that neither poison nor close nor commit.
LEMMA StoreStutters ==
    ASSUME CApiInv, CApiInv', UNCHANGED <<committed, inflight>>, lock'.poisoned = lock.poisoned,
           state' = "Closed" <=> state = "Closed"
    PROVE  Mapped
<1>1. Seen' = Seen
  <2>1. Seen = IF lock.poisoned \/ state = "Closed" THEN Down ELSE committed
    BY Zenon, SeenIs
  <2>2. Seen' = IF lock'.poisoned \/ state' = "Closed" THEN Down ELSE committed'
    BY Zenon, SeenIsNext
  <2> QED
    BY Zenon, <2>1, <2>2
<1>2. UNCHANGED <<committed, InDoubt, Running, Seen>>
  BY <1>1 DEF InDoubt, Running
<1> QED
  BY <1>2, Zenon DEF Mapped, Store!svars, InDoubt, Running, Seen

\* The guard is dropped: a write that changed something is acknowledged.
LEMMA ReturnMaps ==
    ASSUME CApiInv, CApiInv', NEW t \in Threads, Return(t)
    PROVE  Mapped
<1>1. /\ lock' = Unlocked(t) /\ state' = state
      /\ IF lock.writer = t /\ inflight # Down
         THEN committed' = inflight /\ inflight' = Down
         ELSE UNCHANGED <<committed, inflight>>
  BY DEF Return, mvars, ghosts
<1>2. lock'.poisoned = lock.poisoned
  BY Zenon, <1>1 DEF Unlocked, CApiInv, Types
<1>3. CASE lock.writer = t /\ inflight # Down
  <2>1. ~lock.poisoned /\ state # "Closed"
    BY <1>3, CApiAssumption, Zenon DEF CApiInv, Exclusive
  <2>2. Seen' = committed'
    BY <1>1, <1>2, <2>1, SeenIsNext, Zenon
  <2>3. Running # Down /\ committed' = Running /\ Seen' = Running /\ Running' = Down /\ InDoubt' = {}
    BY <1>1, <1>2, <1>3, <2>1, <2>2, Zenon DEF Running, InDoubt
  <2> QED
    BY Zenon, <2>3 DEF Mapped, Store!Next, Store!Ack, Running, InDoubt, Seen
<1>4. CASE ~(lock.writer = t /\ inflight # Down)
  BY Zenon, <1>1, <1>2, <1>4, StoreStutters
<1> QED
  BY Zenon, <1>3, <1>4

\* Nothing is readable any more once the lock is poisoned or the handle closed.
LEMMA DownMaps ==
    ASSUME CApiInv, CApiInv', UNCHANGED <<committed, inflight>>,
           lock'.poisoned \/ state' = "Closed", ~lock'.poisoned => inflight = Down
    PROVE  Mapped
<1>1. Seen' = Down
  BY SeenIsNext
<1>2. Running' = Down /\ InDoubt' = InDoubt
  BY DEF Running, InDoubt
<1> QED
  BY Zenon, <1>1, <1>2 DEF Mapped, Store!Next, Store!GoDown, Running, InDoubt, Seen

\* The panic of a writer ends the database for every reader.
LEMMA PanicMaps ==
    ASSUME CApiInv, CApiInv', NEW t \in Threads, Panic(t)
    PROVE  Mapped
<1>1. PICK p \in BOOLEAN : p = (lock.writer = t)
  BY Zenon
<1>2. /\ UNCHANGED <<state, committed, inflight>>
      /\ lock' = [Unlocked(t) EXCEPT !.poisoned = @ \/ p]
  BY <1>1, Zenon DEF Panic, mvars, ghosts
<1>3. lock'.poisoned = (lock.poisoned \/ p)
  BY <1>2 DEF Unlocked, CApiInv, Types
<1>4. CASE p
  BY <1>2, <1>3, <1>4, DownMaps, Zenon
<1>5. CASE ~p
  <2>1. lock'.poisoned = lock.poisoned
    BY Zenon, <1>3, <1>5 DEF CApiInv, Types
  <2> QED
    BY Zenon, <1>2, <2>1, StoreStutters
<1> QED
  BY <1>4, <1>5

\* lkv_database_close.
LEMMA CloseMaps ==
    ASSUME CApiInv, CApiInv', DatabaseClose
    PROVE  Mapped
<1>1. UNCHANGED <<lock, committed, inflight>> /\ state # "Closed" /\ state' = "Closed"
  BY Zenon DEF DatabaseClose, DropHandle, ghosts
<1>2. lock.writer = NoOne
  <2>1. \A u \in Threads : lock.writer # u
    BY Zenon DEF DatabaseClose, CApiInv, ThreadInv, Guarded, WriteOps
  <2> QED
    BY <2>1 DEF CApiInv, Types
<1>3. ~lock.poisoned => inflight = Down
  BY <1>1, <1>2, Zenon DEF CApiInv, Settled
<1> QED
  BY Zenon, <1>1, <1>3, DownMaps

\* The log is extended: the commit is submitted.
LEMMA ExtendMaps ==
    ASSUME CApiInv, CApiInv', NEW t \in Threads, CommitExtend(t)
    PROVE  Mapped
<1>1. PICK b \in Entries : b = Mutations(t) /\ b # <<>>
  BY MutationsType DEF CommitExtend
<1>2. /\ IsCommit(t) /\ call[t].at = "hold" /\ inflight' = View(committed, b)
      /\ UNCHANGED <<state, lock, committed>>
  BY <1>1 DEF CommitExtend, ExtendLog
<1>3. lock.writer = t
  BY <1>2, Zenon DEF IsCommit, CApiInv, ThreadInv, Guarded, WriteOps
<1>4. ~lock.poisoned /\ state # "Closed" /\ inflight = Down
  BY <1>2, <1>3, CApiAssumption, Zenon DEF CApiInv, Exclusive, Settled
<1>5. Seen = committed /\ Seen' = committed /\ committed # Down
  BY <1>2, <1>4, SeenIs, SeenIsNext, Zenon
<1>6. b \in Store!Mutation
  <2>1. DOMAIN b # {}
    <3> SUFFICES ASSUME DOMAIN b = {}
                 PROVE  FALSE
      OBVIOUS
    <3>1. b \in [{} -> Value] /\ <<>> \in [{} -> Value]
      BY EntriesElim
    <3>2. b = <<>>
      BY <3>1
    <3> QED
      BY <1>1, <3>2
  <2>2. DOMAIN b \in (SUBSET Keys) \ {{}} /\ b \in [DOMAIN b -> Value]
    BY Zenon, <2>1, EntriesElim
  <2> QED
    BY <2>2 DEF Store!Mutation, Value
<1>7. View(committed, b) # Down
  <2>1. committed \in Contents
    BY Zenon DEF CApiInv, Types
  <2> QED
    BY Zenon, <2>1, ViewType, CApiAssumption DEF Contents, Value
<1>8. /\ Seen # Down /\ Running = Down /\ InDoubt = {}
      /\ Running' = View(Seen, b) /\ InDoubt' = {Running'} /\ UNCHANGED <<committed, Seen>>
  BY Zenon, <1>2, <1>4, <1>5, <1>7 DEF Running, InDoubt
<1>9. Store!Submit(b)
  BY <1>8, Zenon DEF Store!Submit, Store!Updated, View, Running, InDoubt, Seen
<1> QED
  BY <1>6, <1>9 DEF Mapped, Store!Next

\* Steps that acknowledge nothing, submit nothing and leave the handle up.
LEMMA QuietMaps ==
    ASSUME CApiInv, CApiInv', UNCHANGED <<ghosts, lock>>, state' = state
    PROVE  Mapped
<1>1. UNCHANGED <<committed, inflight>> /\ lock'.poisoned = lock.poisoned
  BY DEF ghosts
<1> QED
  BY Zenon, <1>1, StoreStutters

\* A call begins.
LEMMA StartMaps ==
    ASSUME CApiInv, CApiInv', NEW t \in Threads, StartRead(t) \/ StartWrite(t)
    PROVE  Mapped
<1>1. PICK c : read_database(t, c) \/ write_database(t, c)
  BY Zenon DEF StartRead, StartWrite
<1>2. UNCHANGED <<state, committed, inflight>>
  BY <1>1 DEF read_database, write_database, mvars, ghosts
<1>3. lock'.poisoned = lock.poisoned
  BY Zenon, <1>1 DEF read_database, write_database, Poisoned, CApiInv, Types
<1> QED
  BY Zenon, <1>2, <1>3, StoreStutters

\* Every step of a call is one of the store, or invisible.
LEMMA CallMaps ==
    ASSUME CApiInv, CApiInv', NEW t \in Threads, CallStep(t)
    PROVE  Mapped
<1>1. CASE Get(t) \/ GetRef(t) \/ DatabaseLen(t) \/ VisitEnd(t) \/ \E k \in Keys : VisitEntry(t, k)
  <2>1. UNCHANGED <<mvars, lock, ghosts>>
    BY <1>1, Zenon DEF Get, GetRef, DatabaseLen, Reading, VisitEnd, VisitEntry, Visiting
  <2>2. state' = state
    BY <2>1 DEF mvars
  <2> QED
    BY <2>1, <2>2, QuietMaps
<1>2. CASE SnapshotCreate(t) \/ CommitRefused(t) \/ CompactEarly(t)
  <2>1. UNCHANGED <<lock, ghosts>> /\ state' = state
    BY <1>2, Zenon DEF SnapshotCreate, TakeSnapshot, CommitRefused, CompactEarly, mvars
  <2> QED
    BY Zenon, <2>1, QuietMaps
<1>3. ASSUME NEW k \in Keys, CommitApply(t, k)
      PROVE  Mapped
  <2>1. UNCHANGED <<lock, ghosts>> /\ state' = state
    BY <1>3 DEF CommitApply, SetEntry
  <2> QED
    BY <2>1, QuietMaps
<1>4. CASE Compact(t)
  <2>1. UNCHANGED <<lock, ghosts>> /\ state' = state
    BY Zenon, <1>4 DEF Compact, InstallMemoryBase
  <2> QED
    BY Zenon, <2>1, QuietMaps
<1> QED
  BY Zenon, <1>1, <1>2, <1>3, <1>4, ReturnMaps, PanicMaps, ExtendMaps DEF CallStep

\* Every step is one of the store, or invisible.
LEMMA MappedStep ==
    ASSUME CApiInv, CApiInv', [CNext]_cvars
    PROVE  Mapped
<1>1. CASE UNCHANGED cvars
  <2>1. UNCHANGED <<lock, ghosts>> /\ state' = state
    BY <1>1 DEF cvars, mvars, ghosts
  <2> QED
    BY Zenon, <2>1, QuietMaps
<1>2. ASSUME \/ \E w \in BatchWrites : BatchInsert(w[1], w[2])
             \/ BatchClear
             \/ \E s \in Snapshots : \/ SnapshotClose(s)
                                     \/ \E t \in Threads : SnapshotVisit(t, s)
                                     \/ \E k \in ReadKeys : SnapshotGetRef(s, k)
      PROVE  Mapped
  <2>1. UNCHANGED <<lock, ghosts>> /\ state' = state
    BY <1>2, Zenon DEF BatchInsert, BatchClear, SnapshotClose, DropSnapshot, SnapshotVisit,
                SnapshotGetRef, mvars
  <2> QED
    BY <2>1, QuietMaps
<1>3. CASE CNext
  BY Zenon, <1>2, <1>3, StartMaps, CallMaps, CloseMaps DEF CNext
<1> QED
  BY <1>1, <1>3

\* A new database is an empty store.
LEMMA StoreStart ==
    ASSUME CInit
    PROVE  Store!Init
<1>1. CApiInv /\ committed = [k \in Keys |-> Absent] /\ inflight = Down /\ ~lock.poisoned
      /\ state # "Closed"
  BY CApiStart DEF CInit, MemoryInit, EmptyMap, FreeLock
<1>2. Seen = committed /\ InDoubt = {} /\ Running = Down
  BY <1>1, SeenIs DEF InDoubt, Running
<1> QED
  BY Zenon, <1>1, <1>2 DEF Store!Init, Seen, InDoubt, Running

\* Threads that commit entry by entry under the lock of lkv_database, panic,
\* compact and close implement a store whose transactions happen at once: a
\* commit is seen as a whole when it returns, or the database is poisoned.
THEOREM LockedStoreIsAtomic == CSpec => ImplementsStore
<1>1. CInit => Store!Init
  BY StoreStart
<1>2. CApiInv /\ CApiInv' /\ [CNext]_cvars => [Store!Next]_(Store!svars)
  BY MappedStep DEF Mapped
<1> QED
  BY <1>1, <1>2, CApiInvariant, PTL DEF CSpec, ImplementsStore, Store!Spec
=============================================================================
