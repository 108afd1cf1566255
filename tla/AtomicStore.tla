---------------------------- MODULE AtomicStore ----------------------------
(***************************************************************************)
(* What a database promises its user, with no file in sight.               *)
(*                                                                         *)
(* A transaction that was acknowledged is never lost and is never seen in  *)
(* part.  One that failed, or was cut off by a crash, is in doubt: the     *)
(* next open finds it as a whole or not at all.  Nothing else, compaction  *)
(* least of all, changes what a reader sees.                               *)
(***************************************************************************)
CONSTANTS Keys, Vals, Absent, Down

VARIABLES
    acked,      \* the contents after the last acknowledged transaction
    maybe,      \* contents that include transactions in doubt
    pending,    \* the contents the running commit would publish, or Down
    view        \* what a reader of the open database sees, or Down

svars == <<acked, maybe, pending, view>>

Contents == [Keys -> Vals \cup {Absent}]

Mutation == UNION {[D -> Vals \cup {Absent}] : D \in (SUBSET Keys) \ {{}}}

Updated(m, b) == [k \in Keys |-> IF k \in DOMAIN b THEN b[k] ELSE m[k]]

Init ==
    /\ acked = [k \in Keys |-> Absent]
    /\ maybe = {}
    /\ pending = Down
    /\ view = acked

\* A commit starts: from here on its contents may turn up after a crash.
Submit(b) ==
    /\ view # Down
    /\ pending = Down
    /\ pending' = Updated(view, b)
    /\ maybe' = maybe \cup {pending'}
    /\ UNCHANGED <<acked, view>>

\* The commit returns Ok.
Ack ==
    /\ pending # Down
    /\ acked' = pending
    /\ view' = pending
    /\ pending' = Down
    /\ maybe' = {}

\* The commit returns an error: nothing is visible, the outcome is in doubt.
Fail ==
    /\ pending # Down
    /\ pending' = Down
    /\ UNCHANGED <<acked, maybe, view>>

\* The handle is dropped, fails for good, or dies with its process.
GoDown ==
    /\ view' = Down
    /\ pending' = Down
    /\ UNCHANGED <<acked, maybe>>

\* The database becomes readable again.  What it shows is either settled, or
\* still at the mercy of unsynchronized writes.
Recover ==
    /\ view = Down
    /\ view' \in {acked} \cup maybe
    /\ \/ acked' = view' /\ maybe' = {}
       \/ UNCHANGED <<acked, maybe>>
    /\ UNCHANGED pending

Next ==
    \/ \E b \in Mutation : Submit(b)
    \/ Ack
    \/ Fail
    \/ GoDown
    \/ Recover

Spec == Init /\ [][Next]_svars
=============================================================================
