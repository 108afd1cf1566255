------------------------------- MODULE MCCApi -------------------------------
(* Threads that share one lkv_database in memory, a batch and a snapshot.  *)
EXTENDS CApi, TLC

CONSTANTS k1, k2, v1, t1, t2, s1

Symmetry == Permutations(Threads)

Written == {<<k1, v1>>, <<k2, Absent>>}

Batched == {<<k1, Absent>>, <<k2, v1>>}

\* A capacity of one byte holds a part of a value.
Lengths == [v \in Vals |-> 2]
=============================================================================
