---------------------------- MODULE MCDatabase ----------------------------
(* Small instances of Database for TLC. *)
EXTENDS DatabaseInv, TLC

CONSTANTS k1, k2, v1, v2

OneKey == {k1}
TwoKeys == {k1, k2}
OneVal == {v1}
TwoVals == {v1, v2}

\* Nothing in the specification tells one key, or one value, from another.
Symmetry == Permutations(TwoKeys) \cup Permutations(TwoVals)
=============================================================================
