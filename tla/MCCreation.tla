---------------------------- MODULE MCCreation ----------------------------
(* Small instances of Creation for TLC.                                    *)
EXTENDS Creation, TLC

CONSTANTS p1, p2

TwoProcs == {p1, p2}

OneProc == {p1}

Symmetry == Permutations(TwoProcs)
=============================================================================
