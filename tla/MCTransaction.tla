--------------------------- MODULE MCTransaction ---------------------------
(* Small instances of Transaction for TLC.                                 *)
EXTENDS Transaction

CONSTANTS k1, k2, k3, short, long, huge, s1

ThreeKeys == {k1, k2, k3}

ThreeVals == {short, long, huge}

\* One value below the mapping threshold, one at it, and one no record holds.
Lengths == [v \in ThreeVals |-> IF v = short THEN 1 ELSE IF v = long THEN 5 ELSE 9]

OneSnapshot == {s1}

\* Complete in one piece, complete with a piece in between that does not fit,
\* incomplete, and too long for any record.
ReservedCalls ==
    {[val |-> short, writes |-> <<1>>], [val |-> long, writes |-> <<2, 4, 3>>],
     [val |-> long, writes |-> <<2, 4>>], [val |-> huge, writes |-> <<9>>]}

Symmetry == Permutations(ThreeKeys)
=============================================================================
