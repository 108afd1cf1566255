----------------------------- MODULE MCBaseRead -----------------------------
(* A Base of two entries whose keys collide, two readers and one damaged    *)
(* cell.  A block holds three cells, so the header of the second record     *)
(* lies in another block than its key.                                      *)
EXTENDS BaseRead, TLC

CONSTANTS ka, kb, kc, r1, r2

MCKeys == {ka, kb, kc}
MCReaders == {r1, r2}

MCEntries == <<[key |-> ka, value |-> <<kc>>], [key |-> kb, value |-> <<>>]>>

\* Without an Overlay all three keys share a fingerprint and the last slot; with
\* one that deletes a key and adds another, they differ.
MCSetups ==
    {[hash |-> [k \in MCKeys |-> [low |-> 3, high |-> 1]],
      overlay |-> <<>>],
     [hash |-> [k \in MCKeys |-> IF k = ka THEN [low |-> 2, high |-> 1]
                                 ELSE IF k = kb THEN [low |-> 2, high |-> 0]
                                 ELSE [low |-> 0, high |-> 1]],
      overlay |-> (ka :> Absent) @@ (kc :> <<>>)]}

MCLengths == [key_len : {0, 1}, value_len : 0 .. 2] \cup {[key_len |-> 2, value_len |-> 0]}
MCJunk == [key_len |-> 1, value_len |-> 1]

\* Up to three entries with distinct keys and values of zero to two cells.
MCSmallBases ==
    LET values == {<<>>, <<ka>>, <<ka, kb>>}
        of(n) == {s \in [1 .. n -> [key : MCKeys, value : values]] :
                      \A i, j \in 1 .. n : s[i].key = s[j].key => i = j}
    IN  UNION {of(n) : n \in 0 .. 3}

MCSymmetry == Permutations(MCReaders)
=============================================================================
