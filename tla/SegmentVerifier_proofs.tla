----------------------- MODULE SegmentVerifier_proofs -----------------------
(***************************************************************************)
(* SegmentVerifier is correct for every number of readers, every segment   *)
(* size and every block size.                                              *)
(***************************************************************************)
EXTENDS SegmentVerifier, FiniteSetTheorems, TLAPS

-----------------------------------------------------------------------------
(* The inductive invariant.                                                *)

\* The readers that have set a bit and not yet decremented the counter.
Owing == {r \in Readers : At(r, "sub")}

InLoop(c) == c.at \in {"load", "or", "sub", "store"}

\* What a reader knows at each point of its call, v being the verified blocks.
ReaderOK(c, v) ==
    /\ InLoop(c) =>
        /\ c.start < c.end /\ c.end <= DataSize
        /\ c.block \in BlocksOf(c.start, c.end)
        /\ \A b \in BlocksOf(c.start, c.end) : b < c.block => b \in v
        /\ c.result = "none"
    /\ c.at = "or" => c.block \in intact
    /\ c.at = "sub" => c.block \in v
    /\ c.at = "store" => v = Blocks
    /\ c.op = "verify" => c.start = 0 /\ c.end = DataSize
    /\ c.at \in {"semantic", "mark"} => c.op = "verify" /\ v = Blocks /\ c.result = "none"
    /\ c.at = "mark" => wellFormed
    /\ c.result = "ok" =>
        /\ c.end <= DataSize => BlocksOf(c.start, c.end) \subseteq v
        /\ c.op = "verify" => wellFormed

CountExact == remaining = Cardinality(Blocks \ verified) + Cardinality(Owing)

VerifierInv ==
    /\ TypeOK
    /\ \A r \in Readers : ReaderOK(call[r], verified)
    /\ verified \subseteq intact
    /\ CountExact
    /\ fully_verified => verified = Blocks
    /\ ~fully_verified => (remaining > 0 \/ \E r \in Readers : At(r, "store"))
    /\ semantically_verified => wellFormed
-----------------------------------------------------------------------------
(* Blocks.                                                                 *)

\* A byte lies in one block, and later bytes in the same or later blocks.
LEMMA BlockOrder ==
    /\ \A x \in Nat : BlockOf(x) \in Nat
    /\ \A x, y \in Nat : x <= y => BlockOf(x) <= BlockOf(y)
  BY VerifierAssumption, SMT DEF BlockOf

\* The loop of verify_range starts inside the segment and never leaves it.
LEMMA RangeBlocks ==
  ASSUME NEW start \in Nat, NEW end \in Nat, start < end, end <= DataSize
  PROVE  /\ BlocksOf(start, end) \subseteq Blocks
         /\ BlockOf(start) \in BlocksOf(start, end)
         /\ \A b \in BlocksOf(start, end) :
                /\ b \in Nat
                /\ b >= BlockOf(start)
                /\ b # BlockOf(end - 1) => b + 1 \in BlocksOf(start, end)
         /\ \A b \in BlocksOf(start, end) : b <= BlockOf(end - 1)
  <1>1. /\ end - 1 \in Nat /\ DataSize - 1 \in Nat
        /\ start <= end - 1 /\ end - 1 <= DataSize - 1
    BY VerifierAssumption
  <1>2. /\ BlockOf(start) \in Nat /\ BlockOf(end - 1) \in Nat /\ BlockOf(DataSize - 1) \in Nat
        /\ BlockOf(start) <= BlockOf(end - 1) /\ BlockOf(end - 1) <= BlockOf(DataSize - 1)
    BY <1>1, BlockOrder
  <1> QED
    BY <1>2 DEF BlocksOf, Blocks

\* verify covers every block.
LEMMA WholeSegment ==
    /\ BlocksOf(0, DataSize) = Blocks
    /\ IsFiniteSet(Blocks)
    /\ Cardinality(Blocks) \in Nat \ {0}
  <1>1. DataSize - 1 \in Nat /\ BlockOf(DataSize - 1) \in Nat /\ 0 < DataSize
    BY VerifierAssumption, BlockOrder
  <1>2. BlockOf(0) = 0
    BY VerifierAssumption, SMT DEF BlockOf
  <1>3. IsFiniteSet(Blocks) /\ Cardinality(Blocks) = BlockOf(DataSize - 1) + 1
    BY <1>1, FS_Interval DEF Blocks
  <1> QED
    BY <1>1, <1>2, <1>3 DEF BlocksOf, Blocks

-----------------------------------------------------------------------------
(* One reader.                                                             *)

\* What a reader knows stays true while other readers set bits.
LEMMA ReaderMonotone ==
  ASSUME NEW c \in Calls, NEW v, NEW w, v \subseteq w, w \subseteq Blocks, ReaderOK(c, v)
  PROVE  ReaderOK(c, w)
  <1>1. v = Blocks => w = Blocks
    OBVIOUS
  <1> QED
    BY <1>1 DEF ReaderOK, Calls, InLoop

\* Leaving the loop: verify_range returns Ok, or verify goes on.
LEMMA RangeOkStep ==
  ASSUME NEW c \in Calls, NEW v \in SUBSET Blocks, c.result = "none",
         c.op = "verify" => c.start = 0 /\ c.end = DataSize,
         c.end <= DataSize => BlocksOf(c.start, c.end) \subseteq v
  PROVE  /\ RangeOk(c) \in Calls
         /\ ReaderOK(RangeOk(c), v)
         /\ RangeOk(c).at \in {"semantic", "idle"}
  <1>1. CASE c.op = "verify"
    <2>1. v = Blocks
      BY <1>1, WholeSegment, VerifierAssumption
    <2> QED
      BY <1>1, <2>1 DEF RangeOk, ReaderOK, Calls, Points, InLoop
  <1>2. CASE c.op # "verify"
    BY ZenonT(60), <1>2 DEF RangeOk, ReaderOK, Calls, Points, InLoop
  <1> QED
    BY <1>1, <1>2

\* One turn of the loop: the block is verified, the reader goes on to the next.
LEMMA NextBlockStep ==
  ASSUME NEW c \in Calls, NEW v \in SUBSET Blocks, ReaderOK(c, v), InLoop(c), c.block \in v
  PROVE  /\ NextBlock(c) \in Calls
         /\ ReaderOK(NextBlock(c), v)
         /\ NextBlock(c).at \in {"load", "semantic", "idle"}
  <1> DEFINE B == BlocksOf(c.start, c.end)
  <1>1. /\ c.start \in Nat /\ c.end \in Nat /\ c.block \in Nat
        /\ c.start < c.end /\ c.end <= DataSize /\ c.block \in B
        /\ \A b \in B : b < c.block => b \in v
        /\ c.result = "none"
        /\ c.op = "verify" => c.start = 0 /\ c.end = DataSize
    BY VerifierAssumption DEF ReaderOK, Calls
  <1>2. /\ \A b \in B : /\ b \in Nat
                        /\ b # BlockOf(c.end - 1) => b + 1 \in B
                        /\ b <= BlockOf(c.end - 1)
        /\ BlockOf(c.end - 1) \in Nat
    BY <1>1, RangeBlocks, BlockOrder
  <1>3. CASE c.block < BlockOf(c.end - 1)
    <2>1. c.block + 1 \in B
      BY <1>1, <1>2, <1>3
    <2>2. \A b \in B : b < c.block + 1 => b \in v
      <3>1. SUFFICES ASSUME NEW b \in B, b < c.block + 1
                     PROVE  b \in v
        OBVIOUS
      <3>2. b \in Nat /\ (b < c.block \/ b = c.block)
        BY <1>1, <1>2, <3>1
      <3> QED
        BY <1>1, <3>2
    <2> DEFINE d == [c EXCEPT !.at = "load", !.block = c.block + 1]
    <2>3. /\ d \in Calls /\ d.at = "load" /\ d.block = c.block + 1 /\ d.start = c.start
          /\ d.end = c.end /\ d.op = c.op /\ d.result = c.result
      <3>1. c.block + 1 \in Nat
        BY <1>1
      <3> DEFINE n == c.block + 1
      <3> HIDE DEF n
      <3>2. [c EXCEPT !.at = "load", !.block = n] \in Calls
        BY ZenonT(60), <3>1 DEF Calls, Points, n
      <3> QED
        BY <3>2 DEF Calls, n
    <2>4. NextBlock(c) = d
      BY <1>3 DEF NextBlock
    <2> HIDE DEF d
    <2>5. ReaderOK(d, v)
      BY <1>1, <2>1, <2>2, <2>3 DEF ReaderOK, InLoop
    <2> QED
      BY <2>3, <2>4, <2>5
  <1>4. CASE ~(c.block < BlockOf(c.end - 1))
    <2>1. B \subseteq v
      BY <1>1, <1>2, <1>4
    <2>2. NextBlock(c) = RangeOk(c)
      BY <1>4 DEF NextBlock
    <2> QED
      BY <1>1, <2>1, <2>2, RangeOkStep
  <1> QED
    BY <1>3, <1>4

-----------------------------------------------------------------------------
(* One step.                                                               *)

\* The counting sets are finite.
LEMMA CountedFinite ==
  ASSUME VerifierInv
  PROVE  /\ IsFiniteSet(Blocks \ verified) /\ Cardinality(Blocks \ verified) \in Nat
         /\ IsFiniteSet(Owing) /\ Cardinality(Owing) \in Nat
  <1>1. IsFiniteSet(Blocks \ verified)
    BY ZenonT(60), WholeSegment, FS_Difference
  <1>2. IsFiniteSet(Owing)
    BY VerifierAssumption, FS_Subset DEF Owing
  <1> QED
    BY <1>1, <1>2, FS_CardinalityType

\* A step of one reader that touches none of the atomics.
LEMMA QuietStep ==
  ASSUME VerifierInv, NEW r \in Readers, NEW c \in Calls,
         call' = [call EXCEPT ![r] = c], UNCHANGED <<intact, wellFormed, shared>>,
         call[r].at \notin {"sub", "store"}, c.at # "sub", ReaderOK(c, verified)
  PROVE  VerifierInv'
  <1>1. /\ call \in [Readers -> Calls] /\ call' \in [Readers -> Calls] /\ call'[r] = c
        /\ \A q \in Readers \ {r} : call'[q] = call[q]
    BY DEF VerifierInv, TypeOK
  <1>2. TypeOK'
    BY <1>1 DEF VerifierInv, TypeOK, shared
  <1>3. Owing' = Owing
    BY <1>1 DEF Owing, At
  <1>4. ASSUME NEW q \in Readers PROVE ReaderOK(call[q], verified)'
    <2>1. ReaderOK(call[q], verified) /\ (q # r => call'[q] = call[q])
      BY <1>1 DEF VerifierInv
    <2>2. CASE q = r
      BY SMTT(60), <1>1, <2>2 DEF ReaderOK, shared
    <2>3. CASE q # r
      BY <2>1, <2>3 DEF ReaderOK, shared
    <2> QED
      BY <2>2, <2>3
  <1>5. \A q \in Readers : At(q, "store") => At(q, "store")'
    BY <1>1 DEF At
  <1> QED
    BY <1>2, <1>3, <1>4, <1>5 DEF VerifierInv, CountExact, shared

\* Entering verify_range: the short cut, the range checks, the first block.
LEMMA EnterStep ==
  ASSUME VerifierInv, NEW r \in Readers, At(r, "idle"),
         NEW op \in {"verify_range", "verify"},
         NEW start \in 0 .. DataSize + 1, NEW end \in 0 .. DataSize + 1,
         op = "verify" => start = 0 /\ end = DataSize,
         EnterRange(r, op, start, end), UNCHANGED <<intact, wellFormed, shared>>
  PROVE  VerifierInv'
  <1> DEFINE c == [at |-> "load", op |-> op, start |-> start, end |-> end,
                   block |-> BlockOf(start), result |-> "none"]
             e == [c EXCEPT !.at = "idle", !.result = "err"]
  <1>1. start \in Nat /\ end \in Nat /\ BlockOf(start) \in Nat
    BY VerifierAssumption, BlockOrder
  <1>2. /\ c \in Calls /\ c.at = "load" /\ c.op = op /\ c.start = start /\ c.end = end
        /\ c.block = BlockOf(start) /\ c.result = "none"
    BY <1>1 DEF Calls, Points
  <1>3. /\ e \in Calls /\ e.at = "idle" /\ e.op = op /\ e.start = start /\ e.end = end
        /\ e.result = "err"
    BY ZenonT(60), <1>1 DEF Calls, Points
  <1>4. call[r].at = "idle" /\ verified \in SUBSET Blocks
    BY DEF At, VerifierInv, TypeOK
  <1> DEFINE n == IF fully_verified THEN RangeOk(c)
                  ELSE IF start > end \/ end > DataSize THEN e
                  ELSE IF start = end THEN RangeOk(c)
                  ELSE c
  <1>5. call' = [call EXCEPT ![r] = n]
    BY DEF EnterRange, Become
  <1> HIDE DEF c, e
  <1>6. CASE fully_verified \/ (start = end /\ end <= DataSize)
    <2>1. BlocksOf(start, end) \subseteq verified \/ ~(end <= DataSize)
      <3>1. CASE fully_verified /\ start < end /\ end <= DataSize
        BY <1>1, <3>1, RangeBlocks DEF VerifierInv
      <3>2. CASE ~(start < end)
        BY <3>2 DEF BlocksOf
      <3> QED
        BY <1>1, <1>6, <3>1, <3>2, VerifierAssumption
    <2>2. /\ RangeOk(c) \in Calls /\ ReaderOK(RangeOk(c), verified)
          /\ RangeOk(c).at \in {"semantic", "idle"}
      BY <1>2, <1>4, <2>1, RangeOkStep
    <2>3. call' = [call EXCEPT ![r] = RangeOk(c)]
      <3>1. n = RangeOk(c)
        BY <1>1, <1>6, VerifierAssumption
      <3> QED
        BY ZenonT(60), <1>5, <3>1
    <2> QED
      BY ZenonT(60), <1>4, <2>2, <2>3, QuietStep
  <1>7. CASE ~fully_verified /\ (start > end \/ end > DataSize)
    <2>1. ReaderOK(e, verified)
      BY <1>3 DEF ReaderOK, InLoop
    <2>2. call' = [call EXCEPT ![r] = e]
      BY ZenonT(60), <1>5, <1>7
    <2> QED
      BY ZenonT(60), <1>3, <1>4, <2>1, <2>2, QuietStep
  <1>8. CASE ~fully_verified /\ start < end /\ end <= DataSize
    <2>1. /\ BlockOf(start) \in BlocksOf(start, end)
          /\ \A b \in BlocksOf(start, end) : ~(b < BlockOf(start))
      <3>1. /\ BlockOf(start) \in BlocksOf(start, end)
            /\ \A b \in BlocksOf(start, end) : b \in Nat /\ b >= BlockOf(start)
        BY <1>1, <1>8, RangeBlocks
      <3> QED
        BY <1>1, <3>1
    <2>2. ReaderOK(c, verified)
      BY <1>2, <1>8, <2>1 DEF ReaderOK, InLoop
    <2>3. call' = [call EXCEPT ![r] = c]
      <3>1. n = c
        BY <1>1, <1>8, VerifierAssumption
      <3> QED
        BY ZenonT(60), <1>5, <3>1
    <2> QED
      BY ZenonT(60), <1>2, <1>4, <2>2, <2>3, QuietStep
  <1> QED
    BY <1>1, <1>6, <1>7, <1>8, VerifierAssumption

\* The load of a block's bit and the checksum of its bytes.
LEMMA LoadBitStep ==
  ASSUME VerifierInv, NEW r \in Readers, LoadBit(r)
  PROVE  VerifierInv'
  <1> DEFINE c == call[r]
  <1>1. /\ c \in Calls /\ c.at = "load" /\ ReaderOK(c, verified) /\ InLoop(c)
        /\ verified \in SUBSET Blocks /\ UNCHANGED <<intact, wellFormed, shared>>
    BY DEF VerifierInv, TypeOK, LoadBit, At, InLoop
  <1>2. CASE c.block \in verified
    <2>1. call' = [call EXCEPT ![r] = NextBlock(c)]
      BY <1>2 DEF LoadBit, Become
    <2>2. /\ NextBlock(c) \in Calls /\ ReaderOK(NextBlock(c), verified)
          /\ NextBlock(c).at \in {"load", "semantic", "idle"}
      BY <1>1, <1>2, NextBlockStep
    <2> QED
      BY ZenonT(60), <1>1, <2>1, <2>2, QuietStep
  <1>3. CASE c.block \notin verified /\ c.block \in intact
    <2> DEFINE d == [c EXCEPT !.at = "or"]
    <2>1. /\ d \in Calls /\ d.at = "or" /\ d.op = c.op /\ d.start = c.start /\ d.end = c.end
          /\ d.block = c.block /\ d.result = c.result
      BY <1>1 DEF Calls, Points
    <2>2. call' = [call EXCEPT ![r] = d]
      BY <1>3 DEF LoadBit, Go, Become
    <2> HIDE DEF d
    <2>3. ReaderOK(d, verified)
      BY <1>1, <1>3, <2>1 DEF ReaderOK, InLoop
    <2> QED
      BY ZenonT(60), <1>1, <2>1, <2>2, <2>3, QuietStep
  <1>4. CASE c.block \notin verified /\ c.block \notin intact
    <2> DEFINE d == [c EXCEPT !.at = "idle", !.result = "err"]
    <2>1. /\ d \in Calls /\ d.at = "idle" /\ d.op = c.op /\ d.start = c.start /\ d.end = c.end
          /\ d.result = "err"
      BY ZenonT(60), <1>1 DEF Calls, Points
    <2>2. call' = [call EXCEPT ![r] = d]
      BY <1>4 DEF LoadBit, Finish, Become
    <2> HIDE DEF d
    <2>3. ReaderOK(d, verified)
      BY <1>1, <2>1 DEF ReaderOK, InLoop
    <2> QED
      BY ZenonT(60), <1>1, <2>1, <2>2, <2>3, QuietStep
  <1> QED
    BY <1>2, <1>3, <1>4

\* The reader that sets a bit owes the counter one decrement.
LEMMA FetchOrStep ==
  ASSUME VerifierInv, NEW r \in Readers, FetchOr(r)
  PROVE  VerifierInv'
  <1> DEFINE c == call[r]
             b == c.block
  <1>1. /\ c \in Calls /\ c.at = "or" /\ ReaderOK(c, verified) /\ InLoop(c)
        /\ verified \in SUBSET Blocks /\ b \in intact
        /\ verified' = verified \cup {b}
        /\ UNCHANGED <<intact, wellFormed, remaining, fully_verified, semantically_verified>>
    BY DEF VerifierInv, TypeOK, FetchOr, At, InLoop, ReaderOK
  <1>2. CASE b \in verified
    <2>1. call' = [call EXCEPT ![r] = NextBlock(c)]
      BY <1>2 DEF FetchOr, Become
    <2>2. /\ NextBlock(c) \in Calls /\ ReaderOK(NextBlock(c), verified)
          /\ NextBlock(c).at \in {"load", "semantic", "idle"}
      BY <1>1, <1>2, NextBlockStep
    <2>3. UNCHANGED <<intact, wellFormed, shared>>
      BY <1>1, <1>2 DEF shared
    <2> QED
      BY ZenonT(60), <1>1, <2>1, <2>2, <2>3, QuietStep
  <1>3. CASE b \notin verified
    <2> DEFINE d == [c EXCEPT !.at = "sub"]
    <2>1. /\ d \in Calls /\ d.at = "sub" /\ d.op = c.op /\ d.start = c.start /\ d.end = c.end
          /\ d.block = b /\ d.result = c.result
      BY <1>1 DEF Calls, Points
    <2>2. call' = [call EXCEPT ![r] = d]
      BY <1>3 DEF FetchOr, Go, Become
    <2> HIDE DEF d
    <2>3. /\ call \in [Readers -> Calls] /\ call' \in [Readers -> Calls] /\ call'[r] = d
          /\ \A q \in Readers \ {r} : call'[q] = call[q]
      BY SMTT(60), <2>1, <2>2 DEF VerifierInv, TypeOK
    <2>4. b \in Blocks /\ verified' \in SUBSET Blocks
      BY <1>1, <2>1, RangeBlocks DEF ReaderOK, Calls, VerifierInv, TypeOK
    <2>5. Owing' = Owing \cup {r} /\ r \notin Owing
      BY <1>1, <2>1, <2>3 DEF Owing, At
    <2>6. Blocks \ verified = (Blocks \ verified') \cup {b} /\ b \notin Blocks \ verified'
      BY <1>1, <1>3, <2>4
    <2>7. /\ IsFiniteSet(Owing) /\ IsFiniteSet(Blocks \ verified')
          /\ Cardinality(Owing) \in Nat /\ Cardinality(Blocks \ verified') \in Nat
      BY ZenonT(60), CountedFinite, WholeSegment, FS_Difference, FS_CardinalityType
    <2>8. /\ Cardinality(Owing') = Cardinality(Owing) + 1
          /\ Cardinality(Blocks \ verified) = Cardinality(Blocks \ verified') + 1
      BY ZenonT(60), <2>5, <2>6, <2>7, FS_AddElement
    <2>9. CountExact'
      BY <1>1, <2>7, <2>8 DEF CountExact, VerifierInv
    <2>10. ASSUME NEW q \in Readers PROVE ReaderOK(call[q], verified)'
      <3>1. ReaderOK(call[q], verified) /\ call[q] \in Calls
        BY SMTT(60), <2>3 DEF VerifierInv
      <3>2. CASE q # r
        <4>1. ReaderOK(call[q], verified')
          BY SMTT(60), <1>1, <2>4, <3>1, ReaderMonotone
        <4> QED
          BY SMTT(60), <1>1, <2>3, <3>2, <4>1 DEF ReaderOK
      <3>3. CASE q = r
        <4>1. ReaderOK(c, verified')
          BY SMTT(60), <1>1, <2>4, ReaderMonotone
        <4>2. ReaderOK(d, verified')
          BY <1>1, <2>1, <4>1 DEF ReaderOK, InLoop
        <4> QED
          BY SMTT(60), <1>1, <2>3, <3>3, <4>2 DEF ReaderOK
      <3> QED
        BY <3>2, <3>3
    <2>11. TypeOK'
      BY <1>1, <2>3, <2>4 DEF VerifierInv, TypeOK
    <2>12. \A q \in Readers : At(q, "store") => At(q, "store")'
      BY <1>1, <2>3 DEF At
    <2>13. verified' \subseteq intact' /\ (fully_verified' => verified' = Blocks)
      BY <1>1, <2>4 DEF VerifierInv
    <2> QED
      BY <1>1, <2>9, <2>10, <2>11, <2>12, <2>13 DEF VerifierInv
  <1> QED
    BY <1>2, <1>3

\* A step that changes no bit: what the readers know depends on the one that moved.
LEMMA ReadersKept ==
  ASSUME VerifierInv, NEW r \in Readers, NEW c \in Calls, call' = [call EXCEPT ![r] = c],
         UNCHANGED <<intact, wellFormed, verified>>, ReaderOK(c, verified)
  PROVE  /\ call \in [Readers -> Calls] /\ call' \in [Readers -> Calls] /\ call'[r] = c
         /\ \A q \in Readers \ {r} : call'[q] = call[q]
         /\ \A q \in Readers : ReaderOK(call[q], verified)'
  <1>1. /\ call \in [Readers -> Calls] /\ call' \in [Readers -> Calls] /\ call'[r] = c
        /\ \A q \in Readers \ {r} : call'[q] = call[q]
    BY DEF VerifierInv, TypeOK
  <1>2. ASSUME NEW q \in Readers PROVE ReaderOK(call[q], verified)'
    <2>1. ReaderOK(call[q], verified)
      BY DEF VerifierInv
    <2>2. CASE q = r
      BY SMTT(60), <1>1, <2>2 DEF ReaderOK
    <2>3. CASE q # r
      BY <1>1, <2>1, <2>3 DEF ReaderOK
    <2> QED
      BY <2>2, <2>3
  <1> QED
    BY <1>1, <1>2

\* The decrement: the last one finds every block verified.
LEMMA FetchSubStep ==
  ASSUME VerifierInv, NEW r \in Readers, FetchSub(r)
  PROVE  VerifierInv'
  <1> DEFINE c == call[r]
             unset == Blocks \ verified
  <1>1. /\ c \in Calls /\ c.at = "sub" /\ ReaderOK(c, verified) /\ InLoop(c)
        /\ verified \in SUBSET Blocks /\ c.block \in verified
        /\ remaining' = remaining - 1
        /\ UNCHANGED <<intact, wellFormed, verified, fully_verified, semantically_verified>>
    BY SMTT(60) DEF VerifierInv, TypeOK, FetchSub, At, InLoop, ReaderOK
  <1>2. /\ IsFiniteSet(Owing) /\ Cardinality(Owing) \in Nat /\ r \in Owing
        /\ IsFiniteSet(unset) /\ Cardinality(unset) \in Nat
    BY <1>1, CountedFinite DEF Owing, At
  <1>3. /\ Cardinality(Owing \ {r}) = Cardinality(Owing) - 1
        /\ Cardinality(Owing \ {r}) \in Nat
    BY <1>2, FS_RemoveElement, FS_CardinalityType
  <1>4. /\ remaining = Cardinality(unset) + Cardinality(Owing)
        /\ remaining \in 0 .. Cardinality(Blocks) /\ Cardinality(Blocks) \in Nat
    BY WholeSegment DEF VerifierInv, CountExact, TypeOK
  <1>5. remaining' \in 0 .. Cardinality(Blocks)
    BY <1>1, <1>2, <1>3, <1>4
  <1>6. ASSUME NEW d \in Calls, call' = [call EXCEPT ![r] = d], ReaderOK(d, verified),
               d.at # "sub", remaining = 1 => d.at = "store"
        PROVE  VerifierInv'
    <2>1. /\ call \in [Readers -> Calls] /\ call' \in [Readers -> Calls] /\ call'[r] = d
          /\ \A q \in Readers \ {r} : call'[q] = call[q]
          /\ \A q \in Readers : ReaderOK(call[q], verified)'
      BY ZenonT(60), <1>1, <1>6, ReadersKept
    <2>2. Owing' = Owing \ {r}
      BY <1>6, <2>1 DEF Owing, At
    <2>3. CountExact'
      BY <1>1, <1>2, <1>3, <1>4, <2>2 DEF CountExact
    <2>4. TypeOK'
      BY <1>1, <1>5, <2>1 DEF VerifierInv, TypeOK
    <2>5. remaining' > 0 \/ \E q \in Readers : At(q, "store")'
      <3>1. CASE remaining = 1
        BY <1>6, <2>1, <3>1 DEF At
      <3>2. CASE remaining # 1
        BY <1>1, <1>2, <1>3, <1>4, <3>2
      <3> QED
        BY <3>1, <3>2
    <2> QED
      BY <1>1, <2>1, <2>3, <2>4, <2>5 DEF VerifierInv
  <1>7. CASE remaining = 1
    <2> DEFINE d == [c EXCEPT !.at = "store"]
    <2>1. /\ d \in Calls /\ d.at = "store" /\ d.op = c.op /\ d.start = c.start
          /\ d.end = c.end /\ d.block = c.block /\ d.result = c.result
      BY <1>1 DEF Calls, Points
    <2>2. call' = [call EXCEPT ![r] = d]
      BY <1>7 DEF FetchSub, Go, Become
    <2> HIDE DEF d
    <2>3. verified = Blocks
      <3>1. Cardinality(unset) = 0
        BY <1>2, <1>3, <1>4, <1>7
      <3>2. unset = {}
        BY SMTT(60), <1>2, <3>1, FS_EmptySet
      <3> QED
        BY <1>1, <3>2
    <2>4. ReaderOK(d, verified)
      BY <1>1, <2>1, <2>3 DEF ReaderOK, InLoop
    <2> QED
      BY ZenonT(60), <1>6, <2>1, <2>2, <2>4
  <1>8. CASE remaining # 1
    <2>1. call' = [call EXCEPT ![r] = NextBlock(c)]
      BY <1>8 DEF FetchSub, Become
    <2>2. /\ NextBlock(c) \in Calls /\ ReaderOK(NextBlock(c), verified)
          /\ NextBlock(c).at \in {"load", "semantic", "idle"}
      BY <1>1, NextBlockStep
    <2> QED
      BY ZenonT(60), <1>6, <1>8, <2>1, <2>2
  <1> QED
    BY SMTT(60), <1>7, <1>8

\* The store of fully_verified.
LEMMA StoreStep ==
  ASSUME VerifierInv, NEW r \in Readers, StoreFully(r)
  PROVE  VerifierInv'
  <1> DEFINE c == call[r]
  <1>1. /\ c \in Calls /\ c.at = "store" /\ ReaderOK(c, verified) /\ InLoop(c)
        /\ verified = Blocks /\ fully_verified'
        /\ call' = [call EXCEPT ![r] = NextBlock(c)]
        /\ UNCHANGED <<intact, wellFormed, verified, remaining, semantically_verified>>
    BY SMTT(60) DEF VerifierInv, TypeOK, StoreFully, At, InLoop, ReaderOK, Become
  <1>2. c.block \in verified /\ verified \in SUBSET Blocks
    BY SMTT(60), <1>1, RangeBlocks DEF ReaderOK, Calls
  <1>3. /\ NextBlock(c) \in Calls /\ ReaderOK(NextBlock(c), verified)
        /\ NextBlock(c).at \in {"load", "semantic", "idle"}
    BY <1>1, <1>2, NextBlockStep
  <1>4. /\ call \in [Readers -> Calls] /\ call' \in [Readers -> Calls]
        /\ call'[r] = NextBlock(c)
        /\ \A q \in Readers \ {r} : call'[q] = call[q]
        /\ \A q \in Readers : ReaderOK(call[q], verified)'
    BY ZenonT(60), <1>1, <1>3, ReadersKept
  <1>5. Owing' = Owing
    BY <1>1, <1>3, <1>4 DEF Owing, At
  <1>6. fully_verified' = TRUE
    BY DEF StoreFully
  <1>7. TypeOK'
    BY <1>1, <1>4, <1>6 DEF VerifierInv, TypeOK
  <1> QED
    BY SMTT(60), <1>1, <1>4, <1>5, <1>7 DEF VerifierInv, CountExact

\* The load of semantically_verified, with validate_base behind it.
LEMMA LoadSemanticStep ==
  ASSUME VerifierInv, NEW r \in Readers, LoadSemantic(r)
  PROVE  VerifierInv'
  <1> DEFINE c == call[r]
  <1>1. /\ c \in Calls /\ c.at = "semantic" /\ ReaderOK(c, verified)
        /\ UNCHANGED <<intact, wellFormed, shared>>
        /\ c.op = "verify" /\ verified = Blocks /\ c.result = "none"
        /\ c.start = 0 /\ c.end = DataSize
    BY DEF VerifierInv, TypeOK, LoadSemantic, At, ReaderOK
  <1>2. ASSUME NEW d \in Calls, call' = [call EXCEPT ![r] = d], d.at # "sub",
               ReaderOK(d, verified)
        PROVE  VerifierInv'
    BY ZenonT(60), <1>1, <1>2, QuietStep
  <1>3. BlocksOf(0, DataSize) = Blocks
    BY WholeSegment
  <1>4. CASE semantically_verified
    <2> DEFINE d == [c EXCEPT !.at = "idle", !.result = "ok"]
    <2>1. /\ d \in Calls /\ d.at = "idle" /\ d.op = "verify" /\ d.start = 0
          /\ d.end = DataSize /\ d.result = "ok"
      BY ZenonT(60), <1>1 DEF Calls, Points
    <2>2. call' = [call EXCEPT ![r] = d]
      BY <1>4 DEF LoadSemantic, Finish, Become
    <2> HIDE DEF d
    <2>3. ReaderOK(d, verified)
      BY <1>1, <1>3, <1>4, <2>1 DEF ReaderOK, InLoop, VerifierInv
    <2> QED
      BY ZenonT(60), <1>2, <2>1, <2>2, <2>3
  <1>5. CASE ~semantically_verified /\ wellFormed
    <2> DEFINE d == [c EXCEPT !.at = "mark"]
    <2>1. /\ d \in Calls /\ d.at = "mark" /\ d.op = "verify" /\ d.start = 0
          /\ d.end = DataSize /\ d.result = "none"
      BY <1>1 DEF Calls, Points
    <2>2. call' = [call EXCEPT ![r] = d]
      BY SMTT(60), <1>5 DEF LoadSemantic, Go, Become
    <2> HIDE DEF d
    <2>3. ReaderOK(d, verified)
      BY <1>1, <1>5, <2>1 DEF ReaderOK, InLoop
    <2> QED
      BY ZenonT(60), <1>2, <2>1, <2>2, <2>3
  <1>6. CASE ~semantically_verified /\ ~wellFormed
    <2> DEFINE d == [c EXCEPT !.at = "idle", !.result = "err"]
    <2>1. /\ d \in Calls /\ d.at = "idle" /\ d.op = "verify" /\ d.start = 0
          /\ d.end = DataSize /\ d.result = "err"
      BY ZenonT(60), <1>1 DEF Calls, Points
    <2>2. call' = [call EXCEPT ![r] = d]
      BY <1>6 DEF LoadSemantic, Finish, Become
    <2> HIDE DEF d
    <2>3. ReaderOK(d, verified)
      BY <1>1, <2>1 DEF ReaderOK, InLoop
    <2> QED
      BY ZenonT(60), <1>2, <2>1, <2>2, <2>3
  <1> QED
    BY SMTT(60), <1>4, <1>5, <1>6

\* The store of semantically_verified.
LEMMA MarkSemanticStep ==
  ASSUME VerifierInv, NEW r \in Readers, MarkSemantic(r)
  PROVE  VerifierInv'
  <1> DEFINE c == call[r]
             d == [c EXCEPT !.at = "idle", !.result = "ok"]
  <1>1. /\ c \in Calls /\ c.at = "mark" /\ ReaderOK(c, verified)
        /\ UNCHANGED <<intact, wellFormed, verified, remaining, fully_verified>>
        /\ c.op = "verify" /\ verified = Blocks /\ c.start = 0 /\ c.end = DataSize
        /\ wellFormed /\ semantically_verified' = TRUE
        /\ call' = [call EXCEPT ![r] = d]
    BY DEF VerifierInv, TypeOK, MarkSemantic, At, ReaderOK, Finish, Become
  <1>2. /\ d \in Calls /\ d.at = "idle" /\ d.op = "verify" /\ d.start = 0
        /\ d.end = DataSize /\ d.result = "ok"
    BY ZenonT(60), <1>1 DEF Calls, Points
  <1> HIDE DEF d
  <1>3. ReaderOK(d, verified)
    BY <1>1, <1>2, WholeSegment DEF ReaderOK, InLoop
  <1>4. /\ call \in [Readers -> Calls] /\ call' \in [Readers -> Calls] /\ call'[r] = d
        /\ \A q \in Readers \ {r} : call'[q] = call[q]
        /\ \A q \in Readers : ReaderOK(call[q], verified)'
    BY ZenonT(60), <1>1, <1>2, <1>3, ReadersKept
  <1>5. Owing' = Owing /\ \A q \in Readers : At(q, "store") => At(q, "store")'
    BY <1>1, <1>2, <1>4 DEF Owing, At
  <1>6. TypeOK'
    BY <1>1, <1>4 DEF VerifierInv, TypeOK
  <1> QED
    BY <1>1, <1>4, <1>5, <1>6 DEF VerifierInv, CountExact

\* SegmentVerifier::new, lazily or fully verified.
LEMMA InitVerifier == Init => VerifierInv
  <1> SUFFICES ASSUME Init PROVE VerifierInv
    OBVIOUS
  <1>1. PICK full \in BOOLEAN :
          /\ verified = (IF full THEN Blocks ELSE {})
          /\ remaining = (IF full THEN 0 ELSE Cardinality(Blocks))
          /\ fully_verified = full
          /\ semantically_verified = full
          /\ intact \in (IF full THEN {Blocks} ELSE SUBSET Blocks)
          /\ wellFormed \in (IF full THEN {TRUE} ELSE BOOLEAN)
    BY ZenonT(60) DEF Init
  <1>2. /\ Idle \in Calls /\ Idle.at = "idle" /\ Idle.result = "none"
        /\ Idle.op = "verify_range"
    BY VerifierAssumption DEF Idle, Calls, Points
  <1>3. \A r \in Readers : call[r] = Idle
    BY DEF Init
  <1>4. \A r \in Readers : ReaderOK(call[r], verified)
    BY <1>2, <1>3 DEF ReaderOK, InLoop
  <1>5. Owing = {}
    BY <1>2, <1>3 DEF Owing, At
  <1>6. Cardinality({}) = 0
    BY FS_EmptySet
  <1>7. call \in [Readers -> Calls]
    BY <1>2 DEF Init
  <1>8. CASE full
    <2>1. Blocks \ verified = {} /\ verified = Blocks /\ intact = Blocks /\ wellFormed = TRUE
          /\ remaining = 0 /\ fully_verified = TRUE /\ semantically_verified = TRUE
      BY <1>1, <1>8
    <2> QED
      BY <1>4, <1>5, <1>6, <1>7, <2>1, WholeSegment DEF VerifierInv, TypeOK, CountExact
  <1>9. CASE ~full
    <2>1. /\ Blocks \ verified = Blocks /\ verified = {} /\ intact \subseteq Blocks
          /\ wellFormed \in BOOLEAN /\ remaining = Cardinality(Blocks)
          /\ fully_verified = FALSE /\ semantically_verified = FALSE
      BY <1>1, <1>9
    <2>2. remaining \in 0 .. Cardinality(Blocks) /\ remaining > 0
      BY <2>1, WholeSegment
    <2>3. CountExact
      BY <1>5, <1>6, <2>1, <2>2, WholeSegment DEF CountExact
    <2>4. TypeOK
      BY ZenonT(60), <1>7, <2>1, <2>2 DEF TypeOK
    <2> QED
      BY <1>4, <2>1, <2>2, <2>3, <2>4 DEF VerifierInv
  <1> QED
    BY <1>8, <1>9

\* Every step of every reader keeps the invariant.
LEMMA VerifierStep == VerifierInv /\ [Next]_vars => VerifierInv'
  <1> SUFFICES ASSUME VerifierInv, [Next]_vars PROVE VerifierInv'
    BY SMTT(60)
  <1>1. CASE UNCHANGED vars
    BY <1>1 DEF vars, shared, VerifierInv, TypeOK, ReaderOK, CountExact, Owing, At
  <1>2. ASSUME NEW r \in Readers, Step(r) PROVE VerifierInv'
    <2>1. ASSUME NEW start \in 0 .. DataSize + 1, NEW end \in 0 .. DataSize + 1,
                 VerifyRange(r, start, end)
          PROVE  VerifierInv'
      BY <2>1, EnterStep DEF VerifyRange
    <2>2. CASE Verify(r)
      <3>1. 0 \in 0 .. DataSize + 1 /\ DataSize \in 0 .. DataSize + 1
        BY VerifierAssumption
      <3> QED
        BY <2>2, <3>1, EnterStep DEF Verify
    <2> QED
      BY SMTT(60), <1>2, <2>1, <2>2, LoadBitStep, FetchOrStep, FetchSubStep, StoreStep,
         LoadSemanticStep, MarkSemanticStep DEF Step
  <1> QED
    BY <1>1, <1>2 DEF Next

\* The invariant holds in every reachable state.
LEMMA VerifierInvariant == Spec => []VerifierInv
  BY InitVerifier, VerifierStep, PTL DEF Spec

-----------------------------------------------------------------------------
(* The theorems.                                                           *)

\* remaining is decremented once per block by whichever reader set its bit, so
\* the usize never wraps, for any number of readers.
THEOREM VerifierTypeCorrect == Spec => []TypeOK
  <1>1. VerifierInv => TypeOK
    BY SMTT(60) DEF VerifierInv
  <1> QED
    BY <1>1, VerifierInvariant, PTL

\* A reader that verify_range answered Ok, by its own checksums, by another
\* reader's or by the short cut, reads bytes that match their checksums.
THEOREM OkRangeSound == Spec => []OkRangeIntact
  <1>1. VerifierInv => OkRangeIntact
    BY DEF VerifierInv, OkRangeIntact, ReaderOK
  <1> QED
    BY <1>1, VerifierInvariant, PTL

\* ActiveBase::verify returns Ok only for a Base that is intact and valid.
THEOREM OkVerifySound == Spec => []OkVerifyComplete
  <1>1. VerifierInv => OkVerifyComplete
    <2> SUFFICES ASSUME VerifierInv, NEW r \in Readers,
                        call[r].op = "verify", call[r].result = "ok"
                 PROVE  intact = Blocks /\ wellFormed
      BY DEF OkVerifyComplete
    <2>1. ReaderOK(call[r], verified) /\ DataSize <= DataSize
      BY VerifierAssumption DEF VerifierInv
    <2>2. Blocks \subseteq verified /\ wellFormed
      BY <2>1, WholeSegment DEF ReaderOK
    <2> QED
      BY <2>2 DEF VerifierInv, TypeOK
  <1> QED
    BY <1>1, VerifierInvariant, PTL

\* The short cut opens exactly when the whole Base has been verified.
THEOREM ShortCutSound == Spec => []ShortCutExact
  <1>1. VerifierInv => ShortCutExact
    <2> SUFFICES ASSUME VerifierInv, verified = Blocks, ~fully_verified,
                        \A r \in Readers : At(r, "idle")
                 PROVE  FALSE
      BY DEF VerifierInv, ShortCutExact
    <2>1. Blocks \ verified = {} /\ Owing = {}
      BY DEF Owing, At
    <2>2. remaining = 0
      BY <2>1, FS_EmptySet DEF VerifierInv, CountExact
    <2> QED
      BY <2>2 DEF VerifierInv, At
  <1> QED
    BY <1>1, VerifierInvariant, PTL
=============================================================================
