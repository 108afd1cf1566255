-------------------------- MODULE SegmentVerifier --------------------------
(***************************************************************************)
(* The lazy checksum verification of a Base that a database handle and all *)
(* its snapshots share (lkv/src/database/state.rs, SegmentVerifier, and    *)
(* ActiveBase::verify).  Readers on several threads call verify_range and  *)
(* verify on the same verifier; every access to one of its atomics is a    *)
(* step of its own.  The mapped bytes never change, so a checksum over     *)
(* them is local to the reader and joins the atomic access before it.      *)
(***************************************************************************)
EXTENDS Integers, FiniteSets

CONSTANTS
    Readers,                \* threads that share the verifier
    CHECKSUM_BLOCK_SIZE,    \* bytes under one checksum
    DataSize                \* SegmentVerifier.data_size

ASSUME VerifierAssumption ==
    /\ IsFiniteSet(Readers)
    /\ CHECKSUM_BLOCK_SIZE \in Nat \ {0}
    /\ DataSize \in Nat \ {0}

VARIABLES
    intact,         \* the blocks whose bytes match their checksum
    wellFormed,     \* validate_base accepts the bytes
    verified,       \* the blocks whose bit is set
    remaining,
    fully_verified,
    semantically_verified,
    call            \* reader -> what it is doing

shared == <<verified, remaining, fully_verified, semantically_verified>>
vars == <<intact, wellFormed, shared, call>>

BlockOf(byte) == byte \div CHECKSUM_BLOCK_SIZE

Blocks == 0 .. BlockOf(DataSize - 1)

\* The loop of verify_range for first .. last; an empty range is 0 .. -1.
BlocksOf(start, end) == IF start < end THEN BlockOf(start) .. BlockOf(end - 1) ELSE {}

Points == {"idle", "load", "or", "sub", "store", "semantic", "mark"}

Calls ==
    [at : Points, op : {"verify_range", "verify"}, start : 0 .. DataSize + 1,
     end : 0 .. DataSize + 1, block : Nat, result : {"none", "ok", "err"}]

Idle == [at |-> "idle", op |-> "verify_range", start |-> 0, end |-> 0,
         block |-> 0, result |-> "none"]

-----------------------------------------------------------------------------
(* Control of one reader.                                                  *)

At(r, point) == call[r].at = point

Become(r, c) == call' = [call EXCEPT ![r] = c]

Go(r, point) == Become(r, [call[r] EXCEPT !.at = point])

Finish(r, result) ==
    Become(r, [call[r] EXCEPT !.at = "idle", !.result = result])

\* verify_range returned Ok: verify goes on to the semantic check.
RangeOk(c) ==
    IF c.op = "verify"
    THEN [c EXCEPT !.at = "semantic"]
    ELSE [c EXCEPT !.at = "idle", !.result = "ok"]

\* The end of one turn of the loop over the blocks.
NextBlock(c) ==
    IF c.block < BlockOf(c.end - 1)
    THEN [c EXCEPT !.at = "load", !.block = c.block + 1]
    ELSE RangeOk(c)

-----------------------------------------------------------------------------
(* verify_range.                                                           *)

\* The load of fully_verified and the checks of the range.
EnterRange(r, op, start, end) ==
    LET c == [at |-> "load", op |-> op, start |-> start, end |-> end,
              block |-> BlockOf(start), result |-> "none"]
    IN  Become(r, IF fully_verified THEN RangeOk(c)
                  ELSE IF start > end \/ end > DataSize
                       THEN [c EXCEPT !.at = "idle", !.result = "err"]
                  ELSE IF start = end THEN RangeOk(c)
                  ELSE c)

VerifyRange(r, start, end) ==
    /\ At(r, "idle")
    /\ EnterRange(r, "verify_range", start, end)
    /\ UNCHANGED <<intact, wellFormed, shared>>

\* ActiveBase::verify: the whole segment.  Its layout and the checksum of its
\* metadata were compared by the open already, over the same immutable bytes;
\* comparing them again has the same outcome.
Verify(r) ==
    /\ At(r, "idle")
    /\ EnterRange(r, "verify", 0, DataSize)
    /\ UNCHANGED <<intact, wellFormed, shared>>

\* A plausible slip: a block that fails its checksum is recorded all the same.
LoadBitUnchecked(r) ==
    /\ At(r, "load")
    /\ \/ call[r].block \in verified /\ Become(r, NextBlock(call[r]))
       \/ call[r].block \notin verified /\ Go(r, "or")
    /\ UNCHANGED <<intact, wellFormed, shared>>

\* The load of the block's word and, if its bit is clear, the checksum.
LoadBit(r) ==
    /\ At(r, "load")
    /\ LET b == call[r].block
       IN  \/ b \in verified /\ Become(r, NextBlock(call[r]))
           \/ b \notin verified /\ b \in intact /\ Go(r, "or")
           \/ b \notin verified /\ b \notin intact /\ Finish(r, "err")
    /\ UNCHANGED <<intact, wellFormed, shared>>

\* A plausible slip: the previous word of the fetch_or is ignored.
FetchOrBlind(r) ==
    /\ At(r, "or")
    /\ verified' = verified \cup {call[r].block}
    /\ Go(r, "sub")
    /\ UNCHANGED <<intact, wellFormed, remaining, fully_verified, semantically_verified>>

\* fetch_or: only the reader that set the bit goes on to the counter.
FetchOr(r) ==
    /\ At(r, "or")
    /\ verified' = verified \cup {call[r].block}
    /\ \/ call[r].block \notin verified /\ Go(r, "sub")
       \/ call[r].block \in verified /\ Become(r, NextBlock(call[r]))
    /\ UNCHANGED <<intact, wellFormed, remaining, fully_verified, semantically_verified>>

\* A plausible slip: the counter is compared with the value after the step.
FetchSubEarly(r) ==
    /\ At(r, "sub")
    /\ remaining' = remaining - 1
    /\ \/ remaining = 2 /\ Go(r, "store")
       \/ remaining # 2 /\ Become(r, NextBlock(call[r]))
    /\ UNCHANGED <<intact, wellFormed, verified, fully_verified, semantically_verified>>

\* fetch_sub returns the previous value.
FetchSub(r) ==
    /\ At(r, "sub")
    /\ remaining' = remaining - 1
    /\ \/ remaining = 1 /\ Go(r, "store")
       \/ remaining # 1 /\ Become(r, NextBlock(call[r]))
    /\ UNCHANGED <<intact, wellFormed, verified, fully_verified, semantically_verified>>

StoreFully(r) ==
    /\ At(r, "store")
    /\ fully_verified' = TRUE
    /\ Become(r, NextBlock(call[r]))
    /\ UNCHANGED <<intact, wellFormed, verified, remaining, semantically_verified>>

-----------------------------------------------------------------------------
(* The semantic half of ActiveBase::verify.                                *)

\* A plausible slip: the flag is set before the table has been validated.
LoadSemanticEager(r) ==
    /\ At(r, "semantic")
    /\ \/ semantically_verified /\ Finish(r, "ok")
       \/ ~semantically_verified /\ Go(r, "mark")
    /\ UNCHANGED <<intact, wellFormed, shared>>

\* The load of semantically_verified and, if it is clear, validate_base.
LoadSemantic(r) ==
    /\ At(r, "semantic")
    /\ \/ semantically_verified /\ Finish(r, "ok")
       \/ ~semantically_verified /\ wellFormed /\ Go(r, "mark")
       \/ ~semantically_verified /\ ~wellFormed /\ Finish(r, "err")
    /\ UNCHANGED <<intact, wellFormed, shared>>

MarkSemantic(r) ==
    /\ At(r, "mark")
    /\ semantically_verified' = TRUE
    /\ Finish(r, "ok")
    /\ UNCHANGED <<intact, wellFormed, verified, remaining, fully_verified>>

-----------------------------------------------------------------------------
\* SegmentVerifier::new.  A handle that opens with VerificationMode::Full, or
\* that installs a Base it has just written, starts with everything verified.
Init ==
    /\ \E full \in BOOLEAN :
        /\ verified = (IF full THEN Blocks ELSE {})
        /\ remaining = (IF full THEN 0 ELSE Cardinality(Blocks))
        /\ fully_verified = full
        /\ semantically_verified = full
        /\ intact \in (IF full THEN {Blocks} ELSE SUBSET Blocks)
        /\ wellFormed \in (IF full THEN {TRUE} ELSE BOOLEAN)
    /\ call = [r \in Readers |-> Idle]

\* A caller may ask for a range that is inverted or past the data.
Step(r) ==
    \/ \E start, end \in 0 .. DataSize + 1 : VerifyRange(r, start, end)
    \/ Verify(r)
    \/ LoadBit(r)
    \/ FetchOr(r)
    \/ FetchSub(r)
    \/ StoreFully(r)
    \/ LoadSemantic(r)
    \/ MarkSemantic(r)

Next == \E r \in Readers : Step(r)

Spec == Init /\ [][Next]_vars

-----------------------------------------------------------------------------
(* Properties.                                                             *)

\* The variables have their types; remaining, a usize, never wraps below zero
\* (state.rs:711, fetch_sub).
TypeOK ==
    /\ intact \subseteq Blocks
    /\ wellFormed \in BOOLEAN
    /\ verified \subseteq Blocks
    /\ remaining \in 0 .. Cardinality(Blocks)
    /\ fully_verified \in BOOLEAN
    /\ semantically_verified \in BOOLEAN
    /\ call \in [Readers -> Calls]

\* A reader that was told Ok reads only bytes whose checksum matches, whether
\* it checked them itself, another reader had, or the fully_verified short cut
\* answered.
OkRangeIntact ==
    \A r \in Readers :
        (call[r].result = "ok" /\ call[r].end <= DataSize)
            => BlocksOf(call[r].start, call[r].end) \subseteq intact

\* verify returned Ok: the whole Base has been checked, its table included.
OkVerifyComplete ==
    \A r \in Readers :
        (call[r].op = "verify" /\ call[r].result = "ok")
            => intact = Blocks /\ wellFormed

\* The short cut opens when the last block has been checked, and not before;
\* and once every reader has left, no checked Base is without it: the counter
\* is decremented once per block whatever the interleaving.
ShortCutExact ==
    /\ fully_verified => verified = Blocks
    /\ (verified = Blocks /\ \A r \in Readers : At(r, "idle")) => fully_verified
=============================================================================
