-------------------------- MODULE CrashFile_proofs --------------------------
(***************************************************************************)
(* What the file operations of Database do to a root and its log, what     *)
(* CrashInv says of the file the next open finds, and what MediumInv says  *)
(* of the files a power loss may leave.  Opening, closing and dying keep   *)
(* both.                                                                   *)
(***************************************************************************)
EXTENDS Database_proofs

\* What the lemmas on single actions assume and prove, under names of their own:
\* a leaf that expands CrashInv does not expand it in their statements.
Running == TypeInv /\ TypeInv' /\ CrashInv

StaysSafe == CrashInv'

-----------------------------------------------------------------------------
(* What recovery makes of a file with a root.                              *)

\* The two pages and the data do not overlap, and a cell is a page only if it
\* says so.
LEMMA CellProps ==
    ASSUME NEW c \in Cell, c.t = "super"
    PROVE  c \in SuperCell
BY DEF Cell, CompactMarker, Short, Garbage

\* Recovery picks the root.
LEMMA RootLatest ==
    ASSUME NEW f \in [Offsets -> Cell], NEW n \in Nat, NEW s, Root(f, n, s)
    PROVE  /\ RootIntact(f, n) /\ read_latest_from(f, n) = s
           /\ s \in {f[0], f[1]} /\ f[Slot(s.gen)] = s
           /\ s \in SuperCell /\ s.gen \in Nat /\ s.off \in Nat /\ s.size \in Nat
           /\ s.log \in 0 .. n /\ s.off < s.log /\ s.off >= DATA_START
<1>1. /\ s \in SuperCell /\ BaseIntact(f, s) /\ f[Slot(s.gen)] = s
      /\ s.off >= DATA_START /\ s.log >= s.off + s.size /\ s.log <= n
  BY DEF Root, Whole
<1>2. s.gen \in Nat /\ s.off \in Nat /\ s.size \in Nat /\ s.log \in Nat /\ s.t = "super"
  BY <1>1 DEF SuperCell
<1>3. s.size >= 1
  BY <1>1, BaseSizeProps DEF BaseIntact
<1>4. SuperValid(f, n, Slot(s.gen))
  BY <1>1, <1>2, <1>3 DEF SuperValid, EMPTY_SEGMENT_SIZE
<1>5. Slot(s.gen) \in {0, 1} /\ 1 - Slot(s.gen) = RedundantSlot(s.gen)
      /\ RedundantSlot(s.gen) \in Offsets
  BY <1>2, SlotProps
<1>6. f[RedundantSlot(s.gen)].t = "super" =>
          /\ f[RedundantSlot(s.gen)].gen \in Nat
          /\ f[RedundantSlot(s.gen)].gen < s.gen \/ f[RedundantSlot(s.gen)] = s
  BY <1>5, CellProps DEF Root, SuperCell
<1>7. ValidPages(f, n) # {} /\ read_latest_from(f, n) = s
  BY Zenon, <1>1, <1>2, <1>4, <1>5, <1>6, LatestIs
<1>8. s \in {f[0], f[1]} /\ s.log \in 0 .. n /\ s.off < s.log
  BY <1>1, <1>2, <1>3, <1>5
<1> QED
  BY <1>1, <1>2, <1>7, <1>8 DEF RootIntact

\* A root and an accepted log are all that open needs.
LEMMA RootRecovers ==
    ASSUME NEW f \in [Offsets -> Cell], NEW n \in Nat, NEW s, NEW e, NEW m,
           Recovers(f, n, s, e, m)
    PROVE  /\ Recoverable(f, n)
           /\ read_latest_from(f, n) = s
           /\ ScanEnd(f, n, s.log) = e
           /\ RecoveredMap(f, n) = m
<1>1. /\ RootIntact(f, n) /\ read_latest_from(f, n) = s /\ s.log \in 0 .. n
  BY RootLatest DEF Recovers
<1>2. ScanEnd(f, n, s.log) = e /\ ScanAccepts(f, n, s.log)
  BY <1>1, AcceptedScan DEF Recovers
<1> QED
  BY <1>1, <1>2 DEF Recovers, Contents, Recoverable, RecoveredMap

\* Such a file is admissible when its contents are.
LEMMA RecoversImage ==
    ASSUME NEW f \in [Offsets -> Cell], NEW n \in Nat, NEW s, NEW e, NEW M, NEW m \in M,
           Recovers(f, n, s, e, m)
    PROVE  ImageOK(f, n, M)
<1>1. Root(f, n, s) /\ s \in {f[0], f[1]}
  BY RootLatest DEF Recovers
<1>2. RecoveredMap(f, n) \in M
  BY RootRecovers
<1> QED
  BY <1>1, <1>2 DEF ImageOK

\* An admissible file that open accepts is recovered from its root and its log.
LEMMA ImageRecovers ==
    ASSUME NEW f \in [Offsets -> Cell], NEW n \in Nat, NEW M,
           ImageOK(f, n, M), Recoverable(f, n)
    PROVE  LET s == read_latest_from(f, n)
               e == ScanEnd(f, n, s.log)
           IN  RecoveredMap(f, n) \in M /\ Recovers(f, n, s, e, RecoveredMap(f, n))
<1>1. RecoveredMap(f, n) \in M
  BY DEF ImageOK
<1>2. PICK s : Root(f, n, s)
  BY DEF ImageOK
<1>3. read_latest_from(f, n) = s /\ s.log \in 0 .. n
  BY <1>2, RootLatest
<1>4. Accepted(f, n, s.log, ScanEnd(f, n, s.log))
  BY <1>3, ScanAccepted DEF Recoverable
<1>5. Contents(f, s, ScanEnd(f, n, s.log)) = RecoveredMap(f, n)
  BY <1>3 DEF Contents, RecoveredMap
<1> QED
  BY <1>1, <1>2, <1>3, <1>4, <1>5 DEF Recovers

\* Changing a file elsewhere than in a Base leaves the Base whole.
LEMMA BaseFrame ==
    ASSUME NEW f, NEW g, NEW s \in SuperCell, BaseIntact(f, s),
           \A o \in s.off .. (s.off + s.size - 1) : g[o] = f[o]
    PROVE  BaseIntact(g, s)
<1>1. \A i \in 0 .. (s.size - 1) : s.off + i \in s.off .. (s.off + s.size - 1)
  BY DEF SuperCell
<1> QED
  BY <1>1 DEF BaseIntact

\* A file that keeps its pages, a Base and the log behind it up to e keeps the
\* root and that log.
LEMMA LogFrame ==
    ASSUME NEW f, NEW g, NEW n \in Nat, NEW m \in Nat, NEW s \in SuperCell, NEW e \in Nat,
           Root(f, n, s), Batches(f, s.log, e), s.log <= e, e <= m,
           g[0] = f[0], g[1] = f[1], \A o \in s.off .. (e - 1) : g[o] = f[o]
    PROVE  /\ Root(g, m, s)
           /\ Batches(g, s.log, e)
           /\ ScannedOverlay(g, s.log, e) = ScannedOverlay(f, s.log, e)
<1>1. /\ s.gen \in Nat /\ s.off \in Nat /\ s.size \in Nat /\ s.log \in Nat
      /\ s.off >= DATA_START /\ s.log >= s.off + s.size /\ BaseIntact(f, s)
  BY DEF Root, Whole, SuperCell
<1>2. \A o \in s.off .. (s.off + s.size - 1) : g[o] = f[o]
  BY <1>1
<1>3. BaseIntact(g, s)
  BY <1>1, <1>2, BaseFrame
<1>4. Root(g, m, s)
  <2>1. s.log <= m
    BY <1>1
  <2>2. g[Slot(s.gen)] = f[Slot(s.gen)] /\ g[RedundantSlot(s.gen)] = f[RedundantSlot(s.gen)]
    BY <1>1, SlotProps
  <2> QED
    BY <1>1, <1>3, <2>1, <2>2 DEF Root, Whole
<1>5. \A o \in s.log .. (e - 1) : f[o] = g[o]
  BY <1>1
<1>6. Batches(g, s.log, e)
  BY <1>5 DEF Batches
<1>7. ScannedOverlay(g, s.log, e) = ScannedOverlay(f, s.log, e)
  <2> DEFINE start == s.log
  <2>1. start \in Nat /\ \A o \in start .. (e - 1) : f[o] = g[o]
    BY <1>1, <1>5
  <2> HIDE DEF start
  <2>2. ScannedOverlay(f, start, e) = ScannedOverlay(g, start, e)
    BY <2>1, ScanFrame
  <2> QED
    BY <2>2 DEF start
<1> QED
  BY <1>4, <1>6, <1>7

\* In particular one whose first e cells are kept.
LEMMA LogKept ==
    ASSUME NEW f, NEW g, NEW n \in Nat, NEW m \in Nat, NEW s \in SuperCell, NEW e \in Nat,
           Root(f, n, s), Batches(f, s.log, e), s.log <= e, e <= m,
           \A o \in 0 .. (e - 1) : g[o] = f[o]
    PROVE  /\ Root(g, m, s)
           /\ Batches(g, s.log, e)
           /\ ScannedOverlay(g, s.log, e) = ScannedOverlay(f, s.log, e)
<1>1. s.off \in Nat /\ s.off >= DATA_START /\ s.size \in Nat /\ s.log \in Nat
      /\ s.log >= s.off + s.size /\ s.size >= 1
  BY BaseSizeProps DEF Root, Whole, SuperCell, BaseIntact
<1>2. g[0] = f[0] /\ g[1] = f[1] /\ \A o \in s.off .. (e - 1) : g[o] = f[o]
  BY <1>1 DEF DATA_START
<1> QED
  BY <1>2, LogFrame

\* A file with a root and a log up to e, behind which at most one more batch
\* stands, the last record: both contents must be admissible.
LEMMA ScannedImage ==
    ASSUME NEW f \in [Offsets -> Cell], NEW n \in Nat, NEW s, NEW e \in Nat, NEW M,
           NEW b \in Overlay,
           Root(f, n, s), s.log <= e, e <= n, Batches(f, s.log, e), Contents(f, s, e) \in M,
           e < n /\ f[e].t = "batch" =>
               n = e + 1 /\ f[e] = BatchRecord(b) /\ Apply(Contents(f, s, e), b) \in M
    PROVE  ImageOK(f, n, M)
<1>1. /\ s \in {f[0], f[1]} /\ read_latest_from(f, n) = s
      /\ s \in SuperCell /\ s.log \in Nat
  BY RootLatest
<1>2. ASSUME NEW d \in Nat, s.log <= d, d <= n, Batches(f, s.log, d),
             d = n \/ f[d].t # "batch"
      PROVE  RecoveredMap(f, n) = Contents(f, s, d)
  <2> DEFINE start == s.log
  <2>1. start \in 0 .. n /\ d \in start .. n /\ Batches(f, start, d)
    BY <1>1, <1>2
  <2> HIDE DEF start
  <2>2. ScanEnd(f, n, start) = d
    BY <1>2, <2>1, ScanEndIs
  <2> QED
    BY <1>1, <2>2 DEF RecoveredMap, Contents, start
<1>3. CASE e = n \/ f[e].t # "batch"
  <2>1. RecoveredMap(f, n) \in M
    BY <1>2, <1>3
  <2> QED
    BY <1>1, <2>1 DEF ImageOK
<1>4. CASE e < n /\ f[e].t = "batch"
  <2>1. n = e + 1 /\ f[e] = BatchRecord(b) /\ Apply(Contents(f, s, e), b) \in M
    BY <1>4
  <2>2. Batches(f, s.log, n)
    BY <1>1, <1>4, <2>1 DEF Batches
  <2>3. ScannedOverlay(f, s.log, n) = Shadow(ScannedOverlay(f, s.log, e), b)
    BY <1>1, <2>1, ScanAppend
  <2>4. Contents(f, s, n) = Apply(Contents(f, s, e), b)
    BY <2>3, ApplyShadow DEF Contents
  <2>5. RecoveredMap(f, n) = Contents(f, s, n)
    BY <1>1, <1>2, <2>2
  <2> QED
    BY <1>1, <2>1, <2>4, <2>5 DEF ImageOK
<1> QED
  BY <1>3, <1>4

\* A new page of a higher generation takes over from the old root.
LEMMA NewRoot ==
    ASSUME NEW f, NEW g, NEW n \in Nat, NEW s \in SuperCell, NEW t \in SuperCell,
           Root(f, n, s), t.gen = s.gen + 1, Whole(g, n, t),
           g[Slot(t.gen)] = t, g[Slot(s.gen)] = f[Slot(s.gen)]
    PROVE  Root(g, n, t)
<1>1. s.gen \in Nat /\ RedundantSlot(t.gen) = Slot(s.gen)
  BY SlotProps DEF SuperCell
<1>2. g[RedundantSlot(t.gen)] = s
  BY <1>1 DEF Root
<1> QED
  BY <1>1, <1>2 DEF Root

\* A root survives when its own page and Base do, and its other page is torn.
LEMMA TornPage ==
    ASSUME NEW f, NEW g, NEW n \in Nat, NEW s \in SuperCell,
           Root(f, n, s), Whole(g, n, s), g[Slot(s.gen)] = f[Slot(s.gen)],
           g[RedundantSlot(s.gen)] \in {Garbage, s, f[RedundantSlot(s.gen)]}
    PROVE  Root(g, n, s)
BY DEF Root, Garbage

\* A Base just written is whole.
LEMMA BaseWritten ==
    ASSUME NEW g, NEW s \in SuperCell, s.size = BaseSize(s.sum),
           \A o \in s.off .. (s.off + s.size - 1) : g[o] = BaseCells(s.off, s.sum)[o]
    PROVE  BaseIntact(g, s)
<1>1. s.off \in Nat /\ s.size \in Nat
  BY DEF SuperCell
<1>2. ASSUME NEW i \in 0 .. (s.size - 1)
      PROVE  g[s.off + i] = BaseCell(s.off, s.sum, i)
  <2>1. s.off + i \in s.off .. (s.off + s.size - 1) /\ (s.off + i) - s.off = i
    BY <1>1
  <2> QED
    BY ZenonT(60), <2>1 DEF BaseCells
<1> QED
  BY <1>2 DEF BaseIntact

-----------------------------------------------------------------------------
(* The file operations.                                                    *)

\* Outside lo .. hi neither the file nor the medium changes.
OnlyIn(lo, hi) ==
    \A x \in Offsets : x \notin lo .. hi => file'[x] = file[x] /\ dur'[x] = dur[x]

\* A write: the file does not shrink, and behind its end nothing is written.
Grown ==
    /\ flen' \in Nat /\ flen' >= flen
    /\ durLen' \subseteq durLen \cup (flen .. flen')
    /\ flen \in durLen => flen' \in durLen'
    /\ \A x \in Offsets : x >= flen' => file'[x] = file[x]

\* Writing cells that lie in lo .. hi and before end.
LEMMA WriteEffect ==
    ASSUME DiskType, NEW w, NEW end \in Nat, NEW lo, NEW hi,
           DOMAIN w \subseteq lo .. hi, \A o \in DOMAIN w : o \in Nat /\ o < end,
           WriteCells(w, end)
    PROVE  OnlyIn(lo, hi) /\ Grown /\ flen' = Longer(end)
<1>1. flen \in Nat
  BY ImageAssumption DEF DiskType, DATA_START
<1>2. flen' = Longer(end) /\ flen' \in Nat /\ flen' >= flen /\ flen' >= end
  BY <1>1 DEF WriteCells, Longer
<1>3. OnlyIn(lo, hi)
  BY DEF WriteCells, OnlyIn
<1>4. durLen' \subseteq durLen \cup (flen .. flen') /\ flen' \in durLen'
  BY <1>1, <1>2 DEF WriteCells
<1>5. ASSUME NEW x \in Offsets, x >= flen' PROVE file'[x] = file[x]
  <2>1. x \notin DOMAIN w
    BY <1>2, <1>5
  <2> QED
    BY <2>1 DEF WriteCells
<1> QED
  BY Zenon, <1>2, <1>3, <1>4, <1>5 DEF Grown

\* One cell written: everything else stands.
LEMMA WriteCellEffect ==
    ASSUME DiskType, NEW o \in Nat, NEW c, o < MaxDatabaseBytes, WriteCell(o, c)
    PROVE  /\ file'[o] = c
           /\ \A x \in Offsets : x # o => file'[x] = file[x]
           /\ flen' = IF o + 1 > flen THEN o + 1 ELSE flen
<1>1. o \in Offsets
  BY ImageAssumption DEF Offsets
<1> QED
  BY ZenonT(60), <1>1 DEF WriteCell, WriteCells, Longer

\* The possible outcomes of a failed write of one cell.
LEMMA TornCellEffect ==
    ASSUME DiskType,
           NEW o \in Nat, NEW c, NEW torn, o < MaxDatabaseBytes, TornCell(o, c, torn)
    PROVE  /\ \/ file' = file /\ flen' = flen
              \/ /\ file'[o] \in {c, torn}
                 /\ \A x \in Offsets : x # o => file'[x] = file[x]
                 /\ flen' = IF o + 1 > flen THEN o + 1 ELSE flen
<1>1. CASE UNCHANGED disk
  BY <1>1 DEF disk
<1>2. ASSUME NEW d \in {c, torn}, WriteCell(o, d)
      PROVE  /\ file'[o] \in {c, torn}
             /\ \A x \in Offsets : x # o => file'[x] = file[x]
             /\ flen' = IF o + 1 > flen THEN o + 1 ELSE flen
  BY Zenon, <1>2, WriteCellEffect
<1> QED
  BY <1>1, <1>2 DEF TornCell

\* A Base written, in whole or in part: nothing outside its range changes, and
\* the file does not grow past its end.
LEMMA BaseWriteEffect ==
    ASSUME DiskType, NEW s \in SuperCell, s.size = BaseSize(s.sum)
    PROVE  LET w == BaseCells(s.off, s.sum)
               rest == \A x \in Offsets :
                           x \notin s.off .. (s.off + s.size - 1) => file'[x] = file[x]
           IN  /\ WriteCells(w, s.off + s.size) =>
                      /\ rest /\ OnlyIn(s.off, s.off + s.size - 1) /\ Grown
                      /\ flen' = Longer(s.off + s.size)
                      /\ s.off + s.size <= MaxDatabaseBytes => BaseIntact(file', s)
               /\ TornBase(w, s.off, s.size) =>
                      /\ rest /\ OnlyIn(s.off, s.off + s.size - 1) /\ Grown
                      /\ flen' >= flen /\ flen' <= Longer(s.off + s.size)
<1> DEFINE w == BaseCells(s.off, s.sum)
           rest == \A x \in Offsets :
                       x \notin s.off .. (s.off + s.size - 1) => file'[x] = file[x]
<1>1. s.off \in Nat /\ s.size \in Nat /\ s.size >= 1 /\ flen \in Nat
  BY BaseSizeProps, ImageAssumption DEF SuperCell, DiskType, DATA_START
<1>2. DOMAIN w = s.off .. (s.off + s.size - 1)
  BY DEF BaseCells
<1> HIDE DEF w
<1>3. ASSUME WriteCells(w, s.off + s.size)
      PROVE  /\ rest /\ OnlyIn(s.off, s.off + s.size - 1) /\ Grown
             /\ flen' = Longer(s.off + s.size)
             /\ s.off + s.size <= MaxDatabaseBytes => BaseIntact(file', s)
  <2>1. /\ s.off + s.size \in Nat
        /\ DOMAIN w \subseteq s.off .. (s.off + s.size - 1)
        /\ \A o \in DOMAIN w : o \in Nat /\ o < s.off + s.size
    BY <1>1, <1>2
  <2>4. /\ OnlyIn(s.off, s.off + s.size - 1) /\ Grown
        /\ flen' = Longer(s.off + s.size)
    BY Zenon, <1>3, <2>1, WriteEffect
  <2>2. /\ OnlyIn(s.off, s.off + s.size - 1) /\ Grown /\ rest
        /\ flen' = Longer(s.off + s.size)
    BY <2>4 DEF OnlyIn
  <2>3. ASSUME s.off + s.size <= MaxDatabaseBytes PROVE BaseIntact(file', s)
    <3>1. s.off .. (s.off + s.size - 1) \subseteq Offsets
      BY <1>1, <2>3, ImageAssumption DEF Offsets
    <3>2. \A o \in s.off .. (s.off + s.size - 1) : file'[o] = w[o]
      BY Zenon, <1>2, <1>3, <3>1 DEF WriteCells
    <3> QED
      BY <3>2, BaseWritten DEF w
  <2> QED
    BY <2>2, <2>3
<1>4. ASSUME TornBase(w, s.off, s.size)
      PROVE  /\ rest /\ OnlyIn(s.off, s.off + s.size - 1) /\ Grown
             /\ flen' >= flen /\ flen' <= Longer(s.off + s.size)
  <2> DEFINE Goal == /\ rest /\ OnlyIn(s.off, s.off + s.size - 1) /\ Grown
                     /\ flen' >= flen /\ flen' <= Longer(s.off + s.size)
  <2>1. UNCHANGED disk => Goal
    BY <1>1 DEF disk, Longer, OnlyIn, Grown
  <2>2. ASSUME NEW j \in 1 .. s.size,
               NEW c \in {Garbage, w[IF j = s.size THEN s.off ELSE s.off + j]},
               NEW hit, hit = IF j = s.size THEN s.off ELSE s.off + j,
               NEW end, end = IF j = s.size THEN s.off + s.size ELSE s.off + j + 1,
               WriteCells([o \in ((s.off + 1) .. (s.off + j - 1)) \cup {hit} |->
                               IF o = hit THEN c ELSE w[o]], end)
        PROVE  Goal
    <3> DEFINE v == [o \in ((s.off + 1) .. (s.off + j - 1)) \cup {hit} |->
                         IF o = hit THEN c ELSE w[o]]
    <3>1. /\ DOMAIN v \subseteq s.off .. (s.off + s.size - 1)
          /\ \A o \in DOMAIN v : o \in Nat /\ o < end
      BY <1>1, <2>2
    <3>2. end \in Nat /\ end <= s.off + s.size
      BY <1>1, <2>2
    <3>3. WriteCells(v, end)
      BY <2>2
    <3> HIDE DEF v
    <3>4. OnlyIn(s.off, s.off + s.size - 1) /\ Grown /\ flen' = Longer(end)
      BY Zenon, <3>1, <3>2, <3>3, WriteEffect
    <3>5. rest
      BY <3>4 DEF OnlyIn
    <3>6. flen' >= flen /\ flen' <= Longer(s.off + s.size)
      BY <1>1, <3>2, <3>4 DEF Longer
    <3> QED
      BY Zenon, <3>4, <3>5, <3>6
  <2> HIDE DEF Goal
  <2>3. TornBase(w, s.off, s.size) => Goal
    BY ZenonT(60), <2>1, <2>2 DEF TornBase
  <2> QED
    BY <1>4, <2>3 DEF Goal
<1> QED
  BY <1>3, <1>4 DEF w

\* Cutting the file keeps what lies before the cut.
LEMMA SetLenEffect ==
    ASSUME DiskType, NEW n \in DATA_START .. MaxDatabaseBytes,
           SetLen(n) \/ SetLenSynced(n)
    PROVE  /\ flen' = n
           /\ \A o \in 0 .. (n - 1) : file'[o] = file[o]
<1>2. flen' = n
  BY DEF SetLen, SetLenSynced
<1>3. ASSUME NEW o \in 0 .. (n - 1) PROVE file'[o] = file[o]
  <2>1. o \in Offsets /\ ~(o >= n)
    BY ImageAssumption DEF Offsets, DATA_START
  <2> QED
    BY <2>1 DEF SetLen, SetLenSynced
<1> QED
  BY <1>2, <1>3

\* Writing a page changes no Base and no log.
LEMMA DataFrame ==
    ASSUME NEW f, NEW g, NEW n \in Nat, NEW s \in SuperCell, NEW e \in Nat,
           n <= MaxDatabaseBytes, Whole(f, n, s), Batches(f, s.log, e), e <= n,
           \A o \in Offsets : o >= DATA_START => g[o] = f[o]
    PROVE  /\ Whole(g, n, s)
           /\ Batches(g, s.log, e)
           /\ ScannedOverlay(g, s.log, e) = ScannedOverlay(f, s.log, e)
<1> DEFINE start == s.log
<1>1. /\ s.off \in Nat /\ s.size \in Nat /\ start \in Nat /\ s.off >= DATA_START
      /\ start >= s.off + s.size /\ start <= n /\ BaseIntact(f, s)
  BY SMTT(60) DEF Whole, SuperCell
<1>2. \A o \in s.off .. (s.off + s.size - 1) : g[o] = f[o]
  BY SMTT(60), <1>1, ImageAssumption DEF Offsets, DATA_START
<1>3. Whole(g, n, s)
  BY SMTT(60), <1>2, BaseFrame DEF Whole
<1>4. \A o \in start .. (e - 1) : f[o] = g[o]
  BY <1>1, ImageAssumption DEF Offsets, DATA_START
<1>5. Batches(g, start, e)
  BY <1>4 DEF Batches
<1> HIDE DEF start
<1>6. ScannedOverlay(f, start, e) = ScannedOverlay(g, start, e)
  BY ZenonT(90), <1>1, <1>4, ScanFrame
<1> QED
  BY SMTT(60), <1>3, <1>5, <1>6 DEF start

\* The pages of the running compaction, with their layout.
LEMMA CompactingOp ==
    ASSUME TypeInv, pc \in Compacting
    PROVE  /\ op.src \in SuperCell /\ op.dst \in SuperCell
           /\ op.src.gen \in Nat /\ op.src.off \in Nat /\ op.src.size \in Nat
           /\ op.src.log \in Nat /\ op.src.sum \in Map
           /\ op.dst.gen \in Nat /\ op.dst.off \in Nat /\ op.dst.size \in Nat
           /\ op.dst.log \in Nat /\ op.dst.sum \in Map
           /\ op.src.size = BaseSize(op.src.sum) /\ op.src.size >= 1
           /\ op.src.log = op.src.off + op.src.size /\ op.src.log <= MaxDatabaseBytes
           /\ op.dst.off = DATA_START
           /\ op.dst.size = BaseSize(op.dst.sum) /\ op.dst.size >= 1
           /\ op.dst.log = DATA_START + op.dst.size /\ op.dst.log < op.src.off
           /\ flen \in Nat /\ flen >= DATA_START /\ flen <= MaxDatabaseBytes
<1>1. DiskType /\ OpType /\ LayoutBounds
  BY TypeParts DEF OpType
<1>2. flen \in Nat /\ flen >= DATA_START /\ flen <= MaxDatabaseBytes
  BY <1>1, ImageAssumption DEF DiskType, DATA_START
<1> QED
  BY <1>1, <1>2, BaseSizeProps DEF OpType, LayoutBounds, SuperCell

-----------------------------------------------------------------------------
(* From the invariant to what the next open finds.                         *)

\* A root with an empty log recovers its Base.
LEMMA EmptyLog ==
    ASSUME NEW f, NEW n \in Nat, NEW s, Root(f, n, s),
           s.log = n \/ f[s.log] = CompactMarker
    PROVE  Recovers(f, n, s, s.log, s.sum)
<1>1. s \in SuperCell /\ s.log <= n /\ s.log \in Nat /\ s.sum \in Map
  BY DEF Root, Whole, SuperCell
<1>2. Accepted(f, n, s.log, s.log)
  BY <1>1 DEF Accepted, Batches
<1>3. Contents(f, s, s.log) = s.sum
  BY <1>1, ScanNothing, ApplyNothing DEF Contents
<1> QED
  BY <1>2, <1>3 DEF Recovers

\* A root with an accepted log that yields admissible contents is what a reopen
\* needs.
LEMMA DiskOKIntro ==
    ASSUME DiskType, NEW s, NEW e, NEW m \in {acked} \cup maybe, Recovers(file, flen, s, e, m)
    PROVE  DiskOK
<1>1. s \in {file[0], file[1]}
  BY SlotProps DEF Recovers, Root, Whole, SuperCell
<1>2. e \in 0 .. flen
  BY ImageAssumption DEF Recovers, Root, Whole, Accepted, SuperCell, DiskType, DATA_START
<1> QED
  BY Zenon, <1>1, <1>2 DEF DiskOK, Admissible

\* The same in the next state.
LEMMA DiskOKIntroPrimed ==
    ASSUME DiskType', NEW s, NEW e, NEW m, m \in {acked'} \cup maybe',
           Recovers(file', flen', s, e, m)
    PROVE  DiskOK'
<1>1. s \in {file'[0], file'[1]}
  BY SlotProps DEF Recovers, Root, Whole, SuperCell
<1>2. e \in 0 .. flen'
  BY ImageAssumption DEF Recovers, Root, Whole, Accepted, SuperCell, DiskType, DATA_START
<1> QED
  BY Zenon, <1>1, <1>2 DEF DiskOK, Admissible

\* While a commit or a compaction can be undone, the file holds the old
\* contents, or those of the new batch.
LEMMA UndoableRecovers ==
    ASSUME TypeInv, AtUndoable
    PROVE  \E e : \E m \in {acked} \cup maybe : Recovers(file, flen, base, e, m)
<1>1. /\ Root(file, flen, base) /\ op.end \in base.log .. flen
      /\ Batches(file, base.log, op.end)
      /\ overlay = ScannedOverlay(file, base.log, op.end)
      /\ View = acked /\ UndoableTail
  BY DEF AtUndoable, Attached
<1>2. base.log \in Nat /\ flen \in Nat /\ op.end \in Nat /\ op.batch \in Overlay
  BY TypeParts, ImageAssumption DEF HandleType, OpType, DiskType, SuperCell, DATA_START
<1>3. Contents(file, base, op.end) = acked
  BY <1>1 DEF Contents, View
<1>4. CASE \/ flen = op.end
           \/ flen > op.end /\ file[op.end] = CompactMarker
           \/ flen = op.end + 1 /\ file[op.end] = Short
  <2>1. Accepted(file, flen, base.log, op.end)
    BY <1>1, <1>2, <1>4 DEF Accepted
  <2> QED
    BY Zenon, <1>1, <1>3, <2>1 DEF Recovers
<1>5. CASE flen = op.end + 1 /\ file[op.end] = BatchRecord(op.batch)
           /\ Apply(View, op.batch) \in maybe
  <2>1. Batches(file, base.log, op.end + 1)
    BY <1>1, <1>2, <1>5 DEF Batches, BatchRecord
  <2>2. Accepted(file, flen, base.log, op.end + 1)
    BY <1>1, <1>2, <1>5, <2>1 DEF Accepted
  <2>3. ScannedOverlay(file, base.log, op.end + 1) = Shadow(overlay, op.batch)
    BY <1>1, <1>2, <1>5, ScanAppend
  <2>4. Contents(file, base, op.end + 1) = Apply(View, op.batch)
    BY <2>3, ApplyShadow DEF Contents, View
  <2> QED
    BY SMTT(60), <1>1, <1>5, <2>2, <2>4 DEF Recovers
<1> QED
  BY Zenon, <1>1, <1>4, <1>5 DEF UndoableTail

\* A handle attached to the whole log shows what a reopen would find.
LEMMA AttachedRecovers ==
    ASSUME TypeInv, Attached(flen)
    PROVE  Recovers(file, flen, base, flen, View)
<1>1. base.log \in Nat /\ flen \in Nat
  BY TypeParts, ImageAssumption DEF HandleType, DiskType, SuperCell, DATA_START
<1> QED
  BY <1>1 DEF Attached, Recovers, Accepted, Contents, View

\* At every program point the next open succeeds, unless power was lost.
LEMMA CrashDisk ==
    ASSUME TypeInv, CrashInv, state # "Closed" \/ ~Power
    PROVE  DiskOK
<1>1. DiskType /\ HandleType /\ OpType /\ flen \in Nat
  BY TypeParts, ImageAssumption DEF DiskType, DATA_START
<1>2. CASE pc = "idle"
  BY <1>2 DEF CrashInv, AtIdle
<1>3. CASE pc = "open_truncate"
  <2>1. Recovers(file, flen, base, flen, View) /\ View \in {acked} \cup maybe
    BY <1>3, AttachedRecovers DEF CrashInv, AtOpenTruncate, Admissible
  <2> QED
    BY <1>1, <2>1, DiskOKIntro
<1>4. CASE pc \in Undoable
  <2>1. PICK e : \E m \in {acked} \cup maybe : Recovers(file, flen, base, e, m)
    BY <1>4, UndoableRecovers DEF CrashInv
  <2> QED
    BY Zenon, <1>1, <2>1, DiskOKIntro
<1>5. CASE pc \in Published \cup Relocating
  <2>1. Root(file, flen, op.src) /\ op.src.log = flen /\ op.src.sum = acked
    BY <1>5 DEF CrashInv, AtPublished, AtRelocating, Carried
  <2>2. Recovers(file, flen, op.src, op.src.log, acked)
    BY <1>1, <2>1, EmptyLog
  <2> QED
    BY SMTT(60), <1>1, <2>2, DiskOKIntro
<1>6. CASE pc \in Switched \cup Truncating
  <2>1. /\ Root(file, flen, op.dst) /\ op.dst.sum = acked
        /\ op.dst.log = flen \/ file[op.dst.log] = CompactMarker
    BY <1>6 DEF CrashInv, AtSwitched, AtTruncating, Carried
  <2>2. Recovers(file, flen, op.dst, op.dst.log, acked)
    BY SMTT(60), <1>1, <2>1, EmptyLog
  <2> QED
    BY SMTT(60), <1>1, <2>2, DiskOKIntro
<1> QED
  BY Zenon, <1>1, <1>2, <1>3, <1>4, <1>5, <1>6
     DEF OpType, ProgramPoints, Undoable, Published, Relocating, Switched, Truncating

\* Only an idle database is closed.
LEMMA ClosedIdle ==
    ASSUME TypeInv, CrashInv, state = "Closed"
    PROVE  pc = "idle"
BY DEF TypeInv, TypeOK, CrashInv, AtOpenTruncate, AtUndoable, AtPublished, AtRelocating,
       AtSwitched, AtTruncating, ProgramPoints, Undoable, Published, Relocating, Switched,
       Truncating

\* At every program point an open that succeeds finds admissible contents.
LEMMA CrashImage ==
    ASSUME TypeInv, CrashInv
    PROVE  ImageOK(file, flen, Admissible)
<1>1. file \in [Offsets -> Cell] /\ flen \in Nat
  BY TypeParts, ImageAssumption DEF DiskType, DATA_START
<1>2. CASE DiskOK
  BY Zenon, <1>1, <1>2, RecoversImage DEF DiskOK
<1>3. CASE ~DiskOK
  <2>1. state = "Closed" /\ Power
    BY <1>3, CrashDisk
  <2>2. pc = "idle"
    BY <2>1, ClosedIdle
  <2> QED
    BY <2>1, <2>2 DEF CrashInv, AtIdle
<1> QED
  BY <1>2, <1>3

\* The cases of CrashInv for the next state.
LEMMA ToIdle ==
    ASSUME pc' = "idle", AtIdle'
    PROVE  StaysSafe
BY DEF StaysSafe, CrashInv, Undoable, Staging, Published, Relocating, Switched, Truncating

\* Returning with an error: what is left to show about the file and the handle.
LEMMA ToPoisoned ==
    ASSUME DiskType', Return, state' \in {"WritePoisoned", "Unavailable"},
           state' = "WritePoisoned" => BaseIntact(file', base'),
           NEW s, NEW e, NEW m, m \in {acked'} \cup maybe', Recovers(file', flen', s, e, m)
    PROVE  StaysSafe
<1>1. DiskOK'
  BY DiskOKIntroPrimed
<1>2. AtIdle'
  BY <1>1 DEF AtIdle
<1> QED
  BY <1>2, ToIdle DEF Return

\* Returning to a handle that takes writes.
LEMMA ToHealthy ==
    ASSUME TypeInv', pc' = "idle", state' = "Healthy", Attached(flen)', View' = acked'
    PROVE  StaysSafe
<1>1. base'.log \in Nat /\ flen' \in Nat /\ DiskType'
  BY TypePartsPrimed, ImageAssumption DEF HandleType, DiskType, SuperCell, DATA_START
<1>2. Recovers(file', flen', base', flen', acked')
  BY <1>1 DEF Attached, Recovers, Accepted, Contents, View
<1>3. DiskOK'
  BY Zenon, <1>1, <1>2, DiskOKIntroPrimed
<1>4. AtIdle'
  BY Zenon, <1>3 DEF AtIdle
<1> QED
  BY Zenon, <1>4, ToIdle

-----------------------------------------------------------------------------
(* What a power loss may leave.                                            *)

\* h is a file of length n that a power loss may leave now.
Leaves(h, n) ==
    /\ h \in [Offsets -> Cell]
    /\ n \in durLen
    /\ \A o \in Offsets :
           IF o >= n THEN h[o] = Garbage
           ELSE h[o] \in dur[o] \/ (o = n - 1 /\ dur[o] # {file[o]} /\ h[o] = Short)

\* PowerFail leaves nothing else.
LEMMA SurvivorLeaves ==
    ASSUME DiskType, NEW n \in durLen, NEW g \in Survivors(n)
    PROVE  Leaves(AfterPowerLoss(n, g), n)
<1> DEFINE h == AfterPowerLoss(n, g)
           U == Unsynced(n)
<1>1. /\ DOMAIN g = U
      /\ \A o \in U : g[o] \in dur[o] \/ (o = n - 1 /\ g[o] = Short)
  BY DEF Survivors
<1>2. \A o \in Offsets : h[o] = IF o >= n THEN Garbage ELSE IF o \in U THEN g[o] ELSE file[o]
  BY <1>1 DEF AfterPowerLoss
<1>3. \A o \in Offsets : ~(o >= n) => (o \in U <=> dur[o] # {file[o]})
  <2>1. n \in Nat /\ \A o \in Offsets : o \in Nat
    BY ImageAssumption DEF DiskType, Offsets, DATA_START
  <2> QED
    BY <2>1 DEF Unsynced
<1>4. h = [o \in Offsets |-> h[o]]
  BY Zenon DEF AfterPowerLoss
<1> HIDE DEF h, U
<1>5. ASSUME NEW o \in Offsets
      PROVE  /\ h[o] \in Cell
             /\ IF o >= n THEN h[o] = Garbage
                ELSE h[o] \in dur[o] \/ (o = n - 1 /\ dur[o] # {file[o]} /\ h[o] = Short)
  <2>1. file[o] \in Cell /\ dur[o] \subseteq Cell /\ Garbage \in Cell /\ Short \in Cell
    BY SpecialCells DEF DiskType
  <2>2. CASE o >= n
    BY Zenon, <1>2, <2>1, <2>2
  <2>3. CASE ~(o >= n) /\ o \in U
    BY Zenon, <1>1, <1>2, <1>3, <2>1, <2>3
  <2>4. CASE ~(o >= n) /\ o \notin U
    BY Zenon, <1>2, <1>3, <2>1, <2>4
  <2> QED
    BY Zenon, <2>2, <2>3, <2>4
<1>6. h \in [Offsets -> Cell]
  BY <1>4, <1>5
<1> QED
  BY Zenon, <1>5, <1>6 DEF Leaves, h

\* It is enough to look at the files a power loss may leave.
LEMMA SurvivorsIntro ==
    DiskType /\ (\A h, n : Leaves(h, n) => ImageOK(h, n, Admissible)) => SurvivorsOK
BY SurvivorLeaves DEF SurvivorsOK

\* The same in the next state.
LEMMA SurvivorsIntroNext ==
    (DiskType /\ (\A h, n : Leaves(h, n) => ImageOK(h, n, Admissible)) => SurvivorsOK)'
BY SurvivorsIntro, PTL

\* With a root and its log on the medium, every power loss leaves that log, or
\* the log with the batch in flight.
LEMMA LogImages ==
    \A s \in SuperCell, e \in Nat, b \in Overlay :
        /\ DiskType
        /\ Root(file, flen, s) /\ s.log <= e /\ e <= flen /\ Batches(file, s.log, e)
        /\ Contents(file, s, e) \in Admissible
        /\ LogOnMedium(s, e, b)
        => SurvivorsOK
<1> SUFFICES ASSUME NEW s \in SuperCell, NEW e \in Nat, NEW b \in Overlay,
                    DiskType,
                    Root(file, flen, s), s.log <= e, e <= flen, Batches(file, s.log, e),
                    Contents(file, s, e) \in Admissible,
                    LogOnMedium(s, e, b),
                    NEW h, NEW n, Leaves(h, n)
             PROVE  ImageOK(h, n, Admissible)
  BY ZenonT(60), SurvivorsIntro
<1>1. /\ h \in [Offsets -> Cell] /\ n \in Nat /\ e <= n /\ n <= MaxDatabaseBytes
      /\ flen \in Nat /\ file \in [Offsets -> Cell]
  BY ImageAssumption DEF Leaves, LogOnMedium, DiskType, DATA_START
<1>2. s.off \in Nat /\ s.off >= DATA_START /\ s.log \in Nat /\ s.off < s.log
  BY <1>1, RootLatest
<1>3. \A o \in Offsets : o < n /\ dur[o] = {file[o]} => h[o] = file[o]
  BY <1>1, ImageAssumption DEF Leaves, Offsets
<1>4. h[0] = file[0] /\ h[1] = file[1] /\ \A o \in s.off .. (e - 1) : h[o] = file[o]
  <2>1. \A o \in {0, 1} \cup (s.off .. (e - 1)) :
            o \in Offsets /\ o < n /\ (o < DATA_START \/ o \in s.off .. (e - 1))
    BY <1>1, <1>2, ImageAssumption DEF Offsets, DATA_START
  <2> QED
    BY Zenon, <1>3, <2>1 DEF LogOnMedium
<1>5. /\ Root(h, n, s) /\ Batches(h, s.log, e)
      /\ ScannedOverlay(h, s.log, e) = ScannedOverlay(file, s.log, e)
  BY <1>1, <1>4, LogFrame
<1>6. Contents(h, s, e) = Contents(file, s, e)
  BY Zenon, <1>5 DEF Contents
<1>7. ASSUME e < n, h[e].t = "batch"
      PROVE  n = e + 1 /\ h[e] = BatchRecord(b) /\ Apply(Contents(h, s, e), b) \in Admissible
  <2>1. e \in Offsets
    BY <1>1, <1>7, ImageAssumption DEF Offsets
  <2>2. h[e] \in dur[e]
    BY <1>1, <1>7, <2>1 DEF Leaves, Short
  <2>3. n \in durLen
    BY DEF Leaves
  <2> QED
    BY <1>1, <1>6, <1>7, <2>1, <2>2, <2>3 DEF LogOnMedium
<1> QED
  BY Zenon, <1>1, <1>5, <1>6, <1>7, ScannedImage

\* The same in the next state.
LEMMA LogImagesNext ==
    (\A s \in SuperCell, e \in Nat, b \in Overlay :
        /\ DiskType
        /\ Root(file, flen, s) /\ s.log <= e /\ e <= flen /\ Batches(file, s.log, e)
        /\ Contents(file, s, e) \in Admissible
        /\ LogOnMedium(s, e, b)
        => SurvivorsOK)'
BY LogImages, PTL

\* While an operation can be undone.
LEMMA UndoableImages ==
    TypeInv /\ CrashInv /\ pc \in Undoable /\ LogOnMedium(base, op.end, op.batch)
        => SurvivorsOK
<1> SUFFICES ASSUME TypeInv, CrashInv, pc \in Undoable, LogOnMedium(base, op.end, op.batch)
             PROVE  SurvivorsOK
  OBVIOUS
<1>1. AtUndoable /\ DiskType /\ flen \in Nat
  BY TypeParts, ImageAssumption DEF CrashInv, DiskType, DATA_START
<1>2. base \in SuperCell /\ base.log \in Nat /\ op.end \in Nat /\ op.batch \in Overlay
  BY TypeParts DEF HandleType, OpType, SuperCell
<1>3. /\ Root(file, flen, base) /\ base.log <= op.end /\ op.end <= flen
      /\ Batches(file, base.log, op.end)
  BY <1>1, <1>2 DEF AtUndoable, Attached
<1>4. Contents(file, base, op.end) \in Admissible
  BY <1>1 DEF AtUndoable, Attached, Contents, View, Admissible
<1> QED
  BY ZenonT(60), <1>1, <1>2, <1>3, <1>4, LogImages

\* The same in the next state.
LEMMA UndoableImagesNext ==
    (TypeInv /\ CrashInv /\ pc \in Undoable /\ LogOnMedium(base, op.end, op.batch)
        => SurvivorsOK)'
BY UndoableImages, PTL

\* When everything is on the medium, a power loss leaves the file as it is.
LEMMA DurableImages == TypeInv /\ CrashInv /\ CleanTail /\ Durable => SurvivorsOK
<1> SUFFICES ASSUME TypeInv, CrashInv, CleanTail, Durable, NEW h, NEW n, Leaves(h, n)
             PROVE  ImageOK(h, n, Admissible)
  BY ZenonT(60), SurvivorsIntro, TypeParts
<1>1. DiskType /\ n = flen /\ h \in [Offsets -> Cell] /\ file \in [Offsets -> Cell]
  BY TypeParts DEF Leaves, Durable, DiskType
<1>2. \A o \in Offsets : h[o] = file[o]
  BY <1>1 DEF Leaves, Durable, CleanTail
<1>3. h = file
  BY <1>1, <1>2
<1> QED
  BY Zenon, <1>1, <1>3, CrashImage

\* The same in the next state.
LEMMA DurableImagesNext == (TypeInv /\ CrashInv /\ CleanTail /\ Durable => SurvivorsOK)'
BY DurableImages, PTL

\* With nothing unsynchronized from the root's Base on, the log is on the medium.
LEMMA SyncedImages ==
    \A s \in SuperCell :
        /\ DiskType /\ CleanTail /\ SyncedFrom(s.off)
        /\ Root(file, flen, s) /\ Batches(file, s.log, flen)
        /\ Contents(file, s, flen) \in Admissible
        => SurvivorsOK
<1> SUFFICES ASSUME NEW s \in SuperCell, DiskType, CleanTail, SyncedFrom(s.off),
                    Root(file, flen, s), Batches(file, s.log, flen),
                    Contents(file, s, flen) \in Admissible
             PROVE  SurvivorsOK
  OBVIOUS
<1>1. flen \in Nat /\ s.log \in Nat /\ s.log <= flen /\ s.off \in Nat /\ s.off < s.log
  BY RootLatest, ImageAssumption DEF DiskType, DATA_START
<1>2. /\ \A o \in Offsets : (o < DATA_START \/ o \in s.off .. (flen - 1)) => dur[o] = {file[o]}
      /\ \A n \in durLen : n >= flen
  BY <1>1 DEF SyncedFrom
<1>3. flen \in Offsets => dur[flen] = {Garbage}
  BY <1>1 DEF SyncedFrom, CleanTail
<1>4. NoEntries \in Overlay
  BY NoEntriesType
<1>5. \A c \in {Garbage} : c.t # "batch"
  BY SMT DEF Garbage
<1>6. flen \in Offsets => \A c \in dur[flen] : c.t # "batch"
  BY Zenon, <1>3, <1>5
<1>7. LogOnMedium(s, flen, NoEntries)
  BY ZenonT(60), <1>2, <1>6 DEF LogOnMedium
<1> QED
  BY <1>1, <1>4, <1>7, LogImages

\* Everything is on the medium.
LEMMA DurableMedium == TypeInv /\ CrashInv /\ CleanTail /\ Durable => MediumInv
<1> SUFFICES ASSUME TypeInv, CrashInv, CleanTail, Durable
             PROVE  MediumInv
  OBVIOUS
<1>1. SurvivorsOK
  BY Zenon, DurableImages
<1>2. \A off : SyncedFrom(off)
  BY Zenon DEF Durable, SyncedFrom
<1>3. ASSUME pc \in Undoable
      PROVE  LogOnMedium(base, op.end, op.batch)
  <2>1. /\ AtUndoable /\ flen \in Nat /\ op.end \in Nat /\ op.end <= flen
        /\ Contents(file, base, op.end) = View
    BY <1>3, TypeParts, ImageAssumption
       DEF CrashInv, AtUndoable, Attached, Contents, View, DiskType, OpType, DATA_START
  <2>2. ASSUME op.end \in Offsets, NEW c \in dur[op.end], c.t = "batch"
        PROVE  /\ c = BatchRecord(op.batch)
               /\ Apply(Contents(file, base, op.end), op.batch) \in Admissible
               /\ durLen \subseteq {op.end, op.end + 1}
    <3>1. c = file[op.end] /\ durLen = {flen}
      BY <2>2 DEF Durable
    <3>2. c \notin {Garbage, CompactMarker, Short}
      BY <2>2 DEF Garbage, CompactMarker, Short
    <3>3. flen # op.end
      BY Zenon, <2>1, <2>2, <3>1, <3>2 DEF CleanTail
    <3> QED
      BY Zenon, <2>1, <3>1, <3>2, <3>3 DEF AtUndoable, UndoableTail, Admissible
  <2> QED
    BY Zenon, <2>1, <2>2 DEF LogOnMedium, Durable
<1>4. ASSUME pc \in Staging, op.end \in Offsets, NEW c \in dur[op.end]
      PROVE  c.t # "batch"
  BY <1>4 DEF CrashInv, AtStaging, Durable, CompactMarker
<1> QED
  BY Zenon, <1>1, <1>2, <1>3, <1>4 DEF MediumInv

\* The same in the next state.
LEMMA DurableMediumNext == (TypeInv /\ CrashInv /\ CleanTail /\ Durable => MediumInv)'
BY DurableMedium, PTL

\* A handle that takes writes.
LEMMA HealthyMedium ==
    TypeInv /\ CrashInv /\ Writable /\ CleanTail /\ SyncedFrom(base.off) => MediumInv
<1> SUFFICES ASSUME TypeInv, CrashInv, Writable, CleanTail, SyncedFrom(base.off)
             PROVE  MediumInv
  OBVIOUS
<1>1. /\ DiskType /\ base \in SuperCell /\ Root(file, flen, base)
      /\ Batches(file, base.log, flen) /\ Contents(file, base, flen) \in Admissible
  BY TypeParts DEF CrashInv, Writable, AtIdle, Attached, Contents, View, Admissible, HandleType
<1>2. SurvivorsOK
  BY <1>1, SyncedImages
<1> QED
  BY <1>2 DEF MediumInv, Writable, SyncedPoints, Undoable, Staging

\* The same in the next state.
LEMMA HealthyMediumNext ==
    (TypeInv /\ CrashInv /\ Writable /\ CleanTail /\ SyncedFrom(base.off) => MediumInv)'
BY HealthyMedium, PTL

\* A commit or a compaction that can be undone.
LEMMA UndoableMedium ==
    /\ TypeInv /\ CrashInv /\ pc \in Undoable \ SyncedPoints /\ CleanTail
    /\ LogOnMedium(base, op.end, op.batch)
    /\ pc \in Staging /\ op.end \in Offsets => \A c \in dur[op.end] : c.t # "batch"
    => MediumInv
<1> SUFFICES ASSUME TypeInv, CrashInv, pc \in Undoable \ SyncedPoints, CleanTail,
                    LogOnMedium(base, op.end, op.batch),
                    pc \in Staging /\ op.end \in Offsets => \A c \in dur[op.end] : c.t # "batch"
             PROVE  MediumInv
  OBVIOUS
<1>1. SurvivorsOK
  BY UndoableImages
<1> QED
  BY <1>1 DEF MediumInv, Writable, Undoable

\* The same in the next state.
LEMMA UndoableMediumNext ==
    (/\ TypeInv /\ CrashInv /\ pc \in Undoable \ SyncedPoints /\ CleanTail
     /\ LogOnMedium(base, op.end, op.batch)
     /\ pc \in Staging /\ op.end \in Offsets => \A c \in dur[op.end] : c.t # "batch"
     => MediumInv)'
BY UndoableMedium, PTL

\* Points where nothing but the images a power loss leaves is known.
Unsettled ==
    \/ pc \in {"open_truncate", "compact_superblock_write", "compact_truncate",
               "compact_destination_superblock_write", "compact_redundant_superblock_write"}
    \/ pc = "idle" /\ state # "Healthy"

\* There, those images are all that is to be shown.
LEMMA UnsettledMedium == Unsettled /\ CleanTail /\ SurvivorsOK => MediumInv
BY DEF MediumInv, Unsettled, Writable, SyncedPoints, Undoable, Staging

\* The same in the next state.
LEMMA UnsettledMediumNext == (Unsettled /\ CleanTail /\ SurvivorsOK => MediumInv)'
BY UnsettledMedium, PTL

-----------------------------------------------------------------------------
(* What the file operations do to the medium.                              *)

\* What the lemmas on single actions assume and prove.
Powered == TypeInv /\ TypeInv' /\ CrashInv /\ CrashInv' /\ MediumInv

StaysOnMedium == MediumInv'

\* A sync puts everything on the medium.
LEMMA SyncMedium ==
    ASSUME Powered, Sync
    PROVE  StaysOnMedium
<1>1. CleanTail'
  BY DEF Powered, MediumInv, CleanTail, Sync
<1>2. Durable'
  BY DEF Durable, Sync
<1> QED
  BY Zenon, <1>1, <1>2, DurableMediumNext DEF Powered, StaysOnMedium

\* A step that leaves the file alone, and nothing was unsynchronized.
LEMMA SyncedMedium ==
    ASSUME Powered, Durable, UNCHANGED disk
    PROVE  StaysOnMedium
<1>1. CleanTail' /\ Durable'
  BY DEF Powered, MediumInv, CleanTail, Durable, disk
<1> QED
  BY Zenon, <1>1, DurableMediumNext DEF Powered, StaysOnMedium

\* The images a power loss leaves depend on the file and the ghosts alone.
LEMMA SameSurvivors ==
    ASSUME MediumInv, UNCHANGED <<disk, ghost>>
    PROVE  CleanTail' /\ SurvivorsOK'
<1>1. /\ file' = file /\ flen' = flen /\ dur' = dur /\ durLen' = durLen
      /\ acked' = acked /\ maybe' = maybe
  BY DEF disk, ghost
<1>2. CleanTail'
  BY Zenon, <1>1 DEF MediumInv, CleanTail
<1>3. /\ Admissible' = Admissible
      /\ \A n : Survivors(n)' = Survivors(n)
      /\ \A n, g : AfterPowerLoss(n, g)' = AfterPowerLoss(n, g)
  BY <1>1 DEF Admissible, AfterPowerLoss, Survivors, Unsynced
<1>4. SurvivorsOK'
  BY Zenon, <1>1, <1>3 DEF MediumInv, SurvivorsOK
<1> QED
  BY Zenon, <1>2, <1>4

\* An operation that gives up, or a handle that goes away.
LEMMA LostMedium ==
    ASSUME Powered, UNCHANGED <<disk, ghost>>, Unsettled'
    PROVE  StaysOnMedium
BY SameSurvivors, UnsettledMediumNext DEF Powered, StaysOnMedium

\* No write leaves anything behind the end of the file.
LEMMA GrownTail ==
    ASSUME DiskType, CleanTail, Grown
    PROVE  CleanTail'
<1>1. flen \in Nat /\ \A x \in Offsets : x \in Nat
  BY ImageAssumption DEF DiskType, Offsets, DATA_START
<1>2. \A x \in Offsets : x >= flen' => x >= flen
  BY <1>1 DEF Grown
<1> QED
  BY <1>2 DEF CleanTail, Grown

\* One cell written, whole or in part.
LEMMA CellMedium ==
    ASSUME DiskType, NEW o \in Nat, NEW c, NEW torn, o < MaxDatabaseBytes,
           WriteCell(o, c) \/ TornCell(o, c, torn)
    PROVE  /\ OnlyIn(o, o) /\ Grown /\ flen' <= Longer(o + 1)
           /\ dur'[o] \subseteq dur[o] \cup {c, torn, Garbage}
<1>1. o \in Offsets /\ flen \in Nat /\ o + 1 \in Nat
  BY ImageAssumption DEF Offsets, DiskType, DATA_START
<1>2. ASSUME NEW d, WriteCell(o, d)
      PROVE  /\ OnlyIn(o, o) /\ Grown /\ flen' <= Longer(o + 1)
             /\ dur'[o] \subseteq dur[o] \cup {d, Garbage}
  <2> DEFINE w == [x \in {o} |-> d]
  <2>1. DOMAIN w \subseteq o .. o /\ (\A x \in DOMAIN w : x \in Nat /\ x < o + 1)
        /\ DOMAIN w = {o} /\ w[o] = d
    OBVIOUS
  <2>2. WriteCells(w, o + 1)
    BY <1>2 DEF WriteCell
  <2> HIDE DEF w
  <2>3. OnlyIn(o, o) /\ Grown /\ flen' = Longer(o + 1)
    BY Zenon, <1>1, <2>1, <2>2, WriteEffect
  <2>4. dur'[o] = Persisted(dur[o], d)
    BY Zenon, <1>1, <2>1, <2>2 DEF WriteCells
  <2>5. flen' <= Longer(o + 1)
    BY <1>1, <2>3 DEF Longer
  <2> QED
    BY <2>3, <2>4, <2>5 DEF Persisted
<1>3. CASE UNCHANGED disk
  BY <1>1, <1>3 DEF disk, OnlyIn, Grown, Longer
<1> QED
  BY Zenon, <1>2, <1>3 DEF TornCell

\* Cutting a log that is on the medium where it ends.
LEMMA CutMedium ==
    ASSUME DiskType, DiskType', UNCHANGED ghost,
           NEW s \in SuperCell, NEW e \in DATA_START .. MaxDatabaseBytes, NEW b \in Overlay,
           Root(file, flen, s), s.log <= e, e <= flen, Batches(file, s.log, e),
           Contents(file, s, e) \in Admissible,
           LogOnMedium(s, e, b), SetLen(e)
    PROVE  CleanTail' /\ SurvivorsOK'
<1>1. e \in Nat /\ flen \in Nat /\ s.log \in Nat
  BY ImageAssumption DEF DiskType, DATA_START, SuperCell
<1>2. flen' = e /\ \A o \in 0 .. (e - 1) : file'[o] = file[o]
  BY SetLenEffect
<1>3. /\ Root(file', flen', s) /\ Batches(file', s.log, e)
      /\ ScannedOverlay(file', s.log, e) = ScannedOverlay(file, s.log, e)
  <2>1. flen' \in Nat /\ e <= flen'
    BY <1>1, <1>2
  <2>2. ASSUME NEW g, NEW m \in Nat, e <= m, \A o \in 0 .. (e - 1) : g[o] = file[o]
        PROVE  /\ Root(g, m, s) /\ Batches(g, s.log, e)
               /\ ScannedOverlay(g, s.log, e) = ScannedOverlay(file, s.log, e)
    BY <1>1, <2>2, LogKept
  <2> QED
    BY Zenon, <1>2, <2>1, <2>2
<1>4. Contents(file', s, e) = Contents(file, s, e) /\ Admissible' = Admissible
  BY Zenon, <1>3 DEF Contents, Admissible, ghost
<1>5. CleanTail'
  BY Zenon, <1>2 DEF SetLen, CleanTail
<1>6. \A o \in Offsets : /\ ~(o >= e) => dur'[o] = dur[o] /\ file'[o] = file[o]
                         /\ dur'[o] \subseteq dur[o] \cup {Garbage}
  BY DEF SetLen, Persisted
<1>7. durLen' \subseteq durLen \cup {e}
  BY Zenon DEF SetLen
<1>8. ASSUME NEW o \in Offsets, o < DATA_START \/ o \in s.off .. (e - 1)
      PROVE  dur'[o] = {file'[o]}
  <2>1. ~(o >= e) /\ dur[o] = {file[o]}
    BY <1>1, <1>8, ImageAssumption DEF LogOnMedium, Offsets, DATA_START
  <2> QED
    BY Zenon, <1>6, <2>1
<1>9. ASSUME e \in Offsets, NEW c \in dur'[e], c.t = "batch"
      PROVE  /\ c = BatchRecord(b)
             /\ Apply(Contents(file', s, e), b) \in Admissible'
             /\ durLen' \subseteq {e, e + 1}
  <2>1. c \in dur[e]
    BY <1>6, <1>9 DEF Garbage
  <2>2. /\ c = BatchRecord(b) /\ Apply(Contents(file, s, e), b) \in Admissible
        /\ durLen \subseteq {e, e + 1}
    BY Zenon, <1>9, <2>1 DEF LogOnMedium
  <2> QED
    BY Zenon, <1>4, <1>7, <2>2
<1>10. \A n \in durLen' : n >= e
  BY <1>1, <1>7 DEF LogOnMedium
<1>11. LogOnMedium(s, e, b)'
  BY Zenon, <1>8, <1>9, <1>10 DEF LogOnMedium
<1>12. Root(file, flen, s)' /\ Batches(file, s.log, e)' /\ (Contents(file, s, e) \in Admissible)'
  BY Zenon, <1>3, <1>4
<1>13. (s.log <= e /\ e <= flen)'
  BY <1>1, <1>2
<1>14. SurvivorsOK'
  BY ZenonT(60), <1>1, <1>11, <1>12, <1>13, LogImagesNext
<1> QED
  BY <1>5, <1>14

-----------------------------------------------------------------------------
(* Each action keeps CrashInv: opening, closing, dying, snapshots.         *)

\* What an open that succeeds finds.
LEMMA OpenFinds ==
    ASSUME TypeInv, CrashInv, Open
    PROVE  \E s, e, m :
               /\ m \in Admissible /\ Recovers(file, flen, s, e, m)
               /\ read_latest_from(file, flen) = s /\ ScanEnd(file, flen, s.log) = e
<1>1. DiskType /\ flen \in Nat /\ file \in [Offsets -> Cell]
  BY TypeParts, ImageAssumption DEF DiskType, DATA_START
<1>2. ImageOK(file, flen, Admissible) /\ Recoverable(file, flen)
  BY CrashImage DEF Open
<1> DEFINE s == read_latest_from(file, flen)
           e == ScanEnd(file, flen, s.log)
<1>3. /\ RecoveredMap(file, flen) \in Admissible
      /\ Recovers(file, flen, s, e, RecoveredMap(file, flen))
  BY Zenon, <1>1, <1>2, ImageRecovers
<1> QED
  BY Zenon, <1>3

\* An open recovers admissible contents and cuts the log behind the scan.
LEMMA OpenCrash ==
    ASSUME Running, Open, Durable
    PROVE  StaysSafe
<1> SUFFICES ASSUME TypeInv, TypeInv', CrashInv
             PROVE  StaysSafe
  BY DEF Running
<1>1. DiskType /\ pc = "idle" /\ flen \in Nat
  BY ClosedIdle, TypeParts, ImageAssumption DEF Open, DiskType, DATA_START
<1>2. PICK s, e, m : /\ m \in Admissible /\ Recovers(file, flen, s, e, m)
                     /\ read_latest_from(file, flen) = s /\ ScanEnd(file, flen, s.log) = e
  BY OpenFinds
<1>3. read_latest_from(file, flen) = s /\ ScanEnd(file, flen, s.log) = e
  BY Zenon, <1>2
<1>4. /\ base' = s /\ overlay' = ScannedOverlay(file, s.log, e)
      /\ \/ e = flen /\ state' = "Healthy" /\ UNCHANGED <<disk, pc>> /\ Settle
         \/ /\ e < flen /\ state' = "Opening" /\ pc' = "open_truncate"
            /\ SetLen(e) /\ UNCHANGED ghost
  BY Zenon, <1>3 DEF Open
<1>5. /\ Root(file, flen, s) /\ Batches(file, s.log, e) /\ s \in SuperCell /\ s.log \in Nat
      /\ s.log >= DATA_START /\ e \in s.log .. flen /\ Contents(file, s, e) = m
  BY <1>2 DEF Recovers, Accepted, Root, Whole, SuperCell, DATA_START
<1>6. View' = m
  BY Zenon, <1>4, <1>5 DEF View, Contents
<1>7. CASE e = flen /\ state' = "Healthy" /\ UNCHANGED <<disk, pc>> /\ Settle
  <2>1. file' = file /\ flen' = flen
    BY Zenon, <1>1, <1>7 DEF disk
  <2>2. Attached(flen)'
    BY Zenon, <1>4, <1>5, <1>7, <2>1 DEF Attached
  <2>3. acked' = View'
    <3>1. Durable'
      BY Zenon, <1>7 DEF Durable, disk
    <3> QED
      BY Zenon, <1>7, <3>1 DEF Settle, View
  <2> QED
    BY Zenon, <1>1, <1>7, <2>1, <2>2, <2>3, ToHealthy
<1>8. CASE e < flen /\ state' = "Opening" /\ pc' = "open_truncate" /\ SetLen(e) /\ UNCHANGED ghost
  <2>1. e \in DATA_START .. MaxDatabaseBytes /\ e \in Nat
    BY <1>1, <1>5, <1>8, ImageAssumption DEF DiskType, DATA_START
  <2>2. flen' = e /\ \A o \in 0 .. (e - 1) : file'[o] = file[o]
    BY Zenon, <1>1, <1>8, <2>1, SetLenEffect
  <2>3. s.log <= e /\ e <= flen' /\ flen' \in Nat
    BY <1>5, <2>1, <2>2
  <2>4. /\ Root(file', flen', s) /\ Batches(file', s.log, e)
        /\ ScannedOverlay(file', s.log, e) = ScannedOverlay(file, s.log, e)
    <3>1. flen \in Nat /\ flen' \in Nat /\ e \in Nat /\ s \in SuperCell
      BY Zenon, <1>1, <1>5, <2>1, <2>3
    <3>2. Root(file, flen, s) /\ Batches(file, s.log, e) /\ s.log <= e /\ e <= flen'
      BY <1>5, <2>3
    <3>3. \A o \in 0 .. (e - 1) : file'[o] = file[o]
      BY Zenon, <2>2
    <3> QED
      BY <3>1, <3>2, <3>3, LogKept
  <2>5. Attached(flen)'
    BY <1>4, <1>5, <2>1, <2>2, <2>3, <2>4 DEF Attached
  <2>6. AtOpenTruncate'
    BY Zenon, <1>2, <1>6, <1>8, <2>5 DEF AtOpenTruncate, Admissible, ghost
  <2> QED
    BY Zenon, <1>8, <2>2, <2>6
       DEF StaysSafe, CrashInv, Undoable, Staging, Published, Relocating, Switched, Truncating
<1> QED
  BY Zenon, <1>4, <1>7, <1>8

\* Losing the handle: the file is as it was, so the next open succeeds; after a
\* power loss, if it does, it finds admissible contents.
LEMMA NoHandleCrash ==
    ASSUME Running, NoHandle, UNCHANGED <<disk, ghost>>
    PROVE  StaysSafe
<1> SUFFICES ASSUME TypeInv, TypeInv', CrashInv
             PROVE  StaysSafe
  BY DEF Running
<1>1. ImageOK(file, flen, Admissible) /\ (DiskOK \/ Power)
  BY CrashImage, CrashDisk
<1>2. UNCHANGED <<file, flen, acked, maybe>>
  BY SMTT(60), <1>1 DEF disk, ghost
<1>3. ImageOK(file, flen, Admissible)' /\ (DiskOK' \/ Power)
  BY Zenon, <1>1, <1>2 DEF DiskOK, Admissible
<1>4. AtIdle'
  BY <1>3 DEF AtIdle, NoHandle
<1> QED
  BY <1>2, <1>4, ToIdle DEF NoHandle, Return

\* A power loss leaves an admissible image.
LEMMA PowerFailCrash ==
    ASSUME SurvivorsOK, PowerFail
    PROVE  StaysSafe
<1>1. PICK g \in Survivors(flen') : file' = AfterPowerLoss(flen', g)
  BY DEF PowerFail
<1>2. ImageOK(file', flen', Admissible)
  BY <1>1 DEF PowerFail, SurvivorsOK
<1>3. ImageOK(file, flen, Admissible)'
  BY Zenon, <1>2 DEF PowerFail, Admissible, ghost
<1>4. AtIdle' /\ pc' = "idle"
  BY <1>3 DEF PowerFail, NoHandle, Return, AtIdle
<1> QED
  BY Zenon, <1>4, ToIdle

\* The sync of that cut ends the open with a handle that agrees with the file.
LEMMA OpenSyncCrash ==
    ASSUME Running, OpenSync
    PROVE  StaysSafe
<1> SUFFICES ASSUME TypeInv, TypeInv', CrashInv
             PROVE  StaysSafe
  BY DEF Running
<1>1. DiskType /\ AtOpenTruncate
  BY TypeParts DEF OpenSync, CrashInv
<1>2. CASE Sync /\ state' = "Healthy" /\ UNCHANGED <<base, overlay>> /\ Return /\ Settle
  <2>1. UNCHANGED <<file, flen>>
    BY Zenon, <1>1, <1>2 DEF Sync
  <2>2. Attached(flen)'
    BY Zenon, <1>1, <1>2, <2>1 DEF AtOpenTruncate, Attached
  <2>3. acked' = View'
    <3>1. Durable'
      BY <1>2 DEF Durable, Sync
    <3> QED
      BY Zenon, <1>2, <3>1 DEF Settle, View
  <2> QED
    BY Zenon, <1>2, <2>1, <2>2, <2>3, ToHealthy DEF Return
<1>3. CASE UNCHANGED <<disk, ghost>> /\ NoHandle
  BY SMTT(60), <1>3, NoHandleCrash
<1> QED
  BY Zenon, <1>2, <1>3 DEF OpenSync

\* Steps that touch neither the file nor the handle.
LEMMA StutterCrash ==
    ASSUME CrashInv, UNCHANGED <<disk, handle, pc, op, ghost>>
    PROVE  StaysSafe
<1>1. UNCHANGED <<file, flen, dur, durLen, state, base, overlay, pc, op, acked, maybe>>
  BY SMTT(60) DEF disk, handle, ghost
<1>2. /\ ImageOK(file, flen, Admissible)' = ImageOK(file, flen, Admissible)
      /\ DiskOK' = DiskOK /\ View' = View /\ UndoableTail' = UndoableTail
  BY Zenon, <1>1 DEF Admissible, DiskOK, View, UndoableTail
<1>3. Attached(flen)' = Attached(flen) /\ Attached(op.end)' = Attached(op.end)
  BY Zenon, <1>1 DEF Attached
<1>4. /\ AtIdle' = AtIdle /\ AtOpenTruncate' = AtOpenTruncate
      /\ AtUndoable' = AtUndoable /\ AtCommit' = AtCommit
  BY <1>1, <1>2, <1>3 DEF AtIdle, AtOpenTruncate, AtUndoable, AtCommit, Admissible
<1>5. /\ AtStaging' = AtStaging /\ AtPublished' = AtPublished
      /\ AtRelocating' = AtRelocating /\ AtSwitched' = AtSwitched
      /\ AtTruncating' = AtTruncating
  <2>1. AtStaging' = AtStaging
    BY SMTT(60), <1>1 DEF AtStaging, Carried
  <2>2. AtPublished' = AtPublished
    BY Zenon, <1>1, <1>2 DEF AtPublished, Carried
  <2>3. AtRelocating' = AtRelocating
    BY Zenon, <1>1, <1>2 DEF AtRelocating, Carried
  <2>4. AtSwitched' = AtSwitched
    BY Zenon, <1>1, <1>2 DEF AtSwitched, Carried
  <2>5. AtTruncating' = AtTruncating
    BY Zenon, <1>1, <1>2 DEF AtTruncating, Carried
  <2> QED
    BY ZenonT(60), <2>1, <2>2, <2>3, <2>4, <2>5
<1> QED
  BY Zenon, <1>1, <1>2, <1>4, <1>5 DEF StaysSafe, CrashInv

\* A new database satisfies the crash invariant.
LEMMA InitCrash ==
    ASSUME Init
    PROVE  CrashInv
<1>1. TypeInv /\ DiskType
  BY Zenon, InitType, TypeParts
<1>2. /\ base = Superblock(1, DATA_START, EMPTY_SEGMENT_SIZE,
                           DATA_START + EMPTY_SEGMENT_SIZE, EmptyMap)
      /\ file = [o \in Offsets |->
                     IF o = Slot(1) THEN base
                     ELSE IF o = DATA_START THEN BaseCell(DATA_START, EmptyMap, 0)
                     ELSE Garbage]
      /\ flen = DATA_START + EMPTY_SEGMENT_SIZE
  BY Zenon DEF Init
<1>3. /\ base.gen = 1 /\ base.off = 2 /\ base.size = 1 /\ base.log = 3 /\ base.sum = EmptyMap
      /\ base \in SuperCell /\ flen = 3
  BY <1>1, <1>2, TypeParts
     DEF Superblock, DATA_START, EMPTY_SEGMENT_SIZE, HandleType
<1>4. Slot(1) = 1 /\ RedundantSlot(1) = 0 /\ {0, 1, 2} \subseteq Offsets
  BY ImageAssumption DEF Slot, RedundantSlot, Offsets, DATA_START
<1>5. file[1] = base /\ file[0] = Garbage /\ file[2] = BaseCell(2, EmptyMap, 0)
  BY <1>2, <1>4 DEF DATA_START
<1>6. BaseSize(EmptyMap) = 1
  <2>1. {k \in Keys : EmptyMap[k] # Absent} = {}
    BY DEF EmptyMap
  <2> QED
    BY <2>1, FS_EmptySet DEF BaseSize, EMPTY_SEGMENT_SIZE
<1>7. BaseIntact(file, base)
  BY SMTT(60), <1>3, <1>5, <1>6 DEF BaseIntact
<1>8. Root(file, flen, base)
  BY <1>3, <1>4, <1>5, <1>7 DEF Root, Whole, Garbage, DATA_START
<1>9. overlay = ScannedOverlay(file, base.log, flen)
  BY <1>3, ScanNothing DEF Init
<1>10. Attached(flen)
  <2>1. flen \in base.log .. flen /\ \A o : o \notin base.log .. (flen - 1)
    BY <1>3
  <2> QED
    BY Zenon, <1>8, <1>9, <2>1 DEF Attached, Batches
<1>11. View = acked
  BY Zenon, <1>3, EmptyMapType, ApplyNothing DEF View, Init
<1>12. DiskOK
  BY Zenon, <1>1, <1>10, <1>11, AttachedRecovers, DiskOKIntro
<1>13. AtIdle /\ pc = "idle"
  BY Zenon, <1>10, <1>11, <1>12 DEF AtIdle, Init
<1> QED
  BY <1>13 DEF CrashInv, Undoable, Staging, Published, Relocating, Switched, Truncating

-----------------------------------------------------------------------------
(* Each action keeps MediumInv: opening, closing, dying, snapshots.        *)

\* An open of a file that is on the medium cuts it behind its log.
LEMMA OpenMedium ==
    ASSUME Powered, Open, Durable
    PROVE  StaysOnMedium
<1>1. TypeInv /\ CrashInv /\ DiskType /\ DiskType' /\ flen \in Nat /\ file \in [Offsets -> Cell]
  BY TypeParts, TypePartsPrimed, ImageAssumption DEF Powered, DiskType, DATA_START
<1>2. PICK s, e, m : /\ m \in Admissible /\ Recovers(file, flen, s, e, m)
                     /\ read_latest_from(file, flen) = s /\ ScanEnd(file, flen, s.log) = e
  BY Zenon, <1>1, OpenFinds
<1>3. CASE UNCHANGED disk
  BY Zenon, <1>3, SyncedMedium
<1>4. CASE e < flen /\ SetLen(e) /\ pc' = "open_truncate" /\ UNCHANGED ghost
  <2>1. /\ Root(file, flen, s) /\ Batches(file, s.log, e) /\ s \in SuperCell /\ s.log \in Nat
        /\ s.log >= DATA_START /\ e \in s.log .. flen /\ Contents(file, s, e) \in Admissible
        /\ Accepted(file, flen, s.log, e)
    BY <1>2 DEF Recovers, Accepted, Root, Whole, SuperCell, DATA_START
  <2>2. /\ e \in DATA_START .. MaxDatabaseBytes /\ s.log <= e /\ e <= flen
        /\ e \in Nat /\ NoEntries \in Overlay
    <3>1. NoEntries \in Overlay
      BY NoEntriesType
    <3> QED
      BY <1>1, <2>1, <3>1, ImageAssumption DEF DiskType, DATA_START
  <2>3. e \in Offsets => \A c \in dur[e] : c.t # "batch"
    <3>1. file[e] = CompactMarker \/ file[e] = Short
      BY <1>4, <2>2, <2>1 DEF Accepted
    <3>2. CompactMarker.t # "batch" /\ Short.t # "batch"
      BY SMT DEF CompactMarker, Short
    <3>3. e \in Offsets => dur[e] = {file[e]}
      BY Zenon DEF Durable
    <3> QED
      BY ZenonT(60), <3>1, <3>2, <3>3
  <2>4. LogOnMedium(s, e, NoEntries)
    BY <1>1, <2>2, <2>3, Zenon DEF Durable, LogOnMedium
  <2>5. CleanTail' /\ SurvivorsOK'
    BY Zenon, <1>1, <1>4, <2>1, <2>2, <2>4, CutMedium
  <2> QED
    BY Zenon, <1>4, <2>5, UnsettledMediumNext DEF StaysOnMedium, Unsettled
<1> QED
  BY Zenon, <1>2, <1>3, <1>4 DEF Open

\* The sync of that cut.
LEMMA OpenSyncMedium ==
    ASSUME Powered, OpenSync
    PROVE  StaysOnMedium
<1>1. CASE Sync
  BY Zenon, <1>1, SyncMedium
<1>2. CASE UNCHANGED <<disk, ghost>> /\ NoHandle
  BY Zenon, <1>2, LostMedium DEF NoHandle, Return, Unsettled
<1> QED
  BY Zenon, <1>1, <1>2 DEF OpenSync

\* After a power loss the file is what is on the medium.
LEMMA PowerFailMedium ==
    ASSUME Powered, PowerFail
    PROVE  StaysOnMedium
<1>1. Durable'
  BY DEF PowerFail, Durable
<1>2. CleanTail'
  BY Zenon DEF PowerFail, AfterPowerLoss, CleanTail
<1> QED
  BY Zenon, <1>1, <1>2, DurableMediumNext DEF Powered, StaysOnMedium

\* Steps that touch neither the file nor the handle.
LEMMA StutterMedium ==
    ASSUME MediumInv, UNCHANGED <<disk, handle, pc, op, ghost>>
    PROVE  StaysOnMedium
<1>1. UNCHANGED <<file, flen, dur, durLen, state, base, overlay, pc, op, acked, maybe>>
  BY SMTT(60) DEF disk, handle, ghost
<1>2. CleanTail' /\ SurvivorsOK'
  BY Zenon, SameSurvivors
<1>3. /\ Durable' = Durable /\ Writable' = Writable
      /\ SyncedFrom(base.off)' = SyncedFrom(base.off)
      /\ SyncedFrom(op.src.off)' = SyncedFrom(op.src.off)
      /\ LogOnMedium(base, op.end, op.batch)' = LogOnMedium(base, op.end, op.batch)
  BY <1>1, Zenon DEF Durable, Writable, SyncedFrom, LogOnMedium, Admissible
<1> QED
  BY <1>1, <1>2, <1>3, Zenon DEF MediumInv, StaysOnMedium

\* A new database is on the medium.
LEMMA InitMedium ==
    ASSUME Init
    PROVE  MediumInv
<1>1. TypeInv /\ CrashInv
  BY Zenon, InitType, InitCrash
<1>2. Durable
  BY DEF Init, Durable
<1>3. CleanTail
  BY ImageAssumption DEF Init, CleanTail, Offsets, Slot, DATA_START, EMPTY_SEGMENT_SIZE
<1> QED
  BY Zenon, <1>1, <1>2, <1>3, DurableMedium
=============================================================================
