--------------------------- MODULE Database_proofs --------------------------
(***************************************************************************)
(* What recovery computes from an image, type correctness of Database and  *)
(* its page writes, for every set of keys and values, every file size and  *)
(* every combination of failures.                                          *)
(***************************************************************************)
EXTENDS DatabaseInv, TLAPS, FiniteSetTheorems, WellFoundedInduction

-----------------------------------------------------------------------------
(* Lemmas about the operators of Image.                                    *)

\* A non-empty set of naturals has a least element, which Min returns.
LEMMA MinProps ==
    ASSUME NEW S \in SUBSET Nat, S # {}
    PROVE  Min(S) \in S /\ \A y \in S : Min(S) <= y
<1>1. PICK x \in S : \A y \in S : ~(<<y, x>> \in OpToRel(<, Nat))
  BY WFMin, NatLessThanWellFounded, Zenon
<1>2. \A y \in S : ~(<<y, x>> \in OpToRel(<, Nat)) => x <= y
  BY DEF OpToRel
<1> QED
  BY ZenonT(60), <1>1, <1>2 DEF Min

\* A non-empty set of naturals up to n has a greatest element, which Max
\* returns.
LEMMA MaxProps ==
    ASSUME NEW n \in Nat, NEW S \in SUBSET (0 .. n), S # {}
    PROVE  Max(S) \in S /\ \A y \in S : Max(S) >= y
<1> DEFINE T == {x \in 0 .. n : n - x \in S}
<1>1. T \in SUBSET Nat /\ T # {}
  <2>1. PICK s \in S : TRUE
    BY ZenonT(60)
  <2>2. n - s \in 0 .. n /\ n - (n - s) = s
    OBVIOUS
  <2> QED
    BY <2>1, <2>2
<1>2. Min(T) \in T /\ \A y \in T : Min(T) <= y
  BY <1>1, MinProps
<1>3. \A y \in S : n - y \in T
  <2> TAKE y \in S
  <2>1. n - y \in 0 .. n /\ n - (n - y) = y
    OBVIOUS
  <2> QED
    BY <2>1
<1>4. n - Min(T) \in S /\ \A y \in S : n - Min(T) >= y
  BY <1>2, <1>3
<1> QED
  BY ZenonT(60), <1>4 DEF Max

-----------------------------------------------------------------------------
(* Contents.                                                               *)

\* A Base has a size of at least its header.
LEMMA BaseSizeProps ==
    ASSUME NEW m
    PROVE  BaseSize(m) \in Nat /\ BaseSize(m) >= 1
<1> DEFINE live == {k \in Keys : m[k] # Absent}
<1>1. IsFiniteSet(Keys) /\ live \in SUBSET Keys
  BY ImageAssumption
<1>2. IsFiniteSet(live)
  BY <1>1, FS_Subset
<1>3. Cardinality(live) \in Nat
  BY <1>2, FS_CardinalityType
<1> QED
  BY <1>3 DEF BaseSize, EMPTY_SEGMENT_SIZE

\* Membership in Overlay, spelled out.
LEMMA OverlayElim ==
    ASSUME NEW b \in Overlay
    PROVE  /\ DOMAIN b \subseteq Keys
           /\ b = [k \in DOMAIN b |-> b[k]]
           /\ \A k \in DOMAIN b : b[k] \in Value
BY DEF Overlay

\* A function from some keys to values is an Overlay.
LEMMA OverlayIntro ==
    ASSUME NEW D \in SUBSET Keys, NEW b \in [D -> Value]
    PROVE  b \in Overlay
BY DEF Overlay

\* The Overlay of a fresh or just compacted database is an Overlay.
LEMMA NoEntriesType == NoEntries \in Overlay
<1>1. NoEntries \in [{} -> Value]
  BY DEF NoEntries
<1> QED
  BY ZenonT(60), <1>1, OverlayIntro

\* The contents of a new database are contents.
LEMMA EmptyMapType == EmptyMap \in Map
BY DEF EmptyMap, Map, Value

\* Reading a Base through an Overlay yields contents (ReadView::get).
LEMMA ApplyType ==
    ASSUME NEW m \in Map, NEW b \in Overlay
    PROVE  Apply(m, b) \in Map
BY OverlayElim DEF Apply, Map

\* Publishing a batch over an Overlay yields an Overlay (install_tail).
LEMMA ShadowType ==
    ASSUME NEW a \in Overlay, NEW b \in Overlay
    PROVE  Shadow(a, b) \in Overlay
<1>1. Shadow(a, b) \in [DOMAIN a \cup DOMAIN b -> Value]
  BY OverlayElim DEF Shadow
<1>2. DOMAIN a \cup DOMAIN b \in SUBSET Keys
  BY OverlayElim
<1> QED
  BY <1>1, <1>2, OverlayIntro

\* Reading through two Overlays is reading through their union: a commit's
\* install and a replay of the log agree.
LEMMA ApplyShadow ==
    ASSUME NEW m, NEW a, NEW b
    PROVE  Apply(m, Shadow(a, b)) = Apply(Apply(m, a), b)
<1>1. \A k \in Keys : Apply(m, Shadow(a, b))[k] = Apply(Apply(m, a), b)[k]
  <2> TAKE k \in Keys
  <2>1. CASE k \in DOMAIN b
    BY <2>1 DEF Apply, Shadow
  <2>2. CASE k \notin DOMAIN b /\ k \in DOMAIN a
    BY <2>2 DEF Apply, Shadow
  <2>3. CASE k \notin DOMAIN b /\ k \notin DOMAIN a
    BY <2>3 DEF Apply, Shadow
  <2> QED
    BY <2>1, <2>2, <2>3
<1> QED
  BY <1>1, Zenon DEF Apply

\* Without Overlay entries a reader sees the Base.
LEMMA ApplyNothing ==
    ASSUME NEW m \in Map
    PROVE  Apply(m, NoEntries) = m
BY DEF Apply, NoEntries, Map

-----------------------------------------------------------------------------
(* Superblocks.                                                            *)

\* When some page is valid, read_latest_from finds one.
LEMMA LatestProps ==
    ASSUME NEW f \in [Offsets -> Cell], NEW n \in Nat, ValidPages(f, n) # {}
    PROVE  /\ LatestPage(f, n) \in ValidPages(f, n)
           /\ read_latest_from(f, n) \in SuperCell
<1> DEFINE V == ValidPages(f, n)
           Best(p) == \A q \in V : f[p].gen > f[q].gen \/ (f[p].gen = f[q].gen /\ p <= q)
<1>1. V \subseteq {0, 1} /\ \A p \in V : p \in Offsets /\ f[p] \in SuperCell
  <2>1. V \subseteq {0, 1} /\ \A p \in V : f[p].t = "super"
    BY DEF ValidPages, SuperValid
  <2>2. {0, 1} \subseteq Offsets
    BY ImageAssumption DEF Offsets, DATA_START
  <2>3. \A c \in Cell : c.t = "super" => c \in SuperCell
    BY DEF Cell, SuperCell, CompactMarker, Short, Garbage
  <2> QED
    BY <2>1, <2>2, <2>3
<1>2. \A p \in V : f[p].gen \in Nat
  BY <1>1 DEF SuperCell
<1>3. \E p \in V : Best(p)
  <2>1. CASE 0 \in V /\ 1 \in V
    <3>1. CASE f[1].gen > f[0].gen
      BY <1>1, <1>2, <2>1, <3>1
    <3>2. CASE ~(f[1].gen > f[0].gen)
      BY <1>1, <1>2, <2>1, <3>2
    <3> QED
      BY <3>1, <3>2
  <2>2. CASE V = {0}
    BY <1>1, <1>2, <2>2
  <2>3. CASE V = {1}
    BY <1>1, <1>2, <2>3
  <2> QED
    BY <1>1, <2>1, <2>2, <2>3
<1>4. LatestPage(f, n) \in V
  <2>1. LatestPage(f, n) = CHOOSE p \in V : Best(p)
    BY DEF LatestPage
  <2> QED
    BY <1>3, <2>1
<1> QED
  BY <1>1, <1>4 DEF read_latest_from

\* The page of the highest generation is the one read_latest_from returns.
LEMMA LatestIs ==
    ASSUME NEW f, NEW n, NEW p \in {0, 1},
           SuperValid(f, n, p), f[p].gen \in Nat,
           f[1 - p].t = "super" => /\ f[1 - p].gen \in Nat
                                   /\ f[1 - p].gen < f[p].gen \/ f[1 - p] = f[p]
    PROVE  ValidPages(f, n) # {} /\ read_latest_from(f, n) = f[p]
<1> DEFINE V == ValidPages(f, n)
           Best(r) == \A q \in V : f[r].gen > f[q].gen \/ (f[r].gen = f[q].gen /\ r <= q)
<1>1. p \in V /\ V \subseteq {0, 1}
  BY DEF ValidPages
<1>2. \A q \in V : f[q].t = "super" /\ f[q].gen \in Nat
                   /\ (f[q].gen < f[p].gen \/ f[q] = f[p])
  <2> SUFFICES ASSUME NEW q \in V
               PROVE  f[q].t = "super" /\ f[q].gen \in Nat
                      /\ (f[q].gen < f[p].gen \/ f[q] = f[p])
    OBVIOUS
  <2>1. q = p \/ q = 1 - p
    BY <1>1
  <2>2. f[q].t = "super"
    BY DEF ValidPages, SuperValid
  <2> QED
    BY <2>1, <2>2
<1>3. \E r \in V : Best(r)
  <2>1. CASE 0 \in V /\ f[0] = f[p]
    BY <1>1, <1>2, <2>1
  <2>2. CASE ~(0 \in V /\ f[0] = f[p])
    <3>1. Best(p)
      BY <1>1, <1>2, <2>2
    <3> QED
      BY <1>1, <3>1
  <2> QED
    BY <2>1, <2>2
<1>4. LatestPage(f, n) \in V /\ Best(LatestPage(f, n))
  <2>1. LatestPage(f, n) = CHOOSE r \in V : Best(r)
    BY DEF LatestPage
  <2> QED
    BY <1>3, <2>1
<1>5. f[LatestPage(f, n)] = f[p]
  BY <1>1, <1>2, <1>4
<1> QED
  BY <1>1, <1>5 DEF read_latest_from

-----------------------------------------------------------------------------
(* The Overlay log.                                                        *)

\* scan_overlay always stops, at the first cell that is not a batch record.
LEMMA ScanEndProps ==
    ASSUME NEW f, NEW n \in Nat, NEW start \in 0 .. n
    PROVE  /\ ScanEnd(f, n, start) \in start .. n
           /\ Batches(f, start, ScanEnd(f, n, start))
           /\ ScanEnd(f, n, start) = n \/ f[ScanEnd(f, n, start)].t # "batch"
<1> DEFINE S == {o \in start .. n : o = n \/ f[o].t # "batch"}
           e == Min(S)
<1>1. S \in SUBSET Nat /\ n \in S
  OBVIOUS
<1>2. e \in S /\ \A y \in S : e <= y
  BY <1>1, MinProps
<1>3. ScanEnd(f, n, start) = e
  BY DEF ScanEnd
<1> HIDE DEF e
<1>4. e \in start .. n /\ (e = n \/ f[e].t # "batch")
  BY <1>2
<1>5. ASSUME NEW o \in start .. (e - 1)
      PROVE  f[o].t = "batch"
  <2>1. o \in start .. n /\ ~(e <= o) /\ o # n
    BY <1>4
  <2>2. o \notin S
    BY <1>2, <2>1
  <2> QED
    BY <2>1, <2>2
<1> QED
  BY <1>3, <1>4, <1>5 DEF Batches

\* A run of batch records that something else follows ends the scan there
\* (the loop of scan_overlay).
LEMMA ScanEndIs ==
    ASSUME NEW f, NEW n \in Nat, NEW start \in 0 .. n, NEW e \in start .. n,
           Batches(f, start, e),
           e = n \/ f[e].t # "batch"
    PROVE  ScanEnd(f, n, start) = e
<1> DEFINE d == ScanEnd(f, n, start)
<1>1. /\ d \in start .. n
      /\ \A o \in start .. (d - 1) : f[o].t = "batch"
      /\ d = n \/ f[d].t # "batch"
  BY ScanEndProps DEF Batches
<1>2. \A o \in start .. (e - 1) : f[o].t = "batch"
  BY DEF Batches
<1> HIDE DEF d
<1>3. ~(d < e)
  BY <1>1, <1>2
<1>4. ~(e < d)
  BY <1>1, <1>2
<1>5. d = e
  BY <1>1, <1>3, <1>4
<1> QED
  BY <1>5 DEF d

\* A log of an accepted shape is scanned to its end without an error.
LEMMA AcceptedScan ==
    ASSUME NEW f, NEW n \in Nat, NEW start \in 0 .. n, NEW e,
           Accepted(f, n, start, e)
    PROVE  ScanEnd(f, n, start) = e /\ ScanAccepts(f, n, start)
<1>1. e \in start .. n /\ Batches(f, start, e)
  BY DEF Accepted
<1>2. e = n \/ f[e].t # "batch"
  BY DEF Accepted, CompactMarker, Short
<1>3. ScanEnd(f, n, start) = e
  BY ZenonT(60), <1>1, <1>2, ScanEndIs
<1> QED
  BY <1>3 DEF Accepted, ScanAccepts

\* What open accepts has the shape Accepted.
LEMMA ScanAccepted ==
    ASSUME NEW f, NEW n \in Nat, NEW start \in 0 .. n,
           ScanAccepts(f, n, start)
    PROVE  Accepted(f, n, start, ScanEnd(f, n, start))
BY ScanEndProps DEF Accepted, ScanAccepts

\* The index takes each key from the last record that touches it.
LEMMA WritersMax ==
    ASSUME NEW f, NEW start \in Nat, NEW e \in Nat, NEW k,
           WritersOf(f, start, e, k) # {}
    PROVE  /\ Max(WritersOf(f, start, e, k)) \in start .. (e - 1)
           /\ k \in DOMAIN f[Max(WritersOf(f, start, e, k))].ops
<1> DEFINE W == WritersOf(f, start, e, k)
<1>1. W \in SUBSET (0 .. e)
  BY DEF WritersOf
<1>2. Max(W) \in W
  BY ZenonT(60), <1>1, MaxProps
<1> QED
  BY <1>2 DEF WritersOf

\* The index depends on the scanned cells only.
LEMMA ScanFrame ==
    ASSUME NEW f, NEW g, NEW start \in Nat, NEW e \in Nat,
           \A o \in start .. (e - 1) : f[o] = g[o]
    PROVE  ScannedOverlay(f, start, e) = ScannedOverlay(g, start, e)
<1>1. \A k : WritersOf(f, start, e, k) = WritersOf(g, start, e, k)
  BY DEF WritersOf
<1> DEFINE D == {k \in Keys : WritersOf(f, start, e, k) # {}}
           F == [k \in D |-> f[Max(WritersOf(f, start, e, k))].ops[k]]
           G == [k \in D |-> g[Max(WritersOf(f, start, e, k))].ops[k]]
<1>2. \A k \in D : f[Max(WritersOf(f, start, e, k))] = g[Max(WritersOf(f, start, e, k))]
  BY WritersMax
<1>3. F = G
  BY <1>2, Zenon
<1>4. ScannedOverlay(f, start, e) = F
  BY DEF ScannedOverlay
<1>5. ScannedOverlay(g, start, e) = G
  <2>1. {k \in Keys : WritersOf(g, start, e, k) # {}} = D
    BY <1>1
  <2>2. \A k : g[Max(WritersOf(g, start, e, k))].ops[k]
                 = g[Max(WritersOf(f, start, e, k))].ops[k]
    BY <1>1
  <2> QED
    BY <2>1, <2>2 DEF ScannedOverlay
<1> QED
  BY <1>3, <1>4, <1>5, Zenon

\* A log without records changes nothing.
LEMMA ScanNothing ==
    ASSUME NEW f, NEW e \in Nat
    PROVE  ScannedOverlay(f, e, e) = NoEntries
<1>1. \A k : WritersOf(f, e, e, k) = {}
  BY DEF WritersOf
<1>2. {k \in Keys : WritersOf(f, e, e, k) # {}} = {}
  BY <1>1
<1> QED
  BY <1>2, Zenon DEF ScannedOverlay, NoEntries

\* One more record shadows what was there: replaying the log of a commit gives
\* the index the commit installed.
LEMMA ScanAppend ==
    ASSUME NEW f, NEW start \in Nat, NEW e \in Nat, start <= e, NEW b \in Overlay,
           f[e] = BatchRecord(b)
    PROVE  ScannedOverlay(f, start, e + 1) = Shadow(ScannedOverlay(f, start, e), b)
<1> DEFINE W(k) == WritersOf(f, start, e, k)
           X(k) == WritersOf(f, start, e + 1, k)
           A == ScannedOverlay(f, start, e)
           B == ScannedOverlay(f, start, e + 1)
<1>1. f[e].ops = b /\ DOMAIN b \subseteq Keys
  BY OverlayElim DEF BatchRecord
<1>2. \A k : X(k) = IF k \in DOMAIN b THEN W(k) \cup {e} ELSE W(k)
  BY <1>1 DEF WritersOf
<1>3. \A k \in DOMAIN b : Max(X(k)) = e
  <2> TAKE k \in DOMAIN b
  <2>1. X(k) \in SUBSET (0 .. e) /\ e \in X(k)
    BY <1>1 DEF WritersOf
  <2>2. Max(X(k)) \in X(k) /\ \A y \in X(k) : Max(X(k)) >= y
    BY <2>1, MaxProps
  <2> HIDE DEF X
  <2> QED
    BY <2>1, <2>2
<1>4. DOMAIN A = {k \in Keys : W(k) # {}} /\ DOMAIN B = {k \in Keys : X(k) # {}}
  BY DEF ScannedOverlay
<1>5. DOMAIN B = DOMAIN A \cup DOMAIN b
  BY ZenonT(60), <1>1, <1>2, <1>4
<1>6. \A k \in DOMAIN B : B[k] = IF k \in DOMAIN b THEN b[k] ELSE A[k]
  <2> TAKE k \in DOMAIN B
  <2>1. B[k] = f[Max(X(k))].ops[k]
    BY DEF ScannedOverlay
  <2>2. CASE k \in DOMAIN b
    BY <1>1, <1>3, <2>1, <2>2
  <2>3. CASE k \notin DOMAIN b
    <3>1. A[k] = f[Max(W(k))].ops[k]
      BY <1>5, <2>3 DEF ScannedOverlay
    <3>2. X(k) = W(k)
      BY ZenonT(60), <1>2, <2>3
    <3> QED
      BY <2>1, <2>3, <3>1, <3>2
  <2> QED
    BY <2>2, <2>3
<1>7. B = [k \in DOMAIN B |-> B[k]]
  BY DEF ScannedOverlay
<1> HIDE DEF A, B
<1>8. B = Shadow(A, b)
  BY <1>5, <1>6, <1>7, Zenon DEF Shadow
<1> QED
  BY <1>8 DEF A, B

\* The scan of well-formed records gives a well-formed index.
LEMMA ScannedType ==
    ASSUME NEW f \in [Offsets -> Cell], NEW start \in Nat,
           NEW e \in Nat, e <= MaxDatabaseBytes,
           Batches(f, start, e)
    PROVE  ScannedOverlay(f, start, e) \in Overlay
<1> DEFINE D == {k \in Keys : WritersOf(f, start, e, k) # {}}
<1>1. \A o \in start .. (e - 1) : f[o].ops \in Overlay
  <2>1. \A c \in Cell : c.t = "batch" => c.ops \in Overlay
    BY DEF Cell, SuperCell, CompactMarker, Short, Garbage
  <2>2. \A o \in start .. (e - 1) : o \in Offsets
    BY ImageAssumption DEF Offsets
  <2> QED
    BY <2>1, <2>2 DEF Batches
<1>2. \A k \in D : f[Max(WritersOf(f, start, e, k))].ops[k] \in Value
  <2> TAKE k \in D
  <2> DEFINE o == Max(WritersOf(f, start, e, k))
  <2>1. o \in start .. (e - 1) /\ k \in DOMAIN f[o].ops
    BY WritersMax
  <2> HIDE DEF o
  <2>2. f[o].ops[k] \in Value
    BY <1>1, <2>1, OverlayElim
  <2> QED
    BY <2>2 DEF o
<1>3. ScannedOverlay(f, start, e) \in [D -> Value]
  BY <1>2 DEF ScannedOverlay
<1> QED
  BY <1>3, OverlayIntro

-----------------------------------------------------------------------------
(* Types.                                                                  *)

DiskType ==
    /\ file \in [Offsets -> Cell]
    /\ flen \in DATA_START .. MaxDatabaseBytes
    /\ dur \in [Offsets -> SUBSET Cell]
    /\ durLen \in SUBSET (DATA_START .. MaxDatabaseBytes)

\* Every kind of cell the code writes is a cell.
LEMMA SpecialCells ==
    /\ Garbage \in Cell
    /\ Short \in Cell
    /\ CompactMarker \in Cell
    /\ SuperCell \subseteq Cell
    /\ \A b \in Overlay : BatchRecord(b) \in Cell
BY DEF Cell, BatchRecord, Garbage, Short, CompactMarker

\* write_base_with_metadata_at writes cells over the range it measured.
LEMMA BaseCellType ==
    ASSUME NEW off \in Nat, NEW m \in Map, NEW o \in off .. (off + BaseSize(m) - 1)
    PROVE  BaseCells(off, m)[o] \in Cell /\ DOMAIN BaseCells(off, m) = off .. (off + BaseSize(m) - 1)
<1>1. BaseSize(m) \in Nat
  BY BaseSizeProps
<1>2. o - off \in Nat
  BY <1>1
<1>3. BaseCell(off, m, o - off) \in Cell
  BY <1>2 DEF BaseCell, Cell
<1> QED
  BY <1>3 DEF BaseCells

\* A write within max_database_bytes keeps the disk well typed.
LEMMA WriteCellsType ==
    ASSUME DiskType, NEW w, NEW end \in Nat, end <= MaxDatabaseBytes,
           \A o \in DOMAIN w : w[o] \in Cell,
           WriteCells(w, end)
    PROVE  DiskType'
<1> USE ImageAssumption DEF DiskType, DATA_START
<1>1. flen' \in DATA_START .. MaxDatabaseBytes /\ flen' >= flen
  BY DEF WriteCells, Longer
<1>2. file' \in [Offsets -> Cell]
  BY DEF WriteCells
<1>3. dur' \in [Offsets -> SUBSET Cell]
  <2>1. \A o \in DOMAIN w : \A d \in SUBSET Cell : Persisted(d, w[o]) \in SUBSET Cell
    BY SpecialCells DEF Persisted
  <2> QED
    BY <2>1 DEF WriteCells
<1>4. durLen' \in SUBSET (DATA_START .. MaxDatabaseBytes)
  <2>1. flen .. flen' \subseteq DATA_START .. MaxDatabaseBytes
    BY <1>1
  <2>2. durLen' = durLen \cup (flen .. flen') \/ durLen' = {flen'}
    BY DEF WriteCells
  <2> QED
    BY ZenonT(60), <1>1, <2>1, <2>2
<1> QED
  BY <1>1, <1>2, <1>3, <1>4

\* So does the write of one cell: a record, a marker or a Superblock page.
LEMMA WriteCellType ==
    ASSUME DiskType, NEW o \in Nat, o < MaxDatabaseBytes, NEW c \in Cell,
           WriteCell(o, c)
    PROVE  DiskType'
BY WriteCellsType, ImageAssumption DEF WriteCell

\* So does a write of one cell that fails or is cut short.
LEMMA TornCellType ==
    ASSUME DiskType, NEW o \in Nat, o < MaxDatabaseBytes, NEW c \in Cell, NEW torn \in Cell,
           TornCell(o, c, torn)
    PROVE  DiskType'
<1>1. CASE UNCHANGED disk
  BY <1>1 DEF disk, DiskType
<1> QED
  BY <1>1, WriteCellType DEF TornCell

\* So does the write of a Base, whole or torn.
LEMMA BaseWriteType ==
    ASSUME DiskType, NEW off \in Nat, NEW m \in Map, off + BaseSize(m) <= MaxDatabaseBytes
    PROVE  /\ WriteCells(BaseCells(off, m), off + BaseSize(m)) => DiskType'
           /\ TornBase(BaseCells(off, m), off, BaseSize(m)) => DiskType'
<1> DEFINE w == BaseCells(off, m)
           size == BaseSize(m)
<1>1. size \in Nat /\ size >= 1
  BY BaseSizeProps
<1>2. DOMAIN w = off .. (off + size - 1)
  BY DEF BaseCells
<1>3. \A o \in off .. (off + size - 1) : w[o] \in Cell
  BY BaseCellType
<1> HIDE DEF w, size
<1>4. WriteCells(w, off + size) => DiskType'
  BY <1>1, <1>2, <1>3, WriteCellsType DEF size
<1>5. ASSUME TornBase(w, off, size) PROVE DiskType'
  <2>1. CASE UNCHANGED disk
    BY <2>1 DEF disk, DiskType
  <2>2. ASSUME NEW j \in 1 .. size,
               NEW c \in {Garbage, w[IF j = size THEN off ELSE off + j]},
               NEW hit, hit = IF j = size THEN off ELSE off + j,
               NEW end, end = IF j = size THEN off + size ELSE off + j + 1,
               WriteCells([o \in ((off + 1) .. (off + j - 1)) \cup {hit} |->
                               IF o = hit THEN c ELSE w[o]], end)
        PROVE  DiskType'
    <3>1. hit \in off .. (off + size - 1)
      BY <1>1, <2>2
    <3>2. c \in Cell
      BY <1>3, <2>2, <3>1, SpecialCells
    <3>3. (off + 1) .. (off + j - 1) \subseteq off .. (off + size - 1)
      BY <1>1
    <3>4. end \in Nat /\ end <= MaxDatabaseBytes
      BY <1>1, <2>2, ImageAssumption DEF size
    <3> DEFINE v == [o \in ((off + 1) .. (off + j - 1)) \cup {hit} |->
                         IF o = hit THEN c ELSE w[o]]
    <3>5. \A o \in DOMAIN v : v[o] \in Cell
      BY <1>3, <3>1, <3>2, <3>3
    <3>6. WriteCells(v, end)
      BY <2>2
    <3> HIDE DEF v
    <3> QED
      BY <3>4, <3>5, <3>6, WriteCellsType
  <2> QED
    BY ZenonT(60), <1>5, <2>1, <2>2 DEF TornBase
<1> QED
  BY <1>4, <1>5 DEF w, size

\* sync_data changes no contents.
LEMMA SyncType ==
    ASSUME DiskType, Sync
    PROVE  DiskType'
BY DEF DiskType, Sync

\* set_len keeps the disk well typed.
LEMMA SetLenType ==
    ASSUME DiskType, NEW n \in DATA_START .. MaxDatabaseBytes, SetLen(n) \/ SetLenSynced(n)
    PROVE  DiskType'
<1>1. file' \in [Offsets -> Cell] /\ flen' = n
  BY SpecialCells DEF DiskType, SetLen, SetLenSynced
<1>2. dur' \in [Offsets -> SUBSET Cell]
  <2>1. CASE SetLen(n)
    BY <2>1, SpecialCells DEF DiskType, SetLen, Persisted
  <2>2. CASE SetLenSynced(n)
    BY <1>1, <2>2 DEF SetLenSynced
  <2> QED
    BY <2>1, <2>2
<1>3. durLen' \in SUBSET (DATA_START .. MaxDatabaseBytes)
  <2>1. CASE SetLen(n)
    <3>1. durLen' = durLen \cup {n} \/ durLen' = {n}
      BY ZenonT(60), <2>1 DEF SetLen
    <3> QED
      BY ZenonT(60), <3>1 DEF DiskType
  <2>2. CASE SetLenSynced(n)
    BY <2>2 DEF SetLenSynced
  <2> QED
    BY <2>1, <2>2
<1> QED
  BY <1>1, <1>2, <1>3 DEF DiskType

-----------------------------------------------------------------------------
(* The helpers of the actions.                                             *)

\* The values that a handle and an operation start from have their types.
LEMMA PageTypes ==
    ASSUME TypeOK
    PROVE  /\ View \in Map
           /\ NoPage \in SuperCell
           /\ NoOp \in [end : Nat, batch : Overlay, src : SuperCell, dst : SuperCell]
           /\ \A gen \in Nat : Detached(gen) \in SuperCell
<1>1. View \in Map
  BY ApplyType DEF TypeOK, View, SuperCell
<1>2. \A gen \in Nat : Detached(gen) \in SuperCell
  BY EmptyMapType DEF Detached, Superblock, SuperCell, DATA_START, EMPTY_SEGMENT_SIZE
<1>3. NoPage \in SuperCell
  BY EmptyMapType DEF NoPage, Superblock, SuperCell
<1> QED
  BY <1>1, <1>2, <1>3, NoEntriesType DEF NoOp

\* The layout of a compaction that passed ensure_capacity.
LEMMA LayoutProps ==
    ASSUME TypeOK, StagingFits
    PROVE  /\ StagingPage \in SuperCell
           /\ RelocatedPage \in SuperCell
           /\ StagingPage.sum = View /\ RelocatedPage.sum = View
           /\ StagingPage.gen = base.gen + 1 /\ RelocatedPage.gen = base.gen + 2
           /\ StagingPage.size = BaseSize(View)
           /\ StagingPage.log = StagingPage.off + StagingPage.size
           /\ StagingPage.log <= MaxDatabaseBytes
           /\ StagingPage.off > flen
           /\ RelocatedPage.off = DATA_START
           /\ RelocatedPage.size = BaseSize(View)
           /\ RelocatedPage.log = DATA_START + RelocatedPage.size
           /\ RelocatedPage.log < StagingPage.off
           /\ flen < MaxDatabaseBytes
<1> DEFINE size == BaseSize(View)
           src == SourceOffset(flen, DATA_START + size)
<1>1. View \in Map
  BY PageTypes
<1>2. size \in Nat /\ size >= 1
  BY BaseSizeProps
<1>3. base.gen \in Nat /\ flen \in Nat
  BY ImageAssumption DEF TypeOK, SuperCell, DATA_START
<1> HIDE DEF size
<1>4. src \in Nat /\ src > flen /\ src > DATA_START + size
  BY <1>2, <1>3 DEF SourceOffset, LOG_HEADER_SIZE, DATA_START
<1>5. StagingPage = Superblock(base.gen + 1, src, size, src + size, View)
  BY DEF StagingPage, size
<1>6. RelocatedPage = Superblock(base.gen + 2, DATA_START, size, DATA_START + size, View)
  BY DEF RelocatedPage, size
<1> HIDE DEF src
<1>7. /\ StagingPage \in SuperCell
      /\ StagingPage.off = src /\ StagingPage.size = size /\ StagingPage.log = src + size
      /\ StagingPage.sum = View /\ StagingPage.gen = base.gen + 1
  BY <1>1, <1>2, <1>3, <1>4, <1>5 DEF Superblock, SuperCell
<1>8. /\ RelocatedPage \in SuperCell
      /\ RelocatedPage.off = DATA_START /\ RelocatedPage.size = size
      /\ RelocatedPage.log = DATA_START + size
      /\ RelocatedPage.sum = View /\ RelocatedPage.gen = base.gen + 2
  BY <1>1, <1>2, <1>3, <1>6 DEF Superblock, SuperCell, DATA_START
<1>9. src + size <= MaxDatabaseBytes
  BY <1>7 DEF StagingFits
<1>10. flen < MaxDatabaseBytes
  BY <1>2, <1>3, <1>4, <1>9, ImageAssumption
<1> QED
  BY <1>4, <1>7, <1>8, <1>9, <1>10 DEF size

\* The two pages of a generation are the two Superblock pages, and the next
\* generation swaps them (superblock::write and write_redundant).
LEMMA SlotProps ==
    ASSUME NEW gen \in Nat
    PROVE  /\ Slot(gen) \in {0, 1} /\ RedundantSlot(gen) \in {0, 1}
           /\ Slot(gen) = 1 - RedundantSlot(gen)
           /\ Slot(gen + 1) = RedundantSlot(gen)
           /\ RedundantSlot(gen + 1) = Slot(gen)
           /\ Slot(gen) \in Offsets /\ RedundantSlot(gen) \in Offsets
           /\ Slot(gen) < DATA_START /\ RedundantSlot(gen) < DATA_START
BY ImageAssumption DEF Slot, RedundantSlot, Offsets, DATA_START

\* What open takes from the file is well-formed.
LEMMA OpenTypes ==
    ASSUME DiskType, Recoverable(file, flen)
    PROVE  LET s == read_latest_from(file, flen)
               e == ScanEnd(file, flen, s.log)
           IN  /\ s \in SuperCell
               /\ e \in DATA_START .. flen
               /\ ScannedOverlay(file, s.log, e) \in Overlay
<1> DEFINE s == read_latest_from(file, flen)
           e == ScanEnd(file, flen, s.log)
           p == LatestPage(file, flen)
<1>1. flen \in Nat /\ flen <= MaxDatabaseBytes
  BY ImageAssumption DEF DiskType, DATA_START
<1>2. p \in ValidPages(file, flen) /\ s \in SuperCell
  BY <1>1, LatestProps DEF DiskType, Recoverable, RootIntact
<1>3. SuperValid(file, flen, p) /\ s = file[p]
  BY <1>2 DEF ValidPages, read_latest_from
<1> HIDE DEF s, e, p
<1>4. s.log \in DATA_START .. flen
  BY <1>1, <1>2, <1>3 DEF SuperValid, SuperCell, DATA_START, EMPTY_SEGMENT_SIZE
<1>5. e \in s.log .. flen /\ Batches(file, s.log, e)
  <2>1. s.log \in 0 .. flen
    BY <1>1, <1>4 DEF DATA_START
  <2> QED
    BY ZenonT(60), <1>1, <2>1, ScanEndProps DEF e
<1>6. ScannedOverlay(file, s.log, e) \in Overlay
  <2>1. s.log \in Nat /\ e \in Nat /\ e <= MaxDatabaseBytes
    BY <1>1, <1>4, <1>5, ImageAssumption DEF DATA_START
  <2> QED
    BY <1>5, <2>1, ScannedType DEF DiskType
<1> QED
  BY <1>2, <1>4, <1>5, <1>6 DEF s, e, DATA_START

-----------------------------------------------------------------------------
(* TypeInv is inductive.                                                   *)

HandleType ==
    /\ state \in {"Healthy", "WritePoisoned", "Unavailable", "Closed", "Opening"}
    /\ base \in SuperCell
    /\ overlay \in Overlay
    /\ snaps \in SUBSET [id : Nat, own : BOOLEAN, base : SuperCell, log : LogImage]
    /\ acked \in Map
    /\ maybe \in SUBSET Map

OpType ==
    /\ pc \in ProgramPoints
    /\ op \in [end : Nat, batch : Overlay, src : SuperCell, dst : SuperCell]
    /\ pc \in Undoable => op.end \in DATA_START .. MaxDatabaseBytes
    /\ pc \in Compacting => LayoutBounds

\* The type invariant, split into disk, handle and operation.
LEMMA TypeParts == TypeInv <=> DiskType /\ HandleType /\ OpType
BY DEF TypeInv, TypeOK, DiskType, HandleType, OpType

\* The same in the next state.
LEMMA TypePartsPrimed == TypeInv' <=> DiskType' /\ HandleType' /\ OpType'
BY DEF TypeInv, TypeOK, DiskType, HandleType, OpType

\* How the sets of program points lie in each other.
LEMMA PointSets ==
    /\ Staging \subseteq Undoable /\ Staged \subseteq Staging /\ Relocated \subseteq Relocating
    /\ Undoable \subseteq ProgramPoints /\ Compacting \subseteq ProgramPoints
    /\ "idle" \in ProgramPoints /\ "idle" \notin Undoable /\ "idle" \notin Compacting
    /\ "open_truncate" \in ProgramPoints
    /\ "open_truncate" \notin Undoable /\ "open_truncate" \notin Compacting
BY DEF Staging, Staged, Published, Relocating, Relocated, Switched, Truncating,
       Undoable, Compacting, ProgramPoints

\* The shared endings of the actions.
LEMMA StepType ==
    ASSUME TypeInv, NEW label \in ProgramPoints, Step(label), DiskType',
           label \in Undoable => op.end \in DATA_START .. MaxDatabaseBytes,
           label \in Compacting => LayoutBounds
    PROVE  TypeInv'
<1>1. op' = op /\ pc' = label
  BY DEF Step, Goto
<1>2. HandleType'
  BY TypeParts DEF Step, handle, ghost, HandleType
<1>3. OpType'
  BY <1>1, TypeParts DEF OpType, LayoutBounds
<1> QED
  BY <1>2, <1>3, TypePartsPrimed

\* An operation that returns leaves a well typed idle handle.
LEMMA ReturnType ==
    ASSUME TypeInv, Return, DiskType', HandleType'
    PROVE  TypeInv'
<1>1. op' = NoOp /\ pc' = "idle"
  BY DEF Return
<1>2. NoOp \in [end : Nat, batch : Overlay, src : SuperCell, dst : SuperCell]
  BY PageTypes DEF TypeInv
<1>3. OpType'
  BY <1>1, <1>2, PointSets DEF OpType
<1> QED
  BY <1>3, TypePartsPrimed

\* So does one that returns an error, poisoning the handle or giving the
\* relocation up.
LEMMA ErrorReturnType ==
    ASSUME TypeInv, PoisonAndReturn \/ GiveUpRelocation, DiskType'
    PROVE  TypeInv'
<1>1. Return
  BY DEF PoisonAndReturn, GiveUpRelocation
<1>2. HandleType'
  BY TypeParts DEF PoisonAndReturn, GiveUpRelocation, handle, ghost, HandleType
<1> QED
  BY <1>1, <1>2, ReturnType

\* Losing the handle (Close, Kill, a failed open) keeps the types.
LEMMA NoHandleType ==
    ASSUME TypeInv, NoHandle, DiskType', UNCHANGED ghost,
           snaps' \in SUBSET [id : Nat, own : BOOLEAN, base : SuperCell, log : LogImage]
    PROVE  TypeInv'
<1>1. Return
  BY DEF NoHandle
<1>2. HandleType'
  BY TypeParts, PageTypes, NoEntriesType DEF NoHandle, ghost, HandleType, TypeInv
<1> QED
  BY <1>1, <1>2, ReturnType

\* A step that leaves the disk alone leaves it well typed.
LEMMA SameDiskType ==
    ASSUME DiskType, UNCHANGED disk
    PROVE  DiskType'
BY DEF DiskType, disk

\* A commit keeps the types and stays within max_database_bytes.
LEMMA CommitType ==
    ASSUME TypeInv, Commit \/ Rollback
    PROVE  TypeInv'
<1>1. DiskType /\ HandleType /\ OpType /\ TypeOK /\ View \in Map
  BY TypeParts, PageTypes DEF TypeInv
<1>2. ASSUME NEW b \in Batch, CommitAppend(b)
      PROVE  TypeInv'
  <2>1. b \in Overlay /\ BatchRecord(b) \in Cell
    BY SpecialCells DEF Batch
  <2>2. flen \in Nat /\ flen < MaxDatabaseBytes /\ flen \in DATA_START .. MaxDatabaseBytes
    BY <1>1, <1>2, ImageAssumption
       DEF DiskType, CommitAppend, BATCH_RECORD_SIZE, DATA_START
  <2>3. DiskType'
    BY <1>1, <1>2, <2>1, <2>2, WriteCellType, TornCellType, SpecialCells DEF CommitAppend
  <2>4. HandleType'
    BY <1>1, <1>2, <2>1, ApplyType DEF CommitAppend, HandleType, handle, View, SuperCell
  <2>5. op' = [NoOp EXCEPT !.end = flen, !.batch = b] /\ pc' \in {"batch_written", "rollback"}
    BY <1>2 DEF CommitAppend
  <2>6. op' \in [end : Nat, batch : Overlay, src : SuperCell, dst : SuperCell] /\ op'.end = flen
    BY ZenonT(60), <1>1, <2>1, <2>2, <2>5, PageTypes DEF NoOp
  <2>7. OpType'
    BY <2>2, <2>5, <2>6 DEF OpType, ProgramPoints, Compacting, Staging, Published,
       Relocating, Switched, Truncating
  <2> QED
    BY <2>3, <2>4, <2>7, TypePartsPrimed
<1>3. ASSUME CommitSync
      PROVE  TypeInv'
  <2>1. op.end \in DATA_START .. MaxDatabaseBytes
    BY <1>1, <1>3 DEF CommitSync, OpType, Undoable
  <2>2. DiskType'
    BY <1>1, <1>3, SyncType, SameDiskType DEF CommitSync
  <2>3. Step("batch_synced") \/ Step("rollback")
    BY <1>3 DEF CommitSync
  <2>4. {"batch_synced", "rollback"} \subseteq ProgramPoints \ Compacting
    BY DEF ProgramPoints, Compacting, Staging, Published, Relocating, Switched, Truncating
  <2> QED
    BY <2>1, <2>2, <2>3, <2>4, StepType
<1>4. ASSUME CommitPublish
      PROVE  TypeInv'
  <2>1. op.end \in DATA_START .. MaxDatabaseBytes /\ op.batch \in Overlay
    BY <1>1, <1>4 DEF CommitPublish, OpType, Undoable
  <2>2. DiskType'
    BY <1>1, <1>4, SameDiskType DEF CommitPublish, disk
  <2>3. CASE Return /\ overlay' = Shadow(overlay, op.batch) /\ acked' = Apply(View, op.batch)
             /\ maybe' = {} /\ UNCHANGED <<state, base>>
    <3>1. HandleType'
      BY <1>1, <1>4, <2>1, <2>3, ShadowType, ApplyType DEF CommitPublish, HandleType
    <3> QED
      BY <2>2, <2>3, <3>1, ReturnType
  <2>4. CASE Goto("rollback") /\ UNCHANGED <<handle, ghost>>
    <3>1. Step("rollback")
      BY <1>4, <2>4 DEF CommitPublish, Step
    <3>2. "rollback" \in ProgramPoints /\ "rollback" \notin Compacting
      BY DEF ProgramPoints, Compacting, Staging, Published, Relocating, Switched, Truncating
    <3> QED
      BY <2>1, <2>2, <3>1, <3>2, StepType
  <2> QED
    BY <1>4, <2>3, <2>4 DEF CommitPublish
<1>5. ASSUME Rollback
      PROVE  TypeInv'
  <2>1. op.end \in DATA_START .. MaxDatabaseBytes
    BY <1>1, <1>5 DEF Rollback, OpType, Undoable
  <2>2. DiskType'
    BY <1>1, <1>5, <2>1, SetLenType, SameDiskType DEF Rollback
  <2> QED
    BY <1>5, <2>2, ErrorReturnType DEF Rollback
<1> QED
  BY <1>2, <1>3, <1>4, <1>5 DEF Commit

\* The first half of a compaction, up to the staging generation.
LEMMA StagingType ==
    ASSUME TypeInv,
           \/ CompactMark \/ CompactStage \/ CompactStageSync
           \/ CompactPublish \/ CompactPublishSync \/ CompactInstall
    PROVE  TypeInv'
<1>1. DiskType /\ HandleType /\ OpType /\ TypeOK /\ View \in Map
  BY TypeParts, PageTypes DEF TypeInv
<1>2. op.src \in SuperCell /\ op.dst \in SuperCell /\ op.src.off \in Nat /\ op.src.sum \in Map
      /\ op.src.gen \in Nat /\ op.src \in Cell
  BY <1>1, SpecialCells DEF OpType, SuperCell
<1>3. MaxDatabaseBytes > 1 /\ MaxDatabaseBytes \in Nat
  BY ImageAssumption DEF DATA_START
<1>4. ASSUME CompactMark
      PROVE  TypeInv'
  <2>1. flen \in Nat /\ flen < MaxDatabaseBytes /\ flen \in DATA_START .. MaxDatabaseBytes
    BY <1>1, <1>4, LayoutProps, ImageAssumption DEF CompactMark, DiskType, DATA_START
  <2>2. DiskType'
    BY <1>1, <1>4, <2>1, WriteCellType, TornCellType, SpecialCells DEF CompactMark
  <2>3. HandleType'
    BY <1>1, <1>4 DEF CompactMark, HandleType, handle, ghost
  <2>4. /\ op' = [NoOp EXCEPT !.end = flen, !.src = StagingPage, !.dst = RelocatedPage]
        /\ pc' \in {"compact_marker_write", "rollback"}
        /\ StagingFits
    BY <1>4 DEF CompactMark
  <2>5. StagingPage \in SuperCell /\ RelocatedPage \in SuperCell
    BY <1>1, <2>4, LayoutProps
  <2>6. /\ op' \in [end : Nat, batch : Overlay, src : SuperCell, dst : SuperCell]
        /\ op'.end = flen /\ op'.src = StagingPage /\ op'.dst = RelocatedPage
    BY ZenonT(60), <1>1, <2>1, <2>4, <2>5, PageTypes DEF NoOp
  <2>7. LayoutBounds'
    BY <1>1, <2>4, <2>6, LayoutProps DEF LayoutBounds
  <2>8. OpType'
    BY <2>1, <2>4, <2>6, <2>7 DEF OpType, ProgramPoints
  <2> QED
    BY <2>2, <2>3, <2>8, TypePartsPrimed
<1>5. ASSUME CompactStage
      PROVE  TypeInv'
  <2>1. LayoutBounds /\ op.end \in DATA_START .. MaxDatabaseBytes
    BY SMTT(60), <1>1, <1>5 DEF CompactStage, OpType, Compacting, Staging, Undoable
  <2>2. DiskType'
    BY <1>1, <1>2, <1>5, <2>1, BaseWriteType DEF CompactStage, LayoutBounds
  <2>3. Step("compact_base_write") \/ Step("rollback")
    BY <1>5 DEF CompactStage
  <2> QED
    BY <2>1, <2>2, <2>3, StepType DEF ProgramPoints
<1>6. ASSUME CompactStageSync
      PROVE  TypeInv'
  <2>1. LayoutBounds /\ op.end \in DATA_START .. MaxDatabaseBytes
    BY <1>1, <1>6 DEF CompactStageSync, OpType, Compacting, Staging, Undoable
  <2>2. DiskType'
    BY <1>1, <1>6, SyncType, SameDiskType DEF CompactStageSync
  <2>3. Step("compact_base_sync") \/ Step("rollback")
    BY <1>6 DEF CompactStageSync
  <2> QED
    BY <2>1, <2>2, <2>3, StepType DEF ProgramPoints
<1>7. ASSUME CompactPublish
      PROVE  TypeInv'
  <2>1. LayoutBounds
    BY SMTT(60), <1>1, <1>7 DEF CompactPublish, OpType, Compacting, Staging
  <2>2. DiskType'
    BY <1>1, <1>2, <1>3, <1>7, SlotProps, WriteCellType, TornCellType, SpecialCells
       DEF CompactPublish
  <2>3. CASE Step("compact_superblock_write")
    BY <2>1, <2>2, <2>3, StepType DEF ProgramPoints, Undoable
  <2> QED
    BY <1>7, <2>2, <2>3, ErrorReturnType DEF CompactPublish
<1>8. ASSUME CompactPublishSync
      PROVE  TypeInv'
  <2>1. LayoutBounds
    BY <1>1, <1>8 DEF CompactPublishSync, OpType, Compacting, Published
  <2>2. DiskType'
    BY <1>1, <1>8, SyncType, SameDiskType DEF CompactPublishSync
  <2>3. CASE Step("compact_superblock_sync")
    BY <2>1, <2>2, <2>3, StepType DEF ProgramPoints, Undoable
  <2> QED
    BY <1>8, <2>2, <2>3, ErrorReturnType DEF CompactPublishSync
<1>9. ASSUME CompactInstall
      PROVE  TypeInv'
  <2>1. LayoutBounds
    BY <1>1, <1>9 DEF CompactInstall, OpType, Compacting, Published
  <2>2. DiskType'
    BY <1>1, <1>9, SameDiskType DEF CompactInstall
  <2>3. CASE base' = op.src /\ overlay' = NoEntries /\ Goto("compact_installed")
             /\ UNCHANGED <<state, snaps, ghost>>
    <3>1. HandleType'
      BY SMTT(60), <1>1, <1>2, <2>3, NoEntriesType DEF HandleType, ghost
    <3>2. OpType'
      BY <1>1, <2>1, <2>3 DEF OpType, Goto, LayoutBounds, ProgramPoints, Undoable
    <3> QED
      BY <2>2, <3>1, <3>2, TypePartsPrimed
  <2> QED
    BY <1>9, <2>2, <2>3, ErrorReturnType DEF CompactInstall
<1> QED
  BY <1>4, <1>5, <1>6, <1>7, <1>8, <1>9

\* The second half of a compaction: relocation, the switch and the cut.
LEMMA RelocationType ==
    ASSUME TypeInv,
           \/ CompactRelocate \/ CompactRelocateMark \/ CompactRelocateSync
           \/ CompactSwitch \/ CompactSwitchSync \/ CompactCopy \/ CompactCopySync
           \/ CompactTruncate \/ CompactTruncateSync \/ CompactRemap
    PROVE  TypeInv'
<1>1. DiskType /\ HandleType /\ OpType /\ TypeOK
  BY TypeParts DEF TypeInv
<1>2. op.dst \in SuperCell /\ op.dst.sum \in Map /\ op.dst.gen \in Nat /\ op.dst \in Cell
      /\ op.dst.log \in Nat /\ op.src.off \in Nat /\ op.src.size \in Nat
  BY <1>1, SpecialCells DEF OpType, SuperCell
<1>3. MaxDatabaseBytes > 1 /\ MaxDatabaseBytes \in Nat
  BY ImageAssumption DEF DATA_START
<1>4. LayoutBounds
  BY ZenonT(60), <1>1 DEF OpType, Compacting, Relocating, Switched, Truncating, CompactRelocate,
     CompactRelocateMark, CompactRelocateSync, CompactSwitch, CompactSwitchSync, CompactCopy,
     CompactCopySync, CompactTruncate, CompactTruncateSync, CompactRemap
<1>5. /\ op.dst.log \in DATA_START .. MaxDatabaseBytes /\ op.dst.log < MaxDatabaseBytes
      /\ DATA_START + BaseSize(op.dst.sum) <= MaxDatabaseBytes
      /\ op.dst.log = DATA_START + BaseSize(op.dst.sum)
  BY <1>2, <1>3, <1>4, BaseSizeProps DEF LayoutBounds, DATA_START
<1>6. ASSUME NEW label \in ProgramPoints \ Undoable, Step(label), DiskType'
      PROVE  TypeInv'
  BY <1>4, <1>6, StepType
<1>7. ASSUME CompactRelocate
      PROVE  TypeInv'
  <2>1. DiskType'
    BY <1>1, <1>2, <1>4, <1>5, <1>7, BaseWriteType DEF CompactRelocate, LayoutBounds, DATA_START
  <2>2. CASE Step("compact_destination_base_write")
    BY <1>6, <2>1, <2>2 DEF ProgramPoints, Undoable
  <2> QED
    BY SMTT(60), <1>7, <2>1, <2>2, ErrorReturnType DEF CompactRelocate
<1>8. ASSUME CompactRelocateMark
      PROVE  TypeInv'
  <2>1. DiskType'
    BY <1>1, <1>2, <1>5, <1>8, WriteCellType, TornCellType, SpecialCells DEF CompactRelocateMark
  <2>2. CASE Step("compact_relocation_marker_write")
    BY <1>6, <2>1, <2>2 DEF ProgramPoints, Undoable
  <2> QED
    BY SMTT(60), <1>8, <2>1, <2>2, ErrorReturnType DEF CompactRelocateMark
<1>9. ASSUME CompactRelocateSync
      PROVE  TypeInv'
  <2>1. DiskType'
    BY <1>1, <1>9, SyncType, SameDiskType DEF CompactRelocateSync
  <2>2. CASE Step("compact_relocation_sync")
    BY <1>6, <2>1, <2>2 DEF ProgramPoints, Undoable
  <2> QED
    BY <1>9, <2>1, <2>2, ErrorReturnType DEF CompactRelocateSync
<1>10. ASSUME CompactSwitch
       PROVE  TypeInv'
  <2>1. DiskType'
    BY <1>1, <1>2, <1>3, <1>10, SlotProps, WriteCellType, TornCellType, SpecialCells
       DEF CompactSwitch
  <2>2. CASE Step("compact_destination_superblock_write")
    BY <1>6, <2>1, <2>2 DEF ProgramPoints, Undoable
  <2> QED
    BY SMTT(60), <1>10, <2>1, <2>2, ErrorReturnType DEF CompactSwitch
<1>11. ASSUME CompactSwitchSync
       PROVE  TypeInv'
  <2>1. DiskType'
    BY <1>1, <1>11, SyncType, SameDiskType DEF CompactSwitchSync
  <2>2. CASE Step("compact_destination_superblock_sync")
    BY <1>6, <2>1, <2>2 DEF ProgramPoints, Undoable
  <2> QED
    BY <1>11, <2>1, <2>2, ErrorReturnType DEF CompactSwitchSync
<1>12. ASSUME CompactCopy
       PROVE  TypeInv'
  <2>1. DiskType'
    BY <1>1, <1>2, <1>3, <1>12, SlotProps, WriteCellType, TornCellType, SpecialCells
       DEF CompactCopy
  <2>2. CASE Step("compact_redundant_superblock_write")
    BY <1>6, <2>1, <2>2 DEF ProgramPoints, Undoable
  <2> QED
    BY SMTT(60), <1>12, <2>1, <2>2, ErrorReturnType DEF CompactCopy
<1>13. ASSUME CompactCopySync
       PROVE  TypeInv'
  <2>1. DiskType'
    BY <1>1, <1>13, SyncType, SameDiskType DEF CompactCopySync
  <2>2. CASE Step("compact_redundant_superblock_sync")
    BY <1>6, <2>1, <2>2 DEF ProgramPoints, Undoable
  <2> QED
    BY <1>13, <2>1, <2>2, ErrorReturnType DEF CompactCopySync
<1>14. ASSUME CompactTruncate
       PROVE  TypeInv'
  <2>1. DiskType'
    BY SMTT(60), <1>1, <1>5, <1>14, SetLenType, SameDiskType DEF CompactTruncate
  <2>2. HandleType'
    BY <1>1, <1>2, <1>14, PageTypes DEF CompactTruncate, HandleType, ghost
  <2>3. CASE Goto("compact_truncate")
    <3>1. OpType'
      BY <1>1, <1>4, <2>3 DEF OpType, Goto, LayoutBounds, ProgramPoints, Undoable
    <3> QED
      BY SMTT(60), <2>1, <2>2, <3>1, TypePartsPrimed
  <2> QED
    BY SMTT(60), <1>14, <2>1, <2>2, <2>3, ReturnType DEF CompactTruncate
<1>15. ASSUME CompactTruncateSync
       PROVE  TypeInv'
  <2>1. CASE Sync /\ Step("compact_truncate_sync")
    BY <1>1, <1>6, <2>1, SyncType DEF ProgramPoints, Undoable
  <2>2. CASE UNCHANGED <<disk, handle, snaps, ghost>> /\ Return
    <3>1. DiskType' /\ HandleType'
      BY <1>1, <2>2, SameDiskType DEF handle, ghost, HandleType
    <3> QED
      BY <2>2, <3>1, ReturnType
  <2> QED
    BY <1>15, <2>1, <2>2 DEF CompactTruncateSync
<1>16. ASSUME CompactRemap
       PROVE  TypeInv'
  <2>1. DiskType'
    BY SMTT(60), <1>1, <1>16, SameDiskType DEF CompactRemap
  <2>2. HandleType'
    BY <1>1, <1>2, <1>16 DEF CompactRemap, HandleType, ghost
  <2> QED
    BY <1>16, <2>1, <2>2, ReturnType DEF CompactRemap
<1> QED
  BY <1>7, <1>8, <1>9, <1>10, <1>11, <1>12, <1>13, <1>14, <1>15, <1>16

\* What a power loss leaves is a file of cells.
LEMMA PowerFailType ==
    ASSUME DiskType, PowerFail
    PROVE  DiskType'
<1>1. flen' \in DATA_START .. MaxDatabaseBytes
  BY DEF PowerFail, DiskType
<1>2. PICK g \in Survivors(flen') : file' = AfterPowerLoss(flen', g)
  BY DEF PowerFail
<1>3. \A o \in DOMAIN g : o \in Offsets => g[o] \in Cell
  <2>1. DOMAIN g = Unsynced(flen')
    BY <1>2 DEF Survivors
  <2>2. \A o \in Unsynced(flen') : g[o] \in dur[o] \/ g[o] = Short
    BY <1>2 DEF Survivors
  <2> QED
    BY <2>1, <2>2, SpecialCells DEF DiskType
<1>4. file' \in [Offsets -> Cell]
  BY <1>2, <1>3, SpecialCells DEF AfterPowerLoss, DiskType
<1>5. dur' \in [Offsets -> SUBSET Cell] /\ durLen' \in SUBSET (DATA_START .. MaxDatabaseBytes)
  BY <1>1, <1>4 DEF PowerFail
<1> QED
  BY <1>1, <1>4, <1>5 DEF DiskType

\* Opening, closing, dying, and taking and dropping snapshots.
LEMMA LifecycleType ==
    ASSUME TypeInv,
           \/ Open \/ OpenSync \/ OpenRejected \/ Close \/ Kill \/ PowerFail
           \/ TakeSnapshot \/ DropSnapshot
    PROVE  TypeInv'
<1> DEFINE Snap == [id : Nat, own : BOOLEAN, base : SuperCell, log : LogImage]
<1>1. DiskType /\ HandleType /\ OpType /\ TypeOK
  BY SMTT(60), TypeParts DEF TypeInv
<1>2. ASSUME base' \in SuperCell, overlay' \in Overlay, Settle
      PROVE  acked' \in Map /\ maybe' \in SUBSET Map
  BY <1>1, <1>2, ApplyType DEF Settle, ghost, HandleType, SuperCell
<1>3. ASSUME Open
      PROVE  TypeInv'
  <2> DEFINE s == read_latest_from(file, flen)
             e == ScanEnd(file, flen, s.log)
  <2>1. s \in SuperCell /\ e \in DATA_START .. flen /\ ScannedOverlay(file, s.log, e) \in Overlay
    BY SMTT(60), <1>1, <1>3, OpenTypes DEF Open
  <2>2. base' = s /\ overlay' = ScannedOverlay(file, s.log, e) /\ snaps' = snaps /\ op' = op
    BY SMTT(60), <1>3 DEF Open
  <2>3. \/ e = flen /\ state' = "Healthy" /\ UNCHANGED <<disk, pc>> /\ Settle
        \/ /\ e < flen /\ state' = "Opening" /\ pc' = "open_truncate"
           /\ SetLen(e) /\ UNCHANGED ghost
    BY <1>3 DEF Open
  <2> HIDE DEF s, e
  <2>4. e \in DATA_START .. MaxDatabaseBytes
    BY <1>1, <2>1, ImageAssumption DEF DiskType, DATA_START
  <2>5. DiskType'
    BY <1>1, <2>3, <2>4, SetLenType, SameDiskType
  <2>6. HandleType'
    BY SMTT(60), <1>1, <1>2, <2>1, <2>2, <2>3 DEF HandleType, ghost
  <2>7. OpType'
    <3>1. pc' = pc \/ pc' = "open_truncate"
      BY <2>3
    <3> QED
      BY <1>1, <2>2, <3>1, PointSets DEF OpType, LayoutBounds
  <2> QED
    BY SMTT(60), <2>5, <2>6, <2>7, TypePartsPrimed
<1>4. ASSUME OpenSync
      PROVE  TypeInv'
  <2>1. CASE Sync /\ state' = "Healthy" /\ UNCHANGED <<base, overlay>> /\ Return /\ Settle
    <3>1. DiskType'
      BY <1>1, <2>1, SyncType
    <3>2. HandleType'
      BY <1>1, <1>2, <1>4, <2>1 DEF OpenSync, HandleType
    <3> QED
      BY <2>1, <3>1, <3>2, ReturnType
  <2>2. CASE UNCHANGED <<disk, ghost>> /\ NoHandle
    <3>1. DiskType' /\ snaps' \in SUBSET Snap
      BY SMTT(60), <1>1, <1>4, <2>2, SameDiskType DEF OpenSync, HandleType
    <3> QED
      BY <2>2, <3>1, NoHandleType
  <2> QED
    BY <1>4, <2>1, <2>2 DEF OpenSync
<1>5. ASSUME OpenRejected
      PROVE  TypeInv'
  BY <1>5 DEF OpenRejected, vars, TypeInv, TypeOK, LayoutBounds
<1>6. ASSUME Close
      PROVE  TypeInv'
  <2>1. snaps' \in SUBSET Snap
    <3>1. \A s \in Snap : [s EXCEPT !.own = FALSE] \in Snap
      BY ZenonT(60)
    <3> QED
      BY <1>1, <1>6, <3>1 DEF Close, HandleType
  <2> QED
    BY <1>1, <1>6, <2>1, SameDiskType, NoHandleType DEF Close
<1>7. ASSUME Kill
      PROVE  TypeInv'
  BY <1>1, <1>7, SameDiskType, NoHandleType DEF Kill
<1>8. ASSUME PowerFail
      PROVE  TypeInv'
  <2>1. DiskType'
    BY <1>1, <1>8, PowerFailType
  <2> QED
    BY <1>8, <2>1, NoHandleType DEF PowerFail
<1>9. ASSUME TakeSnapshot \/ DropSnapshot
      PROVE  TypeInv'
  <2>1. snaps' \in SUBSET Snap
    <3>1. CASE TakeSnapshot
      <4>1. PICK id \in 1 .. MaxSnapshots :
                snaps' = snaps \cup
                    {[id |-> id, own |-> TRUE, base |-> base,
                      log |-> [o \in base.log .. (flen - 1) |-> file[o]]]}
        BY <3>1 DEF TakeSnapshot
      <4>2. base.log .. (flen - 1) \in SUBSET Offsets
        BY <1>1, ImageAssumption DEF HandleType, DiskType, SuperCell, Offsets, DATA_START
      <4>3. [o \in base.log .. (flen - 1) |-> file[o]] \in LogImage
        <5> DEFINE D == base.log .. (flen - 1)
        <5>1. D \in SUBSET Offsets
          BY <4>2
        <5> HIDE DEF D
        <5>2. [o \in D |-> file[o]] \in [D -> Cell]
          BY <1>1, <5>1 DEF DiskType
        <5>3. [o \in D |-> file[o]] \in LogImage
          BY <5>1, <5>2, Zenon DEF LogImage
        <5> QED
          BY <5>3 DEF D
      <4>4. [id |-> id, own |-> TRUE, base |-> base,
             log |-> [o \in base.log .. (flen - 1) |-> file[o]]] \in Snap
        BY <1>1, <4>3, DatabaseAssumption DEF HandleType
      <4> QED
        BY ZenonT(60), <1>1, <4>1, <4>4 DEF HandleType
    <3>2. CASE DropSnapshot
      BY SMTT(60), <1>1, <3>2 DEF DropSnapshot, HandleType
    <3> QED
      BY <1>9, <3>1, <3>2
  <2>2. UNCHANGED <<disk, handle, pc, op, ghost>>
    BY SMTT(60), <1>9 DEF TakeSnapshot, DropSnapshot
  <2>3. DiskType' /\ HandleType' /\ OpType'
    BY <1>1, <2>1, <2>2, SameDiskType DEF handle, ghost, HandleType, OpType, LayoutBounds
  <2> QED
    BY <2>3, TypePartsPrimed
<1> QED
  BY <1>3, <1>4, <1>5, <1>6, <1>7, <1>8, <1>9

\* A fresh file.
LEMMA InitType ==
    ASSUME Init
    PROVE  TypeInv
<1> DEFINE page == Superblock(1, DATA_START, EMPTY_SEGMENT_SIZE,
                              DATA_START + EMPTY_SEGMENT_SIZE, EmptyMap)
<1>1. page \in SuperCell /\ page \in Cell
  BY SMTT(60), EmptyMapType, SpecialCells DEF Superblock, SuperCell, DATA_START, EMPTY_SEGMENT_SIZE
<1>2. BaseCell(DATA_START, EmptyMap, 0) \in Cell
  BY SMTT(60), EmptyMapType DEF BaseCell, Cell, DATA_START
<1>3. file \in [Offsets -> Cell]
  BY <1>1, <1>2, SpecialCells DEF Init
<1>4. flen \in DATA_START .. MaxDatabaseBytes
  BY SMTT(60), ImageAssumption DEF Init, DATA_START, EMPTY_SEGMENT_SIZE
<1>5. DiskType
  BY SMTT(60), <1>3, <1>4 DEF Init, DiskType
<1>6. base = page /\ HandleType
  BY SMTT(60), <1>1, EmptyMapType, NoEntriesType DEF Init, HandleType
<1>7. NoOp \in [end : Nat, batch : Overlay, src : SuperCell, dst : SuperCell]
  BY EmptyMapType, NoEntriesType DEF NoOp, NoPage, Superblock, SuperCell
<1>8. OpType
  BY <1>7, PointSets DEF Init, OpType
<1> QED
  BY SMTT(60), <1>5, <1>6, <1>8, TypeParts

\* Every step of every operation keeps TypeInv.
LEMMA TypeStep ==
    ASSUME TypeInv, [Next]_vars
    PROVE  TypeInv'
<1>1. CASE UNCHANGED vars
  BY <1>1 DEF vars, TypeInv, TypeOK, LayoutBounds
<1> QED
  BY SMTT(60), <1>1, CommitType, StagingType, RelocationType, LifecycleType DEF Next, OtherSteps, Compact

\* In every state, whatever fails: every variable has its type, and no commit,
\* rollback or compaction takes the file past max_database_bytes.
THEOREM TypeCorrect == Spec => []TypeOK
<1>1. Init => TypeInv
  BY InitType
<1>2. TypeInv /\ [Next]_vars => TypeInv'
  BY TypeStep
<1>3. TypeInv => TypeOK
  BY DEF TypeInv
<1> QED
  BY <1>1, <1>2, <1>3, PTL DEF Spec

-----------------------------------------------------------------------------
(* The Superblock pages: which steps write them, and what is durable then. *)

\* A step leaves page p alone.
PageSame(p) == file'[p] = file[p] /\ dur'[p] = dur[p]

PagesSame == PageSame(0) /\ PageSame(1)

\* A step leaves both pages as they are, and durable.
PagesSynced ==
    /\ file'[0] = file[0] /\ dur'[0] = {file[0]}
    /\ file'[1] = file[1] /\ dur'[1] = {file[1]}

\* Both pages are offsets of every file.
LEMMA PageOffsets == 0 \in Offsets /\ 1 \in Offsets
BY ImageAssumption DEF Offsets, DATA_START

\* A write that does not touch page p leaves it alone.
LEMMA WriteElsewhere ==
    ASSUME NEW p \in {0, 1}, NEW w, p \notin DOMAIN w, NEW end, WriteCells(w, end)
    PROVE  PageSame(p)
BY PageOffsets DEF WriteCells, PageSame

\* A cell, written or torn, at another offset leaves page p alone.
LEMMA CellElsewhere ==
    ASSUME NEW p \in {0, 1}, NEW o, o # p, NEW c, NEW torn,
           WriteCell(o, c) \/ TornCell(o, c, torn)
    PROVE  PageSame(p)
<1>1. CASE UNCHANGED disk
  BY <1>1 DEF disk, PageSame
<1>2. ASSUME NEW x, WriteCell(o, x) PROVE PageSame(p)
  <2>1. p \notin DOMAIN [y \in {o} |-> x]
    OBVIOUS
  <2> QED
    BY <1>2, <2>1, WriteElsewhere DEF WriteCell
<1> QED
  BY <1>1, <1>2 DEF TornCell

\* A Base, whole or torn, leaves both pages alone.
LEMMA BaseElsewhere ==
    ASSUME NEW off \in Nat, off >= DATA_START, NEW m \in Map, NEW end,
           \/ WriteCells(BaseCells(off, m), end)
           \/ TornBase(BaseCells(off, m), off, BaseSize(m))
    PROVE  PagesSame
<1> DEFINE w == BaseCells(off, m)
           size == BaseSize(m)
<1>1. size \in Nat
  BY BaseSizeProps
<1>2. CASE UNCHANGED disk
  BY <1>2 DEF disk, PagesSame, PageSame
<1>3. CASE WriteCells(w, end)
  <2>1. \A p \in {0, 1} : p \notin DOMAIN w
    BY <1>1 DEF BaseCells, DATA_START
  <2> QED
    BY <1>3, <2>1, WriteElsewhere DEF PagesSame
<1>4. CASE TornBase(w, off, size) /\ ~UNCHANGED disk
  <2>1. PICK j \in 1 .. size :
            LET hit == IF j = size THEN off ELSE off + j
                e == IF j = size THEN off + size ELSE off + j + 1
            IN  \E c \in {Garbage, w[hit]} :
                    WriteCells([o \in ((off + 1) .. (off + j - 1)) \cup {hit} |->
                                   IF o = hit THEN c ELSE w[o]], e)
    BY <1>4, Zenon DEF TornBase
  <2> DEFINE hit == IF j = size THEN off ELSE off + j
             D == ((off + 1) .. (off + j - 1)) \cup {hit}
  <2>2. PICK c, e : WriteCells([o \in D |-> IF o = hit THEN c ELSE w[o]], e)
    BY <2>1, Zenon
  <2>3. \A p \in {0, 1} : p \notin D
    BY <1>1 DEF DATA_START
  <2> HIDE DEF D, hit
  <2>4. \A p \in {0, 1} : p \notin DOMAIN [o \in D |-> IF o = hit THEN c ELSE w[o]]
    BY <2>3
  <2> QED
    BY <2>2, <2>4, WriteElsewhere DEF PagesSame
<1> QED
  BY <1>2, <1>3, <1>4

\* Cutting the file behind the pages leaves them alone.
LEMMA CutElsewhere ==
    ASSUME NEW n \in DATA_START .. MaxDatabaseBytes
    PROVE  (SetLen(n) => PagesSame) /\ (SetLenSynced(n) => PagesSynced)
BY PageOffsets, ImageAssumption
   DEF SetLen, SetLenSynced, PagesSame, PageSame, PagesSynced, DATA_START

\* A sync.
LEMMA SyncPages ==
    ASSUME Sync
    PROVE  PagesSynced
BY PageOffsets DEF Sync, PagesSynced

\* A step that leaves the file alone.
LEMMA SamePages ==
    ASSUME UNCHANGED disk
    PROVE  PagesSame
BY DEF disk, PagesSame, PageSame

\* The steps of a commit, a rollback and the staging of a compaction write no page.
LEMMA QuietSteps ==
    ASSUME TypeInv,
           \/ Commit \/ Rollback \/ CompactMark \/ CompactStage
           \/ CompactRelocate \/ CompactRelocateMark \/ CompactTruncate
    PROVE  (PagesSame /\ pc' \notin BeforePage) \/ PagesSynced
<1>1. DiskType /\ OpType /\ flen \in Nat /\ \A p \in {0, 1} : flen # p
  BY TypeParts, ImageAssumption DEF DiskType, DATA_START
<1>2. op.src.off \in Nat /\ op.src.sum \in Map /\ op.dst.sum \in Map
  BY <1>1 DEF OpType, SuperCell
<1>3. CASE Commit
  <2>1. ASSUME NEW b \in Batch, CommitAppend(b)
        PROVE  PagesSame /\ pc' \notin BeforePage
    BY <1>1, <2>1, CellElsewhere, Zenon DEF CommitAppend, PagesSame, BeforePage
  <2>2. CASE CommitSync
    BY <2>2, SyncPages, SamePages DEF CommitSync, Step, Goto, BeforePage
  <2>3. CASE CommitPublish
    BY <2>3, SamePages DEF CommitPublish, disk, Return, Goto, BeforePage
  <2> QED
    BY <1>3, <2>1, <2>2, <2>3 DEF Commit
<1>4. CASE Rollback
  <2>1. op.end \in DATA_START .. MaxDatabaseBytes
    BY <1>1, <1>4 DEF Rollback, OpType, Undoable
  <2> QED
    BY <1>4, <2>1, CutElsewhere, SamePages DEF Rollback, PoisonAndReturn, Return, BeforePage
<1>5. CASE CompactMark
  BY <1>1, <1>5, CellElsewhere, Zenon DEF CompactMark, PagesSame, BeforePage
<1>6. pc \in Compacting => LayoutBounds
  BY <1>1 DEF OpType
<1>7. CASE CompactStage
  <2>1. LayoutBounds
    BY <1>6, <1>7 DEF CompactStage, Compacting, Staging
  <2>2. op.src.off >= DATA_START /\ op.src.size = BaseSize(op.src.sum)
    BY <1>2, <2>1, BaseSizeProps DEF LayoutBounds, DATA_START
  <2>3. PagesSame
    BY <1>2, <1>7, <2>2, BaseElsewhere DEF CompactStage
  <2> QED
    BY <1>7, <2>3 DEF CompactStage, Step, Goto, BeforePage
<1>8. CASE CompactRelocate
  <2>1. LayoutBounds
    BY <1>6, <1>8 DEF CompactRelocate, Compacting, Relocating
  <2>2. DATA_START \in Nat /\ op.dst.size = BaseSize(op.dst.sum)
    BY <2>1 DEF LayoutBounds, DATA_START
  <2>3. PagesSame
    BY <1>2, <1>8, <2>2, BaseElsewhere DEF CompactRelocate
  <2> QED
    BY <1>8, <2>3 DEF CompactRelocate, Step, Goto, GiveUpRelocation, Return, BeforePage
<1>9. ASSUME pc \in Relocating \cup Switched
      PROVE  op.dst.log \in DATA_START .. MaxDatabaseBytes
  <2>1. LayoutBounds
    BY <1>6, <1>9 DEF Compacting
  <2> QED
    BY <1>1, <1>2, <2>1, BaseSizeProps, ImageAssumption DEF LayoutBounds, DATA_START, OpType, SuperCell
<1>10. CASE CompactRelocateMark
  <2>1. \A p \in {0, 1} : op.dst.log # p
    BY <1>9, <1>10 DEF CompactRelocateMark, Relocating, DATA_START
  <2>2. PagesSame
    BY <1>10, <2>1, CellElsewhere DEF CompactRelocateMark, PagesSame
  <2> QED
    BY <1>10, <2>2 DEF CompactRelocateMark, Step, Goto, GiveUpRelocation, Return, BeforePage
<1>11. CASE CompactTruncate
  <2>1. op.dst.log \in DATA_START .. MaxDatabaseBytes
    BY <1>9, <1>11 DEF CompactTruncate, Switched
  <2> QED
    BY <1>11, <2>1, CutElsewhere, SamePages DEF CompactTruncate, Goto, Return, BeforePage
<1> QED
  BY <1>3, <1>4, <1>5, <1>7, <1>8, <1>10, <1>11

\* The steps of a compaction that synchronize or leave the file alone.
LEMMA SyncSteps ==
    ASSUME \/ CompactStageSync \/ CompactPublishSync \/ CompactInstall
           \/ CompactRelocateSync \/ CompactSwitchSync \/ CompactCopySync
           \/ CompactTruncateSync \/ CompactRemap
    PROVE  (PagesSame /\ pc' \notin BeforePage) \/ PagesSynced
<1>1. CASE Sync
  BY <1>1, SyncPages
<1>2. CASE ~Sync
  <2>1. UNCHANGED disk
    BY ZenonT(60), <1>2
       DEF CompactStageSync, CompactPublishSync, CompactInstall, CompactRelocateSync,
           CompactSwitchSync, CompactCopySync, CompactTruncateSync, CompactRemap
  <2>2. pc' \in {"rollback", "idle", "compact_installed"}
    BY ZenonT(60), <1>2
       DEF CompactStageSync, CompactPublishSync, CompactInstall, CompactRelocateSync,
           CompactSwitchSync, CompactCopySync, CompactTruncateSync, CompactRemap,
           Step, Goto, Return, PoisonAndReturn, GiveUpRelocation
  <2> QED
    BY <2>1, <2>2, SamePages DEF BeforePage
<1> QED
  BY <1>1, <1>2

\* Opening, closing, dying and snapshots.
LEMMA HandleSteps ==
    ASSUME TypeInv, TypeInv',
           \/ Open \/ OpenSync \/ OpenRejected \/ Close \/ Kill
           \/ TakeSnapshot \/ DropSnapshot
    PROVE  (PagesSame /\ (pc' \in BeforePage => pc' = pc)) \/ PagesSynced
<1>1. flen' \in DATA_START .. MaxDatabaseBytes
  BY TypePartsPrimed DEF DiskType
<1>2. CASE Open
  <2>1. \/ UNCHANGED <<disk, pc>>
        \/ \E e : SetLen(e) /\ pc' = "open_truncate"
    BY <1>2 DEF Open
  <2>2. ASSUME NEW e, SetLen(e) PROVE PagesSame
    BY <1>1, <2>2, CutElsewhere DEF SetLen
  <2> QED
    BY <2>1, <2>2, SamePages DEF BeforePage
<1>3. CASE OpenSync
  BY <1>3, SyncPages, SamePages DEF OpenSync, NoHandle, Return, BeforePage
<1>4. CASE Close \/ Kill
  BY <1>4, SamePages DEF Close, Kill, NoHandle, Return, BeforePage
<1>5. CASE OpenRejected
  BY <1>5 DEF OpenRejected, vars, PagesSame, PageSame
<1>6. CASE TakeSnapshot \/ DropSnapshot
  BY <1>6, SamePages DEF TakeSnapshot, DropSnapshot
<1> QED
  BY <1>2, <1>3, <1>4, <1>5, <1>6

\* compact_file writes one page at a time, and between two page writes there is
\* a sync.
LEMMA PageWrites ==
    ASSUME TypeInv, CompactPublish \/ CompactSwitch \/ CompactCopy
    PROVE  /\ pc \in BeforePage /\ pc' \notin BeforePage
           /\ CompactPublish => PageSame(RedundantSlot(op.src.gen))
           /\ CompactSwitch => PageSame(RedundantSlot(op.dst.gen))
           /\ CompactCopy => PageSame(Slot(op.dst.gen))
<1>1. op.src.gen \in Nat /\ op.dst.gen \in Nat
  BY TypeParts DEF OpType, SuperCell
<1>2. \A g \in Nat : /\ Slot(g) \in {0, 1} /\ RedundantSlot(g) \in {0, 1}
                     /\ Slot(g) # RedundantSlot(g)
  BY SlotProps
<1>3. pc \in BeforePage /\ pc' \notin BeforePage
  BY ZenonT(60) DEF CompactPublish, CompactSwitch, CompactCopy, BeforePage, Step, Goto,
                    PoisonAndReturn, Return
<1>4. CompactPublish => PageSame(RedundantSlot(op.src.gen))
  BY <1>1, <1>2, CellElsewhere DEF CompactPublish
<1>5. CompactSwitch => PageSame(RedundantSlot(op.dst.gen))
  BY <1>1, <1>2, CellElsewhere DEF CompactSwitch
<1>6. CompactCopy => PageSame(Slot(op.dst.gen))
  BY <1>1, <1>2, CellElsewhere DEF CompactCopy
<1> QED
  BY <1>3, <1>4, <1>5, <1>6

\* Every step, sorted by what it does to the pages.
LEMMA PageSteps ==
    ASSUME TypeInv, [Next]_vars
    PROVE  \/ PagesSame /\ (pc' \in BeforePage => pc' = pc)
           \/ PagesSynced
           \/ CompactPublish \/ CompactSwitch \/ CompactCopy
           \/ PowerFail
<1>1. TypeInv'
  BY TypeStep
<1>2. CASE UNCHANGED vars
  BY <1>2 DEF vars, PagesSame, PageSame
<1> QED
  BY <1>1, <1>2, QuietSteps, SyncSteps, HandleSteps DEF Next, OtherSteps, Compact

\* PageInv is inductive.
LEMMA PageStep ==
    ASSUME TypeInv, PageInv, [Next]_vars
    PROVE  PageInv'
<1>1. CASE PagesSame /\ (pc' \in BeforePage => pc' = pc)
  BY <1>1 DEF PageInv, OnePageInFlight, PagesSame, PageSame
<1>2. CASE PagesSynced
  BY <1>2 DEF PageInv, OnePageInFlight, PagesSynced
<1>3. CASE CompactPublish \/ CompactSwitch \/ CompactCopy
  <2>1. \E p \in {0, 1} : PageSame(p)
    BY <1>3, PageWrites, TypeParts, SlotProps DEF OpType, SuperCell
  <2>2. dur[0] = {file[0]} /\ dur[1] = {file[1]} /\ pc' \notin BeforePage
    BY <1>3, PageWrites, Zenon DEF PageInv
  <2> QED
    BY <2>1, <2>2 DEF PageInv, OnePageInFlight, PageSame
<1>4. CASE PowerFail
  BY <1>4, PageOffsets DEF PowerFail, PageInv, OnePageInFlight
<1> QED
  BY <1>1, <1>2, <1>3, <1>4, PageSteps

\* Whatever fails, power included, at most one Superblock page is not yet on the
\* medium: compact_file synchronizes between any two page writes, and an open
\* after a crash writes no page before the sync of its first compaction.
THEOREM PagesOneAtATime == Spec => []OnePageInFlight
<1>1. Init => TypeInv /\ PageInv
  <2>1. Init => PageInv
    BY PageOffsets DEF Init, PageInv, OnePageInFlight, BeforePage
  <2> QED
    BY <2>1, InitType
<1>2. TypeInv /\ PageInv /\ [Next]_vars => (TypeInv /\ PageInv)'
  BY TypeStep, PageStep
<1>3. PageInv => OnePageInFlight
  BY DEF PageInv
<1> QED
  BY <1>1, <1>2, <1>3, PTL DEF Spec

-----------------------------------------------------------------------------
(* How a step writes the file, and how it comes behind the copied page.    *)

\* What a step does to the file.
LEMMA DiskSteps ==
    ASSUME [Next]_vars
    PROVE  \/ \E w, end : WriteCells(w, end)
           \/ Sync
           \/ \E n : SetLen(n) \/ SetLenSynced(n)
           \/ UNCHANGED disk
           \/ PowerFail
<1> DEFINE Moves == \/ \E w, end : WriteCells(w, end)
                    \/ Sync
                    \/ \E n : SetLen(n) \/ SetLenSynced(n)
                    \/ UNCHANGED disk
                    \/ PowerFail
<1> SUFFICES Moves
  OBVIOUS
<1>1. \A o, c : WriteCell(o, c) => Moves
  BY Zenon DEF WriteCell
<1> USE <1>1
<1>2. \A o, c, t : TornCell(o, c, t) => Moves
  BY Zenon DEF TornCell
<1> USE <1>2
<1>3. ASSUME NEW w, NEW off, NEW size, TornBase(w, off, size)
      PROVE  Moves
  BY ZenonT(60), <1>3 DEF TornBase
<1>4. \A w, end : WriteCells(w, end) => Moves
  BY Zenon
<1>5. (Sync => Moves) /\ (UNCHANGED disk => Moves)
      /\ \A n : (SetLen(n) => Moves) /\ (SetLenSynced(n) => Moves)
  BY Zenon
<1> USE <1>5
<1> HIDE DEF Moves
<1>6. CASE Commit \/ Rollback
  <2>1. ASSUME NEW b \in Batch, CommitAppend(b) PROVE Moves
    BY Zenon, <2>1 DEF CommitAppend
  <2>2. CASE CommitSync \/ CommitPublish
    BY Zenon, <2>2 DEF CommitSync, CommitPublish, disk
  <2>3. CASE Rollback
    BY Zenon, <2>3 DEF Rollback
  <2> QED
    BY Zenon, <1>6, <2>1, <2>2, <2>3 DEF Commit
<1>7. CASE Compact
  <2>1. CASE CompactMark
    BY Zenon, <2>1 DEF CompactMark
  <2>2. CASE CompactStage
    BY Zenon, <1>3, <1>4, <2>2 DEF CompactStage
  <2>3. CASE CompactPublish
    BY Zenon, <2>3 DEF CompactPublish
  <2>4. CASE CompactStageSync \/ CompactPublishSync \/ CompactInstall
    BY Zenon, <2>4 DEF CompactStageSync, CompactPublishSync, CompactInstall, disk
  <2>5. CASE CompactRelocate
    BY Zenon, <1>3, <1>4, <2>5 DEF CompactRelocate
  <2>6. CASE CompactRelocateMark
    BY Zenon, <2>6 DEF CompactRelocateMark
  <2>7. CASE CompactSwitch
    BY Zenon, <2>7 DEF CompactSwitch
  <2>8. CASE CompactRelocateSync \/ CompactSwitchSync \/ CompactCopySync
    BY Zenon, <2>8 DEF CompactRelocateSync, CompactSwitchSync, CompactCopySync
  <2>9. CASE CompactCopy
    BY Zenon, <2>9 DEF CompactCopy
  <2>10. CASE CompactTruncate
    BY Zenon, <2>10 DEF CompactTruncate
  <2>11. CASE CompactTruncateSync \/ CompactRemap
    BY Zenon, <2>11 DEF CompactTruncateSync, CompactRemap, disk
  <2> QED
    BY Zenon, <1>7, <2>1, <2>2, <2>3, <2>4, <2>5, <2>6, <2>7, <2>8, <2>9, <2>10, <2>11
       DEF Compact
<1>8. CASE Open \/ OpenSync \/ OpenRejected \/ Close \/ Kill \/ TakeSnapshot \/ DropSnapshot
           \/ UNCHANGED vars
  <2>1. CASE Open
    BY Zenon, <2>1 DEF Open
  <2>2. CASE OpenSync
    BY Zenon, <2>2 DEF OpenSync, disk
  <2>3. CASE OpenRejected \/ UNCHANGED vars
    BY Zenon, <2>3 DEF OpenRejected, vars, disk
  <2>4. CASE Close \/ Kill \/ TakeSnapshot \/ DropSnapshot
    BY Zenon, <2>4 DEF Close, Kill, TakeSnapshot, DropSnapshot, disk
  <2> QED
    BY Zenon, <1>8, <2>1, <2>2, <2>3, <2>4
<1>9. PowerFail => Moves
  BY Zenon DEF Moves
<1> QED
  BY Zenon, <1>6, <1>7, <1>8, <1>9 DEF Next, OtherSteps

\* How a step comes to a point behind the copy of the relocated page.
LEMMA CopiedMoves ==
    ASSUME [Next]_vars, pc' \in Copied
    PROVE  \/ CompactCopy /\ Step("compact_redundant_superblock_write")
           \/ pc \in Copied /\ op' = op
<1> USE DEF Copied, Truncating
<1>1. CASE UNCHANGED vars
  BY ZenonT(60), <1>1 DEF vars
<1>2. CASE Commit \/ Rollback
  BY ZenonT(60), <1>2 DEF Commit, CommitAppend, CommitSync, CommitPublish, Rollback, PoisonAndReturn,
                Return, Step, Goto
<1>3. CASE CompactMark \/ CompactStage \/ CompactStageSync \/ CompactPublish \/ CompactPublishSync
           \/ CompactInstall
  BY ZenonT(60), <1>3 DEF CompactMark, CompactStage, CompactStageSync, CompactPublish,
                CompactPublishSync, CompactInstall, PoisonAndReturn, Return, Step, Goto
<1>4. CASE CompactRelocate \/ CompactRelocateMark \/ CompactRelocateSync \/ CompactSwitch
           \/ CompactSwitchSync
  BY ZenonT(60), <1>4 DEF CompactRelocate, CompactRelocateMark, CompactRelocateSync, CompactSwitch,
                CompactSwitchSync, PoisonAndReturn, GiveUpRelocation, Return, Step, Goto
<1>5. CASE CompactCopy \/ CompactCopySync
  BY ZenonT(60), <1>5 DEF CompactCopy, CompactCopySync, PoisonAndReturn, Return, Step, Goto
<1>6. CASE CompactTruncate \/ CompactTruncateSync \/ CompactRemap
  BY ZenonT(60), <1>6 DEF CompactTruncate, CompactTruncateSync, CompactRemap, Return, Step, Goto
<1>7. CASE Open \/ OpenSync \/ OpenRejected
  BY ZenonT(60), <1>7 DEF Open, OpenSync, OpenRejected, NoHandle, Return, vars
<1>8. CASE Close \/ Kill \/ PowerFail \/ TakeSnapshot \/ DropSnapshot
  BY ZenonT(60), <1>8 DEF Close, Kill, PowerFail, NoHandle, Return, TakeSnapshot, DropSnapshot
<1> QED
  BY ZenonT(60), <1>1, <1>2, <1>3, <1>4, <1>5, <1>6, <1>7, <1>8 DEF Next, OtherSteps, Compact
=============================================================================
