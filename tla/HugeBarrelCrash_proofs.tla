---------------------- MODULE HugeBarrelCrash_proofs ----------------------
(***************************************************************************)
(* Proof that no durable write of a HugeBarrel takes from barrel1 a key that  *)
(* it had.  Every disk that an operation goes through is described by a view: *)
(* which list of ranges and which split it has, within which bounds each     *)
(* RangeKeyDir lies, and what its entries may answer.  A view under which    *)
(* the next open answers no worse is right, and each operation is followed   *)
(* from one right view to the next.                                        *)
(***************************************************************************)
EXTENDS HugeBarrel_proofs

-----------------------------------------------------------------------------
(* Views of a disk.                                                          *)

\* The bounds of a RangeKeyDir lie within a range; and its entries answer, for each key of the
\* range, one of the values in V.
Inner(b, r)    == \A k \in Key : Covers(r, k) => Covers(b, k)
Tight(b, r, V) == Inner(b, r) /\ \A k \in Key : Covers(b, k) => Answer(r.entries, k) \in V[k]

\* A view w has the list, the split and the files of a disk, names that must (least) and that may
\* (only) be there, ranges (over), and what a key may answer (vals).
May(w, n, r) ==
  /\ n \in w.only /\ Hull(r) /\ r.min <= MaxKey
  /\ \A b \in w.over : b.name = n => Tight(b, r, w.vals)
Like(d, w) ==
  /\ d.meta = w.meta /\ d.split = w.split /\ d.files = w.files
  /\ w.least \subseteq DOMAIN d.rkds
  /\ \A n \in DOMAIN d.rkds : May(w, n, d.rkds[n])

\* The disk of h and what waits in its cache are as w says; the disks on the way are in S.
Keeps(h, w, S) ==
  /\ Like(h.disk, w)
  /\ \A c \in Slots(h) : May(w, c.name, c.rkd)
  /\ \A i \in DOMAIN h.trace : h.trace[i] \in S
Holding(F, w, S) == \A d \in DisksOf(F) : Like(d, w) => d \in S

-----------------------------------------------------------------------------
(* What may be stored under a view.                                          *)

\* Only the bounds and the entries of a RangeKeyDir count.
Same(r, s) == s.min = r.min /\ s.max = r.max /\ s.entries = r.entries

LEMMA SameMay ==
  ASSUME NEW w, NEW n, NEW r, NEW s, Same(r, s), May(w, n, r)
  PROVE  May(w, n, s)
<1>1. Hull(s) /\ s.min <= MaxKey
  BY DEF Same, May, Hull
<1>2. ASSUME NEW b, Tight(b, r, w.vals)
      PROVE  Tight(b, s, w.vals)
  BY <1>2 DEF Same, Tight, Inner, Covers
<1> QED
  BY <1>1, <1>2 DEF May

LEMMA CopiesMay ==
  ASSUME NEW w, NEW n, NEW r, May(w, n, r)
  PROVE  May(w, n, Serialized(r)) /\ May(w, n, Deserialized(r))
<1>1. Same(r, Serialized(r)) /\ Same(r, Deserialized(r))
  BY DEF Same, Serialized, Deserialized
<1> QED
  BY <1>1, SameMay

LEMMA FlushedMay ==
  ASSUME NEW files, NEW r \in Rkds(files), NEW w, NEW n, May(w, n, r)
  PROVE  May(w, n, Flushed(r)) /\ May(w, n, [r EXCEPT !.dirty = FALSE])
<1>1. Same(r, Flushed(r)) /\ Same(r, [r EXCEPT !.dirty = FALSE])
  BY DEF Same, Flushed, Rkds
<1> QED
  BY <1>1, SameMay

\* One more entry, of a key of the range; it may be the first, of bounds that are not known yet.
Unset(r) == r.min = NoKey /\ r.max = NoKey

LEMMA InsertedInner ==
  ASSUME NEW files, NEW r \in Rkds(files), Hull(r), r.min <= MaxKey,
         NEW b \in RangeRec, NEW k \in Key, NEW v, Inner(b, r) \/ Unset(r), Covers(b, k)
  PROVE  Inner(b, Inserted(r, k, v)) /\ Inserted(r, k, v).min <= MaxKey
<1> DEFINE s == Inserted(r, k, v)
<1>1. /\ r.min \in Nat /\ r.max \in Nat /\ b.min \in Nat /\ b.max \in Nat
      /\ k \in Nat /\ k # 0 /\ k <= MaxKey /\ MaxKey \in Nat
  BY RkdFacts, BoundFacts DEF Key, RangeRec
<1>2. /\ s.min = IF r.min = NoKey \/ k < r.min THEN k ELSE r.min
      /\ s.max = IF r.max = NoKey \/ k > r.max THEN k ELSE r.max
  BY DEF Inserted, Rkds
<1> HIDE DEF s
<1>3. r.max = 0 \/ r.min <= r.max
  BY DEF Hull
<1>4. Inner(b, r) => \A j \in Key : Covers(r, j) => Covers(b, j)
  BY DEF Inner
<1>5. s.min <= MaxKey
  BY <1>1, <1>2
<1>6. ASSUME NEW j \in Key, Covers(s, j)
      PROVE  Covers(b, j)
  <2>1. j \in Nat /\ j # 0 /\ j <= MaxKey
    BY <1>1 DEF Key
  <2>2. s.min <= j /\ j <= s.max
    BY <1>1, <1>2, <1>6 DEF Covers, NoKey
  <2>0. CASE Unset(r)
    <3>1. j = k
      BY <1>1, <1>2, <2>0, <2>1, <2>2 DEF Unset, NoKey
    <3> QED
      BY <3>1
  <2>3. CASE ~Unset(r) /\ Covers(r, j)
    BY <1>4, <2>3
  <2>4. CASE ~Unset(r) /\ ~Covers(r, j)
    <3>1. r.min # 0 /\ (j < r.min \/ (r.max # 0 /\ r.max < j))
      BY <1>1, <2>1, <2>4 DEF Covers, NoKey
    <3>2. r.min \in Key /\ Covers(r, r.min)
      BY <1>1, <1>3, <3>1 DEF Key, Covers, NoKey
    <3>3. Covers(b, r.min)
      BY <1>4, <2>4, <3>2
    <3>4. CASE j < r.min
      <4>1. k <= j
        BY <1>1, <1>2, <2>1, <2>2, <3>4 DEF NoKey
      <4> QED
        BY <1>1, <2>1, <3>3, <3>4, <4>1 DEF Covers, NoKey
    <3>5. CASE r.max # 0 /\ r.max < j /\ ~(j < r.min)
      <4>1. j <= k
        BY <1>1, <1>2, <2>1, <2>2, <3>5 DEF NoKey
      <4> QED
        BY <1>1, <2>1, <3>3, <3>5, <4>1 DEF Covers, NoKey
    <3> QED
      BY <3>1, <3>4, <3>5
  <2> QED
    BY <2>0, <2>3, <2>4
<1> QED
  BY <1>5, <1>6 DEF Inner, s

LEMMA InsertedMay ==
  ASSUME NEW files, NEW r \in Rkds(files), NEW w, w.over \subseteq RangeRec, NEW n, May(w, n, r),
         NEW k \in Key, NEW v,
         \A b \in w.over : b.name = n => Covers(b, k),
         (IF v.del THEN NoRecord ELSE <<v.file, v.pos>>) \in w.vals[k]
  PROVE  May(w, n, Inserted(r, k, v))
<1> DEFINE s == Inserted(r, k, v)
<1>1. Hull(r) /\ n \in w.only /\ r.min <= MaxKey
  BY DEF May
<1>2. Hull(s) /\ s.entries = Put(r.entries, k, v)
  BY <1>1, InsertedHull
<1>0. s.min <= MaxKey
  BY <1>1, RkdFacts, BoundFacts DEF Inserted, Rkds, Key
<1>3. ASSUME NEW b \in w.over, b.name = n
      PROVE  Tight(b, s, w.vals)
  <2>1. Tight(b, r, w.vals) /\ Covers(b, k) /\ b \in RangeRec
    BY <1>3 DEF May
  <2>2. Inner(b, s)
    BY <1>1, <2>1, InsertedInner DEF Tight
  <2>3. ASSUME NEW j \in Key, Covers(b, j)
        PROVE  Answer(s.entries, j) \in w.vals[j]
    <3>1. CASE j = k
      BY <1>2, <3>1 DEF Answer, Put
    <3>2. CASE j # k
      <4>1. Answer(s.entries, j) = Answer(r.entries, j)
        BY <1>2, <3>2 DEF Answer, Put
      <4> QED
        BY <2>1, <2>3, <4>1 DEF Tight
    <3> QED
      BY <3>1, <3>2
  <2> QED
    BY <2>2, <2>3 DEF Tight
<1> QED
  BY <1>0, <1>1, <1>2, <1>3 DEF May

-----------------------------------------------------------------------------
(* What keeps to a view.                                                     *)

LEMMA WriteKept ==
  ASSUME NEW F, NEW files \in F, NEW h \in Work(F, files), NEW w, NEW v, NEW S, Keeps(h, w, S),
         NEW d \in Disks(files), Like(d, v), \A c \in Slots(h) : May(v, c.name, c.rkd),
         Holding(F, v, S)
  PROVE  Keeps(Write(h, d), v, S)
<1> DEFINE g == Write(h, d)
<1>1. /\ h.trace \in Seq(DisksOf(F)) /\ g.trace = Append(h.trace, d) /\ g.disk = d
      /\ g.mem = h.mem
  BY DEF Write, Work
<1>2. d \in S
  BY DEF Holding, DisksOf
<1> HIDE DEF g
<1>3. ASSUME NEW i \in DOMAIN g.trace
      PROVE  g.trace[i] \in S
  <2>1. CASE i \in DOMAIN h.trace
    BY <1>1, <2>1 DEF Keeps
  <2>2. CASE i \notin DOMAIN h.trace
    BY <1>1, <1>2, <1>3, <2>2
  <2> QED
    BY <2>1, <2>2
<1>4. Slots(g) = Slots(h)
  BY <1>1 DEF Slots
<1> QED
  BY <1>1, <1>3, <1>4 DEF Keeps, g

LEMMA PutLike ==
  ASSUME NEW files, NEW d \in Disks(files), NEW w, Like(d, w), NEW n, NEW b, May(w, n, b)
  PROVE  Like(DiskPut(d, n, b), w)
<1> DEFINE e == DiskPut(d, n, b)
<1>1. /\ e.meta = d.meta /\ e.split = d.split /\ e.files = d.files
      /\ e.rkds = Put(d.rkds, n, b)
  BY DEF DiskPut, Disks
<1> HIDE DEF e
<1>2. /\ DOMAIN e.rkds = DOMAIN d.rkds \cup {n} /\ e.rkds[n] = b
      /\ \A m \in DOMAIN d.rkds : m # n => e.rkds[m] = d.rkds[m]
  BY <1>1 DEF Put
<1> QED
  BY <1>1, <1>2 DEF Like, e

LEMMA PutKept ==
  ASSUME NEW F, NEW files \in F, NEW h \in Work(F, files), NEW w, NEW S, Keeps(h, w, S),
         Holding(F, w, S), NEW n \in Nat, NEW r \in Rkds(files), May(w, n, r)
  PROVE  Keeps(PutBlob(h, n, r), w, S)
<1> DEFINE d == DiskPut(h.disk, n, Serialized(r))
<1>1. h.disk \in Disks(files) /\ Like(h.disk, w)
  BY DEF Work, Keeps
<1>2. May(w, n, Serialized(r))
  BY CopiesMay
<1>3. Like(d, w)
  BY <1>1, <1>2, PutLike
<1>4. PutBlob(h, n, r) = Write(h, d)
  BY DEF PutBlob, DiskPut
<1>5. d \in Disks(files)
  <2>1. /\ h.disk.rkds \in [DOMAIN h.disk.rkds -> Blobs(files)] /\ DOMAIN h.disk.rkds \in SUBSET Nat
        /\ Bounded(DOMAIN h.disk.rkds)
    BY <1>1, DiskTables
  <2>2. Serialized(r) \in Blobs(files)
    BY BlobOf
  <2>3. Put(h.disk.rkds, n, Serialized(r)) \in [DOMAIN h.disk.rkds \cup {n} -> Blobs(files)]
    BY <2>1, <2>2, PutFacts
  <2>4. Bounded(DOMAIN h.disk.rkds \cup {n}) /\ DOMAIN h.disk.rkds \cup {n} \in SUBSET Nat
    BY <2>1, BoundedFacts
  <2> QED
    BY <1>1, <2>3, <2>4, WithRkds DEF DiskPut
<1> HIDE DEF d
<1>6. \A c \in Slots(h) : May(w, c.name, c.rkd)
  BY DEF Keeps
<1> QED
  BY <1>3, <1>4, <1>5, <1>6, WriteKept

\* Where only the memory changes.
LEMMA MemKept ==
  ASSUME NEW h, NEW w, NEW S, Keeps(h, w, S), NEW g, g.disk = h.disk, g.trace = h.trace,
         \A c \in Slots(g) : c \in Slots(h) \/ May(w, c.name, c.rkd)
  PROVE  Keeps(g, w, S)
BY DEF Keeps

LEMMA CacheDelKept ==
  ASSUME NEW F, NEW files \in F, NEW h \in Work(F, files), NEW w, NEW S, Keeps(h, w, S), NEW n
  PROVE  Keeps(CacheDel(h, n), w, S)
<1>1. LET g == CacheDel(h, n) IN
      g.disk = h.disk /\ g.trace = h.trace /\ Slots(g) \subseteq Slots(h)
  BY CacheDelIs
<1> QED
  BY <1>1, MemKept

LEMMA EvictedKept ==
  ASSUME NEW F, NEW files \in F, NEW h \in Work(F, files), NEW w, NEW S, Keeps(h, w, S),
         Holding(F, w, S)
  PROVE  Keeps(Evicted(h), w, S)
<1> DEFINE g == Evicted(h)
<1>1. CASE g = h
  BY <1>1
<1>2. ASSUME NEW c \in Slots(h), Slots(g) = Slots(h) \ {c}, ~c.rkd.dirty,
             g.disk = h.disk, g.trace = h.trace
      PROVE  Keeps(g, w, S)
  BY <1>2, MemKept
<1>3. ASSUME NEW c \in Slots(h), Slots(g) = Slots(h) \ {c},
             g.disk = [h.disk EXCEPT !.rkds = Put(h.disk.rkds, c.name, Serialized(c.rkd))],
             g.trace = Append(h.trace, g.disk)
      PROVE  Keeps(g, w, S)
  <2> DEFINE p == PutBlob(h, c.name, c.rkd)
  <2>1. c.name \in Nat /\ c.rkd \in Rkds(files)
    BY SlotFacts
  <2>2. May(w, c.name, c.rkd)
    BY DEF Keeps
  <2>3. Keeps(p, w, S)
    BY <2>1, <2>2, PutKept
  <2>4. p.disk = g.disk /\ p.trace = g.trace /\ p.mem = h.mem
    BY <1>3 DEF PutBlob, Write, Work
  <2>5. Slots(p) = Slots(h)
    BY <2>4 DEF Slots
  <2> HIDE DEF p, g
  <2> QED
    BY <1>3, <2>3, <2>4, <2>5, MemKept
<1> QED
  BY <1>1, <1>2, <1>3, EvictedIs

LEMMA CachePutKept ==
  ASSUME NEW F, NEW files \in F, NEW h \in Work(F, files), NEW w, NEW S, Keeps(h, w, S),
         Holding(F, w, S), NEW n \in Nat, NEW r \in Rkds(files), May(w, n, r)
  PROVE  Keeps(CachePut(h, n, r), w, S)
<1> DEFINE g == IF Cached(h, n) THEN CacheDel(h, n) ELSE Evicted(h)
           x == [name |-> n, rkd |-> r]
<1>1. g \in Work(F, files) /\ Keeps(g, w, S)
  BY CacheDelKeeps, EvictedKeeps, CacheDelKept, EvictedKept
<1>2. CachePut(h, n, r) = AddSlot(g, x)
  BY DEF CachePut, AddSlot
<1> HIDE DEF g
<1>3. LET f == AddSlot(g, x) IN
      Slots(f) = Slots(g) \cup {x} /\ f.disk = g.disk /\ f.trace = g.trace
  BY <1>1, AddSlotIs
<1>4. \A c \in Slots(AddSlot(g, x)) : c \in Slots(g) \/ May(w, c.name, c.rkd)
  BY <1>3
<1> QED
  BY <1>1, <1>2, <1>3, <1>4, MemKept

LEMMA SaveKept ==
  ASSUME NEW F, NEW files \in F, NEW h \in Work(F, files), NEW w, NEW S, Keeps(h, w, S),
         Holding(F, w, S), NEW n \in Nat, NEW r \in Rkds(files), May(w, n, r)
  PROVE  Keeps(SaveRangeKeyDir(h, n, r), w, S)
<1> DEFINE c == [r EXCEPT !.dirty = FALSE]
           p == PutBlob(h, n, r)
<1>1. p \in Work(F, files) /\ Keeps(p, w, S)
  BY PutBlobKeeps, PutKept
<1>2. c \in Rkds(files) /\ May(w, n, c)
  BY CleanOf, FlushedMay
<1>3. SaveRangeKeyDir(h, n, r) = CachePut(p, n, c)
  BY DEF SaveRangeKeyDir
<1> HIDE DEF p, c
<1> QED
  BY <1>1, <1>2, <1>3, CachePutKept

\* What is loaded is what was cached or on the disk, or nothing.
LEMMA LoadedMay ==
  ASSUME NEW F, NEW files \in F, NEW h \in Work(F, files), NEW w, NEW S, Keeps(h, w, S), NEW n,
         Cached(h, n) \/ n \in DOMAIN h.disk.rkds
  PROVE  May(w, n, Loaded(h, n))
<1>1. CASE \E c \in Slots(h) : c.name = n
  BY <1>1, EntrIs DEF Keeps
<1>2. CASE \A c \in Slots(h) : c.name # n
  <2>1. n \in DOMAIN h.disk.rkds
    BY <1>2, SlotFacts
  <2>2. Loaded(h, n) = Deserialized(h.disk.rkds[n])
    BY <1>2, <2>1, EntrIs
  <2> QED
    BY <2>1, <2>2, CopiesMay DEF Keeps, Like
<1> QED
  BY <1>1, <1>2

LEMMA LoadKept ==
  ASSUME NEW F, NEW files \in F, NEW h \in Work(F, files), NEW w, NEW S, Keeps(h, w, S),
         Holding(F, w, S), NEW n \in Nat
  PROVE  Keeps(Load(h, n), w, S)
<1>1. CASE Cached(h, n) \/ n \in DOMAIN h.disk.rkds
  <2>1. May(w, n, Loaded(h, n)) /\ Loaded(h, n) \in Rkds(files)
    BY <1>1, LoadedMay, LoadedOf
  <2>2. Load(h, n) = CachePut(h, n, Loaded(h, n))
    BY <1>1 DEF Load
  <2> QED
    BY <2>1, <2>2, CachePutKept
<1>2. CASE ~(Cached(h, n) \/ n \in DOMAIN h.disk.rkds)
  BY <1>2 DEF Load
<1> QED
  BY <1>1, <1>2

-----------------------------------------------------------------------------
(* get, delete, flushDirtyRanges, close.                                     *)

\* A flush stays in what its steps stay in.
LEMMA FlushStays ==
  ASSUME NEW F, NEW files \in F, NEW h \in Work(F, files), NEW W, h \in W,
         \A g \in W, b \in RangeSet(h.mem.ranges) : FlushStep(g, b) \in W
  PROVE  FlushOp(h) \in W
<1> DEFINE q == h.mem.ranges
           n == Len(q)
           IsFold(f) == f = [s \in SUBSET (1 .. n) |-> IF s = {} THEN h
                               ELSE FlushStep(f[s \ {Max(s)}], q[Max(s)])]
           G == [x \in W \X (1 .. n) |-> FlushStep(x[1], q[x[2]])]
<1>1. q \in Seq(RangeRec) /\ n \in Nat /\ DOMAIN q = 1 .. n
  BY DEF Work, Memories, Ranges
<1>2. ASSUME NEW g \in W, NEW i \in 1 .. n
      PROVE  FlushStep(g, q[i]) \in W
  BY <1>1 DEF RangeSet
<1> HIDE DEF n
<1>3. h \in W /\ G \in [W \X (1 .. n) -> W]
  BY <1>2
<1> HIDE DEF G
<1>4. PICK f \in [SUBSET (1 .. n) -> W] : Folds(f, 1 .. n, h, G)
  BY <1>1, <1>3, FoldOver
<1>5. IsFold(f)
  <2> SUFFICES ASSUME NEW s \in SUBSET (1 .. n), s # {}
               PROVE  f[s] = FlushStep(f[s \ {Max(s)}], q[Max(s)])
    BY <1>4 DEF Folds
  <2>1. <<f[s \ {Max(s)}], Max(s)>> \in W \X (1 .. n)
    BY <1>1, <1>4, MaxIn
  <2> QED
    BY <1>4, <2>1 DEF Folds, G
<1>6. PICK g : IsFold(g) /\ FlushOp(h) = g[1 .. n]
  BY <1>1, <1>5 DEF FlushOp, FoldLeft, MapThenFoldSet, FlushStep
<1>7. g[{}] \in W
  BY <1>3, <1>6
<1>8. ASSUME NEW s \in SUBSET (1 .. n), s # {}, g[s \ {Max(s)}] \in W
      PROVE  g[s] \in W
  <2>1. Max(s) \in 1 .. n
    BY <1>1, <1>8, MaxIn
  <2>2. g[s] = FlushStep(g[s \ {Max(s)}], q[Max(s)])
    BY <1>6, <1>8
  <2> QED
    BY <1>2, <1>8, <2>1, <2>2
<1>9. g[1 .. n] \in W
  BY <1>1, <1>7, <1>8, FoldIn
<1> QED
  BY <1>6, <1>9

LEMMA FlushStepKept ==
  ASSUME NEW F, NEW files \in F, NEW h \in Work(F, files), NEW w, NEW S, Keeps(h, w, S),
         Holding(F, w, S), NEW b, b.name \in Nat
  PROVE  FlushStep(h, b) \in Work(F, files) /\ Keeps(FlushStep(h, b), w, S)
<1> DEFINE n == b.name
           l == Load(h, n)
           r == Loaded(h, n)
<1>1. l \in Work(F, files) /\ r \in Rkds(files) /\ Keeps(l, w, S)
  BY LoadKeeps, LoadedOf, LoadKept
<1>2. CASE r.dirty
  <2>1. Cached(h, n)
    BY <1>2 DEF Loaded, Deserialized, NewRkd
  <2>2. Flushed(r) \in Rkds(files) /\ May(w, n, Flushed(r))
    BY <1>1, <2>1, LoadedMay, FlushedMay, FlushedOf
  <2>3. FlushStep(h, b) = SaveRangeKeyDir(l, n, Flushed(r))
    BY <1>2 DEF FlushStep
  <2> HIDE DEF l, r
  <2> QED
    BY <1>1, <2>2, <2>3, SaveKept, SaveKeeps
<1>3. CASE ~r.dirty
  BY <1>1, <1>3 DEF FlushStep
<1> QED
  BY <1>2, <1>3

LEMMA FlushKept ==
  ASSUME NEW F, NEW files \in F, NEW h \in Work(F, files), NEW w, NEW S, Keeps(h, w, S),
         Holding(F, w, S)
  PROVE  Keeps(FlushOp(h), w, S)
<1> DEFINE W == {g \in Work(F, files) : Keeps(g, w, S)}
<1>1. ASSUME NEW g \in W, NEW b \in RangeSet(h.mem.ranges)
      PROVE  FlushStep(g, b) \in W
  <2>1. b.name \in Nat
    BY RangesFacts DEF Work, Memories, RangeSet
  <2> QED
    BY <2>1, FlushStepKept
<1>2. h \in W
  OBVIOUS
<1> HIDE DEF W
<1>3. FlushOp(h) \in W
  BY <1>1, <1>2, FlushStays
<1> QED
  BY <1>3 DEF W

\* A close writes what the flush has left in the cache, and the list.
LEMMA CloseStays ==
  ASSUME NEW F, NEW files \in F, NEW h \in Work(F, files), NEW W, FlushOp(h) \in W,
         \A g \in W, c \in Slots(FlushOp(h)) : PutBlob(g, c.name, c.rkd) \in W
  PROVE  \E g \in W : CloseOp(h) = SaveRangeMetadata(g)
<1> DEFINE e == FlushOp(h)
           q == e.mem.cache
           n == Len(q)
           IsFold(f) == f = [s \in SUBSET (1 .. n) |-> IF s = {} THEN e
                               ELSE PutBlob(f[s \ {Max(s)}], q[Max(s)].name, q[Max(s)].rkd)]
           G == [x \in W \X (1 .. n) |-> PutBlob(x[1], q[x[2]].name, q[x[2]].rkd)]
<1>1. e \in Work(F, files) /\ e \in W
  BY FlushKeeps
<1>2. \A g \in W, c \in Slots(e) : PutBlob(g, c.name, c.rkd) \in W
  OBVIOUS
<1> HIDE DEF e
<1>3. q \in Caches(files)
  BY <1>1 DEF Work, Memories
<1>4. n \in Nat /\ DOMAIN q = 1 .. n
  BY <1>3, CacheFacts
<1>5. ASSUME NEW g \in W, NEW i \in 1 .. n
      PROVE  PutBlob(g, q[i].name, q[i].rkd) \in W
  BY <1>2, <1>4 DEF Slots
<1> HIDE DEF n
<1>6. G \in [W \X (1 .. n) -> W]
  BY <1>5
<1> HIDE DEF G
<1>7. PICK f \in [SUBSET (1 .. n) -> W] : Folds(f, 1 .. n, e, G)
  BY <1>1, <1>4, <1>6, FoldOver
<1>8. IsFold(f)
  <2> SUFFICES ASSUME NEW s \in SUBSET (1 .. n), s # {}
               PROVE  f[s] = PutBlob(f[s \ {Max(s)}], q[Max(s)].name, q[Max(s)].rkd)
    BY <1>7 DEF Folds
  <2>1. <<f[s \ {Max(s)}], Max(s)>> \in W \X (1 .. n)
    BY <1>4, <1>7, MaxIn
  <2> QED
    BY <1>7, <2>1 DEF Folds, G
<1>9. PICK g : IsFold(g) /\ CloseOp(h) = SaveRangeMetadata(g[1 .. n])
  BY <1>4, <1>8 DEF CloseOp, FoldLeft, MapThenFoldSet, e
<1>10. g[{}] \in W
  BY <1>1, <1>9
<1>11. ASSUME NEW s \in SUBSET (1 .. n), s # {}, g[s \ {Max(s)}] \in W
       PROVE  g[s] \in W
  <2>1. Max(s) \in 1 .. n
    BY <1>4, <1>11, MaxIn
  <2>2. g[s] = PutBlob(g[s \ {Max(s)}], q[Max(s)].name, q[Max(s)].rkd)
    BY <1>9, <1>11
  <2> QED
    BY <1>5, <1>11, <2>1, <2>2
<1>12. g[1 .. n] \in W
  BY <1>4, <1>10, <1>11, FoldIn
<1> QED
  BY <1>9, <1>12

\* The list of the view is saved.
LEMMA MetaKept ==
  ASSUME NEW F, NEW files \in F, NEW h \in Work(F, files), NEW w, NEW S, Keeps(h, w, S),
         Holding(F, w, S), h.mem.ranges = w.meta
  PROVE  Keeps(SaveRangeMetadata(h), w, S)
<1> DEFINE d == [h.disk EXCEPT !.meta = h.mem.ranges]
<1>1. h.disk \in Disks(files) /\ h.mem.ranges \in Ranges
  BY DEF Work, Memories
<1>2. /\ d \in Disks(files) /\ d.meta = w.meta /\ d.split = h.disk.split
      /\ d.files = h.disk.files /\ d.rkds = h.disk.rkds
  BY <1>1 DEF Disks
<1>3. SaveRangeMetadata(h) = Write(h, d)
  BY DEF SaveRangeMetadata
<1> HIDE DEF d
<1>4. Like(d, w)
  BY <1>2 DEF Keeps, Like
<1>5. \A c \in Slots(h) : May(w, c.name, c.rkd)
  BY DEF Keeps
<1> QED
  BY <1>2, <1>3, <1>4, <1>5, WriteKept

LEMMA CloseKept ==
  ASSUME NEW F, NEW files \in F, NEW h \in Work(F, files), Settled(h),
         NEW w, NEW S, Keeps(h, w, S), Holding(F, w, S), h.mem.ranges = w.meta
  PROVE  Keeps(CloseOp(h), w, S)
<1> DEFINE W == {g \in Work(F, files) : Keeps(g, w, S) /\ g.mem.ranges = w.meta}
           e == FlushOp(h)
<1>1. e \in Work(F, files) /\ Keeps(e, w, S) /\ Frame(h, e, {})
  BY FlushKeeps, FlushKept, FlushGood
<1>2. e \in W
  BY <1>1 DEF Frame
<1> HIDE DEF e
<1>3. ASSUME NEW g \in W, NEW c \in Slots(e)
      PROVE  PutBlob(g, c.name, c.rkd) \in W
  <2> DEFINE p == PutBlob(g, c.name, c.rkd)
  <2>1. c.name \in Nat /\ c.rkd \in Rkds(files) /\ May(w, c.name, c.rkd)
    BY <1>1, SlotFacts DEF Keeps
  <2>2. p \in Work(F, files) /\ Keeps(p, w, S)
    BY <2>1, PutBlobKeeps, PutKept
  <2>3. p.mem = g.mem
    BY DEF PutBlob, Write, Work
  <2> QED
    BY <2>2, <2>3
<1> HIDE DEF W
<1>4. PICK g \in W : CloseOp(h) = SaveRangeMetadata(g)
  BY <1>2, <1>3, CloseStays DEF e
<1> QED
  BY <1>4, MetaKept DEF W

LEMMA GetKept ==
  ASSUME NEW F, NEW files \in F, NEW h \in Work(F, files), NEW w, NEW S, Keeps(h, w, S),
         Holding(F, w, S), NEW k
  PROVE  Keeps(GetOp(h, k), w, S)
<1>1. FindRange(h.mem.ranges, k) \in Nat
  BY FindRangeType DEF Work, Memories
<1> QED
  BY <1>1, LoadKept DEF GetOp

\* The range that is found is the only one of its name.
LEMMA FoundCovers ==
  ASSUME NEW q \in Ranges, Names(q), NEW k, FindRange(q, k) # 0,
         NEW b \in RangeSet(q), b.name = FindRange(q, k)
  PROVE  Covers(b, k)
BY FindsOne, NamedOnce

LEMMA DeleteKept ==
  ASSUME NEW F, NEW files \in F, NEW h \in Work(F, files), NEW w, NEW S, Keeps(h, w, S),
         Holding(F, w, S), w.over = RangeSet(h.mem.ranges), Names(h.mem.ranges),
         NEW k \in Key, NoRecord \in w.vals[k]
  PROVE  Keeps(DeleteOp(h, k), w, S)
<1> DEFINE n == FindRange(h.mem.ranges, k)
           g == Load(h, n)
           r == Loaded(h, n)
           e == [r.entries[k] EXCEPT !.del = TRUE]
           s == Flushed(Inserted(r, k, e))
<1>1. h.mem.ranges \in Ranges /\ w.over \subseteq RangeRec
  BY RangesFacts DEF Work, Memories, RangeSet
<1>2. n \in Nat
  BY <1>1, FindRangeType
<1>3. g \in Work(F, files) /\ r \in Rkds(files) /\ Keeps(g, w, S)
  BY <1>2, LoadKeeps, LoadedOf, LoadKept
<1>4. DeleteOp(h, k) =
        IF n = 0 THEN h
        ELSE IF k \notin DOMAIN r.entries THEN g
        ELSE SaveRangeKeyDir(g, n, s)
  BY DEF DeleteOp
<1>5. n # 0 => \A b \in w.over : b.name = n => Covers(b, k)
  BY <1>1, FoundCovers
<1>6. k \in DOMAIN r.entries => Cached(h, n) \/ n \in DOMAIN h.disk.rkds
  BY DEF Loaded, NewRkd
<1> HIDE DEF n, g
<1>7. CASE n # 0 /\ k \in DOMAIN r.entries
  <2>1. May(w, n, r)
    BY <1>6, <1>7, LoadedMay
  <2> HIDE DEF r
  <2>2. r.entries[k] \in EntryRec /\ Points(r.entries, files)
    BY <1>3, <1>7, RkdFacts
  <2>3. /\ e \in EntryRec /\ e.file = r.entries[k].file /\ e.pos = r.entries[k].pos
        /\ e.del = TRUE
    BY <2>2 DEF EntryRec
  <2> HIDE DEF e
  <2>4. /\ e.file \in DOMAIN files /\ e.pos \in DOMAIN files[e.file]
        /\ files[e.file][e.pos].key = k
    BY <1>7, <2>2, <2>3 DEF Points
  <2>5. Inserted(r, k, e) \in Rkds(files)
    BY <1>3, <2>3, <2>4, InsertedOf
  <2>6. May(w, n, Inserted(r, k, e))
    BY <1>1, <1>3, <1>5, <1>7, <2>1, <2>3, InsertedMay
  <2>7. s \in Rkds(files) /\ May(w, n, s)
    BY <2>5, <2>6, FlushedOf, FlushedMay
  <2> HIDE DEF s
  <2> QED
    BY <1>2, <1>3, <1>4, <1>7, <2>7, SaveKept
<1> QED
  BY <1>3, <1>4, <1>7

-----------------------------------------------------------------------------
(* What an open finds on a disk.                                             *)

\* The RangeKeyDirs that an open leaves, and the list of ranges it goes by.
After(d) ==
  IF d.split # <<>> /\ SplitComplete(d)
  THEN [n \in DOMAIN d.rkds \ {d.split[1]} |-> d.rkds[n]] ELSE d.rkds
ListFrom(t) ==
  LET add(rs, n) == WithRange(rs, Bounds(t[n].min, t[n].max, n))
  IN  FoldLeft(add, <<>>, Ascending(DOMAIN t))
ListOf(d) == IF d.split = <<>> /\ d.meta # <<>> THEN d.meta ELSE ListFrom(After(d))

\* What it answers for a key.
Finds(q, t, k) ==
  LET n == FindRange(q, k)
  IN  IF n # 0 /\ n \in DOMAIN t THEN Answer(t[n].entries, k) ELSE NoRecord

\* The tables of blobs.
Tables(files) == {t \in UNION {[N -> Blobs(files)] : N \in SUBSET Nat} : Bounded(DOMAIN t)}

LEMMA TableFacts ==
  ASSUME NEW files, NEW t \in Tables(files)
  PROVE  /\ t \in [DOMAIN t -> Blobs(files)] /\ DOMAIN t \in SUBSET Nat /\ Bounded(DOMAIN t)
         /\ \A n \in DOMAIN t : t[n] \in Blobs(files) /\ n \in Nat
BY DEF Tables

LEMMA AfterOf ==
  ASSUME NEW files, NEW d \in Disks(files)
  PROVE  /\ After(d) \in Tables(files) /\ d.rkds \in Tables(files)
         /\ \A n \in DOMAIN After(d) : n \in DOMAIN d.rkds /\ After(d)[n] = d.rkds[n]
         /\ After(d) = IF d.split # <<>> /\ SplitComplete(d)
                       THEN [n \in DOMAIN d.rkds \ {d.split[1]} |-> d.rkds[n]] ELSE d.rkds
<1>1. d.rkds \in [DOMAIN d.rkds -> Blobs(files)] /\ DOMAIN d.rkds \in SUBSET Nat
      /\ Bounded(DOMAIN d.rkds)
  BY DiskTables
<1> DEFINE N == DOMAIN d.rkds \ {d.split[1]}
           t == [n \in N |-> d.rkds[n]]
<1>2. t \in [N -> Blobs(files)] /\ DOMAIN t = N /\ N \in SUBSET Nat
  BY <1>1
<1>3. Bounded(N)
  BY <1>1, BoundedFacts
<1>4. t \in Tables(files) /\ d.rkds \in Tables(files)
  BY <1>1, <1>2, <1>3 DEF Tables
<1> QED
  BY <1>1, <1>2, <1>4 DEF After

LEMMA RebuildIs ==
  ASSUME NEW h
  PROVE  RebuildRanges(h) = SaveRangeMetadata(WithRanges(h, ListFrom(h.disk.rkds)))
BY DEF RebuildRanges, ListFrom, WithRanges

LEMMA ListFromIs ==
  ASSUME NEW files, NEW t \in Tables(files)
  PROVE  /\ ListFrom(t) \in Ranges /\ Names(ListFrom(t))
         /\ RangeSet(ListFrom(t)) = {BlobRange(t, n) : n \in DOMAIN t}
<1> DEFINE d == [rkds |-> t, meta |-> <<>>, split |-> <<>>, files |-> files]
           h == Opening(d)
           x == ListFrom(t)
<1>1. d \in Disks(files)
  BY DEF Disks, Tables, Splits, Ranges
<1>2. h \in Work({files}, files) /\ h.disk = d /\ d.rkds = t
  BY <1>1, OpeningOf DEF Opening
<1> HIDE DEF h, d
<1>3. PICK q : Rebuilt(h, q) /\ RebuildRanges(h) = SaveRangeMetadata(WithRanges(h, q))
  BY <1>2, RebuildsRanges
<1>4. RebuildRanges(h) = SaveRangeMetadata(WithRanges(h, x))
  BY <1>2, RebuildIs
<1> HIDE DEF x
<1>5. SaveRangeMetadata(WithRanges(h, q)) = SaveRangeMetadata(WithRanges(h, x))
  BY <1>3, <1>4
<1>6. \A y : SaveRangeMetadata(WithRanges(h, y)).mem.ranges = y
  BY <1>2 DEF SaveRangeMetadata, WithRanges, Write, Work, Memories
<1>7. q = x
  <2>1. /\ SaveRangeMetadata(WithRanges(h, q)).mem.ranges = q
        /\ SaveRangeMetadata(WithRanges(h, x)).mem.ranges = x
    BY <1>6
  <2> QED
    BY <1>5, <2>1
<1> QED
  BY <1>2, <1>3, <1>7 DEF Rebuilt, x

\* The list is rebuilt and saved.
LEMMA RebuildTo ==
  ASSUME NEW F, NEW files \in F, NEW h \in Work(F, files), Slots(h) = {}
  PROVE  LET g == RebuildRanges(h) IN
         /\ g \in Work(F, files) /\ Slots(g) = {} /\ g.disk \in Disks(files)
         /\ g.mem.ranges = ListFrom(h.disk.rkds) /\ g.trace = Append(h.trace, g.disk)
         /\ g.disk.rkds = h.disk.rkds /\ g.disk.split = h.disk.split
         /\ g.disk.meta = ListFrom(h.disk.rkds)
<1> DEFINE q == ListFrom(h.disk.rkds)
           w == WithRanges(h, q)
           g == SaveRangeMetadata(w)
           e == [h.disk EXCEPT !.meta = q]
<1>1. h.disk \in Disks(files)
  BY DEF Work
<1>2. q \in Ranges
  BY <1>1, AfterOf, ListFromIs
<1>3. RebuildRanges(h) = g
  BY RebuildIs
<1> HIDE DEF q
<1>4. w.mem.ranges = q /\ w.disk = h.disk /\ w.trace = h.trace /\ w.mem.cache = h.mem.cache
  BY DEF WithRanges, Work, Memories
<1>5. w \in Work(F, files)
  BY <1>2, RangesKeep DEF WithRanges
<1> HIDE DEF w
<1>6. g.mem = w.mem /\ g.disk = e /\ g.trace = Append(h.trace, e)
  BY <1>4, <1>5 DEF SaveRangeMetadata, Write, Work
<1>7. g \in Work(F, files)
  BY <1>5, MetaKeeps
<1> HIDE DEF g, e
<1>8. Slots(g) = {}
  BY <1>4, <1>6 DEF Slots
<1> USE DEF e
<1>9. /\ e \in Disks(files) /\ e.rkds = h.disk.rkds /\ e.split = h.disk.split
      /\ e.files = h.disk.files /\ e.meta = q
  BY <1>1, <1>2 DEF Disks
<1> QED
  BY <1>3, <1>4, <1>6, <1>7, <1>8, <1>9 DEF q, g

LEMMA AppendAt ==
  ASSUME NEW A, NEW t \in Seq(A), NEW d, NEW i \in DOMAIN Append(t, d)
  PROVE  Append(t, d)[i] = d \/ \E j \in DOMAIN t : Append(t, d)[i] = t[j]
<1>1. CASE i \in DOMAIN t
  <2>1. Append(t, d)[i] = t[i]
    BY <1>1
  <2> QED
    BY <1>1, <2>1
<1>2. CASE i \notin DOMAIN t
  BY <1>2
<1> QED
  BY <1>1, <1>2

LEMMA ReadFinds ==
  ASSUME NEW F, NEW files \in F, NEW h \in Work(F, files), Slots(h) = {}, NEW k
  PROVE  Read(h, k) = Finds(h.mem.ranges, h.disk.rkds, k)
<1> DEFINE n == FindRange(h.mem.ranges, k)
<1>1. Read(h, k) = IF n # 0 THEN Answer(Entr(h, n), k) ELSE NoRecord
  BY ReadIs
<1>2. /\ n \in DOMAIN h.disk.rkds => Entr(h, n) = h.disk.rkds[n].entries
      /\ n \notin DOMAIN h.disk.rkds => Entr(h, n) = <<>>
  BY EntrWhere
<1>3. Finds(h.mem.ranges, h.disk.rkds, k) =
        IF n # 0 /\ n \in DOMAIN h.disk.rkds THEN Answer(h.disk.rkds[n].entries, k) ELSE NoRecord
  BY DEF Finds
<1>4. Answer(<<>>, k) = NoRecord
  BY DEF Answer
<1> HIDE DEF n
<1> QED
  BY <1>1, <1>2, <1>3, <1>4

\* The disks that the repair of a split goes through: what an open makes of them is the same.
Resumed(files, t, u) ==
  {x \in Disks(files) : /\ After(x) = t /\ ListOf(x) = ListFrom(t) /\ x.rkds \in {t, u}
                        /\ x.split = <<>> => x.meta = ListFrom(t) /\ x.rkds = t}

LEMMA ResumedIf ==
  ASSUME NEW files, NEW x \in Disks(files), NEW t, NEW u, x.rkds = t,
         After(x) = t, x.split = <<>> => x.meta = ListFrom(t)
  PROVE  x \in Resumed(files, t, u)
BY DEF Resumed, ListOf

LEMMA AfterStays ==
  ASSUME NEW files, NEW d \in Disks(files), NEW x \in Disks(files), x.rkds = After(d),
         x.split = d.split \/ x.split = <<>>
  PROVE  After(x) = After(d)
<1> DEFINE t == After(d)
<1>1. t \in [DOMAIN t -> Blobs(files)]
  BY AfterOf, TableFacts
<1>2. CASE ~(x.split # <<>> /\ SplitComplete(x))
  BY <1>2 DEF After
<1>3. CASE x.split # <<>> /\ SplitComplete(x)
  <2>1. x.split = d.split
    BY <1>3
  <2>2. \A n \in DOMAIN t : n \in DOMAIN d.rkds
    BY AfterOf
  <2>3. SplitComplete(d)
    BY <1>3, <2>1, <2>2 DEF SplitComplete
  <2>4. d.split[1] \notin DOMAIN t
    BY <1>3, <2>1, <2>3 DEF After
  <2>5. After(x) = [n \in DOMAIN t \ {d.split[1]} |-> t[n]]
    BY <1>3, <2>1 DEF After
  <2>6. DOMAIN t \ {d.split[1]} = DOMAIN t
    BY <2>4
  <2> HIDE DEF t
  <2>7. [n \in DOMAIN t |-> t[n]] = t
    BY <1>1
  <2> QED
    BY <2>5, <2>6, <2>7 DEF t
<1> QED
  BY <1>2, <1>3

Repaired(files, h, g, t, u) ==
  /\ Slots(g) = {} /\ g.mem.ranges = ListFrom(t) /\ g.disk.rkds = t
  /\ g.disk \in Resumed(files, t, u)
  /\ \A i \in DOMAIN g.trace : g.trace[i] \in Resumed(files, t, u) \/ \E j \in DOMAIN h.trace : g.trace[i] = h.trace[j]

Cleared(h) ==
  IF SplitComplete(h.disk) /\ h.disk.split[1] \in DOMAIN h.disk.rkds
  THEN RemoveBlob(h, h.disk.split[1]) ELSE h

LEMMA RemovedTo ==
  ASSUME NEW F, NEW files \in F, NEW h \in Work(F, files), Slots(h) = {}, h.disk.split # <<>>,
         NEW g, g = Cleared(h)
  PROVE  /\ g \in Work(F, files) /\ Slots(g) = {} /\ g.disk \in Disks(files)
         /\ g.disk.rkds = After(h.disk) /\ g.disk.split = h.disk.split
         /\ g.trace = h.trace \/ g.trace = Append(h.trace, g.disk)
<1> DEFINE d == h.disk
           o == d.split[1]
           N == DOMAIN d.rkds \ {o}
           e == [d EXCEPT !.rkds = [n \in N |-> d.rkds[n]]]
<1>1. d \in Disks(files)
  BY DEF Work
<1>2. d.rkds \in [DOMAIN d.rkds -> Blobs(files)]
  BY <1>1, DiskTables
<1>3. CASE SplitComplete(d) /\ o \in DOMAIN d.rkds
  <2>1. g = RemoveBlob(h, o)
    BY <1>3 DEF Cleared
  <2>2. g \in Work(F, files)
    BY <2>1, RemoveBlobKeeps
  <2>3. g = Write(h, e)
    BY <2>1 DEF RemoveBlob
  <2>4. g.disk = e /\ g.trace = Append(h.trace, e) /\ g.mem = h.mem
    BY <2>3 DEF Write, Work
  <2>5. e.rkds = [n \in N |-> d.rkds[n]] /\ e.split = d.split
    BY <1>1 DEF Disks
  <2>6. After(d) = [n \in N |-> d.rkds[n]]
    BY <1>3 DEF After
  <2>7. g.disk \in Disks(files)
    BY <2>2 DEF Work
  <2> HIDE DEF e, d, N
  <2>8. Slots(g) = {}
    BY <2>4 DEF Slots
  <2> QED
    BY <2>2, <2>4, <2>5, <2>6, <2>7, <2>8 DEF d
<1>4. CASE ~(SplitComplete(d) /\ o \in DOMAIN d.rkds)
  <2>1. g = h
    BY <1>4 DEF Cleared
  <2>2. After(d) = d.rkds
    <3>1. CASE ~SplitComplete(d)
      BY <3>1 DEF After
    <3>2. CASE SplitComplete(d)
      <4>1. N = DOMAIN d.rkds
        BY <1>4, <3>2
      <4>2. After(d) = [n \in N |-> d.rkds[n]]
        BY <3>2 DEF After
      <4> HIDE DEF d, N
      <4> QED
        BY <1>2, <4>1, <4>2
    <3> QED
      BY <3>1, <3>2
  <2> QED
    BY <1>1, <2>1, <2>2
<1> QED
  BY <1>3, <1>4

LEMMA PendingTo ==
  ASSUME NEW F, NEW files \in F, NEW h \in Work(F, files), Slots(h) = {}, h.disk.split # <<>>
  PROVE  Repaired(files, h, RecoverPendingSplit(h), After(h.disk), h.disk.rkds)
<1> DEFINE t == After(h.disk)
           u == h.disk.rkds
           g == Cleared(h)
           r == RebuildRanges(g)
           e == [r.disk EXCEPT !.split = <<>>]
           z == Write(r, e)
           R == Resumed(files, t, u)
<1>1. RecoverPendingSplit(h) = z
  BY DEF RecoverPendingSplit, Cleared
<1>2. h.disk \in Disks(files)
  BY DEF Work
<1>3. /\ g \in Work(F, files) /\ Slots(g) = {} /\ g.disk \in Disks(files)
      /\ g.disk.rkds = t /\ g.disk.split = h.disk.split
      /\ g.trace = h.trace \/ g.trace = Append(h.trace, g.disk)
  BY RemovedTo
<1> HIDE DEF g
<1>4. /\ r \in Work(F, files) /\ Slots(r) = {} /\ r.mem.ranges = ListFrom(t)
      /\ r.disk \in Disks(files) /\ r.disk.rkds = t /\ r.disk.split = h.disk.split
      /\ r.disk.meta = ListFrom(t) /\ r.trace = Append(g.trace, r.disk)
  <2>1. g \in Work(F, files) /\ Slots(g) = {}
    BY <1>3
  <2>2. /\ r \in Work(F, files) /\ Slots(r) = {} /\ r.mem.ranges = ListFrom(g.disk.rkds)
        /\ r.disk \in Disks(files) /\ r.disk.rkds = g.disk.rkds /\ r.disk.split = g.disk.split
        /\ r.disk.meta = ListFrom(g.disk.rkds) /\ r.trace = Append(g.trace, r.disk)
    BY <2>1, RebuildTo
  <2> HIDE DEF r, t
  <2> QED
    BY <1>3, <2>2
<1> HIDE DEF r
<1>5. /\ e \in Disks(files) /\ e.rkds = t /\ e.split = <<>> /\ e.meta = ListFrom(t)
  BY <1>4 DEF Disks, Splits
<1> HIDE DEF e
<1>6. z.mem = r.mem /\ z.disk = e /\ z.trace = Append(r.trace, e)
  BY <1>4 DEF Write, Work
<1> HIDE DEF z
<1>7. g.disk \in R /\ r.disk \in R /\ e \in R
  <2>1. After(g.disk) = t /\ After(r.disk) = t /\ After(e) = t
    BY <1>2, <1>3, <1>4, <1>5, AfterStays
  <2> HIDE DEF t
  <2> QED
    BY <1>3, <1>4, <1>5, <2>1, ResumedIf
<1> HIDE DEF t, R
<1>8. Slots(z) = {} /\ z.mem.ranges = ListFrom(t)
  BY <1>4, <1>6 DEF Slots
<1>9. h.trace \in Seq(DisksOf(F)) /\ g.trace \in Seq(DisksOf(F)) /\ r.trace \in Seq(DisksOf(F))
  BY <1>3, <1>4 DEF Work
<1>10. ASSUME NEW i \in DOMAIN g.trace
       PROVE  g.trace[i] \in R \/ \E j \in DOMAIN h.trace : g.trace[i] = h.trace[j]
  <2>1. CASE g.trace = h.trace
    BY <1>10, <2>1
  <2>2. CASE g.trace = Append(h.trace, g.disk)
    <3>1. g.trace[i] = g.disk \/ \E j \in DOMAIN h.trace : g.trace[i] = h.trace[j]
      BY <1>9, <1>10, <2>2, AppendAt
    <3> QED
      BY <1>7, <3>1
  <2> QED
    BY <1>3, <2>1, <2>2
<1>11. ASSUME NEW i \in DOMAIN r.trace
       PROVE  r.trace[i] \in R \/ \E j \in DOMAIN h.trace : r.trace[i] = h.trace[j]
  <2>1. r.trace[i] = r.disk \/ \E j \in DOMAIN g.trace : r.trace[i] = g.trace[j]
    BY <1>4, <1>9, <1>11, AppendAt
  <2> QED
    BY <1>7, <1>10, <2>1
<1>12. ASSUME NEW i \in DOMAIN z.trace
       PROVE  z.trace[i] \in R \/ \E j \in DOMAIN h.trace : z.trace[i] = h.trace[j]
  <2>1. z.trace[i] = e \/ \E j \in DOMAIN r.trace : z.trace[i] = r.trace[j]
    BY <1>6, <1>9, <1>12, AppendAt
  <2> QED
    BY <1>7, <1>11, <2>1
<1> QED
  BY <1>1, <1>5, <1>6, <1>7, <1>8, <1>12 DEF Repaired, t, R

Fresh0(d) == d.meta = <<>> /\ d.split = <<>> /\ DOMAIN d.rkds = {}

LEMMA ReopenedTo ==
  ASSUME NEW files, NEW d \in Disks(files), ~Fresh0(d)
  PROVE  LET g == Reopened(d)
             R == Resumed(files, After(d), d.rkds)
         IN  /\ Slots(g) = {} /\ g.mem.ranges = ListOf(d) /\ g.disk.rkds = After(d)
             /\ g.disk \in {d} \cup R /\ \A i \in DOMAIN g.trace : g.trace[i] \in R
<1> DEFINE F == {files}
           o == Opening(d)
           w == WithRanges(o, d.meta)
           r == RebuildRanges(o)
           t == After(d)
           u == d.rkds
           R == Resumed(files, t, u)
<1>1. Reopened(d) = RecoverPendingSplit(IF d.meta = <<>> THEN r ELSE w)
  BY DEF Reopened, WithRanges, Fresh0
<1>2. o \in Work(F, files) /\ Slots(o) = {} /\ o.disk = d /\ o.trace = <<>>
  <2>1. o \in Work(F, files)
    BY OpeningOf
  <2>2. o.disk = d /\ o.trace = <<>> /\ o.mem.cache = <<>>
    BY DEF Opening, Closed
  <2> HIDE DEF o
  <2>3. Slots(o) = {}
    BY <2>2 DEF Slots
  <2> QED
    BY <2>1, <2>2, <2>3
<1> files \in F
  OBVIOUS
<1>3. d.meta \in Ranges
  BY DiskTables
<1> HIDE DEF o, F
<1>4. CASE d.meta # <<>>
  <2>1. w \in Work(F, files)
    BY <1>2, <1>3, RangesKeep DEF WithRanges
  <2>2. w.mem.cache = o.mem.cache /\ w.mem.ranges = d.meta /\ w.disk = d /\ w.trace = <<>>
    BY <1>2 DEF WithRanges, Work, Memories
  <2> HIDE DEF w
  <2>3. Slots(w) = {}
    BY <1>2, <2>2 DEF Slots
  <2>4. Reopened(d) = RecoverPendingSplit(w)
    BY <1>1, <1>4
  <2>5. CASE d.split = <<>>
    <3>1. Reopened(d) = w
      BY <2>2, <2>4, <2>5 DEF RecoverPendingSplit
    <3>2. ListOf(d) = d.meta /\ After(d) = d.rkds
      BY <1>4, <2>5 DEF ListOf, After
    <3> QED
      BY <2>2, <2>3, <3>1, <3>2
  <2>6. CASE d.split # <<>>
    <3>1. Repaired(files, w, RecoverPendingSplit(w), t, u)
      BY <2>1, <2>2, <2>3, <2>6, PendingTo
    <3>2. ListOf(d) = ListFrom(t)
      BY <2>6 DEF ListOf
    <3> QED
      BY <2>2, <2>4, <3>1, <3>2 DEF Repaired
  <2> QED
    BY <2>5, <2>6
<1>5. CASE d.meta = <<>>
  <2>1. /\ r \in Work(F, files) /\ Slots(r) = {} /\ r.disk \in Disks(files)
        /\ r.mem.ranges = ListFrom(u) /\ r.trace = Append(<<>>, r.disk)
        /\ r.disk.rkds = u /\ r.disk.split = d.split /\ r.disk.meta = ListFrom(u)
    BY <1>2, RebuildTo
  <2> HIDE DEF r
  <2>2. After(r.disk) = t
    BY <2>1 DEF After, SplitComplete
  <2>3. Reopened(d) = RecoverPendingSplit(r)
    BY <1>1, <1>5
  <2>4. ListOf(d) = ListFrom(t)
    BY <1>5 DEF ListOf
  <2>5. \A i \in DOMAIN r.trace : r.trace[i] = r.disk
    BY <2>1
  <2>6. CASE d.split = <<>>
    <3>1. Reopened(d) = r
      BY <2>1, <2>3, <2>6 DEF RecoverPendingSplit
    <3>2. t = u
      BY <2>6 DEF After
    <3>3. r.disk \in R
      BY <2>1, <2>2, <3>2, ResumedIf
    <3> QED
      BY <2>1, <2>4, <2>5, <3>1, <3>2, <3>3
  <2>7. CASE d.split # <<>>
    <3>1. Repaired(files, r, RecoverPendingSplit(r), t, u)
      BY <2>1, <2>2, <2>7, PendingTo
    <3>2. r.disk \in R
      BY <2>1, <2>2, <2>7 DEF Resumed, ListOf
    <3> HIDE DEF R, t, u
    <3>3. /\ Slots(Reopened(d)) = {} /\ Reopened(d).mem.ranges = ListFrom(t)
          /\ Reopened(d).disk.rkds = t /\ Reopened(d).disk \in R
          /\ \A i \in DOMAIN Reopened(d).trace :
               \/ Reopened(d).trace[i] \in R
               \/ \E j \in DOMAIN r.trace : Reopened(d).trace[i] = r.trace[j]
      BY <2>3, <3>1 DEF Repaired, R
    <3>4. \A i \in DOMAIN Reopened(d).trace : Reopened(d).trace[i] \in R
      BY <2>5, <3>2, <3>3
    <3> QED
      BY <2>4, <3>3, <3>4 DEF R, t, u
  <2> QED
    BY <2>6, <2>7
<1> QED
  BY <1>4, <1>5

\* What a key has for an open that does not look at barrel2.
LEMMA DurableIs ==
  ASSUME NEW files, NEW d \in Disks(files), DiskOK(d), NEW k
  PROVE  Read(Reopened(d), k) = Finds(ListOf(d), After(d), k)
<1> DEFINE g == Reopened(d)
<1>1. g \in Work({files}, files)
  BY ReopenedOf
<1>2. CASE ~Fresh0(d)
  <2>1. Slots(g) = {} /\ g.mem.ranges = ListOf(d) /\ g.disk.rkds = After(d)
    BY <1>2, ReopenedTo
  <2> HIDE DEF g
  <2>2. Read(g, k) = Finds(g.mem.ranges, g.disk.rkds, k)
    BY <1>1, <2>1, ReadFinds
  <2> QED
    BY <2>1, <2>2 DEF g
<1>3. CASE Fresh0(d)
  <2> DEFINE o == Opening(d)
             z == CreateInitialRange(o)
  <2>1. g = z
    BY <1>3 DEF Reopened, Fresh0
  <2>2. o \in Work({files}, files) /\ Good(o) /\ o.disk = d
    BY OpeningOf, OpeningGood
  <2> HIDE DEF o
  <2>3. RangeSet(z.mem.ranges) = {Bounds(NoKey, NoKey, 1)} /\ Entr(z, 1) = <<>>
    BY <1>3, <2>2, InitialGood DEF Fresh0
  <2> HIDE DEF z, g
  <2>4. z.mem.ranges \in Ranges
    BY <1>1, <2>1 DEF Work, Memories
  <2>5. FindRange(z.mem.ranges, k) # 0 => FindRange(z.mem.ranges, k) = 1
    BY <2>3, <2>4, FindsOne DEF Bounds
  <2>6. Answer(<<>>, k) = NoRecord
    BY DEF Answer
  <2>7. Read(z, k) = NoRecord
    BY <2>3, <2>5, <2>6, ReadIs
  <2>8. After(d) = d.rkds
    BY <1>3 DEF Fresh0, After
  <2>9. Finds(ListOf(d), After(d), k) = NoRecord
    BY <1>3, <2>8 DEF Fresh0, Finds
  <2> QED
    BY <2>1, <2>7, <2>9 DEF g
<1> QED
  BY <1>2, <1>3

-----------------------------------------------------------------------------
(* Where a view tells what an open finds.                                    *)

\* By a list that was saved.
LEMMA ListRight ==
  ASSUME NEW files, NEW d \in Disks(files), DiskOK(d), NEW w, Like(d, w),
         w.split = <<>>, w.meta # <<>>, RangeSet(w.meta) \subseteq w.over,
         \A b \in RangeSet(w.meta) : b.name \in w.least,
         NEW k \in Key, FindRange(w.meta, k) = 0 => NoRecord \in w.vals[k]
  PROVE  Read(Reopened(d), k) \in w.vals[k]
<1> DEFINE n == FindRange(w.meta, k)
           t == d.rkds
<1>1. d.meta = w.meta /\ d.split = <<>> /\ w.meta \in Ranges
  BY DiskTables DEF Like
<1>2. ListOf(d) = w.meta /\ After(d) = t
  BY <1>1 DEF ListOf, After
<1>3. Read(Reopened(d), k) = IF n # 0 /\ n \in DOMAIN t THEN Answer(t[n].entries, k) ELSE NoRecord
  BY <1>2, DurableIs DEF Finds
<1>4. CASE n = 0
  BY <1>3, <1>4
<1>5. CASE n # 0
  <2>1. PICK b \in RangeSet(w.meta) : b.name = n /\ Covers(b, k)
    BY <1>1, <1>5, FindsOne
  <2>2. n \in DOMAIN t /\ May(w, n, t[n])
    BY <2>1 DEF Like
  <2>3. Tight(b, t[n], w.vals)
    BY <2>1, <2>2 DEF May
  <2>4. Answer(t[n].entries, k) \in w.vals[k]
    BY <2>1, <2>3 DEF Tight
  <2> HIDE DEF n, t
  <2> QED
    BY <1>3, <1>5, <2>2, <2>4
<1> QED
  BY <1>4, <1>5

\* By the list that is made of the blobs.
LEMMA RebuiltRight ==
  ASSUME NEW files, NEW d \in Disks(files), DiskOK(d), NEW w, Like(d, w),
         w.split # <<>> \/ w.meta = <<>>, \A n \in w.only : \E b \in w.over : b.name = n,
         NEW k \in Key, FindRange(ListFrom(After(d)), k) = 0 => NoRecord \in w.vals[k]
  PROVE  Read(Reopened(d), k) \in w.vals[k]
<1> DEFINE t == After(d)
           q == ListFrom(t)
           n == FindRange(q, k)
<1>1. t \in Tables(files) /\ \A m \in DOMAIN t : m \in DOMAIN d.rkds /\ t[m] = d.rkds[m]
  BY AfterOf
<1>2. ListOf(d) = q
  BY DEF ListOf, Like
<1>3. Read(Reopened(d), k) = IF n # 0 /\ n \in DOMAIN t THEN Answer(t[n].entries, k) ELSE NoRecord
  BY <1>2, DurableIs DEF Finds
<1> HIDE DEF t
<1>4. q \in Ranges /\ RangeSet(q) = {BlobRange(t, m) : m \in DOMAIN t}
  BY <1>1, ListFromIs
<1>5. CASE n = 0
  BY <1>3, <1>5 DEF t
<1>6. CASE n # 0
  <2>1. PICK b \in RangeSet(q) : b.name = n /\ Covers(b, k)
    BY <1>4, <1>6, FindsOne
  <2>2. PICK m \in DOMAIN t : b = BlobRange(t, m)
    BY <1>4, <2>1
  <2>3. m = n /\ Covers(t[n], k)
    BY <2>1, <2>2 DEF BlobRange, Bounds, Covers
  <2>4. May(w, n, t[n])
    BY <1>1, <2>2, <2>3 DEF Like
  <2>5. PICK c \in w.over : c.name = n
    BY <2>4 DEF May
  <2>6. Tight(c, t[n], w.vals)
    BY <2>4, <2>5 DEF May
  <2>7. Answer(t[n].entries, k) \in w.vals[k]
    BY <2>3, <2>6 DEF Tight, Inner
  <2> HIDE DEF n
  <2> QED
    BY <1>3, <1>6, <2>2, <2>3, <2>7
<1> QED
  BY <1>5, <1>6

\* Blobs whose bounds are those of a key, and lie within the ranges of the list.
Snug(d) ==
  /\ \A n \in DOMAIN d.rkds : d.rkds[n].min <= MaxKey
  /\ d.split = <<>> => \A b \in RangeSet(d.meta) :
                         b.name \in DOMAIN d.rkds => Inner(b, d.rkds[b.name])

LEMMA LikeSnug ==
  ASSUME NEW d, NEW w, Like(d, w), w.split = <<>> => RangeSet(w.meta) \subseteq w.over
  PROVE  Snug(d)
BY DEF Like, May, Tight, Snug

LEMMA ResumedSnug ==
  ASSUME NEW files, NEW d \in Disks(files), Snug(d), NEW x \in Resumed(files, After(d), d.rkds)
  PROVE  Snug(x)
<1> DEFINE t == After(d)
<1>1. t \in Tables(files) /\ \A m \in DOMAIN t : m \in DOMAIN d.rkds /\ t[m] = d.rkds[m]
  BY AfterOf
<1>2. x.rkds \in {t, d.rkds} /\ (x.split = <<>> => x.meta = ListFrom(t) /\ x.rkds = t)
  BY DEF Resumed
<1> HIDE DEF t
<1>3. \A n \in DOMAIN x.rkds : x.rkds[n].min <= MaxKey
  BY <1>1, <1>2 DEF Snug
<1>4. ASSUME x.split = <<>>, NEW b \in RangeSet(x.meta)
      PROVE  Inner(b, x.rkds[b.name])
  <2>1. PICK m \in DOMAIN t : b = BlobRange(t, m)
    BY <1>1, <1>2, <1>4, ListFromIs
  <2>2. b.name = m /\ b.min = t[m].min /\ b.max = t[m].max
    BY <2>1 DEF BlobRange, Bounds
  <2> QED
    BY <1>2, <1>4, <2>2 DEF Inner, Covers
<1> QED
  BY <1>3, <1>4 DEF Snug

\* What an open goes through says what the disk said that it began with.
Reaches(d, x) == Snug(x) /\ \A k \in Key : Read(Reopened(x), k) = Read(Reopened(d), k)

LEMMA ResumedReaches ==
  ASSUME NEW files, NEW d \in Disks(files), DiskOK(d), Snug(d), ~(d.split = <<>> /\ d.meta # <<>>),
         NEW x \in Resumed(files, After(d), d.rkds), DiskOK(x)
  PROVE  Reaches(d, x)
<1>1. x \in Disks(files) /\ After(x) = After(d) /\ ListOf(x) = ListFrom(After(d))
  BY DEF Resumed
<1>2. ListOf(d) = ListFrom(After(d))
  BY DEF ListOf
<1>3. Snug(x)
  BY ResumedSnug
<1>4. ASSUME NEW k
      PROVE  Read(Reopened(x), k) = Read(Reopened(d), k)
  <2>1. Read(Reopened(x), k) = Finds(ListOf(x), After(x), k)
    BY <1>1, DurableIs
  <2>2. Read(Reopened(d), k) = Finds(ListOf(d), After(d), k)
    BY DurableIs
  <2> QED
    BY <1>1, <1>2, <2>1, <2>2
<1> QED
  BY <1>3, <1>4 DEF Reaches

View(meta, split, files, least, only, over, vals) ==
  [meta |-> meta, split |-> split, files |-> files, least |-> least, only |-> only,
   over |-> over, vals |-> vals]

\* The first open of all: whenever it dies, there are no keys.
LEMMA InitialReaches ==
  ASSUME NEW files, NEW d \in Disks(files), DiskOK(d), Fresh0(d), NEW x, DiskOK(x),
         x = Reopened(d).disk \/ \E i \in DOMAIN Reopened(d).trace : x = Reopened(d).trace[i]
  PROVE  Reaches(d, x)
<1> DEFINE F == {files}
           o == Opening(d)
           r == NewRkd(NoKey, NoKey, 0)
           b == Bounds(NoKey, NoKey, 1)
           V == [k \in Key |-> {NoRecord}]
           w == View(<<>>, <<>>, files, {}, {1}, {b}, V)
           v == View(<<b>>, <<>>, files, {1}, {1}, {b}, V)
           S == {y \in Disks(files) : Like(y, w) \/ Like(y, v)}
           g == SaveRangeKeyDir(o, 1, r)
           h == WithRanges(g, <<b>>)
           e == [h.disk EXCEPT !.meta = <<b>>]
           z == Write(h, e)
<1> files \in F
  OBVIOUS
<1>1. Reopened(d) = z
  <2>1. Reopened(d) = CreateInitialRange(o)
    BY DEF Reopened, Fresh0
  <2>2. CreateInitialRange(o) = SaveRangeMetadata(h)
    BY DEF CreateInitialRange, WithRanges
  <2>3. o \in Work(F, files)
    BY OpeningOf
  <2>4. r \in Rkds(files)
    BY NewRkdOf DEF NoKey
  <2>5. g \in Work(F, files)
    BY <2>3, <2>4, SaveKeeps
  <2>6. h.mem.ranges = <<b>>
    BY <2>5 DEF WithRanges, Work, Memories
  <2>7. SaveRangeMetadata(h) = Write(h, [h.disk EXCEPT !.meta = h.mem.ranges])
    BY DEF SaveRangeMetadata
  <2> QED
    BY <2>1, <2>2, <2>6, <2>7
<1>2. /\ o \in Work(F, files) /\ Good(o) /\ Slots(o) = {} /\ o.disk = d /\ o.trace = <<>>
  <2>1. o \in Work(F, files) /\ Good(o) /\ Slots(o) = {} /\ o.disk = d
    BY OpeningOf, OpeningGood
  <2>2. o.trace = <<>>
    BY DEF Opening
  <2> QED
    BY <2>1, <2>2
<1> HIDE DEF o, F
<1>3. r \in Rkds(files) /\ Hull(r) /\ r.entries = <<>> /\ r.min = 0
  BY NewRkdOf, NewRkdHull DEF NoKey, NewRkd
<1>4. b \in RangeRec /\ b.min = 0 /\ b.name = 1
  BY BoundsOf DEF Bounds, NoKey
<1>5. /\ w.meta = <<>> /\ w.split = <<>> /\ w.files = files /\ w.least = {} /\ w.only = {1}
      /\ w.over = {b} /\ w.vals = V
      /\ v.meta = <<b>> /\ v.split = <<>> /\ v.files = files /\ v.least = {1} /\ v.only = {1}
      /\ v.over = {b} /\ v.vals = V
  BY DEF View
<1>6. \A k \in Key : V[k] = {NoRecord}
  OBVIOUS
<1> HIDE DEF r, b, w, v, V
<1>7. May(w, 1, r)
  <2>1. Inner(b, r)
    BY <1>4 DEF Inner, Covers, NoKey
  <2>2. \A k \in Key : Answer(r.entries, k) \in V[k]
    BY <1>3, <1>6 DEF Answer
  <2>3. Tight(b, r, V)
    BY <2>1, <2>2 DEF Tight
  <2>4. r.min <= MaxKey
    BY <1>3, BoundFacts
  <2> QED
    BY <1>3, <1>5, <2>3, <2>4 DEF May
<1>8. Like(d, w)
  <2>1. d.files = files
    BY DiskTables
  <2> QED
    BY <1>5, <2>1 DEF Like, Fresh0
<1>9. Holding(F, w, S) /\ Holding(F, v, S)
  BY DEF Holding, DisksOf, F
<1>10. Keeps(o, w, S)
  BY <1>2, <1>8 DEF Keeps
<1>11. g \in Work(F, files) /\ Keeps(g, w, S)
  BY <1>2, <1>3, <1>7, <1>9, <1>10, SaveKept, SaveKeeps
<1>12. 1 \in DOMAIN g.disk.rkds
  <2>1. Savable(o, 1, r)
    BY <1>2 DEF Savable, Fresh0
  <2>2. Saved(o, g, 1, r)
    BY <1>2, <1>3, <2>1, SaveGood
  <2> QED
    BY <2>2 DEF Saved
<1> HIDE DEF g
<1>13. /\ h.mem.cache = g.mem.cache /\ h.disk = g.disk /\ h.trace = g.trace
  BY <1>11 DEF WithRanges, Work, Memories
<1>14. h \in Work(F, files)
  <2>1. <<b>> \in Ranges
    <3>1. <<b>> \in Seq(RangeRec) /\ DOMAIN <<b>> = {1} /\ <<b>>[1] = b /\ Len(<<b>>) = 1
      BY <1>4
    <3> QED
      BY <1>4, <3>1 DEF Ranges, RangeRec
  <2> QED
    BY <1>11, <2>1, RangesKeep DEF WithRanges
<1> HIDE DEF h
<1>15. Slots(h) = Slots(g)
  BY <1>13 DEF Slots
<1>16. Keeps(h, w, S)
  BY <1>11, <1>13, <1>15, MemKept
<1>17. h.disk \in Disks(files)
  BY <1>14 DEF Work
<1>18. <<b>> \in Ranges
  <2>1. <<b>> \in Seq(RangeRec) /\ DOMAIN <<b>> = {1} /\ <<b>>[1] = b /\ Len(<<b>>) = 1
    BY <1>4
  <2> QED
    BY <1>4, <2>1 DEF Ranges, RangeRec
<1>19. /\ e \in Disks(files) /\ e.meta = <<b>> /\ e.rkds = h.disk.rkds /\ e.split = h.disk.split
       /\ e.files = files
  BY <1>17, <1>18 DEF Disks
<1> HIDE DEF e
<1>20. \A n, s : May(w, n, s) => May(v, n, s)
  BY <1>5 DEF May
<1>21. Like(e, v)
  <2>1. Like(h.disk, w)
    BY <1>16 DEF Keeps
  <2> QED
    BY <1>5, <1>12, <1>13, <1>19, <1>20, <2>1 DEF Like
<1>22. \A c \in Slots(h) : May(v, c.name, c.rkd)
  BY <1>16, <1>20 DEF Keeps
<1>23. Keeps(z, v, S)
  BY <1>9, <1>14, <1>16, <1>19, <1>21, <1>22, WriteKept
<1>24. x \in S
  <2>1. z.disk = e
    BY <1>14 DEF Write, Work
  <2>2. e \in S
    BY <1>19, <1>21
  <2> HIDE DEF S, z
  <2> QED
    BY <1>1, <1>23, <2>1, <2>2 DEF Keeps
<1>25. ASSUME NEW y \in Disks(files), DiskOK(y), Like(y, w) \/ Like(y, v), NEW k \in Key
       PROVE  Read(Reopened(y), k) = NoRecord
  <2>1. NoRecord \in V[k]
    BY <1>6
  <2>2. CASE Like(y, w)
    <3>1. Read(Reopened(y), k) \in w.vals[k]
      BY <1>4, <1>5, <1>25, <2>1, <2>2, RebuiltRight
    <3> QED
      BY <1>5, <1>6, <3>1
  <2>3. CASE Like(y, v)
    <3>1. RangeSet(v.meta) = {b} /\ v.meta # <<>>
      BY <1>5 DEF RangeSet
    <3>2. Read(Reopened(y), k) \in v.vals[k]
      BY <1>4, <1>5, <1>25, <2>1, <2>3, <3>1, ListRight
    <3> QED
      BY <1>5, <1>6, <3>2
  <2> QED
    BY <1>25, <2>2, <2>3
<1>26. Snug(x)
  <2>1. RangeSet(v.meta) \subseteq v.over /\ RangeSet(w.meta) \subseteq w.over
    BY <1>5 DEF RangeSet
  <2> QED
    BY <1>24, <2>1, LikeSnug
<1>27. \A k \in Key : Read(Reopened(x), k) = NoRecord /\ Read(Reopened(d), k) = NoRecord
  BY <1>8, <1>24, <1>25
<1> QED
  BY <1>26, <1>27 DEF Reaches

LEMMA ReopenedReaches ==
  ASSUME NEW files, NEW d \in Disks(files), DiskOK(d), Snug(d)
  PROVE  /\ Reaches(d, Reopened(d).disk)
         /\ \A i \in DOMAIN Reopened(d).trace : Reaches(d, Reopened(d).trace[i])
<1> DEFINE g == Reopened(d)
           R == Resumed(files, After(d), d.rkds)
<1>1. DiskOK(g.disk) /\ \A i \in DOMAIN g.trace : DiskOK(g.trace[i])
  BY ReopenedGood DEF Settled, Good, GoodBut
<1>2. CASE Fresh0(d)
  <2> HIDE DEF g
  <2>1. Reaches(d, g.disk)
    BY <1>1, <1>2, InitialReaches DEF g
  <2>2. ASSUME NEW i \in DOMAIN g.trace
        PROVE  Reaches(d, g.trace[i])
    BY <1>1, <1>2, InitialReaches DEF g
  <2> QED
    BY <2>1, <2>2 DEF g
<1>3. CASE ~Fresh0(d)
  <2>1. g.disk \in {d} \cup R /\ \A i \in DOMAIN g.trace : g.trace[i] \in R
    BY <1>3, ReopenedTo
  <2>2. Reaches(d, d)
    BY DEF Reaches
  <2>3. CASE d.split = <<>> /\ d.meta # <<>>
    <3>1. g.disk = d /\ g.trace = <<>>
      <4>1. g = WithRanges(Opening(d), d.meta)
        BY <2>3 DEF Reopened, WithRanges, RecoverPendingSplit, Opening
      <4> QED
        BY <4>1 DEF WithRanges, Opening
    <3> QED
      BY <2>2, <3>1
  <2>4. CASE ~(d.split = <<>> /\ d.meta # <<>>)
    <3>1. \A x \in R : DiskOK(x) => Reaches(d, x)
      BY <2>4, ResumedReaches
    <3> HIDE DEF R, g
    <3> QED
      BY <1>1, <2>1, <2>2, <3>1 DEF g
  <2> QED
    BY <2>3, <2>4
<1> QED
  BY <1>2, <1>3

-----------------------------------------------------------------------------
(* What an open finds while a split is under way.                            *)

\* No key is in two ranges of different names.
Apart(R) == \A r, s \in R : r.name # s.name => \A k \in Key : ~(Covers(r, k) /\ Covers(s, k))

LEMMA ApartIf ==
  ASSUME NEW q \in Ranges, ~Overlap(q)
  PROVE  Apart(RangeSet(q))
<1>1. DOMAIN q = 1 .. Len(q) /\ Len(q) \in Nat
  BY RangesFacts
<1>2. ASSUME NEW i \in DOMAIN q, NEW j \in DOMAIN q, q[i].name # q[j].name, NEW k \in Key,
             Covers(q[i], k), Covers(q[j], k)
      PROVE  FALSE
  <2>1. i < j \/ j < i
    BY <1>1, <1>2
  <2> QED
    BY <1>2, <2>1 DEF Overlap
<1> QED
  BY <1>2 DEF Apart, RangeSet

LEMMA ApartThen ==
  ASSUME NEW q \in Ranges, Names(q), Apart(RangeSet(q))
  PROVE  ~Overlap(q)
<1>1. DOMAIN q = 1 .. Len(q) /\ Len(q) \in Nat
  BY RangesFacts
<1>2. ASSUME NEW i \in DOMAIN q, NEW j \in DOMAIN q, i < j, NEW k \in Key,
             Covers(q[i], k), Covers(q[j], k)
      PROVE  FALSE
  <2>1. q[i].name # q[j].name
    BY <1>1, <1>2 DEF Names
  <2> QED
    BY <1>2, <2>1 DEF Apart, RangeSet
<1> QED
  BY <1>2 DEF Overlap

\* Blobs that lie within the ranges of R that they are named after.
Within(t, R) ==
  \A n \in DOMAIN t : /\ n # 0 /\ (t[n].max = NoKey \/ t[n].min <= t[n].max)
                      /\ t[n].min <= MaxKey
                      /\ \E r \in R : r.name = n /\ Inner(r, t[n])

LEMMA BlobRangeIs ==
  ASSUME NEW files, NEW t \in Tables(files), NEW R, Within(t, R)
  PROVE  /\ ListFrom(t) \in Ranges
         /\ \A n \in DOMAIN t : BlobRange(t, n) \in RangeSet(ListFrom(t))
         /\ \A c \in RangeSet(ListFrom(t)) :
              /\ c.name \in DOMAIN t /\ c = BlobRange(t, c.name)
              /\ Straight(c) /\ c.min <= MaxKey
              /\ \E r \in R : r.name = c.name /\ Inner(r, c)
<1>1. ListFrom(t) \in Ranges /\ RangeSet(ListFrom(t)) = {BlobRange(t, n) : n \in DOMAIN t}
  BY ListFromIs
<1>2. ASSUME NEW n \in DOMAIN t, NEW c, c = BlobRange(t, n)
      PROVE  /\ c.name = n /\ Straight(c) /\ c.min <= MaxKey
             /\ \E r \in R : r.name = c.name /\ Inner(r, c)
  <2>1. c.name = n /\ c.min = t[n].min /\ c.max = t[n].max
    BY <1>2 DEF BlobRange, Bounds
  <2>2. n # 0 /\ (t[n].max = NoKey \/ t[n].min <= t[n].max) /\ t[n].min <= MaxKey
    BY DEF Within
  <2>3. PICK r \in R : r.name = n /\ Inner(r, t[n])
    BY DEF Within
  <2>4. Inner(r, c)
    BY <2>1, <2>3 DEF Inner, Covers
  <2> QED
    BY <2>1, <2>2, <2>3, <2>4 DEF Straight
<1> QED
  BY <1>1, <1>2

\* Within ranges that are apart, whatever is in a blob is found.
LEMMA WithinFinds ==
  ASSUME NEW files, NEW t \in Tables(files), NEW R, Apart(R), Within(t, R),
         NEW n \in DOMAIN t, NEW k \in Key, Covers(t[n], k)
  PROVE  FindRange(ListFrom(t), k) # 0
<1> DEFINE q == ListFrom(t)
           x == BlobRange(t, n)
<1>1. /\ q \in Ranges /\ x \in RangeSet(q)
      /\ \A c \in RangeSet(q) : Straight(c) /\ \E r \in R : r.name = c.name /\ Inner(r, c)
  BY BlobRangeIs
<1>2. Names(q)
  BY ListFromIs
<1>3. Covers(x, k) /\ x.name = n
  BY DEF BlobRange, Bounds, Covers
<1> HIDE DEF q, x
<1>4. Apart(RangeSet(q))
  <2>1. ASSUME NEW c \in RangeSet(q), NEW e \in RangeSet(q), c.name # e.name, NEW j \in Key,
               Covers(c, j), Covers(e, j)
        PROVE  FALSE
    <3>1. PICK r \in R : r.name = c.name /\ Inner(r, c)
      BY <1>1
    <3>2. PICK s \in R : s.name = e.name /\ Inner(s, e)
      BY <1>1
    <3>3. Covers(r, j) /\ Covers(s, j)
      BY <2>1, <3>1, <3>2 DEF Inner
    <3> QED
      BY <2>1, <3>1, <3>2, <3>3 DEF Apart
  <2> QED
    BY <2>1 DEF Apart
<1>5. ~Overlap(q)
  BY <1>1, <1>2, <1>4, ApartThen
<1>6. FindRange(q, k) = n
  BY <1>1, <1>3, <1>5, FindsCovering
<1>7. n # 0
  BY DEF Within
<1> QED
  BY <1>6, <1>7 DEF q

\* The range b of M and the two that take its place.
Divides(M, b, lb, rb) ==
  /\ M \subseteq RangeRec /\ b \in M /\ lb \in RangeRec /\ rb \in RangeRec
  /\ Apart(M) /\ Apart({r \in M : r.name # b.name} \cup {lb, rb})
  /\ \A r \in M : r.name # lb.name /\ r.name # rb.name /\ (r.name = b.name => r = b)
  /\ lb.name # rb.name
  /\ lb.min \in Key /\ rb.min \in Key /\ rb.max = NoKey
  /\ Covers(b, lb.min) /\ Covers(b, rb.min)

\* A key that is in the old range or in a half of it and not before that half is in no other range.
LEMMA Shadowed ==
  ASSUME NEW M, NEW b, NEW lb, NEW rb, Divides(M, b, lb, rb),
         NEW e \in {lb, rb}, NEW j \in Key, Covers(e, j), NEW i \in Key, j <= i,
         NEW r \in M, r.name # b.name
  PROVE  ~Covers(r, i)
<1>1. /\ b.min \in Nat /\ b.max \in Nat /\ lb.min \in Nat /\ lb.max \in Nat /\ rb.min \in Nat
      /\ lb.min # 0 /\ rb.min # 0 /\ rb.max = 0
      /\ i \in Nat /\ j \in Nat /\ i # 0 /\ j # 0
  BY KeyFacts DEF Divides, RangeRec, NoKey
<1>2. \A k \in Key : ~(Covers(r, k) /\ Covers(rb, k)) /\ ~(Covers(r, k) /\ Covers(b, k))
  <2>1. r.name # rb.name
    BY DEF Divides
  <2> QED
    BY <2>1 DEF Divides, Apart
<1>3. CASE rb.min <= i
  <2>1. Covers(rb, i)
    BY <1>1, <1>3 DEF Covers, NoKey
  <2> QED
    BY <1>2, <2>1
<1>4. CASE ~(rb.min <= i)
  <2>1. e = lb
    BY <1>1, <1>4 DEF Covers, NoKey
  <2>2. lb.min <= i /\ i < rb.min
    BY <1>1, <1>4, <2>1 DEF Covers, NoKey
  <2>3. Covers(b, lb.min) /\ Covers(b, rb.min)
    BY DEF Divides
  <2>4. Covers(b, i)
    BY <1>1, <2>2, <2>3 DEF Covers, NoKey
  <2> QED
    BY <1>2, <2>4
<1> QED
  BY <1>3, <1>4

\* One half beside the old range overlaps it, and the search still ends at one of the two.
LEMMA OneHalfFinds ==
  ASSUME NEW files, NEW t \in Tables(files), NEW M, NEW b, NEW lb, NEW rb, Divides(M, b, lb, rb),
         NEW e, e = lb \/ e = rb, NEW U, U = M \cup {e}, Within(t, U),
         NEW n \in DOMAIN t, n # e.name, NEW k \in Key, Covers(t[n], k)
  PROVE  FindRange(ListFrom(t), k) # 0
<1> DEFINE q == ListFrom(t)
           l == Len(q)
<1>1. /\ q \in Ranges /\ BlobRange(t, n) \in RangeSet(q)
      /\ \A c \in RangeSet(q) : /\ c.name \in DOMAIN t /\ c = BlobRange(t, c.name)
                                /\ Straight(c) /\ c.min <= MaxKey
                                /\ \E r \in U : r.name = c.name /\ Inner(r, c)
  BY BlobRangeIs
<1>2. Names(q)
  BY ListFromIs
<1>3. /\ q \in Seq(RangeRec) /\ l \in Nat /\ DOMAIN q = 1 .. l
      /\ \A i \in 1 .. l : q[i].min \in Nat /\ q[i].max \in Nat
      /\ \A i, j \in 1 .. l : i <= j => q[i].min <= q[j].min
  BY <1>1, RangesFacts
<1>4. k \in Nat /\ k # 0 /\ k <= MaxKey /\ MaxKey \in Nat
  BY BoundFacts DEF Key
<1>5. PICK x \in DOMAIN q : q[x] = BlobRange(t, n)
  BY <1>1 DEF RangeSet
<1>6. q[x].name = n /\ Covers(q[x], k)
  BY <1>5 DEF BlobRange, Bounds, Covers
<1> HIDE DEF q, l
<1> DEFINE T == Nat \ {0}
<1>7. \A c \in DOMAIN q : q[c] \in RangeSet(q) /\ q[c].name \in T
  BY <1>1, TableFacts DEF RangeSet, Straight
<1>8. \A c \in DOMAIN q : c < x => k >= q[c].min
  BY <1>3, <1>4, <1>6 DEF Covers, NoKey
<1>9. ASSUME NEW c \in DOMAIN q, ~Covers(q[c], k), x < c, k >= q[c].min, c # l
      PROVE  FALSE
  <2> DEFINE j == q[c].min
             y == c + 1
  <2>1. y \in 1 .. l /\ c < y /\ x \in 1 .. l /\ c \in 1 .. l
    BY <1>3, <1>9
  <2>2. j \in Nat /\ j # 0 /\ j <= k
    BY <1>3, <1>9, <2>1 DEF Covers, NoKey
  <2>3. j \in Key
    BY <1>4, <2>2 DEF Key
  <2>4. Covers(q[c], j)
    <3>1. Straight(q[c])
      BY <1>1, <1>7
    <3> QED
      BY <1>3, <2>1, <2>2, <3>1 DEF Straight, Covers, NoKey
  <2>5. Covers(q[x], j)
    <3>1. q[x].min <= j /\ q[x].min \in Nat /\ q[x].max \in Nat
      BY <1>3, <1>9, <2>1
    <3> HIDE DEF j
    <3> QED
      BY <1>4, <1>6, <2>2, <3>1 DEF Covers, NoKey
  <2> DEFINE i == q[y].min
  <2>6. i \in Nat /\ j <= i /\ i <= MaxKey
    BY <1>1, <1>3, <1>7, <2>1
  <2>7. i \in Key
    BY <1>4, <2>2, <2>6 DEF Key
  <2>8. Covers(q[y], i)
    <3>1. Straight(q[y])
      BY <1>1, <1>3, <1>7, <2>1
    <3> QED
      BY <1>3, <2>1, <2>2, <2>6, <3>1 DEF Straight, Covers, NoKey
  <2>9. q[x].name # q[c].name /\ q[y].name # q[x].name /\ q[y].name # q[c].name
    BY <1>2, <1>3, <1>9, <2>1 DEF Names
  <2> HIDE DEF j, i
  <2>10. PICK rx \in U : rx.name = q[x].name /\ Inner(rx, q[x])
    BY <1>1, <1>7
  <2>11. PICK rc \in U : rc.name = q[c].name /\ Inner(rc, q[c])
    BY <1>1, <1>7
  <2>12. PICK ry \in U : ry.name = q[y].name /\ Inner(ry, q[y])
    BY <1>1, <1>3, <1>7, <2>1
  <2>13. Covers(rx, j) /\ Covers(rc, j) /\ Covers(ry, i)
    BY <2>3, <2>4, <2>5, <2>7, <2>8, <2>10, <2>11, <2>12 DEF Inner
  <2>14. rx \in M /\ rx # e
    BY <1>6, <2>10
  <2>15. rc = e
    <3>1. CASE rc \in M
      BY <2>3, <2>9, <2>10, <2>11, <2>13, <2>14, <3>1 DEF Divides, Apart
    <3> QED
      BY <3>1
  <2>16. rx.name = b.name
    <3>1. SUFFICES ASSUME rx.name # b.name
                   PROVE  FALSE
      OBVIOUS
    <3>2. rx \in {r \in M : r.name # b.name} \cup {lb, rb} /\ e \in {lb, rb}
      BY <2>14, <3>1
    <3>3. rx.name # e.name
      BY <2>9, <2>10, <2>11, <2>15
    <3>4. Apart({r \in M : r.name # b.name} \cup {lb, rb})
      BY DEF Divides
    <3> QED
      BY <2>3, <2>13, <2>15, <3>2, <3>3, <3>4 DEF Apart
  <2>17. ry \in M /\ ry.name # b.name
    BY <2>9, <2>10, <2>11, <2>12, <2>15, <2>16
  <2> QED
    BY <2>3, <2>6, <2>7, <2>13, <2>15, <2>17, Shadowed
<1>10. FindRange(q, k) \in T
  <2>1. \A c \in DOMAIN q : Covers(q[c], k) => q[c].name \in T
    BY <1>7
  <2>2. \A c \in DOMAIN q : ~Covers(q[c], k) /\ c < x => k >= q[c].min
    BY <1>8
  <2>3. \A c \in DOMAIN q : ~Covers(q[c], k) /\ x < c => ~(k >= q[c].min) \/ c = Len(q)
    BY <1>9 DEF l
  <2> HIDE DEF T
  <2> QED
    BY <1>1, <1>6, <2>1, <2>2, <2>3, SearchMeets
<1> QED
  BY <1>10 DEF q

-----------------------------------------------------------------------------
(* What a disk must be like for an operation to be allowed to go through it.  *)

\* An open finds for each key one of the values in V, or in W when there are new records; of a
\* split that is under way this is said only if every blob was listed when it began.
Safe(F, files, V, W, listed) ==
  {d \in DisksOf(F) :
     DiskOK(d) =>
       /\ Snug(d)
       /\ d.split = <<>> \/ listed =>
            \A k \in Key : Read(Reopened(d), k) \in IF d.files = files THEN V[k] ELSE W[k]}

LEMMA MayAlso ==
  ASSUME NEW w, NEW v, NEW n, NEW r, May(w, n, r), n \in v.only,
         \A b \in v.over : b.name = n => b \in w.over, \A k \in Key : w.vals[k] \subseteq v.vals[k]
  PROVE  May(v, n, r)
<1>1. ASSUME NEW b \in v.over, b.name = n
      PROVE  Tight(b, r, v.vals)
  BY <1>1 DEF May, Tight
<1> QED
  BY <1>1 DEF May

LEMMA DiskIn ==
  ASSUME NEW F, NEW d \in DisksOf(F)
  PROVE  \E files \in F : d \in Disks(files) /\ d.files = files
BY DiskTables DEF DisksOf

\* The view of a list when no split is under way.
ListView(meta, files, only, over, vals) ==
  View(meta, <<>>, files, {b.name : b \in RangeSet(meta)}, only, over, vals)

LEMMA ViewIs ==
  ASSUME NEW meta, NEW split, NEW files, NEW least, NEW only, NEW over, NEW vals,
         NEW w, w = View(meta, split, files, least, only, over, vals)
  PROVE  /\ w.meta = meta /\ w.split = split /\ w.files = files /\ w.least = least
         /\ w.only = only /\ w.over = over /\ w.vals = vals
BY DEF View

LEMMA ListHolds ==
  ASSUME NEW F, NEW files, NEW V, NEW W, NEW listed,
         NEW meta, NEW more, NEW only, NEW over, NEW vals,
         vals = IF more = files THEN V ELSE W,
         RangeSet(meta) \subseteq over,
         meta = <<>> => \A n \in only : \E b \in over : b.name = n,
         \A k \in Key : FindRange(meta, k) = 0 => NoRecord \in vals[k]
  PROVE  Holding(F, ListView(meta, more, only, over, vals), Safe(F, files, V, W, listed))
<1> DEFINE w == ListView(meta, more, only, over, vals)
<1>1. /\ w.meta = meta /\ w.split = <<>> /\ w.files = more
      /\ w.least = {b.name : b \in RangeSet(meta)}
      /\ w.only = only /\ w.over = over /\ w.vals = vals
  BY ViewIs DEF ListView
<1> HIDE DEF w
<1>2. ASSUME NEW d \in DisksOf(F), Like(d, w), DiskOK(d)
      PROVE  Snug(d) /\ \A k \in Key : Read(Reopened(d), k) \in IF d.files = files THEN V[k] ELSE W[k]
  <2>1. PICK f \in F : d \in Disks(f)
    BY DiskIn
  <2>2. Snug(d)
    BY <1>1, <1>2, LikeSnug
  <2>3. d.files = more
    BY <1>1, <1>2 DEF Like
  <2>4. ASSUME NEW k \in Key
        PROVE  Read(Reopened(d), k) \in vals[k]
    <3>1. CASE meta # <<>>
      <4>1. \A b \in RangeSet(w.meta) : b.name \in w.least
        BY <1>1
      <4>2. Read(Reopened(d), k) \in w.vals[k]
        BY <1>1, <1>2, <2>1, <3>1, <4>1, ListRight
      <4> QED
        BY <1>1, <4>2
    <3>2. CASE meta = <<>>
      <4>1. NoRecord \in vals[k]
        BY <3>2, NoneFound
      <4>2. \A n \in w.only : \E b \in w.over : b.name = n
        BY <1>1, <3>2
      <4>3. Read(Reopened(d), k) \in w.vals[k]
        BY <1>1, <1>2, <2>1, <3>2, <4>1, <4>2, RebuiltRight
      <4> QED
        BY <1>1, <4>3
    <3> QED
      BY <3>1, <3>2
  <2> QED
    BY <2>2, <2>3, <2>4
<1> QED
  BY <1>2 DEF Holding, Safe, w

\* The same while a range is being split: one or both halves may be there, and the old range may
\* be gone when both are.
Halving(R, b, lb, rb, w) ==
  /\ w.split = <<b.name, lb.name, rb.name>>
  /\ R \cup {lb, rb} \subseteq w.over
  /\ \/ \A r \in R : r.name \in w.least
     \/ \A r \in {s \in R : s.name # b.name} \cup {lb, rb} : r.name \in w.least
  /\ \A k \in Key : NoRecord \notin w.vals[k] =>
       \E r \in R : Covers(r, k) /\ (r = b => Covers(lb, k) \/ Covers(rb, k))

LEMMA TightCovers ==
  ASSUME NEW r, NEW b, NEW V, Tight(b, r, V), Hull(r), NEW k \in Key, Covers(b, k),
         NoRecord \notin V[k]
  PROVE  Covers(r, k)
<1>1. Answer(r.entries, k) \in V[k]
  BY DEF Tight
<1>2. k \in DOMAIN r.entries
  BY <1>1 DEF Answer
<1> QED
  BY <1>2 DEF Hull, Covers

LEMMA HalfFound ==
  ASSUME NEW files, NEW d \in Disks(files), DiskOK(d), NEW w, Like(d, w),
         NEW R, NEW b, NEW lb, NEW rb, Divides(R, b, lb, rb), Halving(R, b, lb, rb, w),
         \A n \in w.only : \E r \in R \cup {lb, rb} : r.name = n,
         NEW k \in Key, NoRecord \notin w.vals[k]
  PROVE  FindRange(ListFrom(After(d)), k) # 0
<1> DEFINE t == After(d)
           N == {s \in R : s.name # b.name} \cup {lb, rb}
<1>1. /\ t \in Tables(files) /\ d.rkds \in Tables(files)
      /\ \A n \in DOMAIN t : n \in DOMAIN d.rkds /\ t[n] = d.rkds[n]
      /\ t = IF d.split # <<>> /\ SplitComplete(d)
             THEN [n \in DOMAIN d.rkds \ {d.split[1]} |-> d.rkds[n]] ELSE d.rkds
  BY AfterOf
<1>2. /\ d.split # <<>> /\ d.split[1] = b.name
      /\ SplitComplete(d) <=> lb.name \in DOMAIN d.rkds /\ rb.name \in DOMAIN d.rkds
  BY DEF Like, Halving, SplitComplete
<1>3. w.least \subseteq DOMAIN d.rkds /\ \A n \in DOMAIN d.rkds : May(w, n, d.rkds[n])
  BY DEF Like
<1>4. \A n \in DOMAIN d.rkds : n # 0 /\ Hull(d.rkds[n])
  BY DEF DiskOK
<1> HIDE DEF t
\* a blob lies within the range of its name
<1>5. ASSUME NEW n \in DOMAIN d.rkds
      PROVE  /\ n # 0 /\ (d.rkds[n].max = NoKey \/ d.rkds[n].min <= d.rkds[n].max)
             /\ d.rkds[n].min <= MaxKey
             /\ \E r \in R \cup {lb, rb} : r.name = n /\ Inner(r, d.rkds[n])
  <2>1. May(w, n, d.rkds[n]) /\ n # 0 /\ Hull(d.rkds[n])
    BY <1>3, <1>4
  <2>2. PICK r \in R \cup {lb, rb} : r.name = n
    BY <2>1 DEF May
  <2>3. Inner(r, d.rkds[n])
    BY <2>1, <2>2 DEF May, Halving, Tight
  <2> QED
    BY <2>1, <2>2, <2>3 DEF May, Hull, NoKey
\* and has the key, if the range has it
<1>6. ASSUME NEW r \in R \cup {lb, rb}, r.name \in DOMAIN d.rkds, Covers(r, k)
      PROVE  Covers(d.rkds[r.name], k)
  <2>1. May(w, r.name, d.rkds[r.name])
    BY <1>3, <1>6
  <2>2. Tight(r, d.rkds[r.name], w.vals) /\ Hull(d.rkds[r.name])
    BY <2>1 DEF May, Halving
  <2> QED
    BY <1>6, <2>2, TightCovers
<1>7. PICK r \in R : Covers(r, k) /\ (r = b => Covers(lb, k) \/ Covers(rb, k))
  BY DEF Halving
<1>8. /\ \A s \in R : s.name # lb.name /\ s.name # rb.name /\ (s.name = b.name => s = b)
      /\ b \in R
  BY DEF Divides
<1>9. CASE lb.name \in DOMAIN d.rkds /\ rb.name \in DOMAIN d.rkds
  <2>1. t = [n \in DOMAIN d.rkds \ {b.name} |-> d.rkds[n]]
    BY <1>1, <1>2, <1>9
  <2>2. Within(t, N)
    <3>1. ASSUME NEW n \in DOMAIN t
          PROVE  /\ n # 0 /\ (t[n].max = NoKey \/ t[n].min <= t[n].max)
                 /\ t[n].min <= MaxKey
                 /\ \E s \in N : s.name = n /\ Inner(s, t[n])
      <4>1. n \in DOMAIN d.rkds /\ n # b.name /\ t[n] = d.rkds[n]
        BY <2>1
      <4> QED
        BY <1>5, <4>1
    <3> QED
      BY <3>1 DEF Within
  <2>3. \A s \in N : s.name \in DOMAIN t
    <3>1. \A s \in N : s.name \in DOMAIN d.rkds
      BY <1>3, <1>9 DEF Halving
    <3> QED
      BY <1>8, <2>1, <3>1
  <2>4. PICK s \in N : Covers(s, k)
    BY <1>7, <1>8
  <2>5. s.name \in DOMAIN t /\ Covers(t[s.name], k)
    BY <1>1, <1>6, <2>3, <2>4
  <2>6. Apart(N)
    BY DEF Divides
  <2> QED
    BY <1>1, <2>2, <2>5, <2>6, WithinFinds DEF t
<1>10. CASE ~(lb.name \in DOMAIN d.rkds /\ rb.name \in DOMAIN d.rkds)
  <2>1. t = d.rkds
    BY <1>1, <1>2, <1>10
  <2>2. PICK e \in {lb, rb} : \A s \in {lb, rb} : s.name \in DOMAIN d.rkds => s = e
    BY <1>10
  <2>3. Within(t, R \cup {e})
    <3>1. ASSUME NEW n \in DOMAIN t
          PROVE  \E s \in R \cup {e} : s.name = n /\ Inner(s, t[n])
      BY <1>5, <2>1, <2>2
    <3> QED
      BY <1>5, <2>1, <3>1 DEF Within
  <2>4. r.name \in DOMAIN t
    BY <1>3, <1>10, <2>1 DEF Halving
  <2>5. Covers(t[r.name], k)
    BY <1>6, <1>7, <2>1, <2>4
  <2>6. r.name # e.name
    BY <1>8
  <2>7. r.name \in DOMAIN t /\ e \in {lb, rb} /\ t \in Tables(files)
    BY <1>1, <2>4
  <2> DEFINE n == r.name
  <2> HIDE DEF n
  <2>8. n \in DOMAIN t /\ n # e.name /\ Covers(t[n], k)
    BY <2>5, <2>6, <2>7 DEF n
  <2> DEFINE U == R \cup {e}
  <2>9. U = R \cup {e} /\ Within(t, U) /\ (e = lb \/ e = rb)
    BY <2>3, <2>7
  <2> HIDE DEF U
  <2>10. FindRange(ListFrom(t), k) # 0
    BY <2>7, <2>8, <2>9, OneHalfFinds
  <2> QED
    BY <2>10 DEF t
<1> QED
  BY <1>9, <1>10

LEMMA HalvingHolds ==
  ASSUME NEW F, NEW files, NEW V, NEW listed, NEW w, w.files # files,
         NEW R, NEW b, NEW lb, NEW rb, Divides(R, b, lb, rb), Halving(R, b, lb, rb, w),
         listed => \A n \in w.only : \E r \in R \cup {lb, rb} : r.name = n
  PROVE  Holding(F, w, Safe(F, files, V, w.vals, listed))
<1>1. w.split # <<>>
  BY DEF Halving
<1>2. ASSUME NEW d \in DisksOf(F), Like(d, w), DiskOK(d)
      PROVE  /\ Snug(d) /\ d.files # files /\ d.split # <<>>
             /\ listed => \A k \in Key : Read(Reopened(d), k) \in w.vals[k]
  <2>1. PICK f \in F : d \in Disks(f)
    BY DiskIn
  <2>2. Snug(d)
    BY <1>1, <1>2, LikeSnug
  <2>3. ASSUME listed, NEW k \in Key
        PROVE  Read(Reopened(d), k) \in w.vals[k]
    <3>1. FindRange(ListFrom(After(d)), k) = 0 => NoRecord \in w.vals[k]
      BY <1>2, <2>1, <2>3, HalfFound
    <3>2. \A n \in w.only : \E r \in w.over : r.name = n
      BY <2>3 DEF Halving
    <3> QED
      BY <1>1, <1>2, <2>1, <3>1, <3>2, RebuiltRight
  <2> QED
    BY <1>1, <1>2, <2>2, <2>3 DEF Like
<1> QED
  BY <1>2 DEF Holding, Safe

-----------------------------------------------------------------------------
(* The invariant, and the steps that write no new records.                   *)

\* What waits in the cache lies within its range as well.
Fine(h) ==
  /\ Snug(h.disk)
  /\ \A c \in Slots(h) : /\ c.rkd.min <= MaxKey
                         /\ \A b \in RangeSet(h.mem.ranges) : b.name = c.name => Inner(b, c.rkd)

TInv ==
  /\ CInv
  /\ sound => Snug(disk) /\ (mem.isOpen => Fine(Area))

\* An open barrel, each key of which has a value in V on disk and in memory.
OpenView(h, V) ==
  ListView(h.mem.ranges, h.disk.files, DOMAIN h.disk.rkds, RangeSet(h.mem.ranges), V)

LEMMA NowKept ==
  ASSUME NEW F, NEW files \in F, NEW h \in Work(F, files), Steady(h), Fine(h), NEW V, NEW S,
         \A k \in Key : Read(h, k) \in V[k] /\ Read(Reopened(h.disk), k) \in V[k],
         \A i \in DOMAIN h.trace : h.trace[i] \in S
  PROVE  Keeps(h, OpenView(h, V), S)
<1> DEFINE d == h.disk
           q == h.mem.ranges
           w == OpenView(h, V)
<1>1. /\ w.meta = q /\ w.split = <<>> /\ w.files = d.files
      /\ w.least = {b.name : b \in RangeSet(q)}
      /\ w.only = DOMAIN d.rkds /\ w.over = RangeSet(q) /\ w.vals = V
  BY ViewIs DEF OpenView, ListView
<1>2. /\ d \in Disks(files) /\ DiskOK(d) /\ d.split = <<>> /\ d.meta = q /\ Snug(d)
      /\ Settled(h) /\ ~Overlap(q)
  BY DEF Steady, Settled, Good, GoodBut, Fine, Work
<1>3. /\ q \in Ranges
      /\ \A r \in RangeSet(q) : Straight(r) /\ r.name \in DOMAIN d.rkds
  BY <1>2, SettledFacts
<1> HIDE DEF w, d, q
<1>4. ASSUME NEW n \in DOMAIN d.rkds
      PROVE  May(w, n, d.rkds[n])
  <2>1. Hull(d.rkds[n]) /\ d.rkds[n].min <= MaxKey
    BY <1>2 DEF DiskOK, Snug
  <2>2. ASSUME NEW b \in RangeSet(q), b.name = n, NEW k \in Key, Covers(b, k)
        PROVE  Answer(d.rkds[n].entries, k) \in V[k]
    <3>1. q # <<>>
      BY <2>2 DEF RangeSet
    <3>2. ListOf(d) = q /\ After(d) = d.rkds
      BY <1>2, <3>1 DEF ListOf, After
    <3>3. FindRange(q, k) = n /\ n # 0
      BY <1>2, <1>3, <2>2, FindsCovering DEF Straight
    <3>4. Read(Reopened(d), k) = Answer(d.rkds[n].entries, k)
      BY <1>2, <3>2, <3>3, DurableIs DEF Finds
    <3> QED
      BY <3>4 DEF d
  <2>3. \A b \in RangeSet(q) : b.name = n => Inner(b, d.rkds[n])
    BY <1>2 DEF Snug
  <2> QED
    BY <1>1, <2>1, <2>2, <2>3 DEF May, Tight
<1>5. Like(d, w)
  BY <1>1, <1>2, <1>3, <1>4 DEF Like
<1>6. ASSUME NEW c \in Slots(h)
      PROVE  May(w, c.name, c.rkd)
  <2>1. Coherent(h, 0)
    BY <1>2 DEF Settled, Good, GoodBut
  <2>2. c.name \in DOMAIN d.rkds /\ Hull(c.rkd)
    BY <2>1 DEF Coherent, d
  <2>3. c.rkd.min <= MaxKey /\ \A b \in RangeSet(q) : b.name = c.name => Inner(b, c.rkd)
    BY DEF Fine, q
  <2>4. ASSUME NEW b \in RangeSet(q), b.name = c.name, NEW k \in Key, Covers(b, k)
        PROVE  Answer(c.rkd.entries, k) \in V[k]
    <3>1. Read(h, k) = Answer(Entr(h, b.name), k)
      BY <2>4, ReadCovered DEF q
    <3>2. Entr(h, b.name) = c.rkd.entries
      BY <2>4, EntrWhere
    <3> QED
      BY <3>1, <3>2
  <2> QED
    BY <1>1, <2>2, <2>3, <2>4 DEF May, Tight
<1> QED
  BY <1>5, <1>6 DEF Keeps, w, d

LEMMA OpenHolds ==
  ASSUME NEW F, NEW h, Peopled(h), NEW V, \A k \in Key : Read(h, k) \in V[k], NEW W, NEW listed
  PROVE  Holding(F, OpenView(h, V), Safe(F, h.disk.files, V, W, listed))
<1> DEFINE q == h.mem.ranges
           only == DOMAIN h.disk.rkds
<1>1. \A k \in Key : FindRange(q, k) = 0 => NoRecord \in V[k]
  BY ReadIs
<1>2. q = <<>> => \A n \in only : \E b \in RangeSet(q) : b.name = n
  BY DEF Peopled
<1>3. Holding(F, ListView(q, h.disk.files, only, RangeSet(q), V), Safe(F, h.disk.files, V, W, listed))
  <2> HIDE DEF q, only
  <2> QED
    BY <1>1, <1>2, ListHolds
<1> QED
  BY <1>3 DEF OpenView

LEMMA KeptFine ==
  ASSUME NEW h, NEW w, NEW S, Keeps(h, w, S), w.over = RangeSet(h.mem.ranges),
         w.split = <<>> => RangeSet(w.meta) \subseteq w.over
  PROVE  Fine(h)
<1>1. Like(h.disk, w) /\ \A c \in Slots(h) : May(w, c.name, c.rkd)
  BY DEF Keeps
<1>2. Snug(h.disk)
  BY <1>1, LikeSnug
<1> QED
  BY <1>1, <1>2 DEF Fine, May, Tight

\* What the property asks of a step, when the disk is one that is safe.
Tells(V, W, listed) ==
  disk'.split = <<>> \/ listed =>
    \A k \in Key :
      Read(Reopened(disk'), k) \in IF disk'.files = disk.files THEN V[k] ELSE W[k]

LEMMA FinishTells ==
  ASSUME CInv', sound', NEW g, Finish(g), Fine(g), NEW F, NEW V, NEW W, NEW listed, NEW S,
         S = Safe(F, disk.files, V, W, listed), g.disk \in S,
         \A i \in DOMAIN g.trace : g.trace[i] \in S
  PROVE  TInv' /\ Tells(V, W, listed)
<1>1. DiskOK(disk')
  BY DEF CInv, RInv
<1>2. disk' \in S
  BY DEF Finish
<1>3. Snug(disk') /\ Tells(V, W, listed)
  BY <1>1, <1>2 DEF Safe, Tells
<1>4. ASSUME mem'.isOpen
      PROVE  Fine(Area')
  <2>1. mem' # Closed
    BY <1>4 DEF Closed
  <2>2. disk' = g.disk /\ mem' = g.mem
    BY <2>1 DEF Finish
  <2>3. Area'.mem = g.mem /\ Area'.disk = g.disk
    BY <2>2 DEF Area
  <2> QED
    BY <2>3 DEF Fine, Slots
<1> QED
  BY <1>3, <1>4 DEF TInv

\* What ends as a view says that holds.
LEMMA KeptTells ==
  ASSUME CInv', sound', NEW g, Finish(g), NEW F, g.disk \in DisksOf(F),
         NEW V, NEW W, NEW listed, NEW S, S = Safe(F, disk.files, V, W, listed),
         NEW w, Keeps(g, w, S), Holding(F, w, S), w.over = RangeSet(g.mem.ranges),
         w.split = <<>> => RangeSet(w.meta) \subseteq w.over
  PROVE  TInv' /\ Tells(V, W, listed)
<1>1. Fine(g)
  BY KeptFine
<1>2. g.disk \in S /\ \A i \in DOMAIN g.trace : g.trace[i] \in S
  BY DEF Keeps, Holding
<1> QED
  BY <1>1, <1>2, FinishTells

\* The formula of NoStepLosesSavedKeys.
StepLosesNone ==
  /\ sound' /\ disk' # disk
  /\ disk.split = <<>> /\ disk'.split # <<>> => AllListed(disk)
  => LET old == Durable(disk)
         new == Durable(disk')
     IN  \A k \in Key : new[k] \in {old[k]} \cup IF mem.isOpen THEN {want[k], want'[k]}
                                                ELSE LastLegible(k)

Old == [k \in Key |-> {Read(Reopened(disk), k)} \cup IF mem.isOpen THEN {want[k], want'[k]}
                                                    ELSE LastLegible(k)]

LEMMA TellsNone ==
  ASSUME NEW V, NEW W, NEW listed, Tells(V, W, listed),
         listed \/ (disk.split = <<>> /\ ~AllListed(disk)),
         \A k \in Key : (IF disk'.files = disk.files THEN V[k] ELSE W[k]) \subseteq Old[k]
  PROVE  StepLosesNone
<1>1. ASSUME disk.split = <<>> /\ disk'.split # <<>> => AllListed(disk), NEW k \in Key
      PROVE  Durable(disk')[k] \in {Durable(disk)[k]} \cup IF mem.isOpen THEN {want[k], want'[k]}
                                                        ELSE LastLegible(k)
  <2>1. Read(Reopened(disk'), k) \in Old[k]
    BY <1>1 DEF Tells
  <2>2. Durable(disk')[k] = Read(Reopened(disk'), k) /\ Durable(disk)[k] = Read(Reopened(disk), k)
    BY DEF Durable
  <2> QED
    BY <2>1, <2>2 DEF Old
<1> QED
  BY <1>1 DEF StepLosesNone

LEMMA QuietView ==
  ASSUME TInv, sound, mem.isOpen,
         NEW F, F = {disk.files}, NEW S, S = Safe(F, disk.files, Old, Old, TRUE),
         NEW w, w = OpenView(Area, Old)
  PROVE  /\ disk.files \in F /\ Area \in Work(F, disk.files) /\ Settled(Area)
         /\ Keeps(Area, w, S) /\ Holding(F, w, S)
         /\ w.over = RangeSet(mem.ranges) /\ w.meta = mem.ranges /\ w.split = <<>> /\ w.vals = Old
<1>1. /\ Area \in Work(F, disk.files) /\ Steady(Area) /\ Settled(Area)
      /\ \A k \in Key : Read(Area, k) = want[k]
  BY NowSteady DEF TInv, CInv
<1>2. Fine(Area) /\ Peopled(Area)
  BY DEF TInv, CInv
<1>3. Area.disk = disk /\ Area.mem = mem /\ Area.trace = <<>>
  BY DEF Area
<1>4. \A k \in Key : Read(Area, k) \in Old[k] /\ Read(Reopened(disk), k) \in Old[k]
  BY <1>1 DEF Old
<1>5. Keeps(Area, w, S)
  <2>1. \A k \in Key : Read(Area, k) \in Old[k] /\ Read(Reopened(Area.disk), k) \in Old[k]
    BY <1>3, <1>4
  <2>2. \A i \in DOMAIN Area.trace : Area.trace[i] \in S
    BY <1>3
  <2>3. disk.files \in F
    OBVIOUS
  <2>4. Keeps(Area, OpenView(Area, Old), S)
    BY <1>1, <1>2, <2>1, <2>2, <2>3, NowKept
  <2> QED
    BY <2>4
<1>6. Holding(F, w, S)
  BY <1>2, <1>3, <1>4, OpenHolds
<1>7. w.over = RangeSet(mem.ranges) /\ w.meta = mem.ranges /\ w.split = <<>> /\ w.vals = Old
  <2>1. w.over = RangeSet(Area.mem.ranges) /\ w.meta = Area.mem.ranges /\ w.split = <<>> /\ w.vals = Old
    BY ViewIs DEF OpenView, ListView
  <2> QED
    BY <1>3, <2>1
<1> QED
  BY <1>1, <1>5, <1>6, <1>7

LEMMA UnsoundTells ==
  ASSUME CInv', ~sound'
  PROVE  TInv' /\ StepLosesNone
BY DEF TInv, StepLosesNone

LEMMA QuietTells ==
  ASSUME TInv, CInv', sound', mem.isOpen, NEW g, Finish(g), g.disk \in DisksOf({disk.files}),
         \A r \in RangeSet(g.mem.ranges) : r \in RangeSet(mem.ranges),
         NEW S, S = Safe({disk.files}, disk.files, Old, Old, TRUE), NEW w, w = OpenView(Area, Old),
         Keeps(g, w, S)
  PROVE  TInv' /\ StepLosesNone
<1>1. sound
  BY DEF Finish
<1>2. Holding({disk.files}, w, S) /\ w.over = RangeSet(mem.ranges)
  BY <1>1, QuietView
<1>3. g.disk \in S /\ \A i \in DOMAIN g.trace : g.trace[i] \in S
  BY <1>2 DEF Keeps, Holding
<1>4. Fine(g)
  <2>1. Like(g.disk, w) /\ \A c \in Slots(g) : May(w, c.name, c.rkd)
    BY DEF Keeps
  <2>2. w.meta = mem.ranges
    BY <1>1, QuietView
  <2>3. Snug(g.disk)
    BY <1>2, <2>1, <2>2, LikeSnug
  <2> QED
    BY <1>2, <2>1, <2>3 DEF Fine, May, Tight
<1>5. TInv' /\ Tells(Old, Old, TRUE)
  BY <1>3, <1>4, FinishTells
<1> QED
  BY <1>5, TellsNone

LEMMA WorkDisk ==
  ASSUME NEW F, NEW files \in F, NEW h \in Work(F, files)
  PROVE  h.disk \in DisksOf(F) /\ h.trace \in Seq(DisksOf(F)) /\ h.mem \in Memories(files)
         /\ h.disk \in Disks(files) /\ h.mem.ranges \in Ranges
         /\ \A i \in DOMAIN h.trace : h.trace[i] \in DisksOf(F)
<1>1. /\ h.disk \in DisksOf(F) /\ h.trace \in Seq(DisksOf(F)) /\ h.mem \in Memories(files)
      /\ h.disk \in Disks(files) /\ h.mem.ranges \in Ranges
  BY DEF Work, DisksOf, Memories
<1> DEFINE A == DisksOf(F)
           t == h.trace
<1>2. t \in Seq(A)
  BY <1>1
<1> HIDE DEF A, t
<1>3. \A i \in DOMAIN t : t[i] \in A
  BY <1>2
<1> QED
  BY <1>1, <1>3 DEF A, t

LEMMA TGetStep ==
  ASSUME TInv, CInv', NEW k \in Key, Get(k)
  PROVE  TInv' /\ StepLosesNone
<1> DEFINE F == {disk.files}
           S == Safe(F, disk.files, Old, Old, TRUE)
           w == OpenView(Area, Old)
           g == GetOp(Area, k)
<1>1. CASE ~sound'
  BY <1>1, UnsoundTells
<1>2. CASE sound'
  <2>1. Finish(g) /\ mem.isOpen /\ sound
    BY <1>2 DEF Get, Finish
  <2>2. disk.files \in F /\ Area \in Work(F, disk.files) /\ Settled(Area) /\ Keeps(Area, w, S) /\ Holding(F, w, S)
    BY <2>1, QuietView
  <2>3. g.disk \in DisksOf(F)
    BY <2>2, GetKeeps, WorkDisk
  <2>4. g.mem.ranges = mem.ranges
    <3>1. Frame(Area, g, {})
      BY <2>2, GetGood
    <3> QED
      BY <3>1 DEF Frame, Area
  <2>5. Keeps(g, w, S)
    BY <2>2, GetKept
  <2> HIDE DEF g, w, S
  <2> QED
    BY <1>2, <2>1, <2>3, <2>4, <2>5, QuietTells DEF w, S
<1> QED
  BY <1>1, <1>2

LEMMA TDeleteStep ==
  ASSUME TInv, CInv', NEW k \in Key, Delete(k)
  PROVE  TInv' /\ StepLosesNone
<1> DEFINE F == {disk.files}
           S == Safe(F, disk.files, Old, Old, TRUE)
           w == OpenView(Area, Old)
           g == DeleteOp(Area, k)
<1>1. CASE ~sound'
  BY <1>1, UnsoundTells
<1>2. CASE sound'
  <2>1. Finish(g) /\ mem.isOpen /\ sound /\ want' = [want EXCEPT ![k] = NoRecord]
    BY <1>2 DEF Delete, Finish
  <2>2. /\ disk.files \in F /\ Area \in Work(F, disk.files) /\ Settled(Area)
        /\ Keeps(Area, w, S) /\ Holding(F, w, S)
        /\ w.over = RangeSet(mem.ranges) /\ w.vals = Old
    BY <2>1, QuietView
  <2>3. g.disk \in DisksOf(F)
    BY <2>2, DeleteKeeps, WorkDisk
  <2>4. g.mem.ranges = mem.ranges
    <3>1. g.mem.ranges = Area.mem.ranges
      BY <2>2, DeleteGood
    <3> QED
      BY <3>1 DEF Area
  <2>5. Keeps(g, w, S)
    <3>1. want'[k] = NoRecord
      <4>1. want \in [Key -> {NoRecord} \cup (Nat \X (1 .. MaxWrites))]
        BY DEF TInv, CInv, RInv, IInv
      <4> QED
        BY <2>1, <4>1
    <3>2. NoRecord \in w.vals[k]
      BY <2>1, <2>2, <3>1 DEF Old
    <3>3. Area.mem.ranges = mem.ranges
      BY DEF Area
    <3>4. Names(Area.mem.ranges)
      BY <2>2, SettledFacts
    <3> HIDE DEF w, S
    <3> QED
      BY <2>2, <3>2, <3>3, <3>4, DeleteKept
  <2> HIDE DEF g, w, S
  <2> QED
    BY <1>2, <2>1, <2>3, <2>4, <2>5, QuietTells DEF w, S
<1> QED
  BY <1>1, <1>2

LEMMA TFlushStep ==
  ASSUME TInv, CInv', FlushDirtyRanges
  PROVE  TInv' /\ StepLosesNone
<1> DEFINE F == {disk.files}
           S == Safe(F, disk.files, Old, Old, TRUE)
           w == OpenView(Area, Old)
           g == FlushOp(Area)
<1>1. CASE ~sound'
  BY <1>1, UnsoundTells
<1>2. CASE sound'
  <2>1. Finish(g) /\ mem.isOpen /\ sound
    BY <1>2 DEF FlushDirtyRanges, Finish
  <2>2. disk.files \in F /\ Area \in Work(F, disk.files) /\ Settled(Area) /\ Keeps(Area, w, S) /\ Holding(F, w, S)
    BY <2>1, QuietView
  <2>3. g.disk \in DisksOf(F)
    BY <2>2, FlushKeeps, WorkDisk
  <2>4. g.mem.ranges = mem.ranges
    <3>1. Frame(Area, g, {})
      BY <2>2, FlushGood
    <3> QED
      BY <3>1 DEF Frame, Area
  <2>5. Keeps(g, w, S)
    BY <2>2, FlushKept
  <2> HIDE DEF g, w, S
  <2> QED
    BY <1>2, <2>1, <2>3, <2>4, <2>5, QuietTells DEF w, S
<1> QED
  BY <1>1, <1>2

LEMMA TCloseStep ==
  ASSUME TInv, CInv', Close
  PROVE  TInv' /\ StepLosesNone
<1> DEFINE F == {disk.files}
           S == Safe(F, disk.files, Old, Old, TRUE)
           w == OpenView(Area, Old)
           c == CloseOp(Area)
           g == [c EXCEPT !.mem = Closed]
<1>1. CASE ~sound'
  BY <1>1, UnsoundTells
<1>2. CASE sound'
  <2>1. Finish(g) /\ mem.isOpen /\ sound
    BY <1>2 DEF Close, Finish
  <2>2. /\ disk.files \in F /\ Area \in Work(F, disk.files) /\ Settled(Area)
        /\ Keeps(Area, w, S) /\ Holding(F, w, S) /\ w.meta = mem.ranges
    BY <2>1, QuietView
  <2>3. c \in Work(F, disk.files)
    BY <2>2, CloseKeeps
  <2>4. Keeps(c, w, S)
    <3>1. Area.mem.ranges = w.meta
      BY <2>2 DEF Area
    <3> HIDE DEF w, S
    <3> QED
      BY <2>2, <3>1, CloseKept
  <2> HIDE DEF c, w, S
  <2>5. g.disk = c.disk /\ g.trace = c.trace /\ g.mem = Closed
    BY <2>3 DEF Work
  <2>6. g.disk \in DisksOf(F)
    BY <2>2, <2>3, <2>5, WorkDisk
  <2> HIDE DEF g
  <2>7. Slots(g) = {} /\ RangeSet(g.mem.ranges) = {}
    BY <2>5 DEF Slots, RangeSet, Closed
  <2>8. Keeps(g, w, S)
    BY <2>4, <2>5, <2>7, MemKept
  <2> QED
    BY <1>2, <2>1, <2>6, <2>7, <2>8, QuietTells DEF w, S
<1> QED
  BY <1>1, <1>2

LEMMA TCrashStep ==
  ASSUME TInv, CInv', Crash
  PROVE  TInv' /\ StepLosesNone
<1>1. disk' = disk /\ sound' = sound /\ ~mem'.isOpen
  BY DEF Crash, Closed
<1>2. TInv'
  BY <1>1 DEF TInv, Snug
<1> QED
  BY <1>1, <1>2 DEF StepLosesNone

-----------------------------------------------------------------------------
(* An open that does not look at the data files.                             *)

\* An open caches no more than the RangeKeyDir of the first range of all.
Clean(z) ==
  \A c \in Slots(z) :
    ~c.rkd.dirty /\ c.rkd.min = NoKey /\ \A b \in RangeSet(z.mem.ranges) : b.min = NoKey

\* An eviction drops a slot, without a write when no RangeKeyDir is dirty.
LEMMA EvictedDrops ==
  ASSUME NEW F, NEW files \in F, NEW h \in Work(F, files)
  PROVE  LET g == Evicted(h) IN
         /\ Slots(g) \subseteq Slots(h) /\ g.mem.ranges = h.mem.ranges /\ g.clash = h.clash
         /\ (\A c \in Slots(h) : ~c.rkd.dirty) => g.disk = h.disk /\ g.trace = h.trace
<1> DEFINE g == Evicted(h)
<1>1. \/ g = h
      \/ \E c \in Slots(h) :
           /\ Slots(g) = Slots(h) \ {c}
           /\ g.mem.ranges = h.mem.ranges /\ g.mem.nextFileId = h.mem.nextFileId
           /\ g.clash = h.clash
           /\ \/ /\ c.rkd.dirty
                 /\ g.disk = [h.disk EXCEPT !.rkds = Put(h.disk.rkds, c.name, Serialized(c.rkd))]
                 /\ g.trace = Append(h.trace, g.disk)
              \/ ~c.rkd.dirty /\ g.disk = h.disk /\ g.trace = h.trace
  BY EvictedIs
<1> HIDE DEF g
<1> QED
  BY <1>1 DEF g

LEMMA PutSlots ==
  ASSUME NEW F, NEW files \in F, NEW h \in Work(F, files), NEW n, NEW r, NEW c \in Slots(CachePut(h, n, r))
  PROVE  c \in Slots(h) \/ c = [name |-> n, rkd |-> r]
<1> DEFINE g == IF Cached(h, n) THEN CacheDel(h, n) ELSE Evicted(h)
           x == [name |-> n, rkd |-> r]
<1>1. CachePut(h, n, r) = AddSlot(g, x)
  BY DEF CachePut, AddSlot
<1>2. g \in Work(F, files)
  BY CacheDelKeeps, EvictedKeeps
<1>3. Slots(g) \subseteq Slots(h)
  <2>1. Slots(CacheDel(h, n)) \subseteq Slots(h)
    BY CacheDelIs
  <2>2. Slots(Evicted(h)) \subseteq Slots(h)
    BY EvictedDrops
  <2> QED
    BY <2>1, <2>2
<1> HIDE DEF g, x
<1>4. Slots(AddSlot(g, x)) = Slots(g) \cup {x}
  BY <1>2, AddSlotIs
<1> QED
  BY <1>1, <1>3, <1>4 DEF x

LEMMA ReopenedClean ==
  ASSUME NEW files, NEW d \in Disks(files), DiskOK(d)
  PROVE  Clean(Reopened(d))
<1>1. CASE ~Fresh0(d)
  BY <1>1, ReopenedTo DEF Clean
<1>2. CASE Fresh0(d)
  <2> DEFINE F == {files}
             o == Opening(d)
             z == Reopened(d)
             r == NewRkd(NoKey, NoKey, 0)
             s == [r EXCEPT !.dirty = FALSE]
             p == PutBlob(o, 1, r)
             g == CachePut(p, 1, s)
  <2> files \in F
    OBVIOUS
  <2>1. o \in Work(F, files) /\ Good(o) /\ Slots(o) = {} /\ o.disk = d
    BY OpeningOf, OpeningGood
  <2>2. r \in Rkds(files) /\ s \in Rkds(files)
    BY NewRkdOf, CleanOf DEF NoKey
  <2>3. ~s.dirty /\ s.min = NoKey
    BY DEF NewRkd
  <2>4. z = CreateInitialRange(o)
    BY <1>2 DEF Reopened, Fresh0
  <2>5. RangeSet(z.mem.ranges) = {Bounds(NoKey, NoKey, 1)}
    BY <1>2, <2>1, <2>4, InitialGood DEF Fresh0
  <2>6. p \in Work(F, files) /\ Slots(p) = {}
    <3>1. p \in Work(F, files)
      BY <2>1, <2>2, PutBlobKeeps
    <3>2. p.mem = o.mem
      BY <2>1 DEF PutBlob, Write, Work
    <3> QED
      BY <2>1, <3>1, <3>2 DEF Slots
  <2>7. g \in Work(F, files)
    BY <2>2, <2>6, CachePutKeeps
  <2>8. z.mem.cache = g.mem.cache
    <3>1. z = SaveRangeMetadata(WithRanges(g, <<Bounds(NoKey, NoKey, 1)>>))
      BY <2>4 DEF CreateInitialRange, SaveRangeKeyDir, WithRanges
    <3> HIDE DEF g, z
    <3> QED
      BY <2>7, <3>1 DEF SaveRangeMetadata, Write, WithRanges, Work, Memories
  <2>9. ASSUME NEW c \in Slots(z)
        PROVE  c.rkd = s
    <3>1. c \in Slots(g)
      BY <2>8 DEF Slots
    <3> HIDE DEF p, s, z
    <3> QED
      BY <2>6, <3>1, PutSlots
  <2> HIDE DEF z, s
  <2> QED
    BY <2>3, <2>5, <2>9 DEF Clean, Bounds, z
<1> QED
  BY <1>1, <1>2

LEMMA ReopenedFine ==
  ASSUME NEW files, NEW d \in Disks(files), DiskOK(d), Snug(d)
  PROVE  Fine(Reopened(d))
<1>1. Snug(Reopened(d).disk)
  BY ReopenedReaches DEF Reaches
<1>2. Clean(Reopened(d))
  BY ReopenedClean
<1> QED
  BY <1>1, <1>2, BoundFacts DEF Fine, Clean, Inner, Covers, NoKey

\* The disks that an open goes through are safe.
LEMMA ReopenedSafe ==
  ASSUME IInv, DiskOK(disk), Snug(disk), NEW F, F = {disk.files}, NEW z, z = Reopened(disk),
         NEW W, NEW listed, NEW S, S = Safe(F, disk.files, Old, W, listed)
  PROVE  z.disk \in S /\ \A i \in DOMAIN z.trace : z.trace[i] \in S
<1>1. disk \in Disks(disk.files) /\ disk.files \in F
  BY DEF IInv
<1>2. z \in Work(F, disk.files)
  BY <1>1, ReopenedOf
<1>3. z.disk \in DisksOf(F) /\ \A i \in DOMAIN z.trace : z.trace[i] \in DisksOf(F)
  BY <1>1, <1>2, WorkDisk
<1>4. ASSUME NEW x \in DisksOf(F), Reaches(disk, x)
      PROVE  x \in S
  <2>1. x.files = disk.files
    <3>1. PICK f \in F : x \in Disks(f) /\ x.files = f
      BY DiskIn
    <3> QED
      BY <3>1
  <2>2. \A k \in Key : Read(Reopened(x), k) \in Old[k]
    BY <1>4 DEF Reaches, Old
  <2> QED
    BY <1>4, <2>1, <2>2 DEF Safe, Reaches
<1>5. Reaches(disk, z.disk) /\ \A i \in DOMAIN z.trace : Reaches(disk, z.trace[i])
  BY <1>1, ReopenedReaches
<1> QED
  BY <1>3, <1>4, <1>5

LEMMA TOpenStep ==
  ASSUME TInv, CInv', Open
  PROVE  TInv' /\ StepLosesNone
<1> DEFINE z == Reopened(disk)
           F == {disk.files}
           S == Safe(F, disk.files, Old, Old, TRUE)
<1>1. CASE ~sound'
  BY <1>1, UnsoundTells
<1>2. CASE sound'
  <2>1. Finish(z) /\ sound
    BY <1>2 DEF Open, OpenAs, Finish
  <2>2. IInv /\ DiskOK(disk) /\ Snug(disk) /\ disk \in Disks(disk.files)
    BY <2>1 DEF TInv, CInv, RInv, IInv
  <2>3. Fine(z)
    BY <2>2, ReopenedFine
  <2>4. z.disk \in S /\ \A i \in DOMAIN z.trace : z.trace[i] \in S
    BY <2>2, ReopenedSafe
  <2>5. TInv' /\ Tells(Old, Old, TRUE)
    <3> HIDE DEF z, S
    <3> QED
      BY <1>2, <2>1, <2>3, <2>4, FinishTells DEF S
  <2> QED
    BY <2>5, TellsNone
<1> QED
  BY <1>1, <1>2

-----------------------------------------------------------------------------
(* The scan of an open with recovery writes nothing.                         *)

LEMMA ScanStays ==
  ASSUME NEW F, NEW files \in F, files \in Files, NEW h \in Work(F, files),
         NEW W \in SUBSET [area : Work(F, files), map : Maps(files)],
         [area |-> h, map |-> <<>>] \in W,
         \A st \in W, r \in FoundRecord(files) : ScanStep(st, r) \in W
  PROVE  RecoveryMap(h) \in W
<1> DEFINE base == [area |-> h, map |-> <<>>]
           q == Scanned(files)
           n == Len(q)
           IsFold(f) == f = [s \in SUBSET (1 .. n) |-> IF s = {} THEN base
                               ELSE ScanStep(f[s \ {Max(s)}], q[Max(s)])]
           G == [x \in W \X (1 .. n) |-> ScanStep(x[1], q[x[2]])]
<1>1. base \in W
  OBVIOUS
<1>2. q \in Seq(FoundRecord(files))
  BY ScannedFound
<1>3. h.disk.files = files
  BY DEF Work, Disks
<1> HIDE DEF q, base
<1>4. n \in Nat /\ DOMAIN q = 1 .. n /\ \A i \in 1 .. n : q[i] \in FoundRecord(files)
  BY <1>2
<1>5. \A st \in W, i \in 1 .. n : ScanStep(st, q[i]) \in W
  BY <1>4
<1> HIDE DEF n
<1>6. G \in [W \X (1 .. n) -> W]
  BY <1>5
<1> HIDE DEF G
<1>7. PICK f \in [SUBSET (1 .. n) -> W] : Folds(f, 1 .. n, base, G)
  BY <1>1, <1>4, <1>6, FoldOver
<1>8. IsFold(f)
  <2> SUFFICES ASSUME NEW s \in SUBSET (1 .. n), s # {}
               PROVE  f[s] = ScanStep(f[s \ {Max(s)}], q[Max(s)])
    BY <1>7 DEF Folds
  <2>1. <<f[s \ {Max(s)}], Max(s)>> \in W \X (1 .. n)
    BY <1>4, <1>7, MaxIn
  <2> QED
    BY <1>7, <2>1 DEF Folds, G
<1>9. PICK g : IsFold(g) /\ RecoveryMap(h) = g[1 .. n]
  <2>1. RecoveryMap(h) = (CHOOSE g : IsFold(g))[1 .. n]
    BY <1>3, <1>4 DEF RecoveryMap, FoldLeft, MapThenFoldSet, q, base
  <2> HIDE DEF IsFold
  <2> QED
    BY <1>8, <2>1
<1>10. g[{}] \in W
  BY <1>1, <1>9
<1>11. ASSUME NEW s \in SUBSET (1 .. n), s # {}, g[s \ {Max(s)}] \in W
       PROVE  g[s] \in W
  <2>1. Max(s) \in 1 .. n
    BY <1>4, <1>11, MaxIn
  <2>2. g[s] = ScanStep(g[s \ {Max(s)}], q[Max(s)])
    BY <1>9, <1>11
  <2> QED
    BY <1>5, <1>11, <2>1, <2>2
<1>12. g[1 .. n] \in W
  BY <1>4, <1>10, <1>11, FoldIn
<1> QED
  BY <1>9, <1>12

\* What is cached is what is on disk, or was cached to begin with.
Copies(z, h) ==
  \A c \in Slots(h) :
    /\ ~c.rkd.dirty
    /\ \/ c \in Slots(z)
       \/ c.name \in DOMAIN z.disk.rkds /\ c.rkd = Deserialized(z.disk.rkds[c.name])

LEMMA LoadStill ==
  ASSUME NEW F, NEW files \in F, NEW h \in Work(F, files), NEW z, Copies(z, h), h.disk = z.disk,
         NEW n \in Nat
  PROVE  LET g == Load(h, n) IN
         /\ Copies(z, g) /\ g.disk = h.disk /\ g.trace = h.trace
         /\ g.mem.ranges = h.mem.ranges /\ g.clash = h.clash
<1> DEFINE e == IF Cached(h, n) THEN CacheDel(h, n) ELSE Evicted(h)
           x == [name |-> n, rkd |-> Loaded(h, n)]
           g == Load(h, n)
<1>1. CASE ~(Cached(h, n) \/ n \in DOMAIN h.disk.rkds)
  BY <1>1 DEF Load
<1>2. CASE Cached(h, n) \/ n \in DOMAIN h.disk.rkds
  <2>1. g = AddSlot(e, x)
    BY <1>2 DEF Load, CachePut, AddSlot
  <2>2. e \in Work(F, files)
    BY CacheDelKeeps, EvictedKeeps
  <2>3. /\ Slots(e) \subseteq Slots(h) /\ e.disk = h.disk /\ e.trace = h.trace
        /\ e.mem.ranges = h.mem.ranges /\ e.clash = h.clash
    <3>1. CASE Cached(h, n)
      <4>1. e = CacheDel(h, n)
        BY <3>1
      <4>2. Slots(CacheDel(h, n)) \subseteq Slots(h)
        BY CacheDelIs
      <4> QED
        BY <4>1, <4>2, CacheDelIs
    <3>2. CASE ~Cached(h, n)
      <4>1. \A c \in Slots(h) : ~c.rkd.dirty
        BY DEF Copies
      <4>2. e = Evicted(h)
        BY <3>2
      <4> HIDE DEF e
      <4> QED
        BY <4>1, <4>2, EvictedDrops
    <3> QED
      BY <3>1, <3>2
  <2> HIDE DEF e
  <2>4. /\ Slots(g) = Slots(e) \cup {x}
        /\ g.mem.ranges = e.mem.ranges /\ g.clash = e.clash /\ g.disk = e.disk /\ g.trace = e.trace
    BY <2>1, <2>2, AddSlotIs
  <2>5. ~x.rkd.dirty /\ (x \in Slots(z) \/ (n \in DOMAIN z.disk.rkds /\ x.rkd = Deserialized(z.disk.rkds[n])))
    <3>1. CASE Cached(h, n)
      <4>1. PICK c \in Slots(h) : c.name = n
        BY <3>1, SlotFacts
      <4>2. Loaded(h, n) = c.rkd
        BY <4>1, EntrIs
      <4>3. c = [name |-> c.name, rkd |-> c.rkd]
        <5>1. h.mem.cache \in Seq([name : Nat, rkd : Rkds(files)])
          BY SlotFacts, CacheFacts
        <5> DEFINE A == [name : Nat, rkd : Rkds(files)]
                   q == h.mem.cache
        <5>2. q \in Seq(A) /\ c \in {q[i] : i \in DOMAIN q}
          BY <4>1, <5>1 DEF Slots
        <5> HIDE DEF A, q
        <5>3. c \in A
          BY <5>2
        <5> QED
          BY <5>3 DEF A
      <4>4. x = c
        BY <4>1, <4>2, <4>3
      <4> QED
        BY <4>1, <4>4 DEF Copies
    <3>2. CASE ~Cached(h, n)
      <4>1. n \in DOMAIN h.disk.rkds /\ Loaded(h, n) = Deserialized(h.disk.rkds[n])
        BY <1>2, <3>2 DEF Loaded
      <4> QED
        BY <4>1 DEF Deserialized
    <3> QED
      BY <3>1, <3>2
  <2>6. x.name = n
    OBVIOUS
  <2> HIDE DEF x, g
  <2>7. Copies(z, g)
    BY <2>3, <2>4, <2>5, <2>6 DEF Copies
  <2> QED
    BY <2>3, <2>4, <2>7 DEF g
<1> QED
  BY <1>1, <1>2

\* What the scan leaves as it was, and what it adds: a new range has no RangeKeyDir yet.
Sits(z, st) ==
  /\ Copies(z, st.area) /\ st.area.disk = z.disk /\ st.area.trace = z.trace
  /\ \A n \in DOMAIN st.map : DOMAIN st.map[n] # {}
  /\ ~st.area.clash =>
       \A r \in RangeSet(st.area.mem.ranges) :
         r \in RangeSet(z.mem.ranges) \/ r.name \notin DOMAIN z.disk.rkds

LEMMA ScanStepSits ==
  ASSUME NEW F, NEW files \in F, NEW a \in Work(F, files), NEW m \in Maps(files),
         NEW r \in FoundRecord(files), NEW z, Sits(z, [area |-> a, map |-> m])
  PROVE  Sits(z, ScanStep([area |-> a, map |-> m], r))
<1> DEFINE k     == r.key
           found == FindRange(a.mem.ranges, k)
           n     == IF found = 0 THEN a.mem.nextFileId ELSE found
           f     == Fresh(a)
           b     == Bounds(k, k, n)
           c     == WithRanges(f, WithRange(a.mem.ranges, b))
           g     == IF found # 0 THEN a ELSE c
           v     == EntryOf(r.file, r.pos)
           t     == ScanStep([area |-> a, map |-> m], r)
<1>0. /\ Copies(z, a) /\ a.disk = z.disk /\ a.trace = z.trace
      /\ \A i \in DOMAIN m : DOMAIN m[i] # {}
      /\ ~a.clash => \A i \in RangeSet(a.mem.ranges) :
                       i \in RangeSet(z.mem.ranges) \/ i.name \notin DOMAIN z.disk.rkds
  BY DEF Sits
<1>1. k \in Nat
  BY KeyFacts DEF FoundRecord
<1>2. /\ f \in Work(F, files) /\ f.mem.ranges = a.mem.ranges /\ f.mem.cache = a.mem.cache
      /\ f.disk = a.disk /\ f.trace = a.trace
      /\ (f.clash <=> a.clash \/ a.mem.nextFileId \in DOMAIN a.disk.rkds)
  <2>1. f \in Work(F, files)
    BY FreshKeeps
  <2>2. /\ f.mem.ranges = a.mem.ranges /\ f.mem.cache = a.mem.cache
        /\ f.disk = a.disk /\ f.trace = a.trace
        /\ (f.clash <=> a.clash \/ a.mem.nextFileId \in DOMAIN a.disk.rkds)
    BY DEF Fresh, Work, Memories
  <2> QED
    BY <2>1, <2>2
<1>3. t.area = Load(g, n) /\ t.map = MapPut(m, n, k, v)
  BY <1>2 DEF ScanStep, MapPut, WithRanges
<1> HIDE DEF t, f, v
<1>4. found \in Nat /\ a.mem.nextFileId \in Nat /\ a.mem.ranges \in Ranges
  <2>1. a.mem.nextFileId \in Nat /\ a.mem.ranges \in Ranges
    BY DEF Work, Memories
  <2> QED
    BY <2>1, FindRangeType
<1> HIDE DEF found
<1>5. n \in Nat /\ b \in RangeRec /\ b.name = n
  BY <1>1, <1>4, BoundsOf DEF Bounds
<1>6. /\ c \in Work(F, files) /\ c.clash = f.clash /\ c.disk = a.disk /\ c.trace = a.trace
      /\ c.mem.cache = a.mem.cache /\ c.mem.ranges = WithRange(a.mem.ranges, b)
  <2>1. WithRange(a.mem.ranges, b) \in Ranges
    BY <1>4, <1>5, WithRangeSorts
  <2> HIDE DEF b, n
  <2>2. c \in Work(F, files)
    BY <1>2, <2>1, RangesKeep DEF WithRanges
  <2>3. /\ c.clash = f.clash /\ c.disk = f.disk /\ c.trace = f.trace
        /\ c.mem.cache = f.mem.cache /\ c.mem.ranges = WithRange(a.mem.ranges, b)
    BY <1>2 DEF WithRanges, Work, Memories
  <2> QED
    BY <1>2, <2>2, <2>3
<1>7. RangeSet(c.mem.ranges) = RangeSet(a.mem.ranges) \cup {b}
  BY <1>4, <1>5, <1>6, WithRangeIs
<1> HIDE DEF b, c
<1>8. g \in Work(F, files) /\ g.disk = z.disk /\ g.trace = z.trace /\ Copies(z, g)
  BY <1>0, <1>6 DEF Copies, Slots
<1>9. ASSUME ~g.clash, NEW i \in RangeSet(g.mem.ranges)
      PROVE  i \in RangeSet(z.mem.ranges) \/ i.name \notin DOMAIN z.disk.rkds
  <2>1. CASE found # 0
    BY <1>0, <1>9, <2>1
  <2>2. CASE found = 0
    BY <1>0, <1>2, <1>5, <1>6, <1>7, <1>9, <2>2
  <2> QED
    BY <2>1, <2>2
<1> HIDE DEF g, n
<1>10. /\ Copies(z, t.area) /\ t.area.disk = z.disk /\ t.area.trace = z.trace
       /\ t.area.mem.ranges = g.mem.ranges /\ t.area.clash = g.clash
  BY <1>3, <1>5, <1>8, LoadStill
<1>11. ASSUME NEW i \in DOMAIN t.map
       PROVE  DOMAIN t.map[i] # {}
  <2> DEFINE e == IF n \in DOMAIN m THEN m[n] ELSE <<>>
             y == [j \in DOMAIN e \cup {k} |-> IF j = k THEN v ELSE e[j]]
  <2>1. t.map = [j \in DOMAIN m \cup {n} |-> IF j = n THEN y ELSE m[j]]
    BY <1>3 DEF MapPut, Put
  <2>2. k \in DOMAIN y
    OBVIOUS
  <2> HIDE DEF y
  <2>3. CASE i = n
    BY <2>1, <2>2, <2>3
  <2>4. CASE i # n
    BY <1>0, <1>11, <2>1, <2>4
  <2> QED
    BY <2>3, <2>4
<1> QED
  BY <1>9, <1>10, <1>11 DEF Sits, t

LEMMA ScanSits ==
  ASSUME NEW F, NEW files \in F, files \in Files, NEW z \in Work(F, files), Clean(z)
  PROVE  Sits(z, RecoveryMap(z))
<1> DEFINE B == [area : Work(F, files), map : Maps(files)]
           W == {st \in B : Sits(z, st)}
           base == [area |-> z, map |-> <<>>]
<1>1. base \in W
  <2>1. <<>> \in [{} -> Founds(files)] /\ Bounded({}) /\ DOMAIN <<>> = {}
    BY BoundedFacts
  <2>2. <<>> \in Maps(files)
    BY <2>1 DEF Maps
  <2>3. Sits(z, base)
    BY <2>1 DEF Sits, Copies, Clean
  <2> QED
    BY <2>2, <2>3
<1>2. ASSUME NEW st \in W, NEW r \in FoundRecord(files)
      PROVE  ScanStep(st, r) \in W
  <2> DEFINE a == st.area
             m == st.map
  <2>1. st = [area |-> a, map |-> m] /\ a \in Work(F, files) /\ m \in Maps(files)
    OBVIOUS
  <2>2. Sits(z, [area |-> a, map |-> m])
    BY <2>1
  <2> HIDE DEF a, m, W
  <2>3. Sits(z, ScanStep([area |-> a, map |-> m], r))
    BY <2>1, <2>2, ScanStepSits
  <2>4. ScanStep([area |-> a, map |-> m], r) \in B
    BY <2>1, ScanStepKeeps
  <2> QED
    BY <2>1, <2>3, <2>4 DEF W
<1>3. W \in SUBSET B
  OBVIOUS
<1> HIDE DEF W
<1>4. RecoveryMap(z) \in W
  BY <1>1, <1>2, <1>3, ScanStays
<1> QED
  BY <1>4 DEF W

-----------------------------------------------------------------------------
(* What an open with recovery adds to a RangeKeyDir.                         *)

\* Whatever starts in U and is in W after each insert ends up in W.
LEMMA MergedStays ==
  ASSUME NEW F, NEW files \in F, NEW h \in Work(F, files), NEW e \in Founds(files), NEW name,
         DOMAIN e # {}, NEW U, NEW W \in SUBSET U, Loaded(h, name) \in U,
         \A r \in U, k \in DOMAIN e : Inserted(r, k, e[k]) \in W
  PROVE  Merged(h, e, name) \in W
<1> DEFINE base == Loaded(h, name)
           q == Ascending(DOMAIN e)
           n == Len(q)
           IsFold(f) == f = [s \in SUBSET (1 .. n) |-> IF s = {} THEN base
                               ELSE Inserted(f[s \ {Max(s)}], q[Max(s)], e[q[Max(s)]])]
           G == [x \in U \X (1 .. n) |-> Inserted(x[1], q[x[2]], e[q[x[2]]])]
           A == [s \in SUBSET (1 .. n) |-> IF s = {} THEN U ELSE W]
<1>1. base \in U
  OBVIOUS
<1>2. q \in Seq(DOMAIN e) /\ \A k \in DOMAIN e : \E i \in 1 .. Len(q) : q[i] = k
  <2>1. DOMAIN e \in SUBSET Key
    BY DEF Founds, Entries
  <2>2. DOMAIN e \in SUBSET (0 .. MaxKey) /\ MaxKey \in Nat
    BY <2>1, KeysBounded, BoundFacts
  <2> QED
    BY <2>2, AscendingSorts DEF Sorted
<1> HIDE DEF q
<1>3. n \in Nat /\ DOMAIN q = 1 .. n /\ (\A i \in 1 .. n : q[i] \in DOMAIN e) /\ 1 .. n # {}
  BY <1>2
<1> HIDE DEF base
<1>4. \A r \in U, i \in 1 .. n : Inserted(r, q[i], e[q[i]]) \in W
  BY <1>3
<1> HIDE DEF n
<1>5. G \in [U \X (1 .. n) -> U]
  BY <1>4
<1> HIDE DEF G
<1>6. PICK f \in [SUBSET (1 .. n) -> U] : Folds(f, 1 .. n, base, G)
  BY <1>1, <1>3, <1>5, FoldOver
<1>7. IsFold(f)
  <2> SUFFICES ASSUME NEW s \in SUBSET (1 .. n), s # {}
               PROVE  f[s] = Inserted(f[s \ {Max(s)}], q[Max(s)], e[q[Max(s)]])
    BY <1>6 DEF Folds
  <2>1. <<f[s \ {Max(s)}], Max(s)>> \in U \X (1 .. n)
    BY <1>3, <1>6, MaxIn
  <2> QED
    BY <1>6, <2>1 DEF Folds, G
<1>8. PICK g : IsFold(g) /\ Merged(h, e, name) = g[1 .. n]
  BY <1>3, <1>7 DEF Merged, FoldLeft, MapThenFoldSet, q, base
<1>9. g[{}] \in A[{}]
  BY <1>1, <1>8
<1>10. ASSUME NEW s \in SUBSET (1 .. n), s # {}, g[s \ {Max(s)}] \in A[s \ {Max(s)}]
       PROVE  g[s] \in A[s]
  <2>1. Max(s) \in 1 .. n
    BY <1>3, <1>10, MaxIn
  <2>2. g[s \ {Max(s)}] \in U
    BY <1>10
  <2>3. g[s] = Inserted(g[s \ {Max(s)}], q[Max(s)], e[q[Max(s)]])
    BY <1>8, <1>10
  <2>4. g[s] \in W
    BY <1>4, <2>1, <2>2, <2>3
  <2> QED
    BY <1>10, <2>4
<1>11. g[1 .. n] \in A[1 .. n]
  <2> HIDE DEF A
  <2>1. 1 .. n \in SUBSET (0 .. n)
    BY <1>3
  <2> QED
    BY <1>3, <1>9, <1>10, <2>1, FoldHolds
<1>12. A[1 .. n] = W
  BY <1>3
<1> QED
  BY <1>8, <1>11, <1>12

\* As May, but for an empty RangeKeyDir that has no bounds yet.
Nearly(w, n, r) ==
  /\ n \in w.only /\ Hull(r) /\ r.min <= MaxKey
  /\ \A b \in w.over : b.name = n =>
       /\ Inner(b, r) \/ Unset(r)
       /\ \A k \in Key : Covers(b, k) => Answer(r.entries, k) \in w.vals[k]

LEMMA InsertedNearly ==
  ASSUME NEW files, NEW r \in Rkds(files), NEW w, w.over \subseteq RangeRec, NEW n, Nearly(w, n, r),
         NEW k \in Key, NEW v,
         \A b \in w.over : b.name = n => Covers(b, k),
         (IF v.del THEN NoRecord ELSE <<v.file, v.pos>>) \in w.vals[k]
  PROVE  May(w, n, Inserted(r, k, v)) /\ Nearly(w, n, Inserted(r, k, v))
<1> DEFINE x == Inserted(r, k, v)
<1>1. Hull(x) /\ x.entries = Put(r.entries, k, v)
  BY InsertedHull DEF Nearly
<1>2. Inserted(r, k, v).min <= MaxKey
  <2>1. r.min \in Nat /\ k \in Nat /\ k <= MaxKey /\ r.min <= MaxKey /\ MaxKey \in Nat
    BY RkdFacts, BoundFacts DEF Key, Nearly
  <2> QED
    BY <2>1 DEF Inserted
<1>3. ASSUME NEW b \in w.over, b.name = n
      PROVE  Inner(b, x) /\ \A j \in Key : Covers(b, j) => Answer(x.entries, j) \in w.vals[j]
  <2>1. b \in RangeRec /\ Covers(b, k) /\ (Inner(b, r) \/ Unset(r)) /\ Hull(r) /\ r.min <= MaxKey
    BY <1>3 DEF Nearly
  <2>2. Inner(b, x)
    BY <2>1, InsertedInner
  <2>3. ASSUME NEW j \in Key, Covers(b, j)
        PROVE  Answer(x.entries, j) \in w.vals[j]
    <3>1. Answer(r.entries, j) \in w.vals[j]
      BY <1>3, <2>3 DEF Nearly
    <3>2. CASE j = k
      BY <1>1, <3>2 DEF Answer, Put
    <3>3. CASE j # k
      BY <1>1, <3>1, <3>3 DEF Answer, Put
    <3> QED
      BY <3>2, <3>3
  <2> QED
    BY <2>2, <2>3
<1> HIDE DEF x
<1>4. n \in w.only
  BY DEF Nearly
<1> QED
  BY <1>1, <1>2, <1>3, <1>4 DEF May, Nearly, Tight, x

\* What the scan found for a range is right under a view.
Suits(w, n, e) ==
  /\ DOMAIN e # {}
  /\ \A k \in DOMAIN e : /\ \A b \in w.over : b.name = n => Covers(b, k)
                         /\ Answer(e, k) \in w.vals[k]

LEMMA MergedMay ==
  ASSUME NEW F, NEW files \in F, NEW h \in Work(F, files), NEW e \in Founds(files), NEW n,
         NEW w, w.over \subseteq RangeRec, Nearly(w, n, Loaded(h, n)), Suits(w, n, e)
  PROVE  May(w, n, Merged(h, e, n))
<1> DEFINE U == {r \in Rkds(files) : Nearly(w, n, r)}
           W == {r \in U : May(w, n, r)}
<1>1. Loaded(h, n) \in U
  BY LoadedOf
<1>2. ASSUME NEW r \in U, NEW k \in DOMAIN e
      PROVE  Inserted(r, k, e[k]) \in W
  <2>1. k \in Key /\ e[k] \in EntryRec /\ e[k].file \in DOMAIN files
        /\ e[k].pos \in DOMAIN files[e[k].file] /\ files[e[k].file][e[k].pos].key = k
    BY FoundFacts
  <2>2. r \in Rkds(files) /\ Nearly(w, n, r)
    OBVIOUS
  <2>3. /\ \A b \in w.over : b.name = n => Covers(b, k)
        /\ (IF e[k].del THEN NoRecord ELSE <<e[k].file, e[k].pos>>) \in w.vals[k]
    BY DEF Suits, Answer
  <2> HIDE DEF U, W
  <2>4. Inserted(r, k, e[k]) \in Rkds(files)
    BY <2>1, <2>2, InsertedOf
  <2>5. May(w, n, Inserted(r, k, e[k])) /\ Nearly(w, n, Inserted(r, k, e[k]))
    BY <2>1, <2>2, <2>3, InsertedNearly
  <2> QED
    BY <2>4, <2>5 DEF U, W
<1>3. W \in SUBSET U /\ DOMAIN e # {}
  BY DEF Suits
<1> HIDE DEF U, W
<1>4. Merged(h, e, n) \in W
  BY <1>1, <1>2, <1>3, MergedStays
<1> QED
  BY <1>4 DEF W

LEMMA RecoverRangeKept ==
  ASSUME NEW F, NEW files \in F, NEW g \in Work(F, files), NEW w, NEW S, Keeps(g, w, S),
         Holding(F, w, S), NEW n \in Nat, n \in w.only, NEW e \in Founds(files),
         w.over \subseteq RangeRec, Suits(w, n, e),
         n \notin w.least => \A b \in w.over : b.name = n =>
                               \A k \in Key : Covers(b, k) => NoRecord \in w.vals[k]
  PROVE  RecoverRange(g, e, n) \in Work(F, files) /\ Keeps(RecoverRange(g, e, n), w, S)
<1> DEFINE l == Load(g, n)
           y == Merged(g, e, n)
<1>1. Nearly(w, n, Loaded(g, n))
  <2>1. CASE Cached(g, n) \/ n \in DOMAIN g.disk.rkds
    <3>1. May(w, n, Loaded(g, n))
      BY <2>1, LoadedMay
    <3> QED
      BY <3>1 DEF May, Nearly, Tight
  <2>2. CASE ~(Cached(g, n) \/ n \in DOMAIN g.disk.rkds)
    <3> DEFINE r == NewRkd(NoKey, NoKey, 0)
    <3>1. Loaded(g, n) = r
      BY <2>2 DEF Loaded
    <3>2. r.entries = <<>> /\ r.min = NoKey /\ r.max = NoKey /\ Hull(r)
      BY NewRkdHull DEF NewRkd
    <3> HIDE DEF r
    <3>3. \A k : Answer(r.entries, k) = NoRecord
      BY <3>2 DEF Answer
    <3>4. n \notin w.least
      BY <2>2 DEF Keeps, Like
    <3>5. r.min <= MaxKey
      BY <3>2, BoundFacts DEF NoKey
    <3> QED
      BY <3>1, <3>2, <3>3, <3>4, <3>5 DEF Nearly, Unset
  <2> QED
    BY <2>1, <2>2
<1>2. y \in Rkds(files) /\ May(w, n, y)
  BY <1>1, MergedMay, MergedOf
<1>3. l \in Work(F, files) /\ Keeps(l, w, S)
  BY LoadKeeps, LoadKept
<1> HIDE DEF l, y
<1>4. Flushed(y) \in Rkds(files) /\ May(w, n, Flushed(y))
  BY <1>2, FlushedOf, FlushedMay
<1>5. Keeps(SaveRangeKeyDir(l, n, Flushed(y)), w, S)
  BY <1>3, <1>4, SaveKept
<1> QED
  BY <1>5, RecoverClash DEF RecoverRange, l, y

\* Recovery goes through the ranges that the scan found, and saves the list of ranges.
LEMMA RecoverStays ==
  ASSUME NEW F, NEW files \in F, NEW h \in Work(F, files), NEW m \in Maps(files),
         NEW order \in SetToSeqs(DOMAIN m),
         NEW W, h \in W, \A g \in W, n \in DOMAIN m : RecoverRange(g, m[n], n) \in W
  PROVE  \/ order = <<>> /\ RebuildFromBarrel2(h, m, order) = h
         \/ \E g \in W : RebuildFromBarrel2(h, m, order) = SaveRangeMetadata(g)
<1> DEFINE n == Len(order)
           R == FoldLeft(LAMBDA g, name : RecoverRange(g, m[name], name), h, order)
           IsFold(f) == f = [s \in SUBSET (1 .. n) |-> IF s = {} THEN h
                               ELSE RecoverRange(f[s \ {Max(s)}], m[order[Max(s)]], order[Max(s)])]
           G == [x \in W \X (1 .. n) |-> RecoverRange(x[1], m[order[x[2]]], order[x[2]])]
<1>1. n \in Nat /\ DOMAIN order = 1 .. n /\ \A i \in 1 .. n : order[i] \in DOMAIN m
  <2> DEFINE c == Cardinality(DOMAIN m)
  <2>1. c \in Nat
    BY MapsFacts, BoundedFacts, FS_CardinalityType
  <2>2. order \in [1 .. c -> DOMAIN m]
    BY DEF SetToSeqs
  <2> HIDE DEF c
  <2> QED
    BY <2>1, <2>2
<1>2. ASSUME NEW g \in W, NEW i \in 1 .. n
      PROVE  RecoverRange(g, m[order[i]], order[i]) \in W
  BY <1>1
<1> HIDE DEF n
<1>3. G \in [W \X (1 .. n) -> W]
  BY <1>2
<1> HIDE DEF G
<1>4. PICK f \in [SUBSET (1 .. n) -> W] : Folds(f, 1 .. n, h, G)
  BY <1>1, <1>3, FoldOver
<1>5. IsFold(f)
  <2> SUFFICES ASSUME NEW s \in SUBSET (1 .. n), s # {}
               PROVE  f[s] = RecoverRange(f[s \ {Max(s)}], m[order[Max(s)]], order[Max(s)])
    BY <1>4 DEF Folds
  <2>1. <<f[s \ {Max(s)}], Max(s)>> \in W \X (1 .. n)
    BY <1>1, <1>4, MaxIn
  <2> QED
    BY <1>4, <2>1 DEF Folds, G
<1>6. PICK g : IsFold(g) /\ R = g[1 .. n]
  BY <1>1, <1>5 DEF FoldLeft, MapThenFoldSet
<1> HIDE DEF R
<1>7. g[{}] \in W
  BY <1>6
<1>8. ASSUME NEW s \in SUBSET (1 .. n), s # {}, g[s \ {Max(s)}] \in W
      PROVE  g[s] \in W
  <2>1. Max(s) \in 1 .. n
    BY <1>1, <1>8, MaxIn
  <2>2. g[s] = RecoverRange(g[s \ {Max(s)}], m[order[Max(s)]], order[Max(s)])
    BY <1>6, <1>8
  <2> QED
    BY <1>2, <1>8, <2>1, <2>2
<1>9. R \in W
  BY <1>1, <1>6, <1>7, <1>8, FoldIn
<1>10. RebuildFromBarrel2(h, m, order) = IF order = <<>> THEN h ELSE SaveRangeMetadata(R)
  BY DEF RebuildFromBarrel2, R
<1> QED
  BY <1>9, <1>10

\* What was in barrel1 at the open is right for the ranges after the scan as well: the new ones
\* are for keys of no other range, and none is named as a RangeKeyDir of barrel1 is.
ScanView(z, a, V, meta) ==
  ListView(meta, z.disk.files, DOMAIN z.disk.rkds \cup {b.name : b \in RangeSet(a.mem.ranges)},
           RangeSet(a.mem.ranges), V)

LEMMA ScanKept ==
  ASSUME NEW F, NEW files \in F, NEW z \in Work(F, files), Steady(z), Fine(z),
         NEW a, NEW m, Sits(z, [area |-> a, map |-> m]), ~a.clash,
         NEW V, NEW S,
         \A k \in Key : Read(z, k) \in V[k] /\ Read(Reopened(z.disk), k) \in V[k],
         \A i \in DOMAIN z.trace : z.trace[i] \in S
  PROVE  Keeps(a, ScanView(z, a, V, z.mem.ranges), S)
<1> DEFINE w == OpenView(z, V)
           v == ScanView(z, a, V, z.mem.ranges)
           N == DOMAIN z.disk.rkds
           R == RangeSet(a.mem.ranges)
<1>1. Keeps(z, w, S)
  BY NowKept
<1>2. /\ w.meta = z.mem.ranges /\ w.split = <<>> /\ w.files = z.disk.files
      /\ w.least = {b.name : b \in RangeSet(z.mem.ranges)}
      /\ w.over = RangeSet(z.mem.ranges) /\ w.vals = V
  BY ViewIs DEF OpenView, ListView
<1>3. /\ v.meta = z.mem.ranges /\ v.split = <<>> /\ v.files = z.disk.files
      /\ v.least = {b.name : b \in RangeSet(z.mem.ranges)}
      /\ v.only = N \cup {b.name : b \in R} /\ v.over = R /\ v.vals = V
  BY ViewIs DEF ScanView, ListView
<1>4. /\ Copies(z, a) /\ a.disk = z.disk /\ a.trace = z.trace
      /\ \A b \in R : b \in RangeSet(z.mem.ranges) \/ b.name \notin N
  BY DEF Sits
<1> HIDE DEF w, v, R
<1>5. ASSUME NEW n \in N, NEW r, May(w, n, r)
      PROVE  May(v, n, r)
  <2>1. n \in v.only
    BY <1>3
  <2>2. \A b \in v.over : b.name = n => b \in w.over
    BY <1>2, <1>3, <1>4
  <2>3. \A k \in Key : w.vals[k] \subseteq v.vals[k]
    BY <1>2, <1>3
  <2> QED
    BY <1>5, <2>1, <2>2, <2>3, MayAlso
<1>6. Like(z.disk, w)
  BY <1>1 DEF Keeps
<1>7. Like(a.disk, v)
  BY <1>2, <1>3, <1>4, <1>5, <1>6 DEF Like
<1>8. Coherent(z, 0)
  BY DEF Steady, Settled, Good, GoodBut
<1>9. ASSUME NEW c \in Slots(a)
      PROVE  May(v, c.name, c.rkd)
  <2>1. CASE c \in Slots(z)
    <3>1. May(w, c.name, c.rkd) /\ c.name \in N
      BY <1>1, <1>8, <2>1 DEF Keeps, Coherent
    <3> QED
      BY <1>5, <3>1
  <2>2. CASE c.name \in N /\ c.rkd = Deserialized(z.disk.rkds[c.name])
    <3>1. May(w, c.name, z.disk.rkds[c.name])
      BY <1>6, <2>2 DEF Like
    <3>2. May(w, c.name, c.rkd)
      BY <2>2, <3>1, CopiesMay
    <3> QED
      BY <1>5, <2>2, <3>2
  <2> QED
    BY <1>4, <2>1, <2>2 DEF Copies
<1>10. \A i \in DOMAIN a.trace : a.trace[i] \in S
  BY <1>4
<1> QED
  BY <1>7, <1>9, <1>10 DEF Keeps, v

LEMMA RecoveryKept ==
  ASSUME NEW F, NEW files \in F, NEW z \in Work(F, files), Settled(z), Fine(z), Peopled(z),
         NEW a \in Work(F, files), NEW m \in Maps(files), ScanOK(a, m),
         Sits(z, [area |-> a, map |-> m]), ~a.clash,
         NEW order \in SetToSeqs(DOMAIN m),
         NEW g \in Work(F, files), g = RebuildFromBarrel2(a, m, order), Rescued(a, m, g),
         ~Overlap(g.mem.ranges),
         NEW V, NEW W, NEW listed, NEW S, S = Safe(F, z.disk.files, V, W, listed),
         \A k \in Key : /\ Read(z, k) \in V[k] /\ Read(Reopened(z.disk), k) \in V[k]
                        /\ Read(g, k) \in V[k],
         \A i \in DOMAIN z.trace : z.trace[i] \in S
  PROVE  \E w : /\ Keeps(g, w, S) /\ Holding(F, w, S) /\ w.over = RangeSet(g.mem.ranges)
                /\ RangeSet(w.meta) \subseteq w.over
<1> DEFINE L == z.mem.ranges
           M == a.mem.ranges
           N == DOMAIN z.disk.rkds
           w == ScanView(z, a, V, L)
           v == ScanView(z, a, V, M)
<1>1. /\ w.meta = L /\ w.split = <<>> /\ w.files = z.disk.files
      /\ w.least = {b.name : b \in RangeSet(L)}
      /\ w.only = N \cup {b.name : b \in RangeSet(M)} /\ w.over = RangeSet(M) /\ w.vals = V
  BY ViewIs DEF ScanView, ListView
<1>2. /\ v.meta = M /\ v.split = <<>> /\ v.files = z.disk.files
      /\ v.least = {b.name : b \in RangeSet(M)}
      /\ v.only = N \cup {b.name : b \in RangeSet(M)} /\ v.over = RangeSet(M) /\ v.vals = V
  BY ViewIs DEF ScanView, ListView
<1>3. /\ L \in Ranges /\ M \in Ranges /\ Names(L) /\ Names(M)
      /\ z.disk.split = <<>> /\ z.disk.meta = L /\ a.disk = z.disk
      /\ g.mem.ranges = M /\ Steady(g)
  <2>1. L \in Ranges /\ M \in Ranges /\ Names(L)
    BY WorkDisk, SettledFacts
  <2>2. Names(M) /\ a.disk = z.disk
    BY DEF ScanOK, Sits
  <2> QED
    BY <2>1, <2>2 DEF Settled, Steady, Rescued
<1>4. RangeSet(L) \subseteq RangeSet(M)
  BY <1>3 DEF ScanOK
<1>5. Apart(RangeSet(M)) /\ ~Overlap(L)
  <2>1. Apart(RangeSet(M))
    BY <1>3, ApartIf
  <2>2. Apart(RangeSet(L))
    BY <1>4, <2>1 DEF Apart
  <2> QED
    BY <1>3, <2>1, <2>2, ApartThen
<1>6. Keeps(a, w, S)
  BY <1>5, ScanKept DEF Steady
<1>7. \A b \in RangeSet(L) : b.name \in N
  BY <1>6, <1>1, <1>3 DEF Keeps, Like
<1> HIDE DEF w, v
<1>8. Holding(F, w, S)
  <2>1. L = <<>> => \A n \in w.only : \E b \in w.over : b.name = n
    BY <1>1 DEF Peopled
  <2>2. ASSUME NEW k \in Key, FindRange(L, k) = 0
        PROVE  NoRecord \in V[k]
    <3>1. Read(z, k) = NoRecord
      BY <2>2, ReadIs
    <3> QED
      BY <3>1
  <2> DEFINE A == N \cup {b.name : b \in RangeSet(M)}
  <2>3. L = <<>> => \A n \in A : \E b \in RangeSet(M) : b.name = n
    BY <1>1, <2>1
  <2>4. V = IF z.disk.files = z.disk.files THEN V ELSE W
    OBVIOUS
  <2> HIDE DEF A, L
  <2>5. Holding(F, ListView(L, z.disk.files, A, RangeSet(M), V), Safe(F, z.disk.files, V, W, listed))
    BY <1>4, <2>2, <2>3, <2>4, ListHolds
  <2> QED
    BY <2>5 DEF w, ScanView, A, L
<1>9. Holding(F, v, S)
  <2>1. M = <<>> => \A n \in v.only : \E b \in v.over : b.name = n
    <3>1. M = <<>> => RangeSet(L) = {}
      <4>1. RangeSet(<<>>) = {}
        BY DEF RangeSet
      <4> HIDE DEF L, M
      <4> QED
        BY <1>4, <4>1
    <3>2. RangeSet(L) = {} => L = <<>>
      <4> HIDE DEF L
      <4>1. DOMAIN L = 1 .. Len(L) /\ L \in Seq(RangeRec) /\ Len(L) \in Nat
        BY <1>3, RangesFacts
      <4>2. ASSUME RangeSet(L) = {}
            PROVE  L = <<>>
        <5>1. 1 \notin DOMAIN L
          BY <4>2 DEF RangeSet
        <5>2. Len(L) = 0
          BY <4>1, <5>1
        <5> QED
          BY <4>1, <5>2
      <4> QED
        BY <4>2
    <3>3. L = <<>> => N = {}
      BY DEF Peopled
    <3> QED
      BY <1>2, <3>1, <3>2, <3>3
  <2>2. ASSUME NEW k \in Key, FindRange(M, k) = 0
        PROVE  NoRecord \in V[k]
    <3>1. Read(g, k) = NoRecord
      BY <1>3, <2>2, ReadIs
    <3> QED
      BY <3>1
  <2> DEFINE A == N \cup {b.name : b \in RangeSet(M)}
  <2>3. M = <<>> => \A n \in A : \E b \in RangeSet(M) : b.name = n
    BY <1>2, <2>1
  <2>4. V = IF z.disk.files = z.disk.files THEN V ELSE W
    OBVIOUS
  <2> HIDE DEF A, M
  <2>5. Holding(F, ListView(M, z.disk.files, A, RangeSet(M), V), Safe(F, z.disk.files, V, W, listed))
    BY <2>2, <2>3, <2>4, ListHolds
  <2> QED
    BY <2>5 DEF v, ScanView, A, M
<1>10. w.over \subseteq RangeRec
  <2>1. \A i \in DOMAIN M : M[i] \in RangeRec
    BY <1>3, RangesFacts
  <2> QED
    BY <1>1, <2>1 DEF RangeSet
<1>11. ASSUME NEW n \in DOMAIN m
       PROVE  /\ n \in Nat /\ n \in w.only /\ m[n] \in Founds(files) /\ Suits(w, n, m[n])
              /\ n \notin w.least => \A b \in w.over : b.name = n =>
                                       \A k \in Key : Covers(b, k) => NoRecord \in w.vals[k]
  <2>1. n \in Nat /\ m[n] \in Founds(files) /\ DOMAIN m[n] # {}
    BY MapsFacts DEF Sits
  <2>2. PICK b \in RangeSet(M) : b.name = n
    BY DEF ScanOK
  <2>3. \A r \in RangeSet(M) : r.name = n => Fits(r, m[n])
    BY DEF ScanOK
  <2>4. n \in w.only
    BY <1>1, <2>2
  <2>5. ASSUME NEW k \in DOMAIN m[n]
        PROVE  Answer(m[n], k) \in V[k]
    <3>1. k \in Key
      BY <2>1, FoundFacts
    <3>2. Covers(b, k)
      BY <2>2, <2>3 DEF Fits
    <3>3. Read(g, k) = Answer(Entr(g, n), k)
      BY <1>3, <2>2, <3>1, <3>2, ReadCovered
    <3>4. k \in DOMAIN Entr(g, n) /\ Entr(g, n)[k] = m[n][k]
      BY DEF Rescued, Shows
    <3>5. Answer(Entr(g, n), k) = Answer(m[n], k)
      BY <3>4 DEF Answer
    <3> QED
      BY <3>1, <3>3, <3>5
  <2>6. Suits(w, n, m[n])
    BY <1>1, <2>1, <2>3, <2>5 DEF Suits, Fits
  <2>7. ASSUME n \notin w.least, NEW r \in w.over, r.name = n, NEW k \in Key, Covers(r, k)
        PROVE  NoRecord \in w.vals[k]
    <3>1. ASSUME NEW x \in RangeSet(L)
          PROVE  ~Covers(x, k)
      <4>1. x.name # r.name /\ x \in RangeSet(M) /\ r \in RangeSet(M)
        BY <1>1, <1>4, <2>7
      <4> QED
        BY <1>5, <2>7, <4>1 DEF Apart
    <3>2. Read(z, k) = NoRecord
      BY <3>1, ReadUncovered
    <3> QED
      BY <1>1, <3>2
  <2> QED
    BY <2>1, <2>4, <2>6, <2>7
<1> DEFINE X == {x \in Work(F, files) : Keeps(x, w, S)}
<1>12. \A x \in X, n \in DOMAIN m : RecoverRange(x, m[n], n) \in X
  BY <1>8, <1>10, <1>11, RecoverRangeKept
<1>13. a \in X
  BY <1>6
<1>14. \/ order = <<>> /\ g = a
       \/ \E x \in X : g = SaveRangeMetadata(x)
  <2> HIDE DEF X
  <2> QED
    BY <1>12, <1>13, RecoverStays
<1>15. CASE g = a
  BY <1>1, <1>4, <1>6, <1>8, <1>15
<1>16. ASSUME NEW x \in X, g = SaveRangeMetadata(x)
       PROVE  Keeps(g, v, S)
  <2> DEFINE d == [x.disk EXCEPT !.meta = x.mem.ranges]
  <2>1. x \in Work(F, files) /\ Keeps(x, w, S) /\ x.disk \in Disks(files)
    BY WorkDisk
  <2>2. g = Write(x, d)
    BY <1>16 DEF SaveRangeMetadata
  <2>3. g.mem = x.mem /\ g.disk = d
    BY <2>1, <2>2 DEF Write, Work
  <2>4. x.mem.ranges = M
    BY <1>3, <2>3
  <2>5. d.meta = M /\ d.rkds = x.disk.rkds /\ d.split = x.disk.split /\ d.files = x.disk.files
    BY <2>1, <2>4 DEF Disks
  <2>6. d \in Disks(files)
    BY <2>3, WorkDisk
  <2>7. \A n, r : May(w, n, r) => May(v, n, r)
    BY <1>1, <1>2 DEF May
  <2>8. \A b \in RangeSet(M) : b.name \in DOMAIN d.rkds
    <3>1. Settled(g) /\ g.mem.ranges = M
      BY <1>3 DEF Steady
    <3>2. \A b \in RangeSet(g.mem.ranges) : b.name \in DOMAIN g.disk.rkds
      BY <3>1, SettledFacts
    <3> HIDE DEF d, M
    <3> QED
      BY <2>3, <3>1, <3>2
  <2> HIDE DEF d
  <2>9. Like(d, v)
    BY <1>1, <1>2, <2>1, <2>5, <2>7, <2>8 DEF Keeps, Like
  <2>10. \A c \in Slots(x) : May(v, c.name, c.rkd)
    BY <2>1, <2>7 DEF Keeps
  <2> QED
    BY <1>9, <2>1, <2>2, <2>6, <2>9, <2>10, WriteKept
<1>17. CASE \E x \in X : g = SaveRangeMetadata(x)
  BY <1>2, <1>3, <1>9, <1>16, <1>17
<1> QED
  BY <1>14, <1>15, <1>17

-----------------------------------------------------------------------------
(* What an open with recovery finds: of each key the last legible record.    *)

Before(a, b) == a.file < b.file \/ (a.file = b.file /\ a.pos < b.pos)

\* A sequence that has every member of S once, in the order of the scan.
InOrder(q)  == \A i, j \in DOMAIN q : i < j => Before(q[i], q[j])
Lists(q, S) ==
  /\ \A i \in DOMAIN q : q[i] \in S
  /\ \A r \in S : \E i \in DOMAIN q : q[i] = r
  /\ InOrder(q)

\* The uncompressed records of some files.
Spots(files, I) == {r \in FoundRecord(files) : r.file \in I /\ ~files[r.file][r.pos].packed}

LEMMA ListsBoth ==
  ASSUME NEW R, NEW x \in Seq(R), NEW y \in Seq(R), NEW S, NEW T, Lists(x, S), Lists(y, T),
         \A a \in S, b \in T : Before(a, b)
  PROVE  Lists(x \o y, S \cup T)
<1> DEFINE z == x \o y
<1>1. /\ Len(x) \in Nat /\ DOMAIN x = 1 .. Len(x)
      /\ Len(y) \in Nat /\ DOMAIN y = 1 .. Len(y)
      /\ DOMAIN z = 1 .. Len(x) + Len(y)
      /\ \A i \in 1 .. Len(x) : z[i] = x[i]
      /\ \A i \in 1 .. Len(y) : z[Len(x) + i] = y[i]
  OBVIOUS
<1> HIDE DEF z
<1> DEFINE n == Len(x)
<1>2. /\ n \in Nat /\ DOMAIN z \in SUBSET Nat
      /\ \A i \in DOMAIN x : i \in DOMAIN z /\ z[i] = x[i] /\ i <= n
      /\ \A i \in DOMAIN y : n + i \in DOMAIN z /\ z[n + i] = y[i]
      /\ \A i \in DOMAIN z : i \in DOMAIN x \/ (i > n /\ i - n \in DOMAIN y /\ z[i] = y[i - n])
      /\ \A i \in DOMAIN z : i <= n => i \in DOMAIN x
  <2> DEFINE m == Len(y)
  <2>1. /\ n \in Nat /\ m \in Nat /\ DOMAIN x = 1 .. n /\ DOMAIN y = 1 .. m
        /\ DOMAIN z = 1 .. n + m
        /\ \A i \in 1 .. n : z[i] = x[i]
        /\ \A i \in 1 .. m : z[n + i] = y[i]
    BY <1>1
  <2> HIDE DEF n, m
  <2>2. ASSUME NEW i \in DOMAIN z, i > n
        PROVE  i - n \in DOMAIN y /\ z[i] = y[i - n]
    <3>1. i - n \in 1 .. m /\ i = n + (i - n)
      BY <2>1, <2>2
    <3> QED
      BY <2>1, <3>1
  <2>3. \A i \in DOMAIN y : n + i \in DOMAIN z /\ z[n + i] = y[i]
    BY <2>1
  <2> QED
    BY <2>1, <2>2, <2>3
<1> HIDE DEF n
<1>3. ASSUME NEW i \in DOMAIN z
      PROVE  z[i] \in S \cup T
  BY <1>2 DEF Lists
<1>4. ASSUME NEW r \in S \cup T
      PROVE  \E i \in DOMAIN z : z[i] = r
  <2>1. CASE r \in S
    BY <1>2, <2>1 DEF Lists
  <2>2. CASE r \in T
    <3>1. PICK i \in DOMAIN y : y[i] = r
      BY <2>2 DEF Lists
    <3> QED
      BY <1>2, <3>1
  <2> QED
    BY <2>1, <2>2
<1>5. ASSUME NEW i \in DOMAIN z, NEW j \in DOMAIN z, i < j
      PROVE  Before(z[i], z[j])
  <2>1. CASE i \in DOMAIN x /\ j \in DOMAIN x
    BY <1>2, <1>5, <2>1 DEF Lists, InOrder
  <2>2. CASE i \in DOMAIN x /\ j \notin DOMAIN x
    <3>1. z[i] \in S /\ z[j] \in T
      BY <1>2, <2>2 DEF Lists
    <3> QED
      BY <3>1
  <2>3. CASE i \notin DOMAIN x
    <3>1. j > n /\ i > n /\ i \in Nat /\ j \in Nat
      BY <1>2, <1>5, <2>3
    <3>2. /\ i - n \in DOMAIN y /\ z[i] = y[i - n]
          /\ j - n \in DOMAIN y /\ z[j] = y[j - n]
      <4>1. ~(j <= n)
        BY <1>2, <3>1
      <4>2. j \in DOMAIN x => j <= n
        BY <1>2
      <4> QED
        BY <1>2, <2>3, <4>1, <4>2
    <3>3. i - n < j - n
      BY <1>2, <1>5, <3>1
    <3> QED
      BY <3>2, <3>3 DEF Lists, InOrder
  <2> QED
    BY <2>1, <2>2, <2>3
<1> QED
  BY <1>3, <1>4, <1>5 DEF Lists, InOrder, z

\* The scan of a file reports its uncompressed records; and that of all files those of all.
LEMMA RecordsInAll ==
  ASSUME NEW files \in Files, NEW f \in DOMAIN files
  PROVE  Lists(RecordsIn(files, f), Spots(files, {f}))
<1> DEFINE I == {x \in DOMAIN files[f] : ~files[f][x].packed}
           a == [x \in DOMAIN files[f] |-> [key |-> files[f][x].key, file |-> f, pos |-> x]]
           q == Ascending(I)
           s == RecordsIn(files, f)
<1>1. files[f] \in Seq(Record)
  BY DEF Files, File
<1>2. Len(files[f]) \in Nat /\ DOMAIN files[f] = 1 .. Len(files[f])
  BY <1>1
<1>3. I \in SUBSET (0 .. Len(files[f]))
  BY <1>2
<1>4. s = [j \in DOMAIN q |-> a[q[j]]]
  BY DEF RecordsIn, At
<1>5. \A x \in DOMAIN files[f] : a[x] = [key |-> files[f][x].key, file |-> f, pos |-> x]
  OBVIOUS
<1>6. \A x : x \in I <=> x \in DOMAIN files[f] /\ ~files[f][x].packed
  OBVIOUS
<1> HIDE DEF I, a
<1>7. q \in Sorted(I)
  BY <1>2, <1>3, AscendingSorts
<1> HIDE DEF q
<1>8. /\ DOMAIN q = 1 .. Len(q) /\ \A j \in DOMAIN q : q[j] \in I
      /\ \A x \in I : \E j \in DOMAIN q : q[j] = x
      /\ \A i, j \in DOMAIN q : i < j => q[i] < q[j]
  <2>1. q \in Seq(I)
    BY <1>7 DEF Sorted
  <2>2. DOMAIN q = 1 .. Len(q) /\ \A j \in DOMAIN q : q[j] \in I
    BY <2>1
  <2> QED
    BY <1>7, <2>2 DEF Sorted
<1>9. ASSUME NEW j \in DOMAIN q
      PROVE  /\ s[j] = [key |-> files[f][q[j]].key, file |-> f, pos |-> q[j]]
             /\ q[j] \in DOMAIN files[f] /\ ~files[f][q[j]].packed
  BY <1>4, <1>5, <1>6, <1>8
<1>10. DOMAIN s = DOMAIN q
  BY <1>4
<1>11. s \in Seq(FoundRecord(files))
  BY RecordsInFound
<1>12. \A j \in DOMAIN s : s[j] \in FoundRecord(files)
  <2> HIDE DEF s
  <2> QED
    BY <1>11
<1> HIDE DEF s
<1>13. ASSUME NEW j \in DOMAIN s
       PROVE  s[j] \in Spots(files, {f})
  BY <1>9, <1>10, <1>12 DEF Spots
<1>14. ASSUME NEW r \in Spots(files, {f})
       PROVE  \E j \in DOMAIN s : s[j] = r
  <2>1. /\ r.file = f /\ r.pos \in DOMAIN files[f] /\ ~files[f][r.pos].packed
        /\ files[f][r.pos].key = r.key
        /\ r = [key |-> r.key, file |-> r.file, pos |-> r.pos]
    BY DEF Spots, FoundRecord
  <2>2. PICK j \in DOMAIN q : q[j] = r.pos
    BY <1>6, <1>8, <2>1
  <2> QED
    BY <1>9, <1>10, <2>1, <2>2
<1>15. ASSUME NEW i \in DOMAIN s, NEW j \in DOMAIN s, i < j
       PROVE  Before(s[i], s[j])
  BY <1>8, <1>9, <1>10, <1>15 DEF Before
<1> QED
  BY <1>13, <1>14, <1>15 DEF Lists, InOrder, s

LEMMA ScannedAll ==
  ASSUME NEW files \in Files
  PROVE  Lists(Scanned(files), Spots(files, DOMAIN files))
<1> DEFINE W == Seq(FoundRecord(files))
           q == Ascending(DOMAIN files)
           n == Len(q)
           R(i) == RecordsIn(files, q[i])
           IsFold(g) == g = [s \in SUBSET (1 .. n) |-> IF s = {} THEN <<>>
                               ELSE g[s \ {Max(s)}] \o R(Max(s))]
           G == [x \in W \X (1 .. n) |-> x[1] \o R(x[2])]
           T(s) == Spots(files, {q[i] : i \in s})
           A == [s \in SUBSET (1 .. n) |-> {x \in W : Lists(x, T(s))}]
<1>1. PICK top \in Nat : DOMAIN files \in SUBSET (0 .. top)
  BY DEF Files, Bounded
<1>2. q \in Sorted(DOMAIN files)
  BY <1>1, AscendingSorts
<1> HIDE DEF q
<1>3. /\ n \in Nat /\ DOMAIN q = 1 .. n /\ (\A i \in 1 .. n : q[i] \in DOMAIN files)
      /\ (\A f \in DOMAIN files : \E i \in 1 .. n : q[i] = f)
      /\ \A i, j \in 1 .. n : i < j => q[i] < q[j]
  BY <1>2 DEF Sorted
<1>4. \A i \in 1 .. n : R(i) \in W /\ Lists(R(i), Spots(files, {q[i]}))
  BY <1>3, RecordsInFound, RecordsInAll
<1> HIDE DEF R, n
<1>5. ASSUME NEW x \in W, NEW i \in 1 .. n
      PROVE  x \o R(i) \in W
  <2>1. R(i) \in W
    BY <1>4
  <2> QED
    BY <2>1
<1>6. <<>> \in W /\ DOMAIN <<>> = {}
  OBVIOUS
<1> HIDE DEF W
<1>7. G \in [W \X (1 .. n) -> W]
  BY <1>5
<1> HIDE DEF G
<1>8. PICK g0 \in [SUBSET (1 .. n) -> W] : Folds(g0, 1 .. n, <<>>, G)
  BY <1>3, <1>6, <1>7, FoldOver
<1>9. IsFold(g0)
  <2> SUFFICES ASSUME NEW s \in SUBSET (1 .. n), s # {}
               PROVE  g0[s] = g0[s \ {Max(s)}] \o R(Max(s))
    BY <1>8 DEF Folds
  <2>1. <<g0[s \ {Max(s)}], Max(s)>> \in W \X (1 .. n)
    BY <1>3, <1>8, MaxIn
  <2> QED
    BY <1>8, <2>1 DEF Folds, G
<1>10. PICK g : IsFold(g) /\ Scanned(files) = g[1 .. n]
  BY <1>3, <1>9 DEF Scanned, Records, FoldLeft, MapThenFoldSet, q, n, R
<1>11. g[{}] \in A[{}]
  <2>1. Lists(<<>>, T({}))
    BY <1>6 DEF Lists, InOrder, Spots
  <2>2. g[{}] = <<>>
    BY <1>10
  <2> QED
    BY <1>6, <2>1, <2>2
<1>12. ASSUME NEW s \in SUBSET (1 .. n), s # {}, g[s \ {Max(s)}] \in A[s \ {Max(s)}]
       PROVE  g[s] \in A[s]
  <2> DEFINE m == Max(s)
             x == g[s \ {m}]
  <2>1. m \in s /\ m \in 1 .. n /\ \A i \in s : i <= m
    <3>1. n \in Nat /\ s \in SUBSET (0 .. n)
      BY <1>3
    <3> QED
      BY <1>12, <3>1, MaxOf
  <2>2. g[s] = x \o R(m)
    BY <1>10, <1>12
  <2>3. x \in W /\ Lists(x, T(s \ {m}))
    BY <1>12
  <2> HIDE DEF m, x
  <2>4. \A i \in s \ {m} : q[i] < q[m]
    <3>1. \A i \in s \ {m} : i \in 1 .. n /\ i < m
      BY <1>3, <2>1
    <3> QED
      BY <1>3, <2>1, <3>1
  <2>5. \A a \in T(s \ {m}), b \in Spots(files, {q[m]}) : Before(a, b)
    BY <2>4 DEF Spots, Before
  <2>6. T(s) = T(s \ {m}) \cup Spots(files, {q[m]})
    BY <2>1 DEF Spots
  <2> HIDE DEF T
  <2>7. Lists(x \o R(m), T(s \ {m}) \cup Spots(files, {q[m]}))
    BY <1>4, <2>1, <2>3, <2>5, ListsBoth DEF W
  <2>8. g[s] \in W
    BY <1>5, <2>1, <2>2, <2>3
  <2> QED
    BY <2>2, <2>6, <2>7, <2>8
<1>13. g[1 .. n] \in A[1 .. n]
  <2> HIDE DEF A
  <2>1. 1 .. n \in SUBSET (0 .. n)
    BY <1>3
  <2> QED
    BY <1>3, <1>11, <1>12, <2>1, FoldHolds
<1>14. T(1 .. n) = Spots(files, DOMAIN files)
  <2> DEFINE I == {q[i] : i \in 1 .. n}
  <2>1. \A i \in 1 .. n : q[i] \in DOMAIN files
    BY <1>3
  <2>2. \A f \in DOMAIN files : f \in I
    BY <1>3
  <2>3. I \subseteq DOMAIN files
    BY <2>1
  <2> HIDE DEF I
  <2>4. I = DOMAIN files
    BY <2>2, <2>3
  <2> QED
    BY <2>4 DEF I
<1>15. Lists(g[1 .. n], T(1 .. n))
  BY <1>13
<1> QED
  BY <1>10, <1>14, <1>15

LEMMA LegibleAre ==
  ASSUME disk.files \in Files, NEW k \in Key
  PROVE  /\ \A r \in Spots(disk.files, DOMAIN disk.files) :
              r.key = k => <<r.file, r.pos>> \in Legible(k)
         /\ \A s \in Legible(k) :
              \E r \in Spots(disk.files, DOMAIN disk.files) : r.key = k /\ s = <<r.file, r.pos>>
<1> DEFINE files == disk.files
<1>1. DOMAIN files \in SUBSET Nat /\ \A f \in DOMAIN files : files[f] \in Seq(Record)
  BY DEF Files, File
<1>2. \A f \in DOMAIN files : \A p \in DOMAIN files[f] : p \in Nat /\ files[f][p] \in Record
  BY <1>1
<1> DEFINE P(f) == {p \in DOMAIN files[f] : files[f][p] = [key |-> k, packed |-> FALSE]}
           N(f) == {<<f, p>> : p \in P(f)}
<1>3. \A x : x \in Legible(k) <=>
        \E f \in DOMAIN files : \E p \in DOMAIN files[f] :
          x = <<f, p>> /\ files[f][p] = [key |-> k, packed |-> FALSE]
  <2>1. Legible(k) = UNION {N(f) : f \in DOMAIN files}
    BY DEF Legible
  <2>2. \A f, x : x \in N(f) <=> \E p \in P(f) : x = <<f, p>>
    OBVIOUS
  <2>3. \A f, p : p \in P(f) <=>
          p \in DOMAIN files[f] /\ files[f][p] = [key |-> k, packed |-> FALSE]
    OBVIOUS
  <2> HIDE DEF N, P
  <2>4. \A x : x \in Legible(k) <=> \E f \in DOMAIN files : x \in N(f)
    BY <2>1
  <2> SUFFICES ASSUME NEW x
               PROVE  x \in Legible(k) <=>
                        \E f \in DOMAIN files : \E p \in DOMAIN files[f] :
                          x = <<f, p>> /\ files[f][p] = [key |-> k, packed |-> FALSE]
    OBVIOUS
  <2> HIDE DEF files
  <2>5. ASSUME x \in Legible(k)
        PROVE  \E f \in DOMAIN files : \E p \in DOMAIN files[f] :
                 x = <<f, p>> /\ files[f][p] = [key |-> k, packed |-> FALSE]
    <3>1. PICK f \in DOMAIN files : x \in N(f)
      BY <2>4, <2>5
    <3>2. PICK p \in P(f) : x = <<f, p>>
      BY <2>2, <3>1
    <3>3. p \in DOMAIN files[f] /\ files[f][p] = [key |-> k, packed |-> FALSE]
      BY <2>3, <3>2
    <3> QED
      BY <3>2, <3>3
  <2>6. ASSUME NEW f \in DOMAIN files, NEW p \in DOMAIN files[f],
               x = <<f, p>>, files[f][p] = [key |-> k, packed |-> FALSE]
        PROVE  x \in Legible(k)
    <3>1. p \in P(f)
      BY <2>3, <2>6
    <3>2. x \in N(f)
      BY <2>2, <2>6, <3>1
    <3> QED
      BY <2>4, <3>2
  <2> QED
    BY <2>5, <2>6
<1> HIDE DEF files
<1>4. ASSUME NEW r \in Spots(files, DOMAIN files), r.key = k
      PROVE  <<r.file, r.pos>> \in Legible(k)
  <2>1. /\ r.file \in DOMAIN files /\ r.pos \in DOMAIN files[r.file]
        /\ ~files[r.file][r.pos].packed /\ files[r.file][r.pos].key = k
    BY <1>4 DEF Spots, FoundRecord
  <2>2. files[r.file][r.pos] = [key |-> k, packed |-> FALSE]
    BY <1>2, <2>1 DEF Record
  <2> QED
    BY <1>3, <2>1, <2>2
<1>5. ASSUME NEW s \in Legible(k)
      PROVE  \E r \in Spots(files, DOMAIN files) : r.key = k /\ s = <<r.file, r.pos>>
  <2>1. PICK f \in DOMAIN files :
          \E p \in DOMAIN files[f] : s = <<f, p>> /\ files[f][p] = [key |-> k, packed |-> FALSE]
    BY <1>3
  <2>3. PICK p \in DOMAIN files[f] :
          s = <<f, p>> /\ files[f][p] = [key |-> k, packed |-> FALSE]
    BY <2>1
  <2> DEFINE r == [key |-> k, file |-> f, pos |-> p]
  <2>2. r \in Spots(files, DOMAIN files)
    <3>1. r \in [key : Key, file : Nat, pos : Nat]
      BY <1>1, <1>2
    <3> QED
      BY <2>3, <3>1 DEF Spots, FoundRecord
  <2> QED
    BY <2>2, <2>3
<1> QED
  BY <1>4, <1>5 DEF files

LEMMA RecoveryReads ==
  ASSUME NEW F, NEW files \in F, files = disk.files, files \in Files,
         NEW h \in Work(F, files), Settled(h),
         NEW st, st.area \in Work(F, files), st.map \in Maps(files), ~st.area.clash,
         Scans(h, st, files), Sits(h, st), ScanOK(st.area, st.map),
         NEW g \in Work(F, files), Rescued(st.area, st.map, g), ~Overlap(g.mem.ranges),
         NEW k \in Key
  PROVE  Read(g, k) \in IF LastLegible(k) = {} THEN {Read(h, k)} ELSE LastLegible(k)
<1> DEFINE q == Scanned(files)
           a == st.area
           m == st.map
           L == h.mem.ranges
           M == g.mem.ranges
<1>1. Lists(q, Spots(files, DOMAIN files))
  BY ScannedAll
<1>2. q \in Seq(FoundRecord(files))
  BY ScannedFound
<1> HIDE DEF q
<1>3. DOMAIN q \in SUBSET Nat
  BY <1>2
<1>4. /\ L \in Ranges /\ M \in Ranges /\ Names(L) /\ a.mem.ranges = M
      /\ RangeSet(L) \subseteq RangeSet(M) /\ Steady(g)
  <2>1. L \in Ranges /\ Names(L) /\ g.mem.ranges \in Ranges
    BY SettledFacts, WorkDisk
  <2>2. a.disk = h.disk /\ h.disk.meta = L
    BY DEF Sits, Settled
  <2> QED
    BY <2>1, <2>2 DEF Rescued, ScanOK, Steady
<1>5. Apart(RangeSet(M)) /\ Apart(RangeSet(L)) /\ Steady(h)
  <2>1. Apart(RangeSet(M))
    BY <1>4, ApartIf
  <2>2. Apart(RangeSet(L))
    BY <1>4, <2>1 DEF Apart
  <2>3. ~Overlap(L)
    BY <1>4, <2>2, ApartThen
  <2> QED
    BY <2>1, <2>2, <2>3 DEF Steady
<1>6. \A n \in DOMAIN m : \E r \in RangeSet(M) : r.name = n /\ Fits(r, m[n])
  BY <1>4 DEF ScanOK
<1>7. \A n : Entr(a, n) = Entr(h, n)
  BY DEF Scans, Still
<1>8. CASE InMap(m, k)
  <2>1. PICK n \in DOMAIN m : k \in DOMAIN m[n]
    BY <1>8 DEF InMap
  <2>2. PICK j \in DOMAIN q :
          /\ q[j].key = k /\ m[n][k] = EntryOf(q[j].file, q[j].pos)
          /\ \A i \in DOMAIN q : q[i].key = k /\ j < i =>
               \E x \in DOMAIN m : x # n /\ k \in DOMAIN m[x]
    BY <2>1 DEF Scans, Latest, q
  <2>3. PICK r \in RangeSet(M) : r.name = n /\ Fits(r, m[n])
    BY <1>6
  <2>4. Covers(r, k)
    BY <2>1, <2>3 DEF Fits
  <2>5. \A x \in DOMAIN m : k \in DOMAIN m[x] => x = n
    <3> SUFFICES ASSUME NEW x \in DOMAIN m, k \in DOMAIN m[x], x # n
                 PROVE  FALSE
      OBVIOUS
    <3>1. PICK s \in RangeSet(M) : s.name = x /\ Covers(s, k)
      BY <1>6 DEF Fits
    <3> QED
      BY <1>5, <2>3, <2>4, <3>1 DEF Apart
  <2>6. \A i \in DOMAIN q : q[i].key = k => i <= j
    BY <1>3, <2>2, <2>5
  <2>7. Read(g, k) = <<q[j].file, q[j].pos>>
    <3>1. Read(g, k) = Answer(Entr(g, n), k)
      BY <1>4, <2>3, <2>4, ReadCovered
    <3>2. k \in DOMAIN Entr(g, n) /\ Entr(g, n)[k] = m[n][k]
      BY <2>1 DEF Rescued, Shows
    <3> QED
      BY <2>2, <3>1, <3>2 DEF Answer, EntryOf
  <2>8. <<q[j].file, q[j].pos>> \in Legible(k)
    BY <1>1, <2>2, LegibleAre DEF Lists
  <2>9. ASSUME NEW s \in Legible(k)
        PROVE  s[1] < q[j].file \/ (s[1] = q[j].file /\ s[2] <= q[j].pos)
    <3>1. PICK i \in DOMAIN q : q[i].key = k /\ s = <<q[i].file, q[i].pos>>
      BY <1>1, LegibleAre DEF Lists
    <3>2. i <= j
      BY <2>6, <3>1
    <3>3. CASE i = j
      <4>1. q[j].pos \in Nat
        BY <1>2 DEF FoundRecord
      <4> QED
        BY <3>1, <3>3, <4>1
    <3>4. CASE i # j
      <4>1. i < j
        BY <1>3, <3>2, <3>4
      <4>2. Before(q[i], q[j])
        BY <1>1, <4>1 DEF Lists, InOrder
      <4>3. q[i].pos \in Nat /\ q[j].pos \in Nat
        BY <1>2 DEF FoundRecord
      <4> QED
        BY <3>1, <4>2, <4>3 DEF Before
    <3> QED
      BY <3>3, <3>4
  <2>10. Read(g, k) \in LastLegible(k)
    BY <2>7, <2>8, <2>9 DEF LastLegible
  <2> QED
    BY <2>10
<1>9. CASE ~InMap(m, k)
  <2>1. LastLegible(k) = {}
    <3> SUFFICES ASSUME NEW s \in Legible(k)
                 PROVE  FALSE
      BY DEF LastLegible
    <3>1. PICK i \in DOMAIN q : q[i].key = k
      BY <1>1, LegibleAre DEF Lists
    <3> QED
      BY <1>9, <3>1 DEF Scans, q
  <2>2. \A n \in DOMAIN m : k \notin DOMAIN m[n]
    BY <1>9 DEF InMap
  <2>3. ASSUME NEW n
        PROVE  Answer(Entr(g, n), k) = Answer(Entr(h, n), k)
    <3>1. CASE n \in DOMAIN m
      <4>1. Rest(Entr(g, n), m[n], Entr(h, n)) /\ k \notin DOMAIN m[n]
        BY <1>7, <2>2, <3>1 DEF Rescued, Spared
      <4> QED
        BY <4>1 DEF Rest, Answer
    <3>2. CASE n \notin DOMAIN m
      BY <1>7, <3>2 DEF Rescued, Spared
    <3> QED
      BY <3>1, <3>2
  <2>4. ASSUME NEW r \in RangeSet(L), Covers(r, k)
        PROVE  Read(g, k) = Read(h, k)
    <3>1. r \in RangeSet(M)
      BY <1>4
    <3>2. Read(g, k) = Answer(Entr(g, r.name), k)
      BY <1>4, <2>4, <3>1, ReadCovered
    <3>3. Read(h, k) = Answer(Entr(h, r.name), k)
      BY <1>5, <2>4, ReadCovered
    <3> QED
      BY <2>3, <3>2, <3>3
  <2>5. ASSUME \A r \in RangeSet(L) : ~Covers(r, k)
        PROVE  Read(g, k) = Read(h, k)
    <3>1. Read(h, k) = NoRecord
      BY <2>5, ReadUncovered
    <3>2. CASE \A r \in RangeSet(M) : ~Covers(r, k)
      BY <3>1, <3>2, ReadUncovered
    <3>3. ASSUME NEW r \in RangeSet(M), Covers(r, k)
          PROVE  Read(g, k) = NoRecord
      <4>1. r.name \notin DOMAIN h.disk.rkds
        BY <1>4, <2>5, <3>3 DEF Sits
      <4>2. \A c \in Slots(h) : c.name # r.name
        BY <4>1 DEF Settled, Good, GoodBut, Coherent
      <4>3. Entr(h, r.name) = <<>>
        BY <4>1, <4>2, EntrWhere
      <4>4. Read(g, k) = Answer(Entr(g, r.name), k)
        BY <1>4, <3>3, ReadCovered
      <4>5. Answer(<<>>, k) = NoRecord
        BY DEF Answer
      <4> QED
        BY <2>3, <4>3, <4>4, <4>5
    <3> QED
      BY <3>1, <3>2, <3>3
  <2> QED
    BY <2>1, <2>4, <2>5
<1> QED
  BY <1>8, <1>9

LEMMA TOpenAndRecoverStep ==
  ASSUME TInv, CInv', OpenAndRecover
  PROVE  TInv' /\ StepLosesNone
<1> DEFINE z == Reopened(disk)
           st == RecoveryMap(z)
           a == st.area
           m == st.map
           F == {disk.files}
           V == [k \in Key |-> {Read(Reopened(disk), k)} \cup LastLegible(k)]
           S == Safe(F, disk.files, V, V, TRUE)
<1>1. CASE ~sound'
  BY <1>1, UnsoundTells
<1>2. CASE sound'
  <2>1. PICK order \in SetToSeqs(DOMAIN m) : OpenAs(RebuildFromBarrel2(a, m, order))
    BY DEF OpenAndRecover
  <2> DEFINE g == RebuildFromBarrel2(a, m, order)
  <2>2. Finish(g) /\ sound /\ ~g.clash /\ ~Overlap(g.mem.ranges) /\ ~mem.isOpen
    BY <1>2, <2>1 DEF OpenAndRecover, OpenAs, Finish
  <2>3. IInv /\ DiskOK(disk) /\ Snug(disk) /\ disk \in Disks(disk.files) /\ disk.files \in Files
        /\ disk.files \in F
    BY <2>2 DEF TInv, CInv, RInv, IInv
  <2>4. z \in Work(F, disk.files) /\ Settled(z) /\ Peopled(z) /\ Fine(z) /\ Clean(z)
    BY <2>3, ReopenedOf, ReopenedGood, ReopenedFine, ReopenedClean
  <2>5. \A i \in DOMAIN z.trace : z.trace[i] \in Safe(F, disk.files, Old, V, TRUE)
    BY <2>3, ReopenedSafe
  <2>6. /\ Reaches(disk, z.disk) /\ \A i \in DOMAIN z.trace : Reaches(disk, z.trace[i])
    BY <2>3, ReopenedReaches
  <2>7. z.disk.files = disk.files /\ \A i \in DOMAIN z.trace : z.trace[i] \in DisksOf(F)
    BY <2>3, <2>4, WorkDisk DEF Disks
  <2>8. \A k \in Key : Read(Reopened(z.disk), k) = Read(z, k)
    BY <2>6 DEF Reaches
  <2> DEFINE old == [k \in Key |-> Read(z, k)]
  <2>9. \A i \in DOMAIN z.trace : z.trace[i] \in S
    <3> SUFFICES ASSUME NEW i \in DOMAIN z.trace
                 PROVE  z.trace[i] \in S
      OBVIOUS
    <3>1. z.trace[i] \in DisksOf(F) /\ Reaches(disk, z.trace[i])
      BY <2>6, <2>7
    <3>2. \A k \in Key : Read(Reopened(z.trace[i]), k) \in V[k]
      BY <3>1 DEF Reaches
    <3> HIDE DEF z, V
    <3> QED
      BY <3>1, <3>2 DEF Safe, Reaches
  <2>10. Sits(z, st)
    BY <2>3, <2>4, ScanSits
  <2>11. Scans(z, st, disk.files)
    BY <2>3, <2>4, ScanGood
  <2>12. a \in Work(F, disk.files) /\ m \in Maps(disk.files)
    BY <2>3, <2>4, RecoveryMapKeeps
  <2>13. Recovered(a, m, g) /\ g \in Work(F, disk.files)
    BY <2>1, <2>3, <2>12, RecoverGood, RecoverKeeps
  <2>14. ~a.clash /\ ScanOK(a, m) /\ Rescued(a, m, g)
    BY <2>2, <2>11, <2>13 DEF Recovered, Scans, ScanSound
  <2>15. Sits(z, [area |-> a, map |-> m])
    BY <2>10 DEF Sits
  <2>16. \A k \in Key : /\ Read(z, k) \in V[k] /\ Read(Reopened(z.disk), k) \in V[k]
                        /\ Read(g, k) \in V[k]
    <3> SUFFICES ASSUME NEW k \in Key
                 PROVE  /\ Read(z, k) \in V[k] /\ Read(Reopened(z.disk), k) \in V[k]
                        /\ Read(g, k) \in V[k]
      OBVIOUS
    <3>1. V[k] = {Read(z, k)} \cup LastLegible(k)
      OBVIOUS
    <3> HIDE DEF z, st, g, V, F
    <3>2. Read(g, k) \in IF LastLegible(k) = {} THEN {Read(z, k)} ELSE LastLegible(k)
      BY <2>2, <2>3, <2>4, <2>10, <2>11, <2>12, <2>13, <2>14, RecoveryReads
    <3> QED
      BY <2>8, <3>1, <3>2
  <2>17. S = Safe(F, z.disk.files, V, V, TRUE)
    BY <2>7
  <2> HIDE DEF z, st, a, m, g, S, V
  <2>18. PICK w : /\ Keeps(g, w, S) /\ Holding(F, w, S) /\ w.over = RangeSet(g.mem.ranges)
                  /\ RangeSet(w.meta) \subseteq w.over
    <3> HIDE DEF F
    <3> QED
      BY <2>1, <2>2, <2>3, <2>4, <2>9, <2>12, <2>13, <2>14, <2>15, <2>16, <2>17, RecoveryKept DEF g
  <2>19. g.disk \in DisksOf(F)
    BY <2>3, <2>13, WorkDisk
  <2>20. TInv' /\ Tells(V, V, TRUE)
    <3> HIDE DEF F
    <3> QED
      BY <1>2, <2>2, <2>18, <2>19, KeptTells DEF S
  <2>21. \A k \in Key : V[k] \subseteq Old[k]
    BY <2>2 DEF V, Old
  <2> QED
    BY <2>20, <2>21, TellsNone
<1> QED
  BY <1>1, <1>2


(***************************************************************************)
(* A set.  Its key may be in no range: then a RangeKeyDir without entries is  *)
(* there before the list of ranges names it, and a death in between leaves   *)
(* it behind.                                                               *)
(***************************************************************************)
SetView(meta, ranges, N, n, files, vals) == ListView(meta, files, N \cup {n}, RangeSet(ranges), vals)

\* With a range that no list names yet, everything that was right stays right.
LEMMA WidenedKept ==
  ASSUME NEW F, NEW files \in F, NEW h \in Work(F, files), Steady(h), Fine(h),
         NEW V, NEW S, \A j \in Key : Read(h, j) \in V[j] /\ Read(Reopened(h.disk), j) \in V[j],
         \A i \in DOMAIN h.trace : h.trace[i] \in S,
         NEW n, NEW q, \A b \in RangeSet(q) : b \in RangeSet(h.mem.ranges) \/ b.name \notin DOMAIN h.disk.rkds,
         NEW w, w = SetView(h.mem.ranges, q, DOMAIN h.disk.rkds, n, files, V)
  PROVE  Keeps(h, w, S)
<1> DEFINE L == h.mem.ranges
           u == OpenView(h, V)
           N == DOMAIN h.disk.rkds
<1>1. Keeps(h, u, S)
  BY NowKept
<1>2. /\ u.meta = L /\ u.split = <<>> /\ u.files = files
      /\ u.least = {b.name : b \in RangeSet(L)} /\ u.over = RangeSet(L) /\ u.vals = V
  <2>1. h.disk.files = files
    BY WorkDisk, DiskTables
  <2> QED
    BY <2>1, ViewIs DEF OpenView, ListView
<1>3. /\ w.meta = L /\ w.split = <<>> /\ w.files = files
      /\ w.least = {b.name : b \in RangeSet(L)}
      /\ w.only = N \cup {n} /\ w.over = RangeSet(q) /\ w.vals = V
  BY ViewIs DEF SetView, ListView
<1> HIDE DEF u
<1>4. ASSUME NEW m \in N, NEW r, May(u, m, r)
      PROVE  May(w, m, r)
  <2>1. m \in w.only
    BY <1>3
  <2>2. \A b \in w.over : b.name = m => b \in u.over
    BY <1>2, <1>3
  <2>3. \A j \in Key : u.vals[j] \subseteq w.vals[j]
    BY <1>2, <1>3
  <2> QED
    BY <1>4, <2>1, <2>2, <2>3, MayAlso
<1>5. Like(h.disk, u)
  BY <1>1 DEF Keeps
<1>6. Like(h.disk, w)
  BY <1>2, <1>3, <1>4, <1>5 DEF Like
<1>7. ASSUME NEW c \in Slots(h)
      PROVE  May(w, c.name, c.rkd)
  <2>1. May(u, c.name, c.rkd) /\ c.name \in N
    BY <1>1 DEF Keeps, Steady, Settled, Good, GoodBut, Coherent
  <2> QED
    BY <1>4, <2>1
<1> QED
  BY <1>6, <1>7 DEF Keeps

LEMMA EmptyMay ==
  ASSUME NEW k \in Key, NEW file, NEW w, NEW n \in w.only,
         \A b \in w.over : b.name = n =>
           /\ b.min = k /\ b.max = NoKey
           /\ \A j \in Key : Covers(b, j) => NoRecord \in w.vals[j]
  PROVE  May(w, n, NewRkd(k, NoKey, file))
<1> DEFINE r == NewRkd(k, NoKey, file)
<1>1. r.min = k /\ r.max = NoKey
  BY DEF NewRkd
<1>2. Hull(r) /\ r.entries = <<>>
  BY NewRkdHull
<1> HIDE DEF r
<1>3. \A j : Answer(r.entries, j) = NoRecord
  BY <1>2 DEF Answer
<1>4. r.min <= MaxKey
  BY <1>1, BoundFacts DEF Key
<1>5. ASSUME NEW b \in w.over, b.name = n
      PROVE  Tight(b, r, w.vals)
  <2>1. \A j \in Key : Covers(r, j) => Covers(b, j)
    BY <1>1, <1>5 DEF Covers
  <2> QED
    BY <1>3, <1>5, <2>1 DEF Tight, Inner
<1> QED
  BY <1>2, <1>4, <1>5 DEF May, r

LEMMA NewRangeIs ==
  ASSUME NEW F, NEW files \in F, NEW h \in Work(F, files), Good(h), NEW k \in Key
  PROVE  LET n == h.mem.nextFileId
             g == AssignRangeToFile(Fresh(h))
             s == SaveRangeKeyDir(g, n, NewRkd(k, NoKey, g.mem.assignmentFile))
             q == WithRange(h.mem.ranges, Bounds(k, NoKey, n))
         IN  /\ n \in Nat /\ g \in Work(F, files) /\ g.disk = h.disk /\ g.trace = h.trace
             /\ Slots(g) = Slots(h)
             /\ NewRkd(k, NoKey, g.mem.assignmentFile) \in Rkds(files)
             /\ s \in Work(F, files) /\ s.mem.ranges = h.mem.ranges
             /\ q \in Ranges /\ NewRange(h, k) = SaveRangeMetadata(WithRanges(s, q))
<1> DEFINE n == h.mem.nextFileId
           a == Fresh(h)
           g == AssignRangeToFile(a)
           r == NewRkd(k, NoKey, g.mem.assignmentFile)
           s == SaveRangeKeyDir(g, n, r)
           b == Bounds(k, NoKey, n)
           q == WithRange(h.mem.ranges, b)
<1>1. n \in Nat /\ h.mem.ranges \in Ranges /\ n # 0
  BY DEF Work, Memories, Good, GoodBut
<1>2. a \in Work(F, files) /\ g \in Work(F, files)
  BY FreshKeeps, AssignKeeps
<1>3. Good(a) /\ Alike(h, a) /\ a.mem.ranges = h.mem.ranges /\ a.disk = h.disk
  BY FreshGood
<1>4. Good(g) /\ Alike(a, g) /\ g.mem.ranges = a.mem.ranges /\ g.disk = a.disk
  BY <1>2, <1>3, AssignGood
<1>5. g.trace = h.trace
  BY DEF AssignRangeToFile, Fresh
<1>6. Slots(g) = Slots(h)
  BY <1>3, <1>4, AlikeFacts
<1>7. r \in Rkds(files)
  <2>1. g.mem.assignmentFile \in Nat /\ NoKey \in Nat /\ k \in Nat
    BY <1>2, KeyFacts DEF Work, Memories, NoKey
  <2> QED
    BY <2>1, NewRkdOf
<1>8. s \in Work(F, files)
  BY <1>1, <1>2, <1>7, SaveKeeps
<1>9. s.mem.ranges = h.mem.ranges
  <2>1. Hull(r) /\ r.entries = <<>>
    BY NewRkdHull
  <2> HIDE DEF g, r
  <2>2. Savable(g, n, r)
    BY <2>1 DEF Savable, Fits
  <2>3. Saved(g, s, n, r)
    BY <1>1, <1>2, <1>4, <1>7, <2>1, <2>2, SaveGood
  <2> QED
    BY <1>3, <1>4, <2>3 DEF Saved, Frame
<1>10. q \in Ranges
  <2>1. k \in Nat /\ NoKey \in Nat
    BY KeyFacts DEF NoKey
  <2> QED
    BY <1>1, <2>1, BoundsOf, WithRangeSorts
<1>11. NewRange(h, k) = SaveRangeMetadata(WithRanges(s, q))
  BY <1>9 DEF NewRange, WithRanges
<1> QED
  BY <1>1, <1>2, <1>3, <1>4, <1>5, <1>6, <1>7, <1>8, <1>9, <1>10, <1>11

\* What is ready for the append: the range of the key is in the list, and its RangeKeyDir is there.
Ready(F, files, z, w, V, W, N, n, listed, S) ==
  /\ w = SetView(z.mem.ranges, z.mem.ranges, N, n, files, V)
  /\ Keeps(z, w, S) /\ Holding(F, w, S)
  /\ \A j \in Key : FindRange(z.mem.ranges, j) = 0 => NoRecord \in V[j]
  /\ z.mem.ranges # <<>>
  /\ listed => \A m \in N : \E b \in RangeSet(z.mem.ranges) : b.name = m

LEMMA SetViewHolds ==
  ASSUME NEW F, NEW files, NEW V, NEW W, NEW listed,
         NEW meta, NEW q, NEW N, NEW n, NEW more, NEW vals, vals = IF more = files THEN V ELSE W,
         RangeSet(meta) \subseteq RangeSet(q),
         meta = <<>> => \A m \in N \cup {n} : \E b \in RangeSet(q) : b.name = m,
         \A k \in Key : FindRange(meta, k) = 0 => NoRecord \in vals[k]
  PROVE  Holding(F, SetView(meta, q, N, n, more, vals), Safe(F, files, V, W, listed))
<1> DEFINE A == N \cup {n}
           R == RangeSet(q)
<1>1. meta = <<>> => \A m \in A : \E b \in R : b.name = m
  OBVIOUS
<1> HIDE DEF A, R
<1>2. RangeSet(meta) \subseteq R
  BY DEF R
<1>3. Holding(F, ListView(meta, more, A, R, vals), Safe(F, files, V, W, listed))
  BY <1>1, <1>2, ListHolds
<1> QED
  BY <1>3 DEF SetView, A, R

LEMMA NewRangeKept ==
  ASSUME NEW F, NEW files \in F, NEW h \in Work(F, files), Steady(h), Fine(h), Peopled(h),
         NEW k \in Key, FindRange(h.mem.ranges, k) = 0,
         NEW z, z = NewRange(h, k), ~z.clash, ~Overlap(z.mem.ranges),
         NEW V, NEW W, NEW listed, NEW S, S = Safe(F, files, V, W, listed),
         \A j \in Key : Read(h, j) \in V[j] /\ Read(Reopened(h.disk), j) \in V[j],
         \A i \in DOMAIN h.trace : h.trace[i] \in S,
         NEW N, N = DOMAIN h.disk.rkds, NEW n, n = h.mem.nextFileId,
         listed => \A m \in N : \E b \in RangeSet(h.mem.ranges) : b.name = m,
         NEW w, w = SetView(z.mem.ranges, z.mem.ranges, N, n, files, V)
  PROVE  Ready(F, files, z, w, V, W, N, n, listed, S)
<1> DEFINE L == h.mem.ranges
           M == z.mem.ranges
           b == Bounds(k, NoKey, n)
           g == AssignRangeToFile(Fresh(h))
           r == NewRkd(k, NoKey, g.mem.assignmentFile)
           s == SaveRangeKeyDir(g, n, r)
           q == WithRange(L, b)
           u == SetView(L, q, N, n, files, V)
<1>1. /\ n \in Nat /\ g \in Work(F, files) /\ g.disk = h.disk /\ g.trace = h.trace
      /\ Slots(g) = Slots(h) /\ r \in Rkds(files) /\ s \in Work(F, files) /\ s.mem.ranges = L
      /\ q \in Ranges /\ z = SaveRangeMetadata(WithRanges(s, q))
  BY NewRangeIs DEF Steady, Settled
<1>2. /\ Settled(z) /\ n \notin N /\ n # 0 /\ RangeSet(M) = RangeSet(L) \cup {b}
  BY NewRangeGood DEF Steady
<1> HIDE DEF g, r, s, q
<1>3. WithRanges(s, q).mem.ranges = q
  BY <1>1, RangesGood, RangesKeep DEF WithRanges, Work, Memories
<1>4. M = q /\ z.disk = [s.disk EXCEPT !.meta = q]
  BY <1>1, <1>3 DEF SaveRangeMetadata, Write, WithRanges
<1> HIDE DEF M
<1>5. b.name = n /\ b.min = k /\ b.max = NoKey
  BY DEF Bounds
<1> HIDE DEF b
<1>6. \A c \in RangeSet(L) : c.name \in N
  BY SettledFacts DEF Steady
<1>7. Apart(RangeSet(M)) /\ M \in Ranges
  BY <1>1, <1>4, ApartIf DEF M
<1>8. ASSUME NEW j \in Key, \A c \in RangeSet(L) : ~Covers(c, j)
      PROVE  NoRecord \in V[j]
  <2>1. Read(h, j) = NoRecord
    BY <1>8, ReadUncovered
  <2> QED
    BY <2>1
<1>9. ASSUME NEW j \in Key, Covers(b, j)
      PROVE  NoRecord \in V[j]
  <2>1. ASSUME NEW c \in RangeSet(L)
        PROVE  ~Covers(c, j)
    <3>1. c.name # b.name /\ c \in RangeSet(M) /\ b \in RangeSet(M)
      BY <1>2, <1>5, <1>6
    <3> QED
      BY <1>7, <1>9, <3>1 DEF Apart
  <2> QED
    BY <1>8, <2>1
<1>10. /\ u.meta = L /\ u.split = <<>> /\ u.files = files /\ u.least = {c.name : c \in RangeSet(L)}
       /\ u.only = N \cup {n} /\ u.over = RangeSet(M) /\ u.vals = V
  BY <1>4, ViewIs DEF SetView, ListView
<1>11. /\ w.meta = M /\ w.split = <<>> /\ w.files = files /\ w.least = {c.name : c \in RangeSet(M)}
       /\ w.only = N \cup {n} /\ w.over = RangeSet(M) /\ w.vals = V
  BY ViewIs DEF SetView, ListView, M
<1>12. Keeps(h, u, S)
  <2>1. \A c \in RangeSet(q) : c \in RangeSet(L) \/ c.name \notin N
    BY <1>2, <1>4, <1>5
  <2> QED
    BY <2>1, WidenedKept
<1>13. Holding(F, u, S)
  <2>1. L = <<>> => \A m \in N \cup {n} : \E c \in RangeSet(q) : c.name = m
    <3>1. b \in RangeSet(q)
      BY <1>2, <1>4
    <3> QED
      BY <1>5, <3>1 DEF Peopled
  <2>2. ASSUME NEW j \in Key, FindRange(L, j) = 0
        PROVE  NoRecord \in V[j]
    <3>1. Read(h, j) = NoRecord
      BY <2>2, ReadIs
    <3> QED
      BY <3>1
  <2>3. RangeSet(L) \subseteq RangeSet(q)
    BY <1>2, <1>4
  <2> HIDE DEF L
  <2> QED
    BY <2>1, <2>2, <2>3, SetViewHolds
<1> HIDE DEF u
<1>14. Keeps(g, u, S)
  BY <1>1, <1>12, MemKept
<1>15. May(u, n, r)
  <2>1. \A c \in u.over : c.name = n => c = b
    BY <1>2, <1>6, <1>10
  <2>2. n \in u.only
    BY <1>10
  <2> QED
    BY <1>5, <1>9, <1>10, <2>1, <2>2, EmptyMay DEF r
<1>16. Keeps(s, u, S)
  BY <1>1, <1>13, <1>14, <1>15, SaveKept DEF s
<1>17. ASSUME NEW j \in Key, FindRange(M, j) = 0
       PROVE  NoRecord \in V[j]
  <2>1. \A c \in RangeSet(M) : Straight(c) /\ c.name # 0
    <3>1. z \in Work(F, files)
      BY NewRangeKeeps
    <3>2. \A c \in RangeSet(z.mem.ranges) : Straight(c)
      BY <1>2, <3>1, SettledFacts
    <3> QED
      BY <3>2 DEF M, Straight
  <2>2. ~Overlap(M)
    BY DEF M
  <2>3. \A c \in RangeSet(L) : ~Covers(c, j)
    BY <1>2, <1>7, <1>17, <2>1, <2>2, FindsCovering
  <2> QED
    BY <1>8, <2>3
<1>18. M # <<>>
  <2>1. b \in RangeSet(M)
    BY <1>2
  <2>2. RangeSet(<<>>) = {}
    BY DEF RangeSet
  <2> QED
    BY <2>1, <2>2
<1>19. Holding(F, w, S)
  <2>1. \A j \in Key : FindRange(M, j) = 0 => NoRecord \in V[j]
    BY <1>17
  <2>2. Holding(F, SetView(M, M, N, n, files, V), S)
    BY <1>18, <2>1, SetViewHolds
  <2> QED
    BY <2>2 DEF M
<1>20. Keeps(z, w, S)
  <2> DEFINE y == WithRanges(s, q)
             d == [y.disk EXCEPT !.meta = y.mem.ranges]
  <2>1. y \in Work(F, files)
    BY <1>1, RangesKeep DEF WithRanges
  <2>2. y.disk = s.disk /\ y.trace = s.trace /\ Slots(y) = Slots(s)
    <3>1. y.disk = s.disk /\ y.trace = s.trace /\ y.mem.cache = s.mem.cache
      BY <1>1 DEF WithRanges, Work, Memories
    <3> QED
      BY <3>1 DEF Slots
  <2>3. Keeps(y, u, S)
    BY <1>16, <2>2, MemKept
  <2>4. z = Write(y, d) /\ z.disk = d
    BY <1>1 DEF SaveRangeMetadata, Write
  <2>5. z \in Work(F, files)
    BY NewRangeKeeps
  <2>6. d \in Disks(files)
    BY <2>4, <2>5, WorkDisk
  <2>7. s.disk \in Disks(files) /\ y.disk \in Disks(files)
    BY <1>1, <2>2, WorkDisk
  <2>8. d.meta = M /\ d.split = y.disk.split /\ d.files = y.disk.files /\ d.rkds = y.disk.rkds
    BY <1>3, <1>4, <2>7 DEF Disks
  <2>9. \A x \in RangeSet(M) : x.name \in DOMAIN d.rkds
    <3>1. \A x \in RangeSet(z.mem.ranges) : x.name \in DOMAIN z.disk.rkds
      BY <1>2, <2>5, SettledFacts
    <3> QED
      BY <2>4, <3>1 DEF M
  <2> HIDE DEF y, d
  <2>10. ASSUME NEW m, NEW x, May(u, m, x)
         PROVE  May(w, m, x)
    BY <1>10, <1>11, <2>10 DEF May
  <2>11. Like(y.disk, u)
    BY <2>3 DEF Keeps
  <2>12. Like(d, w)
    BY <1>10, <1>11, <2>8, <2>9, <2>10, <2>11 DEF Like
  <2>13. \A c \in Slots(y) : May(w, c.name, c.rkd)
    BY <2>3, <2>10 DEF Keeps
  <2> QED
    BY <1>19, <2>1, <2>3, <2>4, <2>6, <2>12, <2>13, WriteKept
<1>21. listed => \A m \in N : \E c \in RangeSet(M) : c.name = m
  BY <1>2
<1>22. w = SetView(M, M, N, n, files, V)
  BY DEF M
<1> QED
  BY <1>17, <1>18, <1>19, <1>20, <1>21, <1>22 DEF Ready, M

LEMMA FoundReady ==
  ASSUME NEW F, NEW files \in F, NEW h \in Work(F, files), Steady(h), Fine(h), Peopled(h),
         NEW k \in Key, NEW n, n = FindRange(h.mem.ranges, k), n # 0,
         NEW V, NEW W, NEW listed, NEW S, S = Safe(F, files, V, W, listed),
         \A j \in Key : Read(h, j) \in V[j] /\ Read(Reopened(h.disk), j) \in V[j],
         \A i \in DOMAIN h.trace : h.trace[i] \in S,
         NEW N, N = DOMAIN h.disk.rkds,
         listed => \A m \in N : \E b \in RangeSet(h.mem.ranges) : b.name = m,
         NEW w, w = SetView(h.mem.ranges, h.mem.ranges, N, n, files, V)
  PROVE  Ready(F, files, h, w, V, W, N, n, listed, S)
<1> DEFINE L == h.mem.ranges
<1>1. Keeps(h, w, S)
  BY WidenedKept
<1>2. ASSUME NEW j \in Key, FindRange(L, j) = 0
      PROVE  NoRecord \in V[j]
  <2>1. Read(h, j) = NoRecord
    BY <1>2, ReadIs
  <2> QED
    BY <2>1
<1>3. L # <<>>
  BY NoneFound
<1> HIDE DEF L
<1>4. Holding(F, SetView(L, L, N, n, files, V), S)
  BY <1>2, <1>3, SetViewHolds
<1> QED
  BY <1>1, <1>2, <1>3, <1>4 DEF Ready, L

LEMMA WorkWider ==
  ASSUME NEW F, NEW files \in F, NEW h \in Work({files}, files)
  PROVE  h \in Work(F, files)
<1> DEFINE A == DisksOf({files})
           B == DisksOf(F)
<1>1. A \subseteq B
  BY DEF DisksOf
<1>2. h \in [mem : Memories(files), disk : Disks(files), trace : Seq(A), clash : BOOLEAN]
  BY DEF Work
<1> HIDE DEF A, B
<1>3. h.trace \in Seq(B)
  BY <1>1, <1>2
<1>4. h \in [mem : Memories(files), disk : Disks(files), trace : Seq(B), clash : BOOLEAN]
  BY <1>2, <1>3
<1> QED
  BY <1>4 DEF Work, B

\* The append itself: what the keys may answer grows with the files.
LEMMA AppendedKept ==
  ASSUME NEW files \in Files, NEW h \in Work({files}, files), NEW f, NEW rec, NEW more,
         more = FilesWith(files, f, rec), more \in Files, Grown(files, more),
         NEW F, F = {files, more}, NEW w, NEW v, NEW S, Keeps(h, w, S), Holding(F, v, S),
         v.meta = w.meta, v.split = w.split, v.files = more, v.least = w.least,
         v.only = w.only, v.over = w.over, \A j \in Key : w.vals[j] \subseteq v.vals[j]
  PROVE  Keeps(Appended(h, f, rec), v, S)
<1> DEFINE g == Appended(h, f, rec)
           d == [h.disk EXCEPT !.files = more]
<1>1. h.disk \in Disks(files) /\ h.disk.files = files /\ h.trace \in Seq(DisksOf({files}))
  BY WorkDisk, DiskTables
<1>2. g \in Work(F, more) /\ g.mem = h.mem
  BY AppendedKeeps
<1>3. g = Write(h, d)
  BY <1>1 DEF Appended, FilesWith
<1>4. g.disk = d /\ g.trace = Append(h.trace, d)
  BY <1>3 DEF Write, Work
<1>5. /\ d.rkds = h.disk.rkds /\ d.meta = h.disk.meta /\ d.split = h.disk.split
      /\ d.files = more
  BY <1>1 DEF Disks
<1>6. d \in DisksOf(F)
  <2>1. more \in F
    OBVIOUS
  <2> QED
    BY <1>2, <1>4, <2>1, WorkDisk
<1> HIDE DEF g, d
<1>7. ASSUME NEW n, NEW r, May(w, n, r)
      PROVE  May(v, n, r)
  <2>1. n \in v.only
    BY <1>7 DEF May
  <2> QED
    BY <1>7, <2>1, MayAlso
<1>8. Like(h.disk, w)
  BY DEF Keeps
<1>9. Like(d, v)
  BY <1>5, <1>7, <1>8 DEF Like
<1>10. d \in S
  BY <1>6, <1>9 DEF Holding
<1>11. \A i \in DOMAIN g.trace : g.trace[i] \in S
  <2>1. ASSUME NEW i \in DOMAIN Append(h.trace, d)
        PROVE  Append(h.trace, d)[i] \in S
    <3>1. Append(h.trace, d)[i] = d \/ \E j \in DOMAIN h.trace : Append(h.trace, d)[i] = h.trace[j]
      BY <1>1, AppendAt
    <3> QED
      BY <1>10, <3>1 DEF Keeps
  <2> QED
    BY <1>4, <2>1
<1>12. Slots(g) = Slots(h)
  BY <1>2 DEF Slots
<1>13. \A c \in Slots(g) : May(v, c.name, c.rkd)
  BY <1>7, <1>12 DEF Keeps
<1> QED
  BY <1>4, <1>9, <1>11, <1>13 DEF Keeps, g

LEMMA FilesAfter ==
  ASSUME NEW files \in Files, NEW f \in Nat, NEW rec \in Record,
         0 < MaxWrites, \A x \in DOMAIN files : Len(files[x]) < MaxWrites,
         NEW more, more = FilesWith(files, f, rec)
  PROVE  /\ more \in Files /\ Grown(files, more) /\ more # files
         /\ f \in DOMAIN more /\ Len(more[f]) \in DOMAIN more[f] /\ more[f][Len(more[f])] = rec
         /\ Len(more[f]) \in 1 .. MaxWrites
         /\ f \in DOMAIN files => more[f] # files[f]
         /\ \A x \in DOMAIN more : x # f => x \in DOMAIN files /\ more[x] = files[x]
<1> DEFINE m == FilesWith(files, f, rec)
<1>1. /\ m \in Files /\ Grown(files, m)
      /\ f \in DOMAIN m /\ Len(m[f]) \in DOMAIN m[f] /\ m[f][Len(m[f])] = rec
      /\ Len(m[f]) \in 1 .. MaxWrites
      /\ m[f] # (IF f \in DOMAIN files THEN files[f] ELSE <<>>)
      /\ \A x \in DOMAIN m : x # f => x \in DOMAIN files /\ m[x] = files[x]
  BY FilesGrow
<1>2. more = m
  OBVIOUS
<1> HIDE DEF m
<1> QED
  BY <1>1, <1>2

LEMMA PlacedKept ==
  ASSUME NEW files \in Files, NEW z \in Work({files}, files), NEW n \in Nat, NEW rec \in Record,
         NEW f, f = Loaded(z, n).file, NEW more, more = FilesWith(files, f, rec),
         more \in Files, Grown(files, more), NEW F, F = {files, more},
         NEW w, NEW v, NEW S, Keeps(z, w, S), Holding(F, w, S), Holding(F, v, S),
         v.meta = w.meta, v.split = w.split, v.files = more, v.least = w.least,
         v.only = w.only, v.over = w.over, \A j \in Key : w.vals[j] \subseteq v.vals[j]
  PROVE  LET p == Placed(z, n, rec) IN
         p \in Work(F, more) /\ p.disk.files = more /\ Keeps(p, v, S)
<1> DEFINE l == Load(z, n)
           p == Placed(z, n, rec)
<1>1. l \in Work({files}, files)
  BY LoadKeeps
<1>2. p = Appended(l, f, rec)
  BY DEF Placed
<1>3. z \in Work(F, files)
  BY WorkWider
<1>4. Keeps(l, w, S)
  <2>1. files \in F
    OBVIOUS
  <2> QED
    BY <1>3, <2>1, LoadKept
<1> HIDE DEF l, p
<1>5. p \in Work(F, more) /\ p.disk.files = more
  BY <1>1, <1>2, AppendedKeeps
<1>6. Keeps(p, v, S)
  BY <1>1, <1>2, <1>4, AppendedKept
<1> QED
  BY <1>5, <1>6 DEF p

\* The sets of files an append goes through.
Either(F, files, more) == F = {files, more}

LEMMA StoreKept ==
  ASSUME NEW files \in Files, NEW z \in Work({files}, files), Settled(z),
         NEW M, M = z.mem.ranges, NEW b \in RangeSet(M), NEW n, n = b.name,
         NEW k \in Key, Covers(b, k), NEW rec \in Record, rec.key = k,
         0 < MaxWrites, \A x \in DOMAIN files : Len(files[x]) < MaxWrites,
         NEW f, f = Loaded(z, n).file, NEW more, more = FilesWith(files, f, rec),
         NEW F, Either(F, files, more), NEW V, NEW W, NEW listed, NEW S, S = Safe(F, files, V, W, listed),
         NEW N, NEW w, Ready(F, files, z, w, V, W, N, n, listed, S),
         \A j \in Key : V[j] \subseteq W[j], <<f, Len(more[f])>> \in W[k],
         NEW v, v = SetView(M, M, N, n, more, W)
  PROVE  /\ Holding(F, v, S)
         /\ Keeps(SavedAs(z, n, k, rec), v, S)
         /\ Keeps(CacheDel(SavedAs(z, n, k, rec), n), v, S)
         /\ Keeps(CachePut(Placed(z, n, rec), n, Held(z, n, k, rec)), v, S)
<1> DEFINE old  == Loaded(z, n)
           p    == Placed(z, n, rec)
           r    == Held(z, n, k, rec)
           e    == EntryOf(f, Len(more[f]))
           s    == SavedAs(z, n, k, rec)
<1> USE DEF Either
<1>1. n \in Nat /\ n \in DOMAIN z.disk.rkds /\ M \in Ranges /\ Names(M)
  BY SettledFacts
<1>2. old \in Rkds(files) /\ f \in Nat
  BY <1>1, LoadedOf, RkdFacts
<1>3. s = SaveRangeKeyDir(p, n, Flushed(r))
  BY DEF SavedAs
<1>4. r = Inserted(old, k, EntryOf(f, Len(p.disk.files[f])))
  BY DEF Held
<1> HIDE DEF p, r, s, old
<1>5. /\ more \in Files /\ Grown(files, more) /\ more # files
      /\ f \in DOMAIN more /\ Len(more[f]) \in DOMAIN more[f] /\ more[f][Len(more[f])] = rec
      /\ Len(more[f]) \in 1 .. MaxWrites
  BY <1>2, FilesAfter
<1>6. more \in F /\ files \in F
  OBVIOUS
<1>7. /\ w.meta = M /\ w.split = <<>> /\ w.files = files /\ w.least = {c.name : c \in RangeSet(M)}
       /\ w.only = N \cup {n} /\ w.over = RangeSet(M) /\ w.vals = V
  BY ViewIs DEF SetView, ListView, Ready
<1>8. /\ v.meta = M /\ v.split = <<>> /\ v.files = more /\ v.least = {c.name : c \in RangeSet(M)}
       /\ v.only = N \cup {n} /\ v.over = RangeSet(M) /\ v.vals = W
  BY ViewIs DEF SetView, ListView
<1>9. Keeps(z, w, S) /\ Holding(F, w, S)
  BY DEF Ready
<1>10. Holding(F, v, S)
  <2>1. \A j \in Key : FindRange(M, j) = 0 => NoRecord \in W[j]
    BY DEF Ready
  <2>2. M # <<>>
    BY DEF Ready
  <2> QED
    BY <1>5, <2>1, <2>2, SetViewHolds
<1> HIDE DEF Ready
<1>11. p \in Work(F, more) /\ p.disk.files = more /\ Keeps(p, v, S)
  <2>1. \A j \in Key : w.vals[j] \subseteq v.vals[j]
    BY <1>7, <1>8
  <2>2. /\ v.meta = w.meta /\ v.split = w.split /\ v.files = more /\ v.least = w.least
        /\ v.only = w.only /\ v.over = w.over
    BY <1>7, <1>8
  <2>3. n \in Nat /\ more \in Files /\ Grown(files, more)
    BY <1>1, <1>5
  <2> QED
    BY <1>9, <1>10, <2>1, <2>2, <2>3, PlacedKept DEF p
<1>12. e \in EntryRec /\ e.file = f /\ e.pos = Len(more[f]) /\ e.del = FALSE
  BY <1>2, <1>5, BoundFacts DEF EntryOf, EntryRec
<1>13. r = Inserted(old, k, e)
  BY <1>4, <1>11
<1> HIDE DEF e
<1>14. r \in Rkds(more) /\ Flushed(r) \in Rkds(more) /\ old \in Rkds(more)
  <2>1. old \in Rkds(more)
    BY <1>2, <1>5, GrownKeeps
  <2>2. e.file \in DOMAIN more /\ e.pos \in DOMAIN more[e.file] /\ more[e.file][e.pos].key = k
    BY <1>5, <1>12
  <2>3. r \in Rkds(more)
    BY <1>12, <1>13, <2>1, <2>2, InsertedOf
  <2> QED
    BY <2>1, <2>3, FlushedOf
<1>15. z \in Work(F, files)
  BY WorkWider
<1>16. May(v, n, old)
  <2>1. May(w, n, old)
    BY <1>1, <1>6, <1>9, <1>15, LoadedMay DEF old
  <2>2. n \in v.only
    BY <1>8
  <2> QED
    BY <1>7, <1>8, <2>1, <2>2, MayAlso
<1>17. May(v, n, r)
  <2>1. v.over \subseteq RangeRec
    <3>1. \A i \in DOMAIN M : M[i] \in RangeRec
      BY <1>1, RangesFacts
    <3> QED
      BY <1>8, <3>1 DEF RangeSet
  <2>2. \A c \in v.over : c.name = n => Covers(c, k)
    BY <1>1, <1>8, NamedOnce
  <2>3. (IF e.del THEN NoRecord ELSE <<e.file, e.pos>>) \in v.vals[k]
    BY <1>12, <1>8
  <2> QED
    BY <1>13, <1>14, <1>16, <2>1, <2>2, <2>3, InsertedMay
<1>18. May(v, n, Flushed(r))
  BY <1>14, <1>17, FlushedMay
<1>19. s \in Work(F, more) /\ Keeps(s, v, S)
  BY <1>1, <1>3, <1>6, <1>14, <1>10, <1>11, <1>18, SaveKept, SaveKeeps
<1>20. Keeps(CacheDel(s, n), v, S)
  BY <1>6, <1>19, CacheDelKept
<1>21. Keeps(CachePut(p, n, r), v, S)
  BY <1>1, <1>6, <1>14, <1>10, <1>11, <1>17, CachePutKept
<1> QED
  BY <1>5, <1>10, <1>19, <1>20, <1>21 DEF s, p, r

(***************************************************************************)
(* A split, write by write: the marker and the two halves, the new list, the *)
(* end of the old range and of the marker.                                  *)
(***************************************************************************)
LEMMA HalvesKept ==
  ASSUME NEW F, NEW files \in F, NEW g \in Work(F, files), NEW w, NEW S, Keeps(g, w, S),
         Coherent(g, 0), NEW n \in Nat, NEW left, left = g.mem.nextFileId, NEW right, right = left + 1,
         {left, right} \cap DOMAIN g.disk.rkds = {},
         NEW P \in Rkds(files), NEW Q \in Rkds(files),
         NEW v, v.meta = w.meta, v.split = <<n, left, right>>, v.files = w.files, v.least = w.least,
         \A m, r : m \notin {left, right} /\ May(w, m, r) => May(v, m, r),
         May(v, left, P), May(v, right, Q), Holding(F, v, S)
  PROVE  LET g1 == Fresh(Fresh(g))
             g2 == Write(g1, DiskSplit(g1.disk, <<n, left, right>>))
             g3 == SaveRangeKeyDir(g2, left, P)
         IN  Keeps(SaveRangeKeyDir(g3, right, Q), v, S)
<1> DEFINE g1 == Fresh(Fresh(g))
           s  == <<n, left, right>>
           d  == DiskSplit(g1.disk, s)
           g2 == Write(g1, d)
           g3 == SaveRangeKeyDir(g2, left, P)
           g4 == SaveRangeKeyDir(g3, right, Q)
<1>1. left \in Nat /\ right \in Nat /\ s \in Splits
  BY DEF Work, Memories, Splits
<1>2. g1 \in Work(F, files) /\ g1.disk = g.disk /\ g1.trace = g.trace /\ Slots(g1) = Slots(g)
  <2>1. Fresh(g) \in Work(F, files) /\ g1 \in Work(F, files)
    BY FreshKeeps
  <2>2. Fresh(g).disk = g.disk /\ Fresh(g).trace = g.trace /\ Fresh(g).mem.cache = g.mem.cache
    BY DEF Fresh, Work, Memories
  <2>3. g1.disk = g.disk /\ g1.trace = g.trace /\ g1.mem.cache = g.mem.cache
    BY <2>1, <2>2 DEF Fresh, Work, Memories
  <2> QED
    BY <2>1, <2>3 DEF Slots
<1> HIDE DEF g1, s
<1>3. g2 \in Work(F, files)
  BY <1>1, <1>2, SplitKeeps DEF DiskSplit
<1>4. g2.disk = d
  BY <1>2 DEF Write, Work
<1>5. d \in Disks(files)
  BY <1>3, <1>4, WorkDisk
<1>6. g.disk \in Disks(files)
  BY WorkDisk
<1>7. d.meta = g.disk.meta /\ d.split = s /\ d.files = g.disk.files /\ d.rkds = g.disk.rkds
  BY <1>2, <1>6 DEF DiskSplit, Disks
<1> HIDE DEF d
<1>8. Like(g.disk, w)
  BY DEF Keeps
<1>9. Like(d, v)
  <2>1. \A m \in DOMAIN d.rkds : May(v, m, d.rkds[m])
    BY <1>7, <1>8 DEF Like
  <2> QED
    BY <1>7, <1>8, <2>1 DEF Like, s
<1>10. \A c \in Slots(g1) : May(v, c.name, c.rkd)
  <2>1. ASSUME NEW c \in Slots(g)
        PROVE  May(v, c.name, c.rkd)
    <3>1. c.name \in DOMAIN g.disk.rkds /\ May(w, c.name, c.rkd)
      BY DEF Keeps, Coherent
    <3> QED
      BY <3>1
  <2> QED
    BY <1>2, <2>1
<1>11. Keeps(g1, w, S)
  BY <1>2, MemKept
<1>12. Keeps(g2, v, S)
  BY <1>2, <1>5, <1>9, <1>10, <1>11, WriteKept
<1> HIDE DEF g2
<1>13. g3 \in Work(F, files) /\ Keeps(g3, v, S)
  BY <1>1, <1>3, <1>12, SaveKept, SaveKeeps
<1> HIDE DEF g3
<1>14. Keeps(g4, v, S)
  BY <1>1, <1>13, SaveKept
<1> QED
  BY <1>14 DEF g3, g2, d, g1, s

LEMMA ListedKept ==
  ASSUME NEW F, NEW files \in F, NEW h \in Work(F, files), NEW w, NEW S, Keeps(h, w, S),
         NEW q \in Ranges, NEW v, v.meta = q, v.split = w.split, v.files = w.files,
         v.least \subseteq DOMAIN h.disk.rkds, \A m, r : May(w, m, r) => May(v, m, r),
         Holding(F, v, S)
  PROVE  LET g == SaveRangeMetadata(WithRanges(h, q)) IN
         g \in Work(F, files) /\ Keeps(g, v, S) /\ g.mem.ranges = q /\ g.disk.rkds = h.disk.rkds
<1> DEFINE y == WithRanges(h, q)
           d == [y.disk EXCEPT !.meta = y.mem.ranges]
           g == SaveRangeMetadata(y)
<1>1. y \in Work(F, files)
  BY RangesKeep DEF WithRanges
<1>2. y.disk = h.disk /\ y.trace = h.trace /\ y.mem.cache = h.mem.cache /\ y.mem.ranges = q
  BY DEF WithRanges, Work, Memories
<1>3. Slots(y) = Slots(h)
  BY <1>2 DEF Slots
<1>4. Keeps(y, w, S)
  BY <1>2, <1>3, MemKept
<1> HIDE DEF y
<1>5. g = Write(y, d) /\ g \in Work(F, files)
  BY <1>1, MetaKeeps DEF SaveRangeMetadata
<1>6. g.disk = d /\ g.mem = y.mem
  BY <1>1, <1>5 DEF Write, Work
<1>7. d \in Disks(files) /\ y.disk \in Disks(files)
  BY <1>1, <1>5, <1>6, WorkDisk
<1>8. d.meta = q /\ d.split = y.disk.split /\ d.files = y.disk.files /\ d.rkds = h.disk.rkds
  BY <1>2, <1>7 DEF Disks
<1> HIDE DEF d, g
<1>9. Like(y.disk, w)
  BY <1>4 DEF Keeps
<1>10. Like(d, v)
  BY <1>2, <1>8, <1>9 DEF Like
<1>11. \A c \in Slots(y) : May(v, c.name, c.rkd)
  BY <1>4 DEF Keeps
<1>12. Keeps(g, v, S)
  BY <1>1, <1>4, <1>5, <1>7, <1>10, <1>11, WriteKept
<1> QED
  BY <1>2, <1>5, <1>6, <1>8, <1>12 DEF g, y

LEMMA EndKept ==
  ASSUME NEW F, NEW files \in F, NEW h \in Work(F, files), NEW w, NEW S, Keeps(h, w, S),
         Holding(F, w, S), NEW n, n \notin w.least,
         NEW v, v.meta = w.meta, v.split = <<>>, v.files = w.files, v.least = w.least,
         \A m, r : May(w, m, r) => May(v, m, r), Holding(F, v, S)
  PROVE  LET g == SplitEnd(h, n) IN
         g \in Work(F, files) /\ Keeps(g, v, S) /\ g.mem.ranges = h.mem.ranges
<1> DEFINE a == RemoveBlob(h, n)
           t == [m \in DOMAIN h.disk.rkds \ {n} |-> h.disk.rkds[m]]
           d == [h.disk EXCEPT !.rkds = t]
           e == DiskSplit(a.disk, <<>>)
           c == Write(a, e)
           g == CacheDel(c, n)
<1>1. a \in Work(F, files) /\ a = Write(h, d)
  BY RemoveBlobKeeps DEF RemoveBlob
<1>2. a.disk = d /\ a.mem = h.mem
  BY <1>1 DEF Write, Work
<1>3. d \in Disks(files) /\ h.disk \in Disks(files)
  BY <1>1, <1>2, WorkDisk
<1>4. d.meta = h.disk.meta /\ d.split = h.disk.split /\ d.files = h.disk.files /\ d.rkds = t
  BY <1>3 DEF Disks
<1> HIDE DEF d
<1>5. Like(h.disk, w)
  BY DEF Keeps
<1>6. Like(d, w)
  <2>1. \A m \in DOMAIN t : May(w, m, t[m])
    BY <1>5 DEF Like
  <2>2. w.least \subseteq DOMAIN t
    BY <1>5 DEF Like
  <2> HIDE DEF t
  <2> QED
    BY <1>4, <1>5, <2>1, <2>2 DEF Like
<1>7. \A x \in Slots(h) : May(w, x.name, x.rkd)
  BY DEF Keeps
<1>8. Keeps(a, w, S)
  BY <1>1, <1>3, <1>6, <1>7, WriteKept
<1> HIDE DEF a
<1>9. c \in Work(F, files)
  <2>1. <<>> \in Splits
    BY DEF Splits
  <2> QED
    BY <1>1, <2>1, SplitKeeps DEF DiskSplit
<1>10. c.disk = e /\ c.mem = a.mem
  BY <1>1 DEF Write, Work
<1>11. e \in Disks(files) /\ a.disk \in Disks(files)
  BY <1>1, <1>9, <1>10, WorkDisk
<1>12. e.meta = a.disk.meta /\ e.split = <<>> /\ e.files = a.disk.files /\ e.rkds = a.disk.rkds
  BY <1>11 DEF DiskSplit, Disks
<1> HIDE DEF e
<1>13. Like(a.disk, w)
  BY <1>8 DEF Keeps
<1>14. Like(e, v)
  BY <1>12, <1>13 DEF Like
<1>15. \A x \in Slots(a) : May(v, x.name, x.rkd)
  BY <1>8 DEF Keeps
<1>16. Keeps(c, v, S)
  BY <1>1, <1>8, <1>11, <1>14, <1>15, WriteKept
<1> HIDE DEF c
<1>17. g \in Work(F, files) /\ Keeps(g, v, S)
  BY <1>9, <1>16, CacheDelKept, CacheDelKeeps
<1>18. g.mem.ranges = c.mem.ranges
  BY <1>9, CacheDelIs
<1>19. SplitEnd(h, n) = g
  BY DEF SplitEnd, a, c, e
<1> HIDE DEF g
<1> QED
  BY <1>2, <1>10, <1>17, <1>18, <1>19

LEMMA CachePutMem ==
  ASSUME NEW F, NEW files \in F, NEW h \in Work(F, files), NEW n, NEW r
  PROVE  CachePut(h, n, r).mem.ranges = h.mem.ranges
<1> DEFINE g == IF Cached(h, n) THEN CacheDel(h, n) ELSE Evicted(h)
<1>1. g \in Work(F, files) /\ g.mem.ranges = h.mem.ranges
  <2>1. CASE Cached(h, n)
    BY <2>1, CacheDelKeeps, CacheDelIs
  <2>2. CASE ~Cached(h, n)
    <3>1. Evicted(h).mem.ranges = h.mem.ranges
      <4> DEFINE x == Evicted(h)
                 y == [h EXCEPT !.mem.cache = Tail(h.mem.cache)]
                 c == Head(h.mem.cache)
      <4>1. h.mem \in Memories(files)
        BY WorkDisk
      <4>2. h = [mem |-> h.mem, disk |-> h.disk, trace |-> h.trace, clash |-> h.clash]
        BY DEF Work
      <4>3. y.mem = [h.mem EXCEPT !.cache = Tail(h.mem.cache)]
        BY DEF Work
      <4>4. \A d : Write(y, d).mem = y.mem
        BY <4>2 DEF Write
      <4>5. y.mem.ranges = h.mem.ranges
        BY <4>3, <4>1 DEF Memories
      <4> HIDE DEF y
      <4>6. PutBlob(y, c.name, c.rkd).mem = y.mem
        BY <4>4 DEF PutBlob
      <4>7. x \in {h, y, PutBlob(y, c.name, c.rkd)}
        BY DEF Evicted, y
      <4> HIDE DEF x
      <4>8. x.mem.ranges = h.mem.ranges
        BY <4>5, <4>6, <4>7
      <4> QED
        BY <4>8 DEF x
    <3> QED
      BY <2>2, <3>1, EvictedKeeps
  <2> QED
    BY <2>1, <2>2
<1>2. CachePut(h, n, r) = AddSlot(g, [name |-> n, rkd |-> r])
  BY DEF CachePut, AddSlot
<1> HIDE DEF g
<1> QED
  BY <1>1, <1>2, AddSlotIs

\* What the entries e of range b answer is wanted; every wanted key is covered; low is a lower
\* part of the keys of e; the ranges that stand once b is replaced by its halves.
Answered(b, e, W) == \A j \in Key : Covers(b, j) => Answer(e, j) \in W[j]
Reached(M, W) == \A j \in Key : NoRecord \notin W[j] => \E r \in M : Covers(r, j)
Below(low, up, K) ==
  /\ K \in SUBSET Key /\ low \in SUBSET K /\ low # {} /\ up # {}
  /\ \A x \in low, y \in up : x < y
Alone(M, b) == M \subseteq RangeRec /\ b \in M /\ \A r \in M : r.name = b.name => r = b
Renamed(M, left, right) ==
  left \in Nat /\ right \in Nat /\ left # right /\ \A r \in M : r.name \notin {left, right}
Replaced(M, b, lb, rb) == {r \in M : r.name # b.name} \cup {lb, rb}
HalvesReach(M, b, lb, rb, W) ==
  \A j \in Key : NoRecord \notin W[j] =>
     \E r \in M : Covers(r, j) /\ (r = b => Covers(lb, j) \/ Covers(rb, j))

\* Which keys the two halves hold, and what they answer for them.
LEMMA DividedBy ==
  ASSUME NEW M, NEW b, Alone(M, b), NEW e, NEW K, K = DOMAIN e, Fits(b, e), NEW low,
         NEW up, up = K \ low, Below(low, up, K),
         NEW left, NEW right, Renamed(M, left, right),
         NEW lb, lb = Bounds(Min(low), Max(low), left),
         NEW rb, rb = Bounds(Min(up), NoKey, right),
         Apart(M), Apart(Replaced(M, b, lb, rb)), NEW W, Answered(b, e, W), Reached(M, W)
  PROVE  /\ Divides(M, b, lb, rb) /\ HalvesReach(M, b, lb, rb, W)
         /\ Answered(lb, Half(e, low), W) /\ Answered(rb, Half(e, up), W)
<1> DEFINE N == {r \in M : r.name # b.name} \cup {lb, rb}
<1>a. /\ M \subseteq RangeRec /\ b \in M /\ \A r \in M : r.name = b.name => r = b
      /\ K \in SUBSET Key /\ low \in SUBSET K /\ low # {} /\ up # {}
      /\ \A x \in low, y \in up : x < y
  BY DEF Alone, Below
<1>b. left \in Nat /\ right \in Nat /\ left # right /\ \A r \in M : r.name \notin {left, right}
  BY DEF Renamed
<1>c. /\ Apart(N) /\ \A j \in Key : Covers(b, j) => Answer(e, j) \in W[j]
      /\ \A j \in Key : NoRecord \notin W[j] => \E r \in M : Covers(r, j)
  BY DEF Replaced, Answered, Reached
<1> USE <1>a, <1>b, <1>c
<1>1. \A j \in Key : j \in Nat /\ j # 0
  BY KeyFacts
<1>2. /\ Min(low) \in low /\ Max(low) \in low /\ \A j \in low : Min(low) <= j /\ j <= Max(low)
      /\ Min(up) \in up /\ \A j \in up : Min(up) <= j
  <2>1. low \in SUBSET Nat /\ up \in SUBSET Nat
    BY <1>1
  <2>2. low \in SUBSET (0 .. MaxKey)
    BY KeysBounded
  <2>3. MaxKey \in Nat
    BY BoundFacts
  <2>4. Min(low) \in low /\ \A j \in low : Min(low) <= j
    BY <2>1, MinOf
  <2>5. Max(low) \in low /\ \A j \in low : j <= Max(low)
    BY <2>2, <2>3, MaxOf
  <2>6. Min(up) \in up /\ \A j \in up : Min(up) <= j
    BY <2>1, MinOf
  <2> QED
    BY <2>4, <2>5, <2>6
<1>3. lb.name = left /\ lb.min = Min(low) /\ lb.max = Max(low)
  BY DEF Bounds
<1>4. rb.name = right /\ rb.min = Min(up) /\ rb.max = NoKey
  BY DEF Bounds
<1>5. lb \in RangeRec /\ rb \in RangeRec
  <2>1. Min(low) \in Nat /\ Max(low) \in Nat /\ Min(up) \in Nat /\ NoKey \in Nat
    BY <1>1, <1>2 DEF NoKey
  <2> QED
    BY <2>1, BoundsOf
<1>6. Divides(M, b, lb, rb)
  <2>1. Covers(b, lb.min) /\ Covers(b, rb.min) /\ lb.min \in Key /\ rb.min \in Key
    BY <1>2, <1>3, <1>4 DEF Fits
  <2> QED
    BY <1>3, <1>4, <1>5, <2>1 DEF Divides
<1>7. \A j \in K : Covers(lb, j) <=> j \in low
  <2>1. ASSUME NEW j \in K, Covers(lb, j)
        PROVE  j \in low
    <3>1. Min(low) # NoKey /\ Max(low) # NoKey
      BY <1>1, <1>2 DEF NoKey
    <3>2. j <= Max(low)
      BY <1>3, <2>1, <3>1 DEF Covers
    <3>3. j \in up => Max(low) < j
      BY <1>2
    <3> QED
      BY <1>1, <1>2, <2>1, <3>2, <3>3
  <2>2. \A j \in low : Covers(lb, j)
    BY <1>2, <1>3 DEF Covers
  <2> QED
    BY <2>1, <2>2
<1>8. \A j \in K : Covers(rb, j) <=> j \in up
  <2>1. ASSUME NEW j \in K, Covers(rb, j)
        PROVE  j \in up
    <3>1. Min(up) # NoKey
      BY <1>1, <1>2 DEF NoKey
    <3>2. Min(up) <= j
      BY <1>4, <2>1, <3>1 DEF Covers
    <3>3. j \in low => j < Min(up)
      BY <1>2
    <3> QED
      BY <1>1, <1>2, <2>1, <3>2, <3>3
  <2>2. \A j \in up : Covers(rb, j)
    BY <1>2, <1>4 DEF Covers
  <2> QED
    BY <2>1, <2>2
<1>9. ASSUME NEW j \in Key, NoRecord \notin W[j], Covers(b, j)
      PROVE  j \in K
  <2>1. Answer(e, j) # NoRecord
    BY <1>9
  <2> QED
    BY <2>1 DEF Answer
<1>10. ASSUME NEW j \in Key, NoRecord \notin W[j]
       PROVE  \E r \in M : Covers(r, j) /\ (r = b => j \in K)
  BY <1>9, <1>10
<1>11. \A j \in Key : NoRecord \notin W[j] =>
         \E r \in M : Covers(r, j) /\ (r = b => Covers(lb, j) \/ Covers(rb, j))
  BY <1>7, <1>8, <1>10
<1>12. ASSUME NEW x \in {lb, rb}, NEW H \in SUBSET K, \A j \in K : Covers(x, j) <=> j \in H,
              NEW j \in Key, Covers(x, j)
       PROVE  Answer(Half(e, H), j) \in W[j]
  <2>1. CASE j \in H
    <3>1. Answer(Half(e, H), j) = Answer(e, j)
      BY <2>1 DEF Answer, Half
    <3> QED
      BY <2>1, <3>1 DEF Fits
  <2>2. CASE j \notin H
    <3>1. Answer(Half(e, H), j) = NoRecord
      BY <2>2 DEF Answer, Half
    <3>2. ASSUME NoRecord \notin W[j]
          PROVE  FALSE
      <4>1. PICK r \in M : Covers(r, j) /\ (r = b => j \in K)
        BY <1>10, <3>2
      <4>2. r.name # b.name
        BY <1>12, <2>2, <4>1
      <4>3. r \in N /\ x \in N /\ r.name # x.name
        BY <1>3, <1>4, <4>2
      <4> QED
        BY <1>12, <4>1, <4>3 DEF Apart
    <3> QED
      BY <3>1, <3>2
  <2> QED
    BY <2>1, <2>2
<1>13. \A j \in Key : Covers(lb, j) => Answer(Half(e, low), j) \in W[j]
  BY <1>7, <1>12
<1>14. \A j \in Key : Covers(rb, j) => Answer(Half(e, up), j) \in W[j]
  <2>1. up \in SUBSET K
    OBVIOUS
  <2> QED
    BY <1>8, <1>12, <2>1
<1> QED
  BY <1>6, <1>11, <1>13, <1>14 DEF Answered, HalvesReach

LEMMA PartMay ==
  ASSUME NEW files, NEW r \in Rkds(files), NEW K \in SUBSET (DOMAIN r.entries), K # {},
         NEW w, NEW n \in w.only,
         NEW b, \A c \in w.over : c.name = n => c = b,
         b.min = Min(K), b.max = Max(K) \/ b.max = NoKey,
         \A j \in Key : Covers(b, j) => Answer(Half(r.entries, K), j) \in w.vals[j]
  PROVE  May(w, n, Part(r, K))
<1> DEFINE p == Part(r, K)
<1>1. Hull(p) /\ p.entries = Half(r.entries, K) /\ Min(K) \in K
  BY PartHull DEF Half
<1>2. p.min = Min(K) /\ p.max = Max(K)
  BY DEF Part, NewRkd
<1>3. DOMAIN r.entries \in SUBSET Key
  BY RkdFacts
<1> HIDE DEF p
<1>4. p.min \in Key /\ p.min <= MaxKey
  BY <1>1, <1>2, <1>3, BoundFacts DEF Key
<1>5. Inner(b, p)
  <2>1. p.min # NoKey
    BY <1>4, KeyFacts DEF NoKey
  <2>2. \A j \in Key : Covers(p, j) => Covers(b, j)
    BY <1>2, <2>1 DEF Covers
  <2> QED
    BY <2>2 DEF Inner
<1>6. Tight(b, p, w.vals)
  BY <1>1, <1>5 DEF Tight
<1> QED
  BY <1>1, <1>4, <1>6 DEF May, p

SavedHalves(g, n, left, right, P, Q) ==
  LET g1 == Fresh(Fresh(g))
      g2 == Write(g1, DiskSplit(g1.disk, <<n, left, right>>))
      g3 == SaveRangeKeyDir(g2, left, P)
  IN  SaveRangeKeyDir(g3, right, Q)
Relisted(q, n, lb, rb) == WithRange(WithRange(Without(q, n), lb), rb)
SplitDone(h, q, n, left, right, P, Q) ==
  CachePut(CachePut(SplitEnd(SaveRangeMetadata(WithRanges(h, q)), n), left, P), right, Q)

LEMMA SplitIs ==
  ASSUME NEW F, NEW files \in F, NEW h \in Work(F, files), Good(h), NEW n \in Nat,
         NEW l, l = Load(h, n), NEW r, r = Loaded(h, n), NEW K, K = DOMAIN r.entries,
         NEW low, low = LowerHalf(K), NEW left, left = h.mem.nextFileId, NEW right, right = left + 1,
         NEW P, P = Part(r, low), NEW Q, Q = Part(r, K \ low),
         NEW lb, lb = Bounds(Min(low), Max(low), left), NEW rb, rb = Bounds(Min(K \ low), NoKey, right),
         NEW h4, h4 = SavedHalves(l, n, left, right, P, Q),
         NEW q, q = Relisted(h4.mem.ranges, n, lb, rb)
  PROVE  /\ l.mem.nextFileId = left /\ l.mem.ranges = h.mem.ranges
         /\ Cardinality(K) < 2 => SplitRangeAtomic(h, n) = l
         /\ ~(Cardinality(K) < 2) => SplitRangeAtomic(h, n) = SplitDone(h4, q, n, left, right, P, Q)
<1>1. l.mem.nextFileId = left /\ l.mem.ranges = h.mem.ranges
  BY LoadGood DEF Frame
<1>2. Cardinality(K) < 2 => SplitRangeAtomic(h, n) = l
  BY DEF SplitRangeAtomic
<1>3. ~(Cardinality(K) < 2) => SplitRangeAtomic(h, n) = SplitDone(h4, q, n, left, right, P, Q)
  BY DEF SplitRangeAtomic, SplitDone, SplitEnd, SavedHalves, Relisted, DiskSplit, WithRanges
<1> QED
  BY <1>1, <1>2, <1>3

LEMMA RelistedIs ==
  ASSUME NEW q \in Ranges, NEW n, NEW lb \in RangeRec, NEW rb \in RangeRec
  PROVE  /\ Relisted(q, n, lb, rb) \in Ranges
         /\ RangeSet(Relisted(q, n, lb, rb)) = {r \in RangeSet(q) : r.name # n} \cup {lb, rb}
<1> DEFINE a == Without(q, n)
           b == WithRange(a, lb)
           c == WithRange(b, rb)
<1>1. a \in Ranges /\ RangeSet(a) = {r \in RangeSet(q) : r.name # n}
  BY WithoutSorts, WithoutIs
<1> HIDE DEF a
<1>2. b \in Ranges /\ RangeSet(b) = RangeSet(a) \cup {lb}
  BY <1>1, WithRangeSorts, WithRangeIs
<1> HIDE DEF b
<1>3. c \in Ranges /\ RangeSet(c) = RangeSet(b) \cup {rb}
  BY <1>2, WithRangeSorts, WithRangeIs
<1>4. Relisted(q, n, lb, rb) = c
  BY DEF Relisted, a, b
<1> HIDE DEF c
<1> QED
  BY <1>1, <1>2, <1>3, <1>4

LEMMA DoneIs ==
  ASSUME NEW F, NEW files \in F, NEW h \in Work(F, files), NEW q \in Ranges, NEW n,
         NEW left \in Nat, NEW right \in Nat, NEW P \in Rkds(files), NEW Q \in Rkds(files)
  PROVE  LET g == SplitDone(h, q, n, left, right, P, Q) IN
         g.clash = h.clash /\ g.mem.ranges = q
<1> DEFINE y == WithRanges(h, q)
           a == SaveRangeMetadata(y)
           b == RemoveBlob(a, n)
           c == SplitEnd(a, n)
           d == CachePut(c, left, P)
           g == CachePut(d, right, Q)
<1>1. y \in Work(F, files) /\ y.clash = h.clash /\ y.mem.ranges = q
  <2>1. y \in Work(F, files)
    BY RangesKeep DEF WithRanges
  <2>2. y.clash = h.clash /\ y.mem.ranges = q
    BY DEF WithRanges, Work, Memories
  <2> QED
    BY <2>1, <2>2
<1> HIDE DEF y
<1>2. a \in Work(F, files)
  BY <1>1, MetaKeeps
<1>3. a.clash = y.clash /\ a.mem = y.mem
  BY <1>1 DEF SaveRangeMetadata, Write, Work
<1> HIDE DEF a
<1>4. c \in Work(F, files) /\ c.clash = a.clash
  BY <1>2, SplitEndClash
<1>5. c.mem.ranges = a.mem.ranges
  <2> DEFINE x == Write(b, DiskSplit(b.disk, <<>>))
  <2>1. b \in Work(F, files) /\ b.mem = a.mem
    <3>1. b \in Work(F, files)
      BY <1>2, RemoveBlobKeeps
    <3>2. b.mem = a.mem
      BY <1>2 DEF RemoveBlob, Write, Work
    <3> QED
      BY <3>1, <3>2
  <2> HIDE DEF b
  <2>2. x \in Work(F, files)
    <3>1. <<>> \in Splits
      BY DEF Splits
    <3> QED
      BY <2>1, <3>1, SplitKeeps DEF DiskSplit
  <2>3. x.mem = b.mem
    BY <2>1 DEF Write, Work
  <2> HIDE DEF x
  <2>4. CacheDel(x, n).mem.ranges = x.mem.ranges
    BY <2>2, CacheDelIs
  <2>5. c = CacheDel(x, n)
    BY DEF SplitEnd, x, b
  <2> QED
    BY <2>1, <2>3, <2>4, <2>5
<1> HIDE DEF c
<1>6. d \in Work(F, files) /\ d.clash = c.clash /\ d.mem.ranges = c.mem.ranges
  BY <1>4, CachePutKeeps, CachePutClash, CachePutMem
<1> HIDE DEF d
<1>7. g.clash = d.clash /\ g.mem.ranges = d.mem.ranges
  BY <1>6, CachePutClash, CachePutMem
<1>8. SplitDone(h, q, n, left, right, P, Q) = g
  BY DEF SplitDone, d, c, a, y
<1> HIDE DEF g
<1> QED
  BY <1>1, <1>3, <1>4, <1>5, <1>6, <1>7, <1>8

LEMMA DoneKept ==
  ASSUME NEW F, NEW files \in F, NEW h \in Work(F, files), NEW w, NEW S, Keeps(h, w, S),
         NEW q \in Ranges, NEW v, v.meta = q, v.split = w.split, v.files = w.files,
         v.least \subseteq DOMAIN h.disk.rkds, \A m, r : May(w, m, r) => May(v, m, r),
         Holding(F, v, S), NEW n, n \notin v.least,
         NEW u, u.meta = q, u.split = <<>>, u.files = v.files, u.least = v.least,
         \A m, r : May(v, m, r) => May(u, m, r), Holding(F, u, S),
         NEW left \in Nat, NEW right \in Nat, NEW P \in Rkds(files), NEW Q \in Rkds(files),
         May(w, left, P), May(w, right, Q)
  PROVE  Keeps(SplitDone(h, q, n, left, right, P, Q), u, S)
<1> DEFINE a == SaveRangeMetadata(WithRanges(h, q))
           c == SplitEnd(a, n)
           d == CachePut(c, left, P)
           g == CachePut(d, right, Q)
<1>1. a \in Work(F, files) /\ Keeps(a, v, S)
  BY ListedKept
<1> HIDE DEF a
<1>2. c \in Work(F, files) /\ Keeps(c, u, S)
  BY <1>1, EndKept
<1> HIDE DEF c
<1>3. May(u, left, P) /\ May(u, right, Q)
  OBVIOUS
<1>4. d \in Work(F, files) /\ Keeps(d, u, S)
  BY <1>2, <1>3, CachePutKept, CachePutKeeps
<1> HIDE DEF d
<1>5. Keeps(g, u, S)
  BY <1>3, <1>4, CachePutKept
<1>6. SplitDone(h, q, n, left, right, P, Q) = g
  BY DEF SplitDone, d, c, a
<1> QED
  BY <1>5, <1>6

SplitView(meta, split, M, N, n, lb, rb, files, vals) ==
  View(meta, split, files, {b.name : b \in RangeSet(meta)}, N \cup {n} \cup {lb.name, rb.name},
       M \cup {lb, rb}, vals)

\* There is a view that g keeps to, of its own ranges, and that holds for every disk.
Viewed(F, g, S) ==
  \E v : /\ Keeps(g, v, S) /\ Holding(F, v, S) /\ v.over = RangeSet(g.mem.ranges)
         /\ RangeSet(v.meta) \subseteq v.over

\* The list M names every RangeKeyDir in N, if all were listed; a key of no range may be missing.
Naming(listed, N, M) == listed => \A m \in N : \E r \in RangeSet(M) : r.name = m
Lacking(M, W)        == \A j \in Key : FindRange(M, j) = 0 => NoRecord \in W[j]

LEMMA SplitKept ==
  ASSUME NEW F, NEW more \in F, NEW t \in Work(F, more), Steady(t), NEW M, M = t.mem.ranges,
         NEW b \in RangeSet(M), NEW n, n = b.name,
         NEW z, z = SplitRangeAtomic(t, n), ~z.clash, ~Overlap(z.mem.ranges),
         NEW files, more # files, NEW V, NEW W, NEW listed, NEW S, S = Safe(F, files, V, W, listed),
         NEW N, Naming(listed, N, M), Lacking(M, W),
         NEW w, w = SetView(M, M, N, n, more, W), Keeps(t, w, S), Holding(F, w, S)
  PROVE  Viewed(F, z, S)
<1> DEFINE R     == RangeSet(M)
           l     == Load(t, n)
           rkd   == Loaded(t, n)
           e     == rkd.entries
           K     == DOMAIN e
           low   == LowerHalf(K)
           left  == t.mem.nextFileId
           right == left + 1
           P     == Part(rkd, low)
           Q     == Part(rkd, K \ low)
           lb    == Bounds(Min(low), Max(low), left)
           rb    == Bounds(Min(K \ low), NoKey, right)
           h     == SavedHalves(l, n, left, right, P, Q)
           q     == Relisted(h.mem.ranges, n, lb, rb)
<1>0. /\ listed => \A m \in N : \E r \in RangeSet(M) : r.name = m
      /\ \A j \in Key : FindRange(M, j) = 0 => NoRecord \in W[j]
  BY DEF Naming, Lacking
<1> USE <1>0
<1>1. /\ n \in Nat /\ n \in DOMAIN t.disk.rkds /\ M \in Ranges /\ Names(M) /\ Good(t) /\ Settled(t)
      /\ Fits(b, Entr(t, n)) /\ b \in RangeRec
      /\ \A r \in R : Straight(r) /\ r \in RangeRec /\ r.name \in DOMAIN t.disk.rkds
  BY SettledFacts DEF Steady, Settled
<1>2. /\ l \in Work(F, more) /\ rkd \in Rkds(more) /\ Good(l) /\ Settled(l) /\ Frame(t, l, {})
      /\ K \in SUBSET Key /\ e = Entr(t, n)
  BY <1>1, LoadKeeps, LoadedOf, LoadGood, FrameSettled, RkdFacts DEF Entr
<1>3. /\ w.meta = M /\ w.split = <<>> /\ w.files = more /\ w.least = {c.name : c \in R}
      /\ w.only = N \cup {n} /\ w.over = R /\ w.vals = W
  BY ViewIs DEF SetView, ListView
<1>4. Keeps(l, w, S)
  BY <1>1, LoadKept
<1>5. May(w, n, rkd)
  BY <1>1, LoadedMay
<1>6. /\ l.mem.nextFileId = left /\ l.mem.ranges = M
      /\ Cardinality(K) < 2 => z = l
      /\ ~(Cardinality(K) < 2) => z = SplitDone(h, q, n, left, right, P, Q)
  <2>1. l = Load(t, n) /\ rkd = Loaded(t, n) /\ K = DOMAIN rkd.entries /\ low = LowerHalf(K)
    OBVIOUS
  <2>2. left = t.mem.nextFileId /\ right = left + 1 /\ P = Part(rkd, low) /\ Q = Part(rkd, K \ low)
    OBVIOUS
  <2>3. lb = Bounds(Min(low), Max(low), left) /\ rb = Bounds(Min(K \ low), NoKey, right)
    OBVIOUS
  <2>4. h = SavedHalves(l, n, left, right, P, Q) /\ q = Relisted(h.mem.ranges, n, lb, rb)
    OBVIOUS
  <2> HIDE DEF l, rkd, e, K, low, left, right, P, Q, lb, rb, h, q
  <2> QED
    BY <1>1, <2>1, <2>2, <2>3, <2>4, SplitIs
<1>7. CASE Cardinality(K) < 2
  BY <1>3, <1>4, <1>6, <1>7 DEF Viewed
<1>8. CASE ~(Cardinality(K) < 2)
  <2>1. /\ low \in SUBSET K /\ low # {} /\ K \ low # {} /\ K \ low \in SUBSET K
        /\ \A x \in low, y \in K \ low : x < y
    BY <1>2, <1>8, LowerHalfOf, HalvesFacts
  <2> HIDE DEF l, rkd, low
  <2>2. P \in Rkds(more) /\ Hull(P) /\ Q \in Rkds(more) /\ Hull(Q)
    BY <1>2, <2>1, PartOf, PartHull
  <2>3. left \in Nat /\ right \in Nat /\ left # right
    BY DEF Work, Memories
  <2>4. lb.name = left /\ rb.name = right
    BY DEF Bounds
  <2>5. lb.min = Min(low) /\ lb.max = Max(low) /\ rb.min = Min(K \ low) /\ rb.max = NoKey
    BY DEF Bounds
  <2>6. h \in Work(F, more) /\ Halved(l, h, left, right, P, Q)
    <3> HIDE DEF P, Q, left
    <3>1. left = l.mem.nextFileId
      BY <1>6
    <3> QED
      BY <1>1, <1>2, <2>2, <3>1, HalvesSaved DEF SavedHalves
  <2> HIDE DEF P, Q, left, right, h
  <2>7. lb \in RangeRec /\ rb \in RangeRec
    <3>1. Min(low) \in Nat /\ Max(low) \in Nat /\ Min(K \ low) \in Nat /\ NoKey \in Nat
      BY <1>2, <2>1, PartOf DEF NoKey
    <3> QED
      BY <2>3, <3>1, BoundsOf
  <2> HIDE DEF lb, rb
  <2>8. h.mem.ranges = M
    BY <1>6, <2>6 DEF Halved
  <2>9. q \in Ranges /\ RangeSet(q) = {r \in R : r.name # n} \cup {lb, rb}
    BY <1>1, <2>7, <2>8, RelistedIs
  <2> HIDE DEF q
  <2>10. z.clash = h.clash /\ z.mem.ranges = q
    <3>1. z = SplitDone(h, q, n, left, right, P, Q)
      BY <1>6, <1>8
    <3> QED
      BY <2>2, <2>3, <2>6, <2>9, <3>1, DoneIs
  <2>11. {left, right} \cap DOMAIN l.disk.rkds = {}
    BY <2>6, <2>10 DEF Halved
  <2>12. /\ \A m : m \in DOMAIN l.disk.rkds <=> m \in DOMAIN t.disk.rkds
         /\ \A m \in DOMAIN t.disk.rkds : m \in DOMAIN h.disk.rkds
         /\ {left, right} \subseteq DOMAIN h.disk.rkds
    <3>1. \A m : m \in DOMAIN l.disk.rkds <=> m \in DOMAIN t.disk.rkds
      BY <1>2 DEF Frame
    <3>2. \A m \in DOMAIN l.disk.rkds : m \in DOMAIN h.disk.rkds
      BY <2>6, <2>11 DEF Halved
    <3>3. {left, right} \subseteq DOMAIN h.disk.rkds
      BY <2>6 DEF Halved
    <3> QED
      BY <3>1, <3>2, <3>3
  <2>13. \A r \in R : r.name \notin {left, right}
    BY <1>1, <2>11, <2>12
  <2>14. Apart(R) /\ Apart(RangeSet(q))
    BY <1>1, <2>9, <2>10, ApartIf DEF Steady
  <2>15. /\ Divides(R, b, lb, rb)
         /\ \A j \in Key : NoRecord \notin W[j] =>
              \E r \in R : Covers(r, j) /\ (r = b => Covers(lb, j) \/ Covers(rb, j))
         /\ \A j \in Key : /\ Covers(lb, j) => Answer(Half(e, low), j) \in W[j]
                           /\ Covers(rb, j) => Answer(Half(e, K \ low), j) \in W[j]
    <3>1. R \subseteq RangeRec /\ \A r \in R : r.name = b.name => r = b
      BY <1>1, NamedOnce
    <3>2. \A j \in Key : Covers(b, j) => Answer(e, j) \in W[j]
      BY <1>3, <1>5 DEF May, Tight
    <3>3. \A j \in Key : NoRecord \notin W[j] => \E r \in R : Covers(r, j)
      BY <1>1, FindsOne
    <3>4. Apart({r \in R : r.name # b.name} \cup {lb, rb})
      BY <2>9, <2>14
    <3>5. Fits(b, e) /\ b \in R
      BY <1>1, <1>2
    <3> DEFINE J  == K
               up == K \ low
    <3>6. J \in SUBSET Key /\ J = DOMAIN e /\ low \in SUBSET J /\ up = J \ low
      BY <1>2, <2>1
    <3>7. lb = Bounds(Min(low), Max(low), left) /\ rb = Bounds(Min(up), NoKey, right)
      <4> HIDE DEF R, e, K
      <4> QED
        BY DEF lb, rb
    <3>8. low # {} /\ up # {} /\ \A x \in low, y \in up : x < y
      BY <2>1
    <3> HIDE DEF R, e, K, J, up
    <3>9. Alone(R, b) /\ Below(low, up, J) /\ Renamed(R, left, right)
      BY <2>1, <2>3, <2>13, <3>1, <3>5, <3>6, <3>8 DEF Alone, Below, Renamed
    <3>10. Apart(Replaced(R, b, lb, rb)) /\ Answered(b, e, W) /\ Reached(R, W)
      BY <3>2, <3>3, <3>4 DEF Replaced, Answered, Reached
    <3>11. /\ Divides(R, b, lb, rb) /\ HalvesReach(R, b, lb, rb, W)
           /\ Answered(lb, Half(e, low), W) /\ Answered(rb, Half(e, up), W)
      BY <2>14, <3>5, <3>6, <3>7, <3>9, <3>10, DividedBy
    <3> QED
      BY <3>11 DEF up, HalvesReach, Answered
  <2> DEFINE s  == <<n, lb.name, rb.name>>
             A  == N \cup {n} \cup {lb.name, rb.name}
             w3 == SplitView(M, s, R, N, n, lb, rb, more, W)
             w4 == SplitView(q, s, R, N, n, lb, rb, more, W)
             w5 == ListView(q, more, A, RangeSet(q), W)
  <2>16. /\ w3.meta = M /\ w3.split = s /\ w3.files = more /\ w3.least = {c.name : c \in R}
         /\ w3.only = A /\ w3.over = R \cup {lb, rb} /\ w3.vals = W
    BY ViewIs DEF SplitView
  <2>17. /\ w4.meta = q /\ w4.split = s /\ w4.files = more
         /\ w4.least = {c.name : c \in RangeSet(q)}
         /\ w4.only = A /\ w4.over = R \cup {lb, rb} /\ w4.vals = W
    BY ViewIs DEF SplitView
  <2>18. /\ w5.meta = q /\ w5.split = <<>> /\ w5.files = more
         /\ w5.least = {c.name : c \in RangeSet(q)}
         /\ w5.only = A /\ w5.over = RangeSet(q) /\ w5.vals = W
    BY ViewIs DEF ListView
  <2> HIDE DEF w3, w4
  <2>19. listed => \A m \in A : \E r \in R \cup {lb, rb} : r.name = m
    OBVIOUS
  <2>20. Holding(F, w3, S)
    <3>1. \A r \in R : r.name \in w3.least
      BY <2>16
    <3>2. Halving(R, b, lb, rb, w3)
      BY <2>15, <2>16, <3>1 DEF Halving
    <3> QED
      BY <2>15, <2>16, <2>19, <3>2, HalvingHolds
  <2>21. Holding(F, w4, S)
    <3>1. \A r \in {c \in R : c.name # b.name} \cup {lb, rb} : r.name \in w4.least
      BY <2>9, <2>17
    <3>2. Halving(R, b, lb, rb, w4)
      BY <2>15, <2>17, <3>1 DEF Halving
    <3> QED
      BY <2>15, <2>17, <2>19, <3>2, HalvingHolds
  <2>22. left # n /\ right # n
    BY <1>1, <2>11, <2>12
  <2>23. \A r \in RangeSet(q) : Straight(r)
    <3>1. left # 0 /\ right # 0
      BY <2>3 DEF right, left, Steady, Settled, Good, GoodBut
    <3>2. Min(low) <= Max(low)
      BY <1>2, <2>1, PartHull DEF P
    <3>3. Straight(lb) /\ Straight(rb)
      BY <2>4, <2>5, <3>1, <3>2 DEF Straight
    <3> QED
      BY <1>1, <2>9, <3>3
  <2>24. Holding(F, w5, S)
    <3>1. ASSUME NEW j \in Key, NoRecord \notin W[j]
          PROVE  FindRange(q, j) # 0
      <4>1. PICK r \in R : Covers(r, j) /\ (r = b => Covers(lb, j) \/ Covers(rb, j))
        BY <2>15, <3>1
      <4>2. r # b => r.name # n
        BY <1>1, NamedOnce
      <4>3. PICK x \in RangeSet(q) : Covers(x, j)
        BY <2>9, <4>1, <4>2
      <4>4. FindRange(q, j) = x.name
        BY <2>9, <2>10, <2>23, <4>3, FindsCovering
      <4> QED
        BY <2>23, <4>4 DEF Straight
    <3>2. q # <<>>
      <4>1. RangeSet(<<>>) = {}
        BY DEF RangeSet
      <4>2. lb \in RangeSet(q)
        BY <2>9
      <4> QED
        BY <4>1, <4>2
    <3>3. \A j \in Key : FindRange(q, j) = 0 => NoRecord \in W[j]
      BY <3>1
    <3>4. W = IF more = files THEN V ELSE W
      OBVIOUS
    <3> HIDE DEF A
    <3> QED
      BY <3>2, <3>3, <3>4, ListHolds
  <2> HIDE DEF w5
  <2>25. \A m, r : m \notin {left, right} /\ May(w, m, r) => May(w3, m, r)
    <3>1. ASSUME NEW m, NEW r, m \notin {left, right}, May(w, m, r)
          PROVE  May(w3, m, r)
      <4>1. m \in w3.only
        BY <1>3, <2>16, <3>1 DEF May
      <4>2. \A c \in w3.over : c.name = m => c \in w.over
        BY <1>3, <2>4, <2>16, <3>1
      <4>3. \A j \in Key : w.vals[j] \subseteq w3.vals[j]
        BY <1>3, <2>16
      <4> QED
        BY <3>1, <4>1, <4>2, <4>3, MayAlso
    <3> QED
      BY <3>1
  <2>26. May(w3, left, P) /\ May(w3, right, Q)
    <3>1. left \in w3.only /\ right \in w3.only
      BY <2>4, <2>16
    <3>2. /\ \A c \in w3.over : c.name = left => c = lb
          /\ \A c \in w3.over : c.name = right => c = rb
      BY <2>3, <2>4, <2>13, <2>16
    <3>3. low \in SUBSET (DOMAIN rkd.entries) /\ K \ low \in SUBSET (DOMAIN rkd.entries)
      BY <2>1
    <3>4. May(w3, left, P)
      BY <1>2, <2>1, <2>5, <2>15, <2>16, <3>1, <3>2, <3>3, PartMay DEF P
    <3>5. May(w3, right, Q)
      <4> DEFINE up == K \ low
      <4>1. up \in SUBSET (DOMAIN rkd.entries) /\ up # {} /\ rb.min = Min(up)
        BY <2>1, <2>5, <3>3
      <4>2. \A j \in Key : Covers(rb, j) => Answer(Half(rkd.entries, up), j) \in w3.vals[j]
        BY <2>15, <2>16
      <4>3. Q = Part(rkd, up)
        BY DEF Q
      <4> HIDE DEF up
      <4> QED
        BY <1>2, <2>5, <3>1, <3>2, <4>1, <4>2, <4>3, PartMay
    <3> QED
      BY <3>4, <3>5
  <2>27. Keeps(h, w3, S)
    <3>1. left = l.mem.nextFileId /\ right = left + 1
      BY <1>6 DEF right
    <3>2. Coherent(l, 0)
      BY <1>2 DEF Good, GoodBut
    <3>3. w3.meta = w.meta /\ w3.split = <<n, left, right>> /\ w3.files = w.files /\ w3.least = w.least
      BY <1>3, <2>4, <2>16
    <3> HIDE DEF R, s, A
    <3> QED
      BY <1>1, <1>2, <1>4, <2>2, <2>11, <2>20, <2>25, <2>26, <3>1, <3>2, <3>3, HalvesKept, SMTT(30) DEF h, SavedHalves
  <2>28. Keeps(z, w5, S)
    <3>1. w4.least \subseteq DOMAIN h.disk.rkds
      BY <1>1, <2>4, <2>9, <2>12, <2>17
    <3>2. n \notin w4.least
      BY <2>4, <2>9, <2>17, <2>22
    <3>3. \A m, r : May(w3, m, r) => May(w4, m, r)
      BY <2>16, <2>17 DEF May
    <3>4. \A m, r : May(w4, m, r) => May(w5, m, r)
      <4>1. w5.over \subseteq w4.over /\ w5.only = w4.only /\ w5.vals = w4.vals
        BY <2>9, <2>17, <2>18
      <4> QED
        BY <4>1 DEF May
    <3>5. /\ w4.meta = q /\ w4.split = w3.split /\ w4.files = w3.files
          /\ w5.meta = q /\ w5.split = <<>> /\ w5.files = w4.files /\ w5.least = w4.least
      BY <2>16, <2>17, <2>18
    <3>6. z = SplitDone(h, q, n, left, right, P, Q)
      BY <1>6, <1>8
    <3> HIDE DEF R, s, A
    <3> QED
      BY <2>2, <2>3, <2>6, <2>9, <2>21, <2>24, <2>26, <2>27, <3>1, <3>2, <3>3, <3>4, <3>5, <3>6, DoneKept
  <2> QED
    BY <2>10, <2>18, <2>24, <2>28 DEF Viewed
<1> QED
  BY <1>7, <1>8

\* From the range of the key on: the append, the insert, then a save, a split or neither.
LEMMA RestKept ==
  ASSUME NEW files \in Files, NEW z \in Work({files}, files), Steady(z),
         NEW M, M = z.mem.ranges, NEW b \in RangeSet(M), NEW n, n = b.name,
         NEW k \in Key, Covers(b, k), NEW rec \in Record, rec.key = k, NEW flush \in BOOLEAN,
         0 < MaxWrites, \A x \in DOMAIN files : Len(files[x]) < MaxWrites,
         NEW f, f = Loaded(z, n).file, NEW more, more = FilesWith(files, f, rec),
         NEW F, Either(F, files, more), NEW V, NEW W, NEW listed, NEW S, S = Safe(F, files, V, W, listed),
         NEW N, NEW w, Ready(F, files, z, w, V, W, N, n, listed, S),
         \A j \in Key : V[j] \subseteq W[j], <<f, Len(more[f])>> \in W[k],
         NEW g, g = SetRest(z, n, k, rec, flush), ~g.clash, ~Overlap(g.mem.ranges)
  PROVE  g.disk \in DisksOf(F) /\ Viewed(F, g, S)
<1> DEFINE s == SavedAs(z, n, k, rec)
           t == CacheDel(s, n)
           p == CachePut(Placed(z, n, rec), n, Held(z, n, k, rec))
           e == EntryOf(f, Len(more[f]))
           v == SetView(M, M, N, n, more, W)
           full == TotalLen(Held(z, n, k, rec)) > MaxEntriesPerRange
<1>1. Settled(z)
  BY DEF Steady
<1>2. Holding(F, v, S) /\ Keeps(s, v, S) /\ Keeps(t, v, S) /\ Keeps(p, v, S)
  BY <1>1, StoreKept
<1>3. /\ \A a \in {s, t, p} : a \in Work(F, more) /\ Stores(z, a, n, k, e)
      /\ more \in F
  <2>1. Stored(files, z, n, k, rec)
    BY <1>1, StoreGood
  <2> QED
    BY <2>1 DEF Stored, Either
<1>4. more # files
  <2>1. f \in Nat
    BY <1>1, StoreGood DEF Stored
  <2> QED
    BY <2>1, FilesAfter
<1>5. v.meta = M /\ v.over = RangeSet(M)
  BY ViewIs DEF SetView, ListView
<1>6. (full => g = SplitRangeAtomic(t, n)) /\ (~full => g \in {s, p})
  BY DEF SetRest
<1> HIDE DEF s, t, p, e, v, full
<1>7. CASE ~full
  <2>1. g \in {s, p}
    BY <1>6, <1>7
  <2>2. g \in Work(F, more) /\ g.mem.ranges = M
    BY <1>3, <2>1 DEF Stores
  <2>3. g.disk \in DisksOf(F)
    BY <1>3, <2>2, WorkDisk
  <2> QED
    BY <1>2, <1>5, <2>1, <2>2, <2>3 DEF Viewed
<1>8. CASE full
  <2>1. g = SplitRangeAtomic(t, n)
    BY <1>6, <1>8
  <2>2. t \in Work(F, more) /\ Steady(t) /\ M = t.mem.ranges
    BY <1>3 DEF Stores, Steady
  <2>3. Naming(listed, N, M)
    BY DEF Ready, Naming
  <2>4. Lacking(M, W)
    BY DEF Ready, Lacking
  <2>5. Viewed(F, g, S)
    BY <1>2, <1>3, <1>4, <2>1, <2>2, <2>3, <2>4, SplitKept DEF v
  <2>6. n \in Nat
    BY <1>1, SettledFacts
  <2>7. g \in Work(F, more)
    BY <1>3, <2>1, <2>2, <2>6, SplitKeepsWork
  <2>8. g.disk \in DisksOf(F)
    BY <1>3, <2>7, WorkDisk
  <2> QED
    BY <2>5, <2>8
<1> QED
  BY <1>7, <1>8

\* The values V and, for k, the record x.
Also(V, k, x) == [j \in Key |-> V[j] \cup (IF j = k THEN {x} ELSE {})]

LEMMA AlsoIs ==
  ASSUME NEW V, NEW k \in Key, NEW x, NEW W, W = Also(V, k, x)
  PROVE  (\A j \in Key : V[j] \subseteq W[j]) /\ x \in W[k]
BY DEF Also

\* A set of a key of a range.
LEMMA FoundKept ==
  ASSUME NEW files \in Files, NEW h \in Work({files}, files), Steady(h), Fine(h), Peopled(h), h.trace = <<>>,
         NEW k \in Key, NEW rec \in Record, rec.key = k, NEW flush \in BOOLEAN,
         0 < MaxWrites, \A x \in DOMAIN files : Len(files[x]) < MaxWrites,
         NEW n, n = FindRange(h.mem.ranges, k), n # 0,
         NEW g, g = SetRest(h, n, k, rec, flush), ~g.clash, ~Overlap(g.mem.ranges),
         NEW V, \A j \in Key : Read(h, j) \in V[j] /\ Read(Reopened(h.disk), j) \in V[j],
         NEW listed, NEW N, N = DOMAIN h.disk.rkds, Naming(listed, N, h.mem.ranges),
         NEW f, f = Loaded(h, n).file, NEW more, more = FilesWith(files, f, rec),
         NEW F, Either(F, files, more), NEW W, W = Also(V, k, <<f, Len(more[f])>>),
         NEW S, S = Safe(F, files, V, W, listed)
  PROVE  g.disk \in DisksOf(F) /\ Viewed(F, g, S)
<1> DEFINE M == h.mem.ranges
           w == SetView(M, M, N, n, files, V)
<1>1. M \in Ranges
  BY SettledFacts DEF Steady
<1>2. PICK b \in RangeSet(M) : b.name = n /\ Covers(b, k)
  BY <1>1, FindsOne
<1>3. files \in F /\ h \in Work(F, files)
  <2>1. files \in F
    BY DEF Either
  <2> QED
    BY <2>1, WorkWider
<1>4. listed => \A m \in N : \E r \in RangeSet(M) : r.name = m
  BY DEF Naming
<1>5. \A i \in DOMAIN h.trace : h.trace[i] \in S
  OBVIOUS
<1>6. Ready(F, files, h, w, V, W, N, n, listed, S)
  BY <1>3, <1>4, <1>5, FoundReady
<1>7. (\A j \in Key : V[j] \subseteq W[j]) /\ <<f, Len(more[f])>> \in W[k]
  BY AlsoIs
<1>8. M = h.mem.ranges
  OBVIOUS
<1> HIDE DEF w, M
<1> QED
  BY <1>2, <1>6, <1>7, <1>8, RestKept, ZenonT(60)

\* z is h with a new range for k.
IsOpened(h, k, z) == z = NewRange(h, k)

\* A set of a key of no range.
LEMMA OpenedKept ==
  ASSUME NEW files \in Files, NEW h \in Work({files}, files), Steady(h), Fine(h), Peopled(h), h.trace = <<>>,
         NEW k \in Key, NEW rec \in Record, rec.key = k, NEW flush \in BOOLEAN,
         0 < MaxWrites, \A x \in DOMAIN files : Len(files[x]) < MaxWrites,
         FindRange(h.mem.ranges, k) = 0, NEW n, n = h.mem.nextFileId, NEW z, IsOpened(h, k, z),
         NEW g, g = SetRest(z, n, k, rec, flush), ~g.clash, ~Overlap(g.mem.ranges),
         NEW V, \A j \in Key : Read(h, j) \in V[j] /\ Read(Reopened(h.disk), j) \in V[j],
         NEW listed, NEW N, N = DOMAIN h.disk.rkds, Naming(listed, N, h.mem.ranges),
         NEW f, f = Loaded(z, n).file, NEW more, more = FilesWith(files, f, rec),
         NEW F, Either(F, files, more), NEW W, W = Also(V, k, <<f, Len(more[f])>>),
         NEW S, S = Safe(F, files, V, W, listed)
  PROVE  g.disk \in DisksOf(F) /\ Viewed(F, g, S)
<1> DEFINE L == h.mem.ranges
           M == z.mem.ranges
           b == Bounds(k, NoKey, n)
           w == SetView(M, M, N, n, files, V)
<1>1. /\ Settled(h) /\ L \in Ranges /\ z \in Work({files}, files)
      /\ \A r \in RangeSet(L) : Straight(r)
  BY SettledFacts, NewRangeKeeps DEF Steady, IsOpened
<1>2. ~z.clash
  BY <1>1, SetRestGrows, WorkIsArea DEF Grows
<1>3. \A r \in RangeSet(L) : ~Covers(r, k)
  <2>1. ASSUME NEW r \in RangeSet(L), Covers(r, k)
        PROVE  FALSE
    <3>1. FindRange(L, k) = r.name
      BY <1>1, <2>1, FindsCovering DEF Steady
    <3> QED
      BY <1>1, <3>1 DEF Straight
  <2> QED
    BY <2>1
<1>4. /\ Settled(z) /\ n # 0 /\ n \notin DOMAIN h.disk.rkds
      /\ RangeSet(M) = RangeSet(L) \cup {b} /\ Entr(z, n) = <<>>
  BY <1>1, <1>2, <1>3, NewRangeGood DEF IsOpened
<1>5. b \in RangeSet(M) /\ n = b.name /\ Covers(b, k)
  <2>1. b.name = n /\ b.min = k /\ b.max = NoKey /\ b \in RangeSet(M)
    BY <1>4 DEF Bounds
  <2> HIDE DEF b
  <2> QED
    BY <2>1, KeyFacts DEF Covers
<1> HIDE DEF b
<1>6. Steady(z)
  <2>1. Sets(z, g, k, f, Len(more[f]))
    BY <1>1, <1>4, <1>5, RestGood
  <2> QED
    BY <2>1 DEF Sets
<1>7. files \in F /\ h \in Work(F, files)
  <2>1. files \in F
    BY DEF Either
  <2> QED
    BY <2>1, WorkWider
<1>8. listed => \A m \in N : \E r \in RangeSet(L) : r.name = m
  BY DEF Naming
<1>9. \A i \in DOMAIN h.trace : h.trace[i] \in S
  OBVIOUS
<1>10. Ready(F, files, z, w, V, W, N, n, listed, S)
  BY <1>2, <1>6, <1>7, <1>8, <1>9, NewRangeKept DEF Steady, IsOpened
<1>11. (\A j \in Key : V[j] \subseteq W[j]) /\ <<f, Len(more[f])>> \in W[k]
  BY AlsoIs
<1>12. M = z.mem.ranges
  OBVIOUS
<1> HIDE DEF w, M, L
<1> QED
  BY <1>1, <1>5, <1>6, <1>10, <1>11, <1>12, RestKept, ZenonT(60)

\* A set is made only while there is room for one more record.
LEMMA SetRoom ==
  ASSUME IInv, NEW k \in Key, NEW packed \in BOOLEAN, NEW flush \in BOOLEAN, Set(k, packed, flush)
  PROVE  0 < MaxWrites /\ \A x \in DOMAIN disk.files : Len(disk.files[x]) < MaxWrites
<1> DEFINE c == Count(LAMBDA rec : TRUE)
<1>1. c \in Nat /\ (\A x \in DOMAIN disk.files : Len(disk.files[x]) <= c) /\ c < MaxWrites
  BY CountCovers DEF IInv, Set
<1> HIDE DEF c
<1>2. \A x \in DOMAIN disk.files : disk.files[x] \in File
  BY DEF IInv, Files
<1>3. \A x \in DOMAIN disk.files : Len(disk.files[x]) \in Nat
  BY <1>2 DEF File
<1> QED
  BY <1>1, <1>3, BoundFacts

\* What a set of k leaves behind: one more record, which k may have from then on.
SetsKept(files, rec, V, listed, g) ==
  \E f \in Nat : \E more, F, W, S :
    /\ more = FilesWith(files, f, rec) /\ Either(F, files, more)
    /\ W = Also(V, rec.key, <<f, Len(more[f])>>) /\ S = Safe(F, files, V, W, listed)
    /\ g.disk \in DisksOf(F) /\ Viewed(F, g, S)

LEMMA SetKept ==
  ASSUME NEW files \in Files, NEW h \in Work({files}, files), Steady(h), Fine(h), Peopled(h), h.trace = <<>>,
         NEW k \in Key, NEW packed \in BOOLEAN, NEW flush \in BOOLEAN,
         NEW rec, rec = [key |-> k, packed |-> packed],
         0 < MaxWrites, \A x \in DOMAIN files : Len(files[x]) < MaxWrites,
         NEW g, g = SetOp(h, k, packed, flush), ~g.clash, ~Overlap(g.mem.ranges),
         NEW V, \A j \in Key : Read(h, j) \in V[j] /\ Read(Reopened(h.disk), j) \in V[j],
         NEW listed, Naming(listed, DOMAIN h.disk.rkds, h.mem.ranges)
  PROVE  SetsKept(files, rec, V, listed, g)
<1> DEFINE found == FindRange(h.mem.ranges, k)
           n     == IF found = 0 THEN h.mem.nextFileId ELSE found
           z     == IF found = 0 THEN NewRange(h, k) ELSE h
           f     == Loaded(z, n).file
           more  == FilesWith(files, f, rec)
           F     == {files, more}
           W     == Also(V, k, <<f, Len(more[f])>>)
           S     == Safe(F, files, V, W, listed)
           N     == DOMAIN h.disk.rkds
<1>1. rec \in Record /\ rec.key = k
  BY DEF Record
<1>2. g = SetRest(z, n, k, rec, flush)
  BY DEF SetOp, SetRest, SavedAs, Held, Placed
<1>3. more = FilesWith(files, f, rec) /\ Either(F, files, more)
  BY DEF Either
<1>4. W = Also(V, k, <<f, Len(more[f])>>) /\ S = Safe(F, files, V, W, listed)
  OBVIOUS
<1>5. f \in Nat
  <2>1. z \in Work({files}, files)
    BY NewRangeKeeps
  <2>2. n \in Nat
    <3>1. h.mem.nextFileId \in Nat /\ h.mem.ranges \in Ranges
      BY DEF Work, Memories
    <3>2. found # 0 => found \in Nat
      BY <3>1, FindsOne, SettledFacts DEF Steady
    <3> QED
      BY <3>1, <3>2
  <2>3. files \in {files}
    OBVIOUS
  <2> HIDE DEF z, n
  <2> QED
    BY <2>1, <2>2, <2>3, LoadedOf, RkdFacts
<1>6. CASE found # 0
  <2>1. z = h /\ n = found
    BY <1>6
  <2>2. f = Loaded(h, n).file
    BY <2>1
  <2> HIDE DEF z, n, f, more, F, W, S
  <2>3. g.disk \in DisksOf(F) /\ Viewed(F, g, S)
    BY <1>1, <1>2, <1>3, <1>4, <1>6, <2>1, <2>2, FoundKept
  <2> QED
    BY <1>1, <1>3, <1>4, <1>5, <2>3 DEF SetsKept
<1>7. CASE found = 0
  <2>1. IsOpened(h, k, z) /\ n = h.mem.nextFileId
    BY <1>7 DEF IsOpened
  <2>2. f = Loaded(z, n).file
    OBVIOUS
  <2> HIDE DEF z, n, f, more, F, W, S
  <2>3. g.disk \in DisksOf(F) /\ Viewed(F, g, S)
    BY <1>1, <1>2, <1>3, <1>4, <1>7, <2>1, <2>2, OpenedKept
  <2> QED
    BY <1>1, <1>3, <1>4, <1>5, <2>3 DEF SetsKept
<1> QED
  BY <1>6, <1>7

LEMMA TSetStep ==
  ASSUME TInv, CInv', NEW k \in Key, NEW packed \in BOOLEAN, NEW flush \in BOOLEAN, Set(k, packed, flush)
  PROVE  TInv' /\ StepLosesNone
<1> DEFINE files  == disk.files
           rec    == [key |-> k, packed |-> packed]
           g      == SetOp(Area, k, packed, flush)
           listed == AllListed(disk)
           V      == [j \in Key |-> {Read(Reopened(disk), j), want[j]}]
<1>1. CASE ~sound'
  BY <1>1, UnsoundTells
<1>2. CASE sound'
  <2>1. /\ Finish(g) /\ mem.isOpen /\ sound /\ NotesRecord(k)
        /\ ~g.clash /\ ~Overlap(g.mem.ranges)
    BY <1>2 DEF Set, Finish
  <2>2. IInv /\ RInv /\ Fine(Area) /\ Peopled(Area)
    BY <2>1 DEF TInv, CInv, RInv
  <2>3. files \in Files /\ want \in [Key -> {NoRecord} \cup (Nat \X (1 .. MaxWrites))]
    BY <2>2 DEF IInv
  <2>4. 0 < MaxWrites /\ \A x \in DOMAIN files : Len(files[x]) < MaxWrites
    BY <2>2, SetRoom
  <2>5. /\ Area \in Work({files}, files) /\ Steady(Area)
        /\ \A j \in Key : Read(Area, j) = want[j]
    BY <2>1, <2>2, NowSteady
  <2>6. Area.trace = <<>> /\ Area.disk = disk /\ Area.mem = mem
    BY DEF Area
  <2>7. disk.split = <<>> /\ disk.meta = mem.ranges /\ mem.ranges \in Ranges
    BY <2>5, <2>6, SettledFacts DEF Steady, Settled
  <2>8. \A j \in Key : Read(Area, j) \in V[j] /\ Read(Reopened(Area.disk), j) \in V[j]
    BY <2>5, <2>6
  <2>9. Naming(listed, DOMAIN Area.disk.rkds, Area.mem.ranges)
    <3>1. listed => \A m \in DOMAIN disk.rkds : \E r \in RangeSet(mem.ranges) : r.name = m
      BY <2>7 DEF AllListed, RangeSet
    <3> QED
      BY <2>6, <3>1 DEF Naming
  <2>10. SetsKept(files, rec, V, listed, g)
    <3> HIDE DEF V, listed
    <3> QED
      BY <2>1, <2>2, <2>3, <2>4, <2>5, <2>6, <2>8, <2>9, SetKept
  <2> HIDE DEF g
  <2>11. PICK f, more, F, W, S :
           /\ f \in Nat /\ more = FilesWith(files, f, rec) /\ Either(F, files, more)
           /\ W = Also(V, rec.key, <<f, Len(more[f])>>) /\ S = Safe(F, files, V, W, listed)
           /\ g.disk \in DisksOf(F) /\ Viewed(F, g, S)
    <3> HIDE DEF V, listed, rec
    <3> QED
      BY <2>10 DEF SetsKept
  <2>12. rec \in Record /\ rec.key = k
    BY DEF Record
  <2> HIDE DEF rec, V, listed
  <2>13. /\ f \in DOMAIN more /\ (f \in DOMAIN files => more[f] # files[f])
         /\ \A x \in DOMAIN more : x # f => x \in DOMAIN files /\ more[x] = files[x]
    <3>1. files \in Files /\ f \in Nat /\ more = FilesWith(files, f, rec)
      BY <2>3, <2>11
    <3> HIDE DEF files
    <3> QED
      BY <2>4, <2>12, <3>1, FilesGrow
  <2>14. TInv' /\ Tells(V, W, listed)
    <3>1. PICK v : /\ Keeps(g, v, S) /\ Holding(F, v, S) /\ v.over = RangeSet(g.mem.ranges)
                   /\ RangeSet(v.meta) \subseteq v.over
      BY <2>11 DEF Viewed
    <3> QED
      BY <1>2, <2>1, <2>11, <3>1, KeptTells
  <2>15. disk'.files = files \/ disk'.files = more
    <3>1. disk' \in DisksOf(F)
      <4>1. CASE disk' = g.disk
        BY <2>11, <4>1
      <4>2. ASSUME NEW i \in DOMAIN g.trace, disk' = g.trace[i]
            PROVE  disk' \in DisksOf(F)
        BY <2>11, <4>2 DEF Viewed, Keeps, Safe
      <4> QED
        BY <2>1, <4>1, <4>2 DEF Finish
    <3> QED
      BY <2>11, <3>1 DEF DisksOf, Disks, Either
  <2>16. \A j \in Key : (IF disk'.files = disk.files THEN V[j] ELSE W[j]) \subseteq Old[j]
    <3>1. \A j \in Key : V[j] = {Read(Reopened(disk), j), want[j]}
      BY DEF V
    <3>2. \A j \in Key : V[j] \subseteq Old[j]
      BY <2>1, <3>1 DEF Old
    <3>3. CASE disk'.files = files
      BY <3>2, <3>3
    <3>4. CASE disk'.files # files
      <4>1. disk'.files = more
        BY <2>15, <3>4
      <4>2. want' = [want EXCEPT ![k] = <<f, Len(more[f])>>]
        BY <2>1, <2>13, <4>1, NoteIs
      <4>3. want'[k] = <<f, Len(more[f])>>
        BY <2>3, <4>2
      <4>4. \A j \in Key : W[j] = V[j] \cup (IF j = k THEN {<<f, Len(more[f])>>} ELSE {})
        BY <2>11, <2>12 DEF Also
      <4>5. ASSUME NEW j \in Key
            PROVE  W[j] \subseteq Old[j]
        <5>1. <<f, Len(more[f])>> \in Old[k]
          BY <2>1, <4>3 DEF Old
        <5> QED
          BY <3>2, <4>4, <5>1
      <4> QED
        BY <3>4, <4>5
    <3> QED
      BY <3>3, <3>4
  <2>17. listed \/ (disk.split = <<>> /\ ~AllListed(disk))
    BY <2>7 DEF listed
  <2> QED
    BY <2>14, <2>16, <2>17, TellsNone
<1> QED
  BY <1>1, <1>2

-----------------------------------------------------------------------------
(* Every step.                                                               *)

LEMMA TInitHolds == Init => TInv
<1> SUFFICES ASSUME Init
             PROVE  TInv
  OBVIOUS
<1>1. CInv
  BY CInitHolds
<1>2. disk.rkds = <<>> /\ disk.meta = <<>> /\ ~mem.isOpen
  BY DEF Init, EmptyDisk, Closed
<1>3. Snug(disk)
  BY <1>2 DEF Snug, RangeSet
<1> QED
  BY <1>1, <1>2, <1>3 DEF TInv

LEMMA TStepHolds == TInv /\ [Next]_vars => TInv' /\ [StepLosesNone]_vars
<1> SUFFICES ASSUME TInv, [Next]_vars
             PROVE  TInv' /\ (StepLosesNone \/ UNCHANGED vars)
  OBVIOUS
<1>0. CInv'
  BY CStepHolds DEF TInv
<1>1. ASSUME NEW k \in Key, NEW packed \in BOOLEAN, NEW flush \in BOOLEAN, Set(k, packed, flush)
      PROVE  TInv' /\ StepLosesNone
  BY <1>0, <1>1, TSetStep
<1>2. ASSUME NEW k \in Key, Delete(k)
      PROVE  TInv' /\ StepLosesNone
  BY <1>0, <1>2, TDeleteStep
<1>3. ASSUME NEW k \in Key, Get(k)
      PROVE  TInv' /\ StepLosesNone
  BY <1>0, <1>3, TGetStep
<1>4. FlushDirtyRanges => TInv' /\ StepLosesNone
  BY <1>0, TFlushStep
<1>5. Close => TInv' /\ StepLosesNone
  BY <1>0, TCloseStep
<1>6. Crash => TInv' /\ StepLosesNone
  BY <1>0, TCrashStep
<1>7. Open => TInv' /\ StepLosesNone
  BY <1>0, TOpenStep
<1>8. OpenAndRecover => TInv' /\ StepLosesNone
  BY <1>0, TOpenAndRecoverStep
<1>9. ASSUME UNCHANGED vars
      PROVE  TInv'
  <2>1. Area' = Area /\ sound' = sound /\ mem' = mem /\ disk' = disk
    BY <1>9 DEF vars, Area
  <2> HIDE DEF Area
  <2> QED
    BY <1>0, <2>1 DEF TInv
<1> QED
  BY <1>1, <1>2, <1>3, <1>4, <1>5, <1>6, <1>7, <1>8, <1>9 DEF Next

\* At no write of a set with its splits and evictions, a flush, a close, an open or a recovery is
\* barrel1 without a key that it had, whenever the process dies: what the next open finds of a key
\* is what the last one would have found, or what the last call made of it; or, after an open with
\* recovery, whole or cut short, the last legible record of the key.
THEOREM SavedKeysStay == Spec => NoStepLosesSavedKeys
<1> DEFINE P == StepLosesNone
<1>1. TInv /\ [Next]_vars => [P]_vars
  BY TStepHolds
<1>2. TInv /\ [Next]_vars => TInv'
  BY TStepHolds
<1> QED
  BY <1>1, <1>2, TInitHolds, PTL DEF Spec, NoStepLosesSavedKeys, P, StepLosesNone

LEMMA RecoveryFinds ==
  ASSUME RInv, OpenAndRecover, mem'.isOpen, sound', NEW k \in Key
  PROVE  want'[k] \in IF LastLegible(k) = {} THEN {Durable(disk)[k]} ELSE LastLegible(k)
<1> DEFINE files == disk.files
           F == {files}
           h == Reopened(disk)
<1>1. files \in Files /\ disk \in Disks(files) /\ sound
  BY DEF RInv, IInv, OpenAndRecover, OpenAs, Finish
<1>2. Durable(disk)[k] = Read(h, k)
  BY DEF Durable
<1>3. PICK z, st : OpenAs(z) /\ RecoveryDone(z, st)
  BY RecoveryRescues
<1>4. files \in F
  OBVIOUS
<1>5. DiskOK(disk)
  BY <1>1 DEF RInv
<1>6. h \in Work(F, files) /\ Clean(h)
  <2>1. h \in Work(F, files)
    BY <1>1, <1>4, ReopenedOf
  <2>2. Clean(h)
    BY <1>1, <1>5, ReopenedClean
  <2> QED
    BY <2>1, <2>2
<1>7. /\ st = RecoveryMap(h) /\ ~st.area.clash /\ st.map \in Maps(files) /\ z \in Work(F, files)
      /\ Settled(h) /\ Scans(h, st, files) /\ ScanOK(st.area, st.map)
      /\ Rescued(st.area, st.map, z)
  BY <1>3 DEF RecoveryDone
<1>8. ~z.clash /\ ~Overlap(z.mem.ranges) /\ want'[k] = Read(z, k)
  BY <1>3 DEF OpenAs, Finish
<1> HIDE DEF h, F
<1>9. st.area \in Work(F, files) /\ Sits(h, st)
  <2> HIDE DEF files
  <2> QED
    BY <1>1, <1>4, <1>6, <1>7, RecoveryMapKeeps, ScanSits
<1>10. files = disk.files
  OBVIOUS
<1> HIDE DEF files
<1> QED
  BY <1>1, <1>2, <1>4, <1>6, <1>7, <1>8, <1>9, <1>10, RecoveryReads

\* An open with recovery leaves every key with the last of its uncompressed records in barrel2,
\* also a key whose entry was lost with the memory; a key that has none it leaves alone.
THEOREM RecoveriesFindAll == Spec => RecoveryFindsEveryKey
<1> DEFINE P == OpenAndRecover /\ mem'.isOpen /\ sound' =>
                  LET old == Durable(disk)
                  IN  \A k \in Key :
                        want'[k] \in IF LastLegible(k) = {} THEN {old[k]} ELSE LastLegible(k)
<1>1. RInv => P
  BY RecoveryFinds
<1>2. RInv /\ [Next]_vars => [P]_vars
  BY <1>1
<1> QED
  BY <1>2, RInitHolds, RStepHolds, PTL DEF Spec, RecoveryFindsEveryKey, P

=============================================================================
