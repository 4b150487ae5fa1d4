----------------------------- MODULE HugeBarrel -----------------------------
(***************************************************************************)
(* HugeBarrel, the two-tier store: barrel1 holds one RangeKeyDir (the index *)
(* of one range of keys) per range and the list of ranges; barrel2 holds    *)
(* the data files.  RangeKeyDirs are cached in memory, written back late,   *)
(* and split in two when they have too many entries; an open puts together  *)
(* again what a crash left half done.                                      *)
(*                                                                         *)
(* A call is one step: the model has one thread at a time work on a          *)
(* HugeBarrel, which the code leaves to its callers (it has no lock, and the *)
(* server's threads call it without one).  A call makes several durable      *)
(* writes, and the process may die after each of them.  An operation is      *)
(* therefore a function from a work area (memory, disk, the disks it went    *)
(* through) to a work area, and a step takes its end result or dies on one   *)
(* of those disks.                                                          *)
(*                                                                         *)
(* Keys are numbers, ordered as the strings are; 0 is the empty string,     *)
(* which as a bound of a range means that there is none.  A record stands   *)
(* for its value: <<file, position>>.                                      *)
(***************************************************************************)
EXTENDS Naturals, Sequences, SequencesExt, FiniteSets, FiniteSetsExt, Functions

CONSTANTS
  MaxKey,              \* the keys are 1 .. MaxKey
  MaxEntriesPerRange,  \* hugeConfig.maxEntriesPerRange
  RangeCacheSize,      \* hugeConfig.rangeCacheSize
  RangesPerFile,       \* hugeConfig.rangesPerFile
  Recovery,            \* the values of hugeConfig.enableBarrel2Recovery at an open
  MaxWrites,           \* bound on the records appended
  MaxPacked,           \* bound on those with a compressed value (256 bytes or more)
  MaxOpens             \* bound on the times the barrel is opened

ASSUME BoundAssumption ==
  /\ {MaxKey, MaxEntriesPerRange, RangeCacheSize, RangesPerFile} \subseteq Nat \ {0}
  /\ MaxWrites \in Nat /\ MaxPacked \in Nat /\ MaxOpens \in Nat
  /\ Recovery \subseteq BOOLEAN

Key      == 1 .. MaxKey
NoKey    == 0
NoRecord == <<>>

VARIABLES
  disk,    \* barrel1 (rkds, meta, split) and barrel2 (files)
  mem,     \* the HugeBarrel object
  opens,
  want,    \* [Key -> record], what the last write, or the open, made of the key
  sound    \* ranges never overlapped, and no range took the name of another one

vars == <<disk, mem, opens, want, sound>>

(* A table with one more entry, or with another one in its place.            *)
Put(f, x, v) == [y \in DOMAIN f \cup {x} |-> IF y = x THEN v ELSE f[y]]

-----------------------------------------------------------------------------
(* RangeKeyDir: a sorted array and the inserts that wait to be merged in.    *)

NewRkd(min, max, file) ==
  [min |-> min, max |-> max, file |-> file, entries |-> <<>>,
   sorted |-> {}, pending |-> {}, dirty |-> FALSE, data |-> FALSE]

(* The entry of a record; the first operator is a variant the runs must      *)
(* reject, which leaves the file id at its default.                         *)
EntryOfNoFile(file, pos) == [file |-> 0, pos |-> pos, del |-> FALSE]
EntryOf(file, pos) == [file |-> file, pos |-> pos, del |-> FALSE]

Inserted(rkd, k, entry) ==
  [rkd EXCEPT !.entries = Put(@, k, entry),
              !.pending = @ \cup {k},
              !.dirty   = TRUE,
              !.min = IF @ = NoKey \/ k < @ THEN k ELSE @,
              !.max = IF @ = NoKey \/ k > @ THEN k ELSE @]

Flushed(rkd) ==
  IF rkd.pending = {} THEN rkd
  ELSE [rkd EXCEPT !.sorted = @ \cup rkd.pending, !.pending = {},
                   !.dirty = FALSE, !.data = TRUE]

TotalLen(rkd) == Cardinality(rkd.sorted) + Cardinality(rkd.pending)

(* The blob: when nothing is pending the data is reused and only a header is *)
(* written into it, which leaves the assigned file out.                     *)
Serialized(rkd) ==
  [min |-> rkd.min, max |-> rkd.max, entries |-> rkd.entries,
   file |-> IF rkd.pending = {} /\ rkd.data THEN 0 ELSE rkd.file]

Deserialized(blob) ==
  [min |-> blob.min, max |-> blob.max, file |-> blob.file, entries |-> blob.entries,
   sorted |-> DOMAIN blob.entries, pending |-> {}, dirty |-> FALSE, data |-> TRUE]

-----------------------------------------------------------------------------
(* The list of ranges.                                                      *)

(* The members of a set of numbers in order; what a sequence has at some of   *)
(* its positions.                                                           *)
Ascending(S) == MapThenFoldSet(LAMBDA n, q : Append(q, n), <<>>, LAMBDA n : n, Max, S)
At(s, I) == LET q == Ascending(I) IN [j \in DOMAIN q |-> s[q[j]]]

Bounds(min, max, name) == [min |-> min, max |-> max, name |-> name]

(* ranges.add, ranges.sort by minKey, which is stable.  The first operator,   *)
(* a variant the runs must reject, leaves out the sort.                     *)
Unsorted(ranges, r) == Append(ranges, r)
WithRange(ranges, r) ==
  At(ranges, {i \in DOMAIN ranges : ranges[i].min <= r.min}) \o <<r>> \o
  At(ranges, {i \in DOMAIN ranges : ranges[i].min > r.min})
Without(ranges, name) == At(ranges, {i \in DOMAIN ranges : ranges[i].name # name})

Covers(r, k) == r.min = NoKey \/ (r.min <= k /\ (r.max = NoKey \/ k <= r.max))

(* findRangeForKey: binary search, 0 when no range holds the key.            *)
FindRange(ranges, k) ==
  LET n == Len(ranges)
      search[ends \in (1 .. n + 1) \X (0 .. n)] ==
        LET lo  == ends[1]
            hi  == ends[2]
            mid == (lo + hi) \div 2
            r   == ranges[mid]
        IN  IF lo > hi THEN 0
            ELSE IF Covers(r, k) THEN r.name
            ELSE IF k >= r.min THEN search[<<mid + 1, hi>>] ELSE search[<<lo, mid - 1>>]
  IN  search[<<1, n>>]

Overlap(ranges) ==
  \E i, j \in DOMAIN ranges : /\ i < j
                              /\ \E k \in Key : Covers(ranges[i], k) /\ Covers(ranges[j], k)

-----------------------------------------------------------------------------
(* The work area of an operation, and its durable writes.                   *)

Area == [mem |-> mem, disk |-> disk, trace |-> <<>>, clash |-> FALSE]

Write(h, d) == [h EXCEPT !.disk = d, !.trace = Append(@, d)]

PutBlob(h, name, rkd) ==
  Write(h, [h.disk EXCEPT !.rkds = Put(@, name, Serialized(rkd))])
RemoveBlob(h, name) ==
  Write(h, [h.disk EXCEPT !.rkds = [n \in DOMAIN @ \ {name} |-> @[n]]])
SaveRangeMetadata(h) == Write(h, [h.disk EXCEPT !.meta = h.mem.ranges])

(* A range key and a file id come from the same counter.                    *)
Fresh(h) == [h EXCEPT !.mem.nextFileId = @ + 1,
                      !.clash = @ \/ h.mem.nextFileId \in DOMAIN h.disk.rkds]

(* rangeKeyCache: the table and its LRU list as one sequence, oldest first.  *)
Cached(h, name)   == \E i \in DOMAIN h.mem.cache : h.mem.cache[i].name = name
CacheOf(h, name)  == (CHOOSE c \in ToSet(h.mem.cache) : c.name = name).rkd
CacheDel(h, name) == [h EXCEPT !.mem.cache = Without(@, name)]

(* Make room for one: the oldest goes, and is written if it is dirty.  The   *)
(* first operator is a variant the runs must reject.                        *)
EvictedUnsaved(h) ==
  IF Len(h.mem.cache) < RangeCacheSize THEN h ELSE [h EXCEPT !.mem.cache = Tail(@)]
Evicted(h) ==
  IF Len(h.mem.cache) < RangeCacheSize THEN h
  ELSE LET old == Head(h.mem.cache)
           g   == [h EXCEPT !.mem.cache = Tail(@)]
       IN  IF old.rkd.dirty THEN PutBlob(g, old.name, old.rkd) ELSE g

(* In place when it is there, else after making room.                        *)
CachePut(h, name, rkd) ==
  LET g == IF Cached(h, name) THEN CacheDel(h, name) ELSE Evicted(h)
  IN  [g EXCEPT !.mem.cache = Append(@, [name |-> name, rkd |-> rkd])]

(* loadRangeKeyDir: what is cached, what barrel1 has, or an empty one that   *)
(* is in neither.                                                          *)
Loaded(h, name) ==
  IF Cached(h, name) THEN CacheOf(h, name)
  ELSE IF name \in DOMAIN h.disk.rkds THEN Deserialized(h.disk.rkds[name])
  ELSE NewRkd(NoKey, NoKey, 0)
Load(h, name) ==
  IF Cached(h, name) \/ name \in DOMAIN h.disk.rkds
  THEN CachePut(h, name, Loaded(h, name)) ELSE h

SaveRangeKeyDir(h, name, rkd) ==
  CachePut(PutBlob(h, name, rkd), name, [rkd EXCEPT !.dirty = FALSE])

-----------------------------------------------------------------------------
(* set                                                                      *)

AssignRangeToFile(h) ==
  LET full == h.mem.assigned >= RangesPerFile
      g    == IF full THEN [Fresh(h) EXCEPT !.clash = h.clash,
                                            !.mem.assignmentFile = h.mem.nextFileId]
              ELSE h
  IN  [g EXCEPT !.mem.assigned = IF full THEN 1 ELSE @ + 1]

(* A key in no range: a new range from that key on, without an upper bound.  *)
NewRange(h, k) ==
  LET name == h.mem.nextFileId
      g    == AssignRangeToFile(Fresh(h))
      s    == SaveRangeKeyDir(g, name, NewRkd(k, NoKey, g.mem.assignmentFile))
  IN  SaveRangeMetadata([s EXCEPT !.mem.ranges = WithRange(@, Bounds(k, NoKey, name))])

LowerHalf(K) ==
  CHOOSE L \in SUBSET K : /\ Cardinality(L) = Cardinality(K) \div 2
                          /\ \A a \in L, b \in K \ L : a < b

Part(rkd, K) ==
  [NewRkd(Min(K), Max(K), rkd.file) EXCEPT
     !.entries = [k \in K |-> rkd.entries[k]], !.pending = K]

(* splitRangeAtomic: a marker, the two halves, the list of ranges, where the *)
(* upper half is unbounded whatever the old range was; then the old range    *)
(* and the marker go.                                                       *)
SplitRangeAtomic(h, name) ==
  LET g     == Load(h, name)
      rkd   == Loaded(h, name)
      K     == DOMAIN rkd.entries
      low   == LowerHalf(K)
      left  == h.mem.nextFileId
      right == left + 1
      g1 == Fresh(Fresh(g))
      g2 == Write(g1, [g1.disk EXCEPT !.split = <<name, left, right>>])
      g3 == SaveRangeKeyDir(g2, left, Part(rkd, low))
      g4 == SaveRangeKeyDir(g3, right, Part(rkd, K \ low))
      rs == WithRange(WithRange(Without(g4.mem.ranges, name),
                                Bounds(Min(low), Max(low), left)),
                      Bounds(Min(K \ low), NoKey, right))
      g5 == SaveRangeMetadata([g4 EXCEPT !.mem.ranges = rs])
      g6 == RemoveBlob(g5, name)
      g7 == CacheDel(Write(g6, [g6.disk EXCEPT !.split = <<>>]), name)
  IN  IF Cardinality(K) < 2 THEN g
      ELSE CachePut(CachePut(g7, left, Part(rkd, low)), right, Part(rkd, K \ low))

Appended(h, file, rec) ==
  Write(h, [h.disk EXCEPT !.files =
    Put(@, file, Append(IF file \in DOMAIN @ THEN @[file] ELSE <<>>, rec))])

(* flush: the buffer is full or its time has come.                          *)
SetOp(h, k, packed, flush) ==
  LET found == FindRange(h.mem.ranges, k)
      name  == IF found = 0 THEN h.mem.nextFileId ELSE found
      g0    == IF found = 0 THEN NewRange(h, k) ELSE h
      g     == Load(g0, name)
      file  == Loaded(g0, name).file
      w     == Appended(g, file, [key |-> k, packed |-> packed])
      rkd   == Inserted(Loaded(g0, name), k, EntryOf(file, Len(w.disk.files[file])))
      split == TotalLen(rkd) > MaxEntriesPerRange
      saved == SaveRangeKeyDir(w, name, Flushed(rkd))
  IN  IF split THEN SplitRangeAtomic(CacheDel(saved, name), name)
      ELSE IF flush THEN saved
      ELSE CachePut(w, name, rkd)

-----------------------------------------------------------------------------
(* delete, get, flushDirtyRanges, close                                     *)

Entry(h, k) ==
  LET name == FindRange(h.mem.ranges, k)
      rkd  == Loaded(h, name)
  IN  IF name # 0 /\ k \in DOMAIN rkd.entries THEN rkd.entries[k]
      ELSE [EntryOf(0, 0) EXCEPT !.del = TRUE]

(* What get answers: the record, or none.                                   *)
Read(h, k) ==
  LET e == Entry(h, k) IN IF e.del THEN NoRecord ELSE <<e.file, e.pos>>

GetOp(h, k) ==
  LET name == FindRange(h.mem.ranges, k) IN IF name = 0 THEN h ELSE Load(h, name)

DeleteOp(h, k) ==
  LET name == FindRange(h.mem.ranges, k)
      g    == Load(h, name)
      rkd  == Loaded(h, name)
  IN  IF name = 0 THEN h
      ELSE IF k \notin DOMAIN rkd.entries THEN g
      ELSE SaveRangeKeyDir(g, name,
             Flushed(Inserted(rkd, k, [rkd.entries[k] EXCEPT !.del = TRUE])))

FlushOp(h) ==
  LET flushOne(g, r) ==
        LET rkd == Loaded(g, r.name) IN
        IF rkd.dirty THEN SaveRangeKeyDir(Load(g, r.name), r.name, Flushed(rkd))
        ELSE Load(g, r.name)
  IN  FoldLeft(flushOne, h, h.mem.ranges)

(* close: a variant the runs must reject saves the list of ranges only.      *)
CloseOpMetadata(h) == SaveRangeMetadata(h)
CloseOp(h) ==
  LET g          == FlushOp(h)
      save(a, c) == PutBlob(a, c.name, c.rkd)
  IN  SaveRangeMetadata(FoldLeft(save, g, g.mem.cache))

-----------------------------------------------------------------------------
(* openHugeBarrel: every open counts from 2 again.                          *)

Closed == [isOpen |-> FALSE, ranges |-> <<>>, cache |-> <<>>,
           nextFileId |-> 0, assignmentFile |-> 0, assigned |-> 0]
Opening(d) ==
  [mem   |-> [Closed EXCEPT !.isOpen = TRUE, !.nextFileId = 2, !.assignmentFile = 1],
   disk  |-> d, trace |-> <<>>, clash |-> FALSE]

CreateInitialRange(h) ==
  LET g == SaveRangeKeyDir(h, 1, NewRkd(NoKey, NoKey, 0))
  IN  SaveRangeMetadata([g EXCEPT !.mem.ranges = <<Bounds(NoKey, NoKey, 1)>>])

(* rebuildRangesFromBarrel1: the bounds come from the RangeKeyDirs, where    *)
(* they are those of the entries.                                           *)
RebuildRanges(h) ==
  LET add(rs, n) == WithRange(rs, Bounds(h.disk.rkds[n].min, h.disk.rkds[n].max, n))
      rs         == FoldLeft(add, <<>>, Ascending(DOMAIN h.disk.rkds))
  IN  SaveRangeMetadata([h EXCEPT !.mem.ranges = rs])

(* recoverPendingSplit: the old range goes when both halves are there.  The  *)
(* first operator is a variant the runs must reject.                        *)
SplitCompleteLeft(d) == d.split[2] \in DOMAIN d.rkds
SplitComplete(d) == {d.split[2], d.split[3]} \subseteq DOMAIN d.rkds
RecoverPendingSplit(h) ==
  LET old == h.disk.split[1]
      g   == IF SplitComplete(h.disk) /\ old \in DOMAIN h.disk.rkds
             THEN RemoveBlob(h, old) ELSE h
      r   == RebuildRanges(g)
  IN  IF h.disk.split = <<>> THEN h ELSE Write(r, [r.disk EXCEPT !.split = <<>>])

(* Barrel1 is read and put in order; barrel2 is not looked at.               *)
Reopened(d) ==
  LET h == Opening(d)
      g == [h EXCEPT !.mem.ranges = d.meta]
  IN  IF d.meta = <<>> /\ d.split = <<>> /\ DOMAIN d.rkds = {} THEN CreateInitialRange(h)
      ELSE RecoverPendingSplit(IF d.meta = <<>> THEN RebuildRanges(h) ELSE g)

(* The records of all files, by file id.  A compressed one fails its checksum *)
(* (four of its bytes are not counted) and the scan goes on to the next.  The *)
(* third operator is a variant the runs must reject: 0 is taken for "no id".  *)
RecordsIn(files, f) ==
  At([p \in DOMAIN files[f] |-> [key |-> files[f][p].key, file |-> f, pos |-> p]],
     {p \in DOMAIN files[f] : ~files[f][p].packed})
Records(files, ids) ==
  FoldLeft(LAMBDA s, f : s \o RecordsIn(files, f), <<>>, Ascending(ids))
ScannedFromOne(files) == Records(files, DOMAIN files \ {0})
Scanned(files) == Records(files, DOMAIN files)

(* The scan of rebuildFromBarrel2: which entries go to which range.  A key   *)
(* in no range gets a range of its own; later records replace earlier ones. *)
ScanStep(st, r) ==
  LET found == FindRange(st.area.mem.ranges, r.key)
      name  == IF found = 0 THEN st.area.mem.nextFileId ELSE found
      g     == IF found # 0 THEN st.area
               ELSE [Fresh(st.area) EXCEPT
                       !.mem.ranges = WithRange(@, Bounds(r.key, r.key, name))]
      old   == IF name \in DOMAIN st.map THEN st.map[name] ELSE <<>>
  IN  [area |-> Load(g, name),
       map  |-> Put(st.map, name, Put(old, r.key, EntryOf(r.file, r.pos)))]
RecoveryMap(h) == FoldLeft(ScanStep, [area |-> h, map |-> <<>>], Scanned(h.disk.files))

(* rebuildFromBarrel2: what the scan found goes into the RangeKeyDirs, over  *)
(* what they have, in the order of a hash table.                            *)
Merged(h, found, name) ==
  FoldLeft(LAMBDA rkd, k : Inserted(rkd, k, found[k]),
           Loaded(h, name), Ascending(DOMAIN found))
RecoverRange(h, found, name) ==
  SaveRangeKeyDir(Load(h, name), name, Flushed(Merged(h, found, name)))
RebuildFromBarrel2(h, map, order) ==
  IF order = <<>> THEN h
  ELSE SaveRangeMetadata(FoldLeft(LAMBDA g, name : RecoverRange(g, map[name], name), h, order))

-----------------------------------------------------------------------------
(* The steps.                                                               *)

EmptyDisk == [rkds |-> <<>>, meta |-> <<>>, split |-> <<>>, files |-> <<>>]

Init ==
  /\ disk = EmptyDisk /\ mem = Closed /\ opens = 0
  /\ want = [k \in Key |-> NoRecord]
  /\ sound = TRUE

(* The call returns, or the process dies after one of its writes.           *)
Finish(h) ==
  /\ \/ disk' = h.disk /\ mem' = h.mem
     \/ \E i \in DOMAIN h.trace : disk' = h.trace[i] /\ mem' = Closed
  /\ sound' = (sound /\ ~h.clash /\ ~Overlap(h.mem.ranges))

Count(Test(_)) ==
  MapThenFoldSet(LAMBDA m, n : m + n, 0,
                 LAMBDA f : Cardinality({p \in DOMAIN disk.files[f] : Test(disk.files[f][p])}),
                 Max, DOMAIN disk.files)

(* The record a call appended, if it came to that, is what its key has now.  *)
NotesRecord(k) ==
  LET grown == {f \in DOMAIN disk'.files :
                  f \notin DOMAIN disk.files \/ disk'.files[f] # disk.files[f]}
      f     == CHOOSE f \in grown : TRUE
  IN  want' = IF grown = {} THEN want
              ELSE [want EXCEPT ![k] = <<f, Len(disk'.files[f])>>]

Set(k, packed, flush) ==
  /\ mem.isOpen
  /\ Count(LAMBDA rec : TRUE) < MaxWrites
  /\ packed => Count(LAMBDA rec : rec.packed) < MaxPacked
  /\ Finish(SetOp(Area, k, packed, flush))
  /\ NotesRecord(k)
  /\ UNCHANGED opens

Delete(k) ==
  /\ mem.isOpen
  /\ Finish(DeleteOp(Area, k))
  /\ want' = [want EXCEPT ![k] = NoRecord]
  /\ UNCHANGED opens

Get(k) ==
  /\ mem.isOpen
  /\ Finish(GetOp(Area, k))
  /\ UNCHANGED <<opens, want>>

FlushDirtyRanges ==
  /\ mem.isOpen
  /\ Finish(FlushOp(Area))
  /\ UNCHANGED <<opens, want>>

Close ==
  /\ mem.isOpen
  /\ Finish([CloseOp(Area) EXCEPT !.mem = Closed])
  /\ UNCHANGED <<opens, want>>

Crash ==
  /\ mem.isOpen
  /\ mem' = Closed
  /\ UNCHANGED <<disk, opens, want, sound>>

(* want starts anew with what the open found.                               *)
OpenAs(h) ==
  /\ Finish(h)
  /\ want' = [k \in Key |-> Read(h, k)]

Open ==
  /\ ~mem.isOpen /\ opens < MaxOpens
  /\ OpenAs(Reopened(disk))
  /\ opens' = opens + 1

OpenAndRecover ==
  /\ ~mem.isOpen /\ opens < MaxOpens
  /\ LET m == RecoveryMap(Reopened(disk))
     IN  \E order \in SetToSeqs(DOMAIN m.map) :
           OpenAs(RebuildFromBarrel2(m.area, m.map, order))
  /\ opens' = opens + 1

Next ==
  \/ \E k \in Key : \/ \E packed, flush \in BOOLEAN : Set(k, packed, flush)
                    \/ Delete(k) \/ Get(k)
  \/ FlushDirtyRanges \/ Close \/ Crash
  \/ FALSE \in Recovery /\ Open
  \/ TRUE \in Recovery /\ OpenAndRecover

Spec == Init /\ [][Next]_vars

-----------------------------------------------------------------------------
(* Properties.                                                              *)

(* The cache never holds more ranges than it may and none twice, only ranges *)
(* with pending inserts are dirty, and the list of ranges stays sorted.     *)
TypeOK ==
  /\ opens \in 0 .. MaxOpens
  /\ want \in [Key -> {NoRecord} \cup (Nat \X (1 .. MaxWrites))]
  /\ \A f \in DOMAIN disk.files : disk.files[f] \in Seq([key : Key, packed : BOOLEAN])
  /\ Len(mem.cache) <= RangeCacheSize
  /\ IsInjective([i \in DOMAIN mem.cache |-> mem.cache[i].name])
  /\ \A c \in ToSet(mem.cache) : c.rkd.dirty => c.rkd.pending # {}
  /\ \A i, j \in DOMAIN mem.ranges : i <= j => mem.ranges[i].min <= mem.ranges[j].min

(* Whatever splits, evictions, reloads, recoveries and crashes did: an entry *)
(* of barrel1 or of the cache leads to a record of its key (get reads the    *)
(* value there without looking at the key).                                 *)
EntriesPointAtRecords ==
  \A rkd \in {disk.rkds[n] : n \in DOMAIN disk.rkds} \cup {c.rkd : c \in ToSet(mem.cache)} :
    \A k \in DOMAIN rkd.entries :
      LET e == rkd.entries[k] IN
      /\ e.file \in DOMAIN disk.files
      /\ e.pos \in DOMAIN disk.files[e.file]
      /\ disk.files[e.file][e.pos].key = k

(* As long as no two ranges overlap and none took the name of another one,   *)
(* get finds what the last set, delete or open made of the key, through any  *)
(* splits and evictions of its range.                                       *)
ReadsFindTheLastWrite ==
  mem.isOpen /\ sound => \A k \in Key : Read(Area, k) = want[k]

(* What the keys have for an open that does not look at barrel2.             *)
Durable(d) == LET h == Reopened(d) IN [k \in Key |-> Read(h, k)]

(* Barrel1 has no RangeKeyDir that the list of ranges does not name.  An open  *)
(* with recovery that dies leaves such ones behind.                         *)
AllListed(d) == \A n \in DOMAIN d.rkds : \E i \in DOMAIN d.meta : d.meta[i].name = n

(* The record of a key that the scan of an open with recovery meets last: it *)
(* reads the files by their numbers and no compressed record.               *)
Legible(k) ==
  UNION {{<<f, p>> : p \in {p \in DOMAIN disk.files[f] :
                              disk.files[f][p] = [key |-> k, packed |-> FALSE]}} :
           f \in DOMAIN disk.files}
LastLegible(k) ==
  {r \in Legible(k) :
     \A s \in Legible(k) : s[1] < r[1] \/ (s[1] = r[1] /\ s[2] <= r[2])}

(* On the same condition: at no write of a split, a flush, an eviction or a  *)
(* recovery is barrel1 without a key it had, whenever the process dies.  What *)
(* an open barrel changes, it changes to what the last write made of the    *)
(* key; an open with recovery changes a key to its last legible record only. *)
(* This is not said of a split that begins while barrel1 has RangeKeyDirs of *)
(* no range: the open after its death makes ranges of them all, among which  *)
(* it may miss the old one.                                                 *)
NoStepLosesSavedKeys ==
  [][/\ sound' /\ disk' # disk
     /\ disk.split = <<>> /\ disk'.split # <<>> => AllListed(disk)
     => LET old == Durable(disk)
            new == Durable(disk')
        IN  \A k \in Key :
              new[k] \in {old[k]} \cup IF mem.isOpen THEN {want[k], want'[k]}
                                       ELSE LastLegible(k)]_vars

(* After a close barrel1 alone, without recovery, has every key as the open  *)
(* barrel had it.                                                           *)
CloseSavesEverything ==
  [][Close /\ disk' = CloseOp(Area).disk /\ sound'
       => Durable(disk') = want]_vars

(* An open with recovery leaves every key, also one whose entry was lost with *)
(* the memory, with its last legible record; only a key that has none keeps  *)
(* what barrel1 had of it.                                                  *)
RecoveryFindsEveryKey ==
  [][OpenAndRecover /\ mem'.isOpen /\ sound'
       => LET old == Durable(disk)
          IN  \A k \in Key :
                want'[k] \in IF LastLegible(k) = {} THEN {old[k]} ELSE LastLegible(k)]_vars

(* "Always overwrite - later records in scan order are newer"               *)
(* (hugebarrel.nim:1062): a recovery never puts an earlier record of the same *)
(* file in the place of the one barrel1 has of a key.  The code does not keep *)
(* this: its scan passes over a compressed record, and the older one it finds *)
(* of the key overwrites the entry.                                         *)
RecoveryKeepsTheNewest ==
  [][OpenAndRecover /\ mem'.isOpen /\ sound'
       => LET old == Durable(disk)
          IN  \A k \in Key :
                old[k] # NoRecord /\ want'[k] # NoRecord /\ want'[k][1] = old[k][1]
                  => old[k][2] <= want'[k][2]]_vars

=============================================================================
