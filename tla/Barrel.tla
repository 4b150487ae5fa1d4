------------------------------- MODULE Barrel -------------------------------
(***************************************************************************)
(* A barrel in hash or critbit mode used by one thread: an append-only data *)
(* file, the in-memory index that points into it, and the rebuild of the   *)
(* index when the file is opened again.  The file has never been compacted, *)
(* so it has no hint file (module Compaction has them).                    *)
(*                                                                         *)
(* A position is the ordinal of an item in the file, after the header.  An *)
(* item is a record or Torn, the front part of a record whose append was   *)
(* cut short inside its value; the record format is abstracted.            *)
(***************************************************************************)
EXTENDS Naturals, Sequences

CONSTANTS
  Key,
  Val,         \* non-empty values
  NoVal,       \* the empty string: what get returns for "not found"
  Torn,
  MaxTtl,      \* bound on the TTLs a caller may pass, in seconds; 0: no expiration
  MaxLog,      \* bound on the items of the data file
  MaxClock     \* bound on the clock, in seconds

ASSUME ValAssumption  == NoVal \notin Val
ASSUME BoundAssumption == MaxTtl \in Nat /\ MaxLog \in Nat /\ MaxClock \in Nat

Ttls  == 0 .. MaxTtl
Times == 0 .. MaxClock + MaxTtl

(* A tombstone is a record with the empty value.  exp = 0: no expiration.   *)
Record == [key : Key, val : Val \cup {NoVal}, exp : Times]

ASSUME TornAssumption == Torn \notin Record

VARIABLES
  log,      \* items of the data file
  index,    \* [Key -> position], 0 when the key is not in the index
  isOpen,
  clock

vars == <<log, index, isOpen, clock>>

NoIndex == [k \in Key |-> 0]

(* encodeTimestamp: a TTL of 0 or less stores no expiration.                *)
ExpiryOf(ttl) == IF ttl = 0 THEN 0 ELSE clock + ttl

IsExpired(exp) == exp # 0 /\ clock >= exp

Tombstone(k) == [key |-> k, val |-> NoVal, exp |-> 0]
Put(k, v, ttl) == [key |-> k, val |-> v, exp |-> ExpiryOf(ttl)]

-----------------------------------------------------------------------------
(* Rebuilding the index.                                                    *)

(* The scan stops at the first torn item.  At the end of the file, the read  *)
(* of its value comes back short.  Anywhere else its checksum differs, the   *)
(* scan tries one byte further on, and finds there a key length made of the  *)
(* upper bytes of the old length and of the first byte of the key, which is *)
(* over the limit (unless that byte is NUL: not modelled).                   *)
Scannable(l, n) ==
  /\ n \in 0 .. Len(l)
  /\ \A i \in 1 .. n : l[i] # Torn
  /\ n < Len(l) => l[n + 1] = Torn
ScanEnd(l) == CHOOSE n \in 0 .. Len(l) : Scannable(l, n)

(* Position p holds the last record of k among the first n items of l; 0    *)
(* when there is none.  A later record overwrites an earlier one.           *)
IsLast(l, n, k, p) ==
  /\ p \in 0 .. n
  /\ p # 0 => l[p].key = k
  /\ \A i \in p + 1 .. n : l[i].key # k
Last(l, n, k) == CHOOSE p \in 0 .. n : IsLast(l, n, k, p)

(* Variants the runs must reject: the first record of a key wins; records   *)
(* with an empty value are skipped, as recovery.nim does.                   *)
RebuildFirstWins(l) ==
  [k \in Key |-> LET P == {p \in 1 .. ScanEnd(l) : l[p].key = k}
                 IN  IF P = {} THEN 0 ELSE CHOOSE p \in P : \A q \in P : p <= q]
RebuildSkipsTombstones(l) ==
  [k \in Key |-> LET P == {p \in 1 .. ScanEnd(l) : l[p].key = k /\ l[p].val # NoVal}
                 IN  IF P = {} THEN 0 ELSE CHOOSE p \in P : \A q \in P : p >= q]

Rebuild(l) == [k \in Key |-> Last(l, ScanEnd(l), k)]

-----------------------------------------------------------------------------
(* Reads.  A key whose latest record is a tombstone stays in the index, with *)
(* a value size of 0.                                                       *)

IndexGet(k) == index[k]
IsDeleted(p) == log[p].val = NoVal

Get(k) ==
  LET p == IndexGet(k)
  IN  IF ~isOpen \/ p = 0 \/ IsDeleted(p) \/ IsExpired(log[p].exp)
      THEN NoVal
      ELSE log[p].val

(* exists() looks at the index alone, so it does not see expiration.        *)
Exists(k) == isOpen /\ IndexGet(k) # 0 /\ ~IsDeleted(IndexGet(k))

-----------------------------------------------------------------------------
(* Writes.  Every one appends a record and then points the index at it.     *)

(* Variants the runs must reject: the position of the next record, or the   *)
(* end of the scan, is taken for the end of the file.                       *)
AppendPastEnd(rec) ==
  /\ log' = Append(log, rec)
  /\ index' = [index EXCEPT ![rec.key] = Len(log) + 2]
AppendAtScanEnd(rec) ==
  /\ log' = Append(log, rec)
  /\ index' = [index EXCEPT ![rec.key] = ScanEnd(log) + 1]

AppendAndIndex(rec) ==
  /\ log' = Append(log, rec)
  /\ index' = [index EXCEPT ![rec.key] = Len(log) + 1]

CanAppend == isOpen /\ Len(log) < MaxLog

Set(k, v, ttl) ==
  /\ CanAppend
  /\ AppendAndIndex(Put(k, v, ttl))
  /\ UNCHANGED <<isOpen, clock>>

SetIfNotExists(k, v, ttl) ==
  /\ ~Exists(k)
  /\ Set(k, v, ttl)

SetIfExists(k, v, ttl) ==
  /\ Exists(k)
  /\ Set(k, v, ttl)

(* A variant the runs must reject: the key leaves the index, no tombstone is *)
(* written.                                                                 *)
DeleteFromIndexOnly(k) ==
  /\ isOpen
  /\ index' = [index EXCEPT ![k] = 0]
  /\ UNCHANGED <<log, isOpen, clock>>

Delete(k) ==
  /\ CanAppend
  /\ AppendAndIndex(Tombstone(k))
  /\ UNCHANGED <<isOpen, clock>>

(* setTtl reads the value and writes it again with a new expiration.        *)
SetTtl(k, ttl) ==
  /\ Get(k) # NoVal
  /\ Set(k, Get(k), ttl)

(* clear() empties the index and leaves the data file as it is.             *)
Clear ==
  /\ isOpen
  /\ index' = NoIndex
  /\ UNCHANGED <<log, isOpen, clock>>

-----------------------------------------------------------------------------
(* Life cycle.                                                              *)

(* close(), and a crash between two operations: appendRecord flushes the     *)
(* file before it returns, so both leave the same file behind.              *)
Close ==
  /\ isOpen
  /\ isOpen' = FALSE
  /\ index' = NoIndex
  /\ UNCHANGED <<log, clock>>

(* The process dies while appendRecord writes: part of a record is on disk. *)
CrashInAppend ==
  /\ CanAppend
  /\ log' = Append(log, Torn)
  /\ isOpen' = FALSE
  /\ index' = NoIndex
  /\ UNCHANGED clock

(* openBarrel positions the file at its end, torn tail included, and builds *)
(* the index from the file.                                                 *)
Open ==
  /\ ~isOpen
  /\ isOpen' = TRUE
  /\ index' = Rebuild(log)
  /\ UNCHANGED <<log, clock>>

Tick ==
  /\ clock < MaxClock
  /\ clock' = clock + 1
  /\ UNCHANGED <<log, index, isOpen>>

Init ==
  /\ log = <<>>
  /\ index = NoIndex
  /\ isOpen = FALSE
  /\ clock = 0

Next ==
  \/ \E k \in Key, v \in Val, ttl \in Ttls :
       Set(k, v, ttl) \/ SetIfNotExists(k, v, ttl) \/ SetIfExists(k, v, ttl)
  \/ \E k \in Key : Delete(k)
  \/ \E k \in Key, ttl \in Ttls : SetTtl(k, ttl)
  \/ Clear
  \/ Close
  \/ CrashInAppend
  \/ Open
  \/ Tick

Spec == Init /\ [][Next]_vars

-----------------------------------------------------------------------------
(* Properties.                                                              *)

Intact == \A i \in DOMAIN log : log[i] # Torn

TypeOK ==
  /\ log \in Seq(Record \cup {Torn})
  /\ index \in [Key -> 0 .. Len(log)]
  /\ isOpen \in BOOLEAN
  /\ clock \in 0 .. MaxClock

(* Whatever was cleared, torn or reopened, an index entry leads to a whole   *)
(* record of its own key, so readRecord never returns another key's value   *)
(* or half a record.                                                        *)
EntryPointsAtItsKey ==
  \A k \in Key :
    index[k] # 0 => /\ log[index[k]] # Torn
                    /\ log[index[k]].key = k

(* While no append was cut short, losing the index loses nothing: the index *)
(* a restart would rebuild has every entry the running one has, at the same *)
(* position.                                                                *)
RestartLosesNothing ==
  Intact => \A k \in Key : index[k] # 0 => Rebuild(log)[k] = index[k]

(* A key whose last record is a tombstone or has expired cannot be read     *)
(* again, in this session or after any number of restarts, until somebody   *)
(* writes it.                                                               *)
Dead(k) ==
  LET p == Last(log, Len(log), k)
  IN  p # 0 /\ (log[p].val = NoVal \/ IsExpired(log[p].exp))
Appended(k) ==
  /\ Len(log') > Len(log)
  /\ log'[Len(log')] # Torn
  /\ log'[Len(log')].key = k
DeadKeysStayDead ==
  [][\A k \in Key : Intact /\ Dead(k) /\ ~Appended(k) => Get(k)' = NoVal]_vars

(* The abstract store: a barrel implements it, reads through the index and   *)
(* finds after a restart what the rebuild finds.                            *)
Entries == [val : Val, exp : Times]
AbsentEntry == NoVal
EntryAt(l, p) ==
  IF p = 0 \/ l[p].val = NoVal
  THEN AbsentEntry
  ELSE [val |-> l[p].val, exp |-> l[p].exp]

DurableContents == [k \in Key |-> EntryAt(log, Rebuild(log)[k])]
VisibleContents ==
  IF isOpen THEN [k \in Key |-> EntryAt(log, index[k])] ELSE DurableContents

KV == INSTANCE KVStore WITH
  Entry   <- Entries,
  Absent  <- AbsentEntry,
  visible <- VisibleContents,
  durable <- DurableContents,
  intact  <- Intact

(* Every step of the barrel is a step of the abstract store or leaves it as *)
(* it is: what a caller may rely on from set, delete, setTtl, clear, close,  *)
(* a crash and openBarrel together.                                         *)
ImplementsKVStore == KV!Spec

=============================================================================
