--------------------------- MODULE Barrel_proofs ---------------------------
(***************************************************************************)
(* Theorems about module Barrel, for every set of keys and values and every *)
(* bound: its type invariant, and the three safety properties that relate   *)
(* the running index to the one a restart would rebuild from the file.     *)
(***************************************************************************)
EXTENDS Barrel, TLAPS

Item == Record \cup {Torn}

-----------------------------------------------------------------------------
(* Lemmas about the scan of a data file.                                    *)

(* A file has at most one end of scan, so ScanEnd is the one we know of.    *)
LEMMA ScanEndIsUnique ==
  ASSUME NEW l \in Seq(Item), NEW n, Scannable(l, n)
  PROVE  ScanEnd(l) = n
<1>1. \A m : Scannable(l, m) => m = n
  BY DEF Scannable
<1>2. n \in 0 .. Len(l)
  BY DEF Scannable
<1> QED
  BY <1>1, <1>2 DEF ScanEnd

(* A key has at most one last position among the first n items.             *)
LEMMA LastIsUnique ==
  ASSUME NEW l \in Seq(Item), NEW n \in 0 .. Len(l), NEW k, NEW p, IsLast(l, n, k, p)
  PROVE  Last(l, n, k) = p
<1>1. \A q : IsLast(l, n, k, q) => q = p
  BY DEF IsLast
<1>2. p \in 0 .. n
  BY DEF IsLast
<1> QED
  BY <1>1, <1>2 DEF Last

(* Without a torn item the scan reads the whole file.                       *)
LEMMA IntactScan ==
  ASSUME NEW l \in Seq(Item), \A i \in DOMAIN l : l[i] # Torn
  PROVE  Scannable(l, Len(l)) /\ ScanEnd(l) = Len(l)
<1>1. Scannable(l, Len(l))
  BY DEF Scannable
<1> QED
  BY <1>1, ScanEndIsUnique

(* With one, the scan stops before it.                                      *)
LEMMA TornScan ==
  ASSUME NEW l \in Seq(Item), NEW n, Scannable(l, n), \E i \in DOMAIN l : l[i] = Torn
  PROVE  n \in 0 .. Len(l) /\ n < Len(l)
BY DEF Scannable

(* What an append does to the end of the scan: a whole record after a whole *)
(* file moves it to the new end, everything else leaves it where it was.    *)
LEMMA AppendToIntact ==
  ASSUME NEW l \in Seq(Item), \A i \in DOMAIN l : l[i] # Torn,
         NEW x \in Item
  PROVE  LET m == IF x = Torn THEN Len(l) ELSE Len(l) + 1
         IN  Scannable(Append(l, x), m) /\ ScanEnd(Append(l, x)) = m
<1> DEFINE m == IF x = Torn THEN Len(l) ELSE Len(l) + 1
<1>1. /\ Append(l, x) \in Seq(Item)
      /\ Len(Append(l, x)) = Len(l) + 1
      /\ \A i \in 1 .. Len(l) : Append(l, x)[i] = l[i]
      /\ Append(l, x)[Len(l) + 1] = x
  OBVIOUS
<1>2. Scannable(Append(l, x), m)
  BY <1>1 DEF Scannable
<1>3. ScanEnd(Append(l, x)) = m
  <2> HIDE DEF m
  <2> QED
    BY <1>1, <1>2, ScanEndIsUnique
<1> QED
  BY <1>2, <1>3

LEMMA AppendToTorn ==
  ASSUME NEW l \in Seq(Item), NEW n, Scannable(l, n), \E i \in DOMAIN l : l[i] = Torn,
         NEW x \in Item
  PROVE  Scannable(Append(l, x), n) /\ ScanEnd(Append(l, x)) = n
<1>1. n \in 0 .. Len(l) /\ n < Len(l)
  BY TornScan
<1>2. /\ Append(l, x) \in Seq(Item)
      /\ Len(Append(l, x)) = Len(l) + 1
      /\ \A i \in 1 .. Len(l) : Append(l, x)[i] = l[i]
  OBVIOUS
<1>3. Scannable(Append(l, x), n)
  BY <1>1, <1>2 DEF Scannable
<1> QED
  BY <1>2, <1>3, ScanEndIsUnique

(* What an append does to the last position of a key.                       *)
LEMMA LastBeforeAppend ==
  ASSUME NEW l \in Seq(Item), NEW x \in Item, NEW n \in 0 .. Len(l),
         NEW k, NEW p, IsLast(l, n, k, p)
  PROVE  IsLast(Append(l, x), n, k, p) /\ Last(Append(l, x), n, k) = p
<1>1. /\ Append(l, x) \in Seq(Item)
      /\ Len(Append(l, x)) = Len(l) + 1
      /\ \A i \in 1 .. Len(l) : Append(l, x)[i] = l[i]
  OBVIOUS
<1>2. IsLast(Append(l, x), n, k, p)
  BY <1>1 DEF IsLast
<1>3. n \in 0 .. Len(Append(l, x))
  BY <1>1
<1> QED
  BY <1>1, <1>2, <1>3, LastIsUnique

LEMMA LastAfterAppend ==
  ASSUME NEW l \in Seq(Item), NEW x \in Item,
         NEW k, NEW p, IsLast(l, Len(l), k, p)
  PROVE  LET q == IF x.key = k THEN Len(l) + 1 ELSE p
         IN  /\ IsLast(Append(l, x), Len(l) + 1, k, q)
             /\ Last(Append(l, x), Len(l) + 1, k) = q
<1> DEFINE q == IF x.key = k THEN Len(l) + 1 ELSE p
<1>1. /\ Append(l, x) \in Seq(Item)
      /\ Len(Append(l, x)) = Len(l) + 1
      /\ \A i \in 1 .. Len(l) : Append(l, x)[i] = l[i]
      /\ Append(l, x)[Len(l) + 1] = x
  OBVIOUS
<1>2. IsLast(Append(l, x), Len(l) + 1, k, q)
  <2>1. p \in 0 .. Len(l) /\ (p # 0 => l[p].key = k)
        /\ \A i \in p + 1 .. Len(l) : l[i].key # k
    BY DEF IsLast
  <2>2. CASE x.key = k
    BY <1>1, <2>1, <2>2 DEF IsLast
  <2>3. CASE x.key # k
    <3>1. q = p
      BY <2>3
    <3>2. \A i \in p + 1 .. Len(l) + 1 : Append(l, x)[i].key # k
      <4> SUFFICES ASSUME NEW i \in p + 1 .. Len(l) + 1
                   PROVE  Append(l, x)[i].key # k
        OBVIOUS
      <4>1. CASE i = Len(l) + 1
        BY <4>1, <1>1, <2>3
      <4>2. CASE i # Len(l) + 1
        BY <4>2, <1>1, <2>1
      <4> QED
        BY <4>1, <4>2
    <3> QED
      BY <1>1, <2>1, <3>1, <3>2 DEF IsLast
  <2> QED
    BY <2>2, <2>3
<1>3. Last(Append(l, x), Len(l) + 1, k) = q
  <2>1. Len(l) + 1 \in 0 .. Len(Append(l, x))
    BY <1>1
  <2> HIDE DEF q
  <2> QED
    BY <1>1, <1>2, <2>1, LastIsUnique
<1> QED
  BY <1>2, <1>3

-----------------------------------------------------------------------------
(* The inductive invariant.                                                 *)

(* The scan of the file stops somewhere, and up to there every key has a    *)
(* last position.                                                           *)
ScanFinds ==
  \E n \in 0 .. Len(log) :
    /\ Scannable(log, n)
    /\ \A k \in Key : \E p \in 0 .. n : IsLast(log, n, k, p)

IInv ==
  /\ TypeOK
  /\ ScanFinds
  /\ EntryPointsAtItsKey
  /\ RestartLosesNothing

(* What ScanFinds says in terms of the operators of the rebuild.            *)
LEMMA RebuildFinds ==
  ASSUME TypeOK, ScanFinds
  PROVE  /\ ScanEnd(log) \in 0 .. Len(log)
         /\ Scannable(log, ScanEnd(log))
         /\ \A k \in Key : IsLast(log, ScanEnd(log), k, Rebuild(log)[k])
<1>1. log \in Seq(Item)
  BY DEF TypeOK, Item
<1>2. PICK n \in 0 .. Len(log) :
        /\ Scannable(log, n)
        /\ \A k \in Key : \E p \in 0 .. n : IsLast(log, n, k, p)
  BY DEF ScanFinds
<1>3. ScanEnd(log) = n
  BY <1>1, <1>2, ScanEndIsUnique
<1>4. ASSUME NEW k \in Key
      PROVE  IsLast(log, n, k, Rebuild(log)[k])
  <2>1. PICK p \in 0 .. n : IsLast(log, n, k, p)
    BY <1>2
  <2>2. Last(log, n, k) = p
    BY <1>1, <2>1, LastIsUnique
  <2> QED
    BY <1>3, <2>1, <2>2 DEF Rebuild
<1> QED
  BY <1>2, <1>3, <1>4

(* Whatever is appended, the rebuild moves the key of the new record to the *)
(* new end of the file, provided the record is whole and so is every item   *)
(* before it; all other keys stay where they were.                          *)
LEMMA RebuildAfterAppend ==
  ASSUME TypeOK, ScanFinds, NEW x \in Item, log' = Append(log, x)
  PROVE  /\ ScanFinds'
         /\ \A k \in Key :
              Rebuild(log')[k] = IF Intact /\ x # Torn /\ x.key = k
                                 THEN Len(log) + 1
                                 ELSE Rebuild(log)[k]
<1> DEFINE l == Append(log, x)
           n == ScanEnd(log)
           m == IF Intact /\ x # Torn THEN Len(log) + 1 ELSE n
           q(k) == IF Intact /\ x # Torn /\ x.key = k
                   THEN Len(log) + 1
                   ELSE Rebuild(log)[k]
<1>1. log \in Seq(Item) /\ l \in Seq(Item) /\ Len(l) = Len(log) + 1
  BY DEF TypeOK, Item
<1>2. /\ n \in 0 .. Len(log)
      /\ Scannable(log, n)
      /\ \A k \in Key : IsLast(log, n, k, Rebuild(log)[k])
  BY RebuildFinds
<1>3. /\ m \in 0 .. Len(l)
      /\ Scannable(l, m)
      /\ ScanEnd(l) = m
      /\ \A k \in Key : IsLast(l, m, k, q(k)) /\ Last(l, m, k) = q(k)
  <2>1. CASE Intact
    <3>1. n = Len(log)
      BY <1>1, <2>1, IntactScan DEF Intact
    <3>2. CASE x = Torn
      <4>1. m = n /\ \A k : q(k) = Rebuild(log)[k]
        BY <3>2
      <4>2. Scannable(l, n) /\ ScanEnd(l) = n
        BY <1>1, <2>1, <3>1, <3>2, AppendToIntact DEF Intact
      <4>3. ASSUME NEW k \in Key
            PROVE  IsLast(l, n, k, Rebuild(log)[k]) /\ Last(l, n, k) = Rebuild(log)[k]
        <5>1. IsLast(log, n, k, Rebuild(log)[k])
          BY <1>2
        <5> HIDE DEF n
        <5> QED
          BY <1>1, <1>2, <5>1, LastBeforeAppend
      <4> HIDE DEF n, m, q, l
      <4> QED
        BY <1>1, <1>2, <4>1, <4>2, <4>3
    <3>3. CASE x # Torn
      <4>1. m = Len(log) + 1 /\ \A k : q(k) = IF x.key = k THEN Len(log) + 1 ELSE Rebuild(log)[k]
        BY <2>1, <3>3
      <4>2. Scannable(l, Len(log) + 1) /\ ScanEnd(l) = Len(log) + 1
        BY <1>1, <2>1, <3>3, AppendToIntact DEF Intact
      <4>3. ASSUME NEW k \in Key
            PROVE  /\ IsLast(l, Len(log) + 1, k, q(k))
                   /\ Last(l, Len(log) + 1, k) = q(k)
        <5>1. IsLast(log, Len(log), k, Rebuild(log)[k])
          BY <1>2, <3>1
        <5> QED
          BY <1>1, <4>1, <5>1, LastAfterAppend
      <4> HIDE DEF n, m, q, l
      <4> QED
        BY <1>1, <4>1, <4>2, <4>3
    <3> QED
      BY <3>2, <3>3
  <2>2. CASE ~Intact
    <3>1. m = n /\ \A k : q(k) = Rebuild(log)[k]
      BY <2>2
    <3>2. Scannable(l, n) /\ ScanEnd(l) = n
      <4> HIDE DEF n
      <4> QED
        BY <1>1, <1>2, <2>2, AppendToTorn DEF Intact
    <3>3. ASSUME NEW k \in Key
          PROVE  IsLast(l, n, k, Rebuild(log)[k]) /\ Last(l, n, k) = Rebuild(log)[k]
      <4>1. IsLast(log, n, k, Rebuild(log)[k])
        BY <1>2
      <4> HIDE DEF n
      <4> QED
        BY <1>1, <1>2, <4>1, LastBeforeAppend
    <3> HIDE DEF n, m, q, l
    <3> QED
      BY <1>1, <1>2, <3>1, <3>2, <3>3
  <2> QED
    BY <2>1, <2>2
<1>4. \A k \in Key : Rebuild(log')[k] = q(k)
  <2> HIDE DEF m, q
  <2> QED
    BY <1>3 DEF Rebuild
<1>5. ScanFinds'
  <2>1. \A k \in Key : q(k) \in 0 .. m
    <3> HIDE DEF m, q
    <3> QED
      BY <1>3 DEF IsLast
  <2> HIDE DEF m, q
  <2> QED
    BY <1>3, <2>1 DEF ScanFinds
<1> QED
  BY <1>4, <1>5

-----------------------------------------------------------------------------
(* The invariant holds at first and every step preserves it.                *)

LEMMA InitIInv == Init => IInv
<1> SUFFICES ASSUME Init PROVE IInv
  OBVIOUS
<1>1. TypeOK
  <2>1. log \in Seq(Record \cup {Torn}) /\ Len(log) = 0
    BY DEF Init
  <2>2. index \in [Key -> 0 .. Len(log)]
    BY <2>1 DEF Init, NoIndex
  <2>3. isOpen \in BOOLEAN
    BY DEF Init
  <2>4. clock \in 0 .. MaxClock
    BY BoundAssumption DEF Init
  <2> QED
    BY <2>1, <2>2, <2>3, <2>4 DEF TypeOK
<1>2. ScanFinds
  <2>1. Scannable(log, 0) /\ \A k : IsLast(log, 0, k, 0)
    BY DEF Init, Scannable, IsLast
  <2> QED
    BY <2>1 DEF Init, ScanFinds
<1> QED
  BY <1>1, <1>2 DEF Init, IInv, EntryPointsAtItsKey, RestartLosesNothing, NoIndex

(* Set and Delete: a record is appended and indexed.                        *)
LEMMA AppendKeepsIInv ==
  ASSUME IInv, NEW rec \in Record, AppendAndIndex(rec), UNCHANGED <<isOpen, clock>>
  PROVE  IInv'
<1> USE DEF AppendAndIndex
<1>1. rec \in Item /\ rec # Torn /\ rec.key \in Key
  BY TornAssumption DEF Item, Record
<1>2. TypeOK /\ ScanFinds /\ EntryPointsAtItsKey /\ RestartLosesNothing
  BY DEF IInv
<1>3. /\ log \in Seq(Item)
      /\ Len(log') = Len(log) + 1
      /\ \A i \in 1 .. Len(log) : log'[i] = log[i]
      /\ log'[Len(log) + 1] = rec
  BY <1>1, <1>2 DEF TypeOK, Item
<1>4. TypeOK'
  BY <1>1, <1>2, <1>3 DEF TypeOK, Item
<1>5. /\ ScanFinds'
      /\ \A k \in Key : Rebuild(log')[k] = IF Intact /\ rec # Torn /\ rec.key = k
                                         THEN Len(log) + 1
                                         ELSE Rebuild(log)[k]
  <2> HIDE DEF AppendAndIndex
  <2>1. log' = Append(log, rec)
    BY DEF AppendAndIndex
  <2> QED
    BY <1>1, <1>2, <2>1, RebuildAfterAppend
<1>6. EntryPointsAtItsKey'
  <2> SUFFICES ASSUME NEW k \in Key, index'[k] # 0
               PROVE  log'[index'[k]] # Torn /\ log'[index'[k]].key = k
    BY DEF EntryPointsAtItsKey
  <2>1. CASE k = rec.key
    BY <1>1, <1>2, <1>3, <2>1 DEF TypeOK
  <2>2. CASE k # rec.key
    BY <1>1, <1>2, <1>3, <2>2 DEF TypeOK, EntryPointsAtItsKey
  <2> QED
    BY <2>1, <2>2
<1>7. RestartLosesNothing'
  <2> SUFFICES ASSUME Intact', NEW k \in Key, index'[k] # 0
               PROVE  Rebuild(log')[k] = index'[k]
    BY DEF RestartLosesNothing
  <2>1. Intact
    BY <1>3 DEF Intact
  <2>2. CASE k = rec.key
    BY <1>1, <1>2, <1>5, <2>1, <2>2 DEF TypeOK
  <2>3. CASE k # rec.key
    BY <1>1, <1>2, <1>5, <2>1, <2>3 DEF TypeOK, RestartLosesNothing
  <2> QED
    BY <2>2, <2>3
<1> QED
  BY <1>4, <1>5, <1>6, <1>7 DEF IInv

(* Clear and Close: the index is emptied, the file stays.                   *)
LEMMA ForgetKeepsIInv ==
  ASSUME IInv, index' = NoIndex, UNCHANGED <<log, clock>>, isOpen' \in BOOLEAN
  PROVE  IInv'
<1>1. TypeOK'
  BY DEF IInv, TypeOK, NoIndex
<1>2. ScanFinds'
  BY DEF IInv, ScanFinds
<1> QED
  BY <1>1, <1>2 DEF IInv, EntryPointsAtItsKey, RestartLosesNothing, NoIndex

(* What can be read is a value: setTtl writes back what a write could write. *)
LEMMA GetReturnsAValue ==
  ASSUME TypeOK, EntryPointsAtItsKey, NEW k \in Key, Get(k) # NoVal
  PROVE  Get(k) \in Val
<1>1. index[k] # 0 /\ Get(k) = log[index[k]].val
  BY DEF Get, IndexGet
<1>2. log[index[k]] \in Record
  BY <1>1 DEF TypeOK, EntryPointsAtItsKey
<1> QED
  BY <1>1, <1>2 DEF Record

LEMMA PutIsARecord ==
  ASSUME TypeOK, NEW k \in Key, NEW v \in Val, NEW ttl \in Ttls
  PROVE  Put(k, v, ttl) \in Record
<1>1. ExpiryOf(ttl) \in Times
  BY BoundAssumption DEF TypeOK, ExpiryOf, Ttls, Times
<1> QED
  BY <1>1 DEF Put, Record

LEMMA TombstoneIsARecord ==
  ASSUME NEW k \in Key
  PROVE  Tombstone(k) \in Record
BY BoundAssumption DEF Tombstone, Record, Times

LEMMA StepIInv == IInv /\ [Next]_vars => IInv'
<1> SUFFICES ASSUME IInv, [Next]_vars PROVE IInv'
  OBVIOUS
<1>0. TypeOK /\ ScanFinds /\ EntryPointsAtItsKey /\ RestartLosesNothing
  BY DEF IInv
<1>1. ASSUME NEW k \in Key, NEW v \in Val, NEW ttl \in Ttls, Set(k, v, ttl)
      PROVE  IInv'
  BY <1>0, <1>1, PutIsARecord, AppendKeepsIInv DEF Set
<1>2. ASSUME NEW k \in Key, NEW v \in Val, NEW ttl \in Ttls, SetIfNotExists(k, v, ttl)
      PROVE  IInv'
  BY <1>1, <1>2 DEF SetIfNotExists
<1>3. ASSUME NEW k \in Key, NEW v \in Val, NEW ttl \in Ttls, SetIfExists(k, v, ttl)
      PROVE  IInv'
  BY <1>1, <1>3 DEF SetIfExists
<1>4. ASSUME NEW k \in Key, Delete(k)
      PROVE  IInv'
  BY <1>4, TombstoneIsARecord, AppendKeepsIInv DEF Delete
<1>5. ASSUME NEW k \in Key, NEW ttl \in Ttls, SetTtl(k, ttl)
      PROVE  IInv'
  <2>1. Get(k) \in Val
    BY <1>0, <1>5, GetReturnsAValue DEF SetTtl
  <2> QED
    BY <1>1, <1>5, <2>1 DEF SetTtl
<1>6. CASE Clear
  BY <1>0, <1>6, ForgetKeepsIInv DEF Clear, TypeOK
<1>7. CASE Close
  BY <1>7, ForgetKeepsIInv DEF Close
<1>8. CASE CrashInAppend
  <2>1. log' = Append(log, Torn) /\ index' = NoIndex /\ isOpen' = FALSE /\ clock' = clock
    BY <1>8 DEF CrashInAppend
  <2>2. log \in Seq(Item) /\ Torn \in Item
    BY <1>0 DEF TypeOK, Item
  <2>3. ScanFinds'
    BY <1>0, <2>1, <2>2, RebuildAfterAppend
  <2>4. TypeOK'
    <3>1. log' \in Seq(Record \cup {Torn}) /\ Len(log') \in Nat
      BY <2>1, <2>2 DEF Item
    <3>2. index' \in [Key -> 0 .. Len(log')]
      BY <2>1, <3>1 DEF NoIndex
    <3>3. isOpen' \in BOOLEAN
      BY <2>1
    <3> QED
      BY <1>0, <2>1, <3>1, <3>2, <3>3 DEF TypeOK
  <2> QED
    BY <2>1, <2>3, <2>4 DEF IInv, EntryPointsAtItsKey, RestartLosesNothing, NoIndex
<1>9. CASE Open
  <2>1. /\ ScanEnd(log) \in 0 .. Len(log)
        /\ Scannable(log, ScanEnd(log))
        /\ \A k \in Key : IsLast(log, ScanEnd(log), k, index'[k])
        /\ index' = Rebuild(log) /\ log' = log
    BY <1>0, <1>9, RebuildFinds DEF Open
  <2>2. /\ index' \in [Key -> 0 .. Len(log)]
        /\ \A k \in Key : index'[k] # 0 => log[index'[k]] # Torn /\ log[index'[k]].key = k
    <3>1. index' = [k \in Key |-> index'[k]]
      BY <2>1 DEF Rebuild
    <3>2. ASSUME NEW k \in Key
          PROVE  /\ index'[k] \in 0 .. Len(log)
                 /\ index'[k] # 0 => log[index'[k]] # Torn /\ log[index'[k]].key = k
      BY <1>0, <2>1 DEF IsLast, Scannable, TypeOK
    <3> QED
      BY <3>1, <3>2
  <2>3. TypeOK' /\ ScanFinds'
    BY <1>0, <1>9, <2>1, <2>2 DEF Open, TypeOK, ScanFinds
  <2> QED
    BY <2>1, <2>2, <2>3 DEF IInv, EntryPointsAtItsKey, RestartLosesNothing
<1>10. CASE Tick
  <2>1. TypeOK' /\ ScanFinds'
    BY <1>0, <1>10, BoundAssumption DEF Tick, TypeOK, ScanFinds
  <2> QED
    BY <1>0, <1>10, <2>1 DEF Tick, IInv, EntryPointsAtItsKey, RestartLosesNothing, Intact
<1>11. CASE UNCHANGED vars
  BY <1>0, <1>11 DEF vars, IInv, TypeOK, ScanFinds, EntryPointsAtItsKey,
                     RestartLosesNothing, Intact
<1> QED
  BY <1>1, <1>2, <1>3, <1>4, <1>5, <1>6, <1>7, <1>8, <1>9, <1>10, <1>11 DEF Next

-----------------------------------------------------------------------------
(* Theorems.                                                                *)

LEMMA Invariance == Spec => []IInv
BY InitIInv, StepIInv, PTL DEF Spec

(* The variables keep their types: no index entry is ever outside the file. *)
THEOREM TypeCorrect == Spec => []TypeOK
<1>1. IInv => TypeOK
  BY DEF IInv
<1> QED
  BY <1>1, Invariance, PTL

(* get and readRecord never return another key's value or half a record.    *)
THEOREM EntriesPointAtTheirKeys == Spec => []EntryPointsAtItsKey
<1>1. IInv => EntryPointsAtItsKey
  BY DEF IInv
<1> QED
  BY <1>1, Invariance, PTL

(* openBarrel finds again whatever set and delete put in the index, at the  *)
(* same place, as long as no append was cut short.                          *)
THEOREM RestartsLoseNothing == Spec => []RestartLosesNothing
<1>1. IInv => RestartLosesNothing
  BY DEF IInv
<1> QED
  BY <1>1, Invariance, PTL

-----------------------------------------------------------------------------
(* Dead keys.                                                               *)

(* In an intact file both the running index and the rebuilt one can only    *)
(* lead to the last record of a key.                                        *)
LEMMA IndexIsLast ==
  ASSUME IInv, Intact, NEW k \in Key
  PROVE  LET p == Last(log, Len(log), k)
         IN  p \in 0 .. Len(log) /\ index[k] \in {0, p} /\ Rebuild(log)[k] = p
<1>1. log \in Seq(Item) /\ index[k] \in 0 .. Len(log)
  BY DEF IInv, TypeOK, Item
<1>2. ScanEnd(log) = Len(log)
  BY <1>1, IntactScan DEF Intact
<1>3. IsLast(log, Len(log), k, Rebuild(log)[k])
  BY <1>2, RebuildFinds DEF IInv
<1>4. Last(log, Len(log), k) = Rebuild(log)[k]
  BY <1>1, <1>3, LastIsUnique
<1> QED
  BY <1>1, <1>3, <1>4 DEF IsLast, IInv, RestartLosesNothing

(* A read that ends at a dead record, or nowhere, finds no value.           *)
LEMMA DeadRecordIsNotRead ==
  ASSUME NEW k \in Key, NEW p \in Nat, p # 0, index'[k] \in {0, p},
         log'[p].val = NoVal \/ (log'[p].exp # 0 /\ clock' >= log'[p].exp)
  PROVE  Get(k)' = NoVal
BY DEF Get, IndexGet, IsDeleted, IsExpired

LEMMA StepDeadKeys ==
  ASSUME IInv, Next, NEW k \in Key, Intact, Dead(k), ~Appended(k)
  PROVE  Get(k)' = NoVal
<1> DEFINE p == Last(log, Len(log), k)
<1>1. /\ p \in 1 .. Len(log)
      /\ index[k] \in {0, p}
      /\ Rebuild(log)[k] = p
      /\ log[p].val = NoVal \/ (log[p].exp # 0 /\ clock >= log[p].exp)
  BY IndexIsLast DEF Dead, IsExpired
<1>2. /\ log \in Seq(Item) /\ log[p] \in Record
      /\ index \in [Key -> 0 .. Len(log)]
      /\ clock \in Nat /\ log[p].exp \in Nat
  BY <1>1, BoundAssumption DEF IInv, TypeOK, Item, Intact, Record, Times
<1> HIDE DEF p
<1>3. ASSUME NEW rec \in Record, AppendAndIndex(rec), UNCHANGED <<isOpen, clock>>
      PROVE  Get(k)' = NoVal
  <2>1. /\ rec \in Item /\ rec.key \in Key /\ rec # Torn
        /\ log' = Append(log, rec) /\ Len(log') = Len(log) + 1
        /\ log'[p] = log[p] /\ log'[Len(log')] = rec
    BY <1>1, <1>2, <1>3, TornAssumption DEF AppendAndIndex, Item, Record
  <2>2. rec.key # k
    BY <1>2, <2>1 DEF Appended
  <2>3. index'[k] = index[k] /\ clock' = clock
    BY <1>2, <1>3, <2>1, <2>2 DEF AppendAndIndex
  <2> QED
    BY <1>1, <2>1, <2>3, DeadRecordIsNotRead
<1>4. ASSUME NEW j \in Key, NEW v \in Val, NEW ttl \in Ttls, Set(j, v, ttl)
      PROVE  Get(k)' = NoVal
  BY <1>3, <1>4, PutIsARecord DEF Set, IInv
<1>5. ASSUME NEW j \in Key, Delete(j)
      PROVE  Get(k)' = NoVal
  BY <1>3, <1>5, TombstoneIsARecord DEF Delete
<1>6. ASSUME NEW j \in Key, NEW ttl \in Ttls, SetTtl(j, ttl)
      PROVE  Get(k)' = NoVal
  <2>1. Get(j) \in Val
    BY <1>6, GetReturnsAValue DEF SetTtl, IInv
  <2> QED
    BY <1>4, <1>6, <2>1 DEF SetTtl
<1>7. CASE Clear \/ Close \/ CrashInAppend
  <2>1. index'[k] = 0
    BY <1>7 DEF Clear, Close, CrashInAppend, NoIndex
  <2> QED
    BY <2>1 DEF Get, IndexGet
<1>8. CASE Open
  <2>1. index'[k] = p /\ log' = log /\ clock' = clock
    BY <1>1, <1>8 DEF Open
  <2> QED
    BY <1>1, <2>1, DeadRecordIsNotRead
<1>9. CASE Tick
  <2>1. index'[k] \in {0, p} /\ log' = log /\ clock' = clock + 1
    BY <1>1, <1>9 DEF Tick
  <2>2. log'[p].val = NoVal \/ (log'[p].exp # 0 /\ clock' >= log'[p].exp)
    BY <1>1, <1>2, <2>1
  <2> QED
    BY <1>1, <2>1, <2>2, DeadRecordIsNotRead
<1> QED
  BY <1>4, <1>5, <1>6, <1>7, <1>8, <1>9 DEF Next, SetIfNotExists, SetIfExists

(* Once a key's last record is a tombstone or has expired, no later read    *)
(* finds a value, restarts included, until the key is written again.        *)
THEOREM DeadKeysAreNeverRead == Spec => DeadKeysStayDead
<1>1. IInv /\ [Next]_vars =>
        [\A k \in Key : Intact /\ Dead(k) /\ ~Appended(k) => Get(k)' = NoVal]_vars
  BY StepDeadKeys
<1> QED
  BY <1>1, Invariance, PTL DEF Spec, DeadKeysStayDead

-----------------------------------------------------------------------------
(* The barrel implements the abstract store.                                *)

(* Records never change, so neither does what an old position stands for.   *)
LEMMA EntryStays ==
  ASSUME NEW x \in Item, log \in Seq(Item), log' = Append(log, x) \/ log' = log,
         NEW p \in 0 .. Len(log)
  PROVE  EntryAt(log', p) = EntryAt(log, p)
<1>1. p # 0 => log'[p] = log[p]
  OBVIOUS
<1> QED
  BY <1>1 DEF EntryAt, AbsentEntry

LEMMA EntryOfRecord ==
  ASSUME NEW rec \in Record, NEW p \in Nat \ {0}, log'[p] = rec
  PROVE  EntryAt(log', p) \in Entries \cup {AbsentEntry}
BY DEF EntryAt, AbsentEntry, Entries, Record

(* Set and Delete write one entry.                                          *)
LEMMA AppendWrites ==
  ASSUME IInv, NEW rec \in Record, AppendAndIndex(rec), isOpen, UNCHANGED <<isOpen, clock>>
  PROVE  \E e \in Entries \cup {AbsentEntry} : KV!Write(rec.key, e)
<1> DEFINE q == Len(log) + 1
           e == EntryAt(log', q)
<1>1. /\ rec \in Item /\ rec # Torn /\ rec.key \in Key
      /\ log \in Seq(Item) /\ index \in [Key -> 0 .. Len(log)]
      /\ TypeOK /\ ScanFinds
  BY TornAssumption DEF IInv, TypeOK, Item, Record
<1>2. /\ log' = Append(log, rec)
      /\ index' = [index EXCEPT ![rec.key] = q]
      /\ Len(log') = q /\ log'[q] = rec /\ q \in Nat \ {0}
      /\ \A i \in 1 .. Len(log) : log'[i] = log[i]
  BY <1>1 DEF AppendAndIndex
<1>3. e \in Entries \cup {AbsentEntry}
  BY <1>2, EntryOfRecord
<1>4. \A p \in 0 .. Len(log) : EntryAt(log', p) = EntryAt(log, p)
  BY <1>1, <1>2, EntryStays
<1>5. /\ \A k \in Key : Rebuild(log)[k] \in 0 .. Len(log)
      /\ \A k \in Key : Rebuild(log')[k] = IF Intact /\ rec # Torn /\ rec.key = k
                                         THEN q ELSE Rebuild(log)[k]
  <2>1. \A k \in Key : Rebuild(log)[k] \in 0 .. Len(log)
    BY <1>1, RebuildFinds DEF IsLast
  <2> QED
    BY <1>1, <1>2, <2>1, RebuildAfterAppend
<1>6. Intact' = Intact
  <2>1. Intact \in BOOLEAN /\ Intact' \in BOOLEAN
    BY DEF Intact
  <2>2. Intact => Intact'
    BY <1>1, <1>2 DEF Intact
  <2>3. Intact' => Intact
    BY <1>1, <1>2 DEF Intact
  <2> QED
    BY <2>1, <2>2, <2>3
<1> HIDE DEF e, q
<1>7. VisibleContents' = [VisibleContents EXCEPT ![rec.key] = e]
  <2>1. VisibleContents = [k \in Key |-> EntryAt(log, index[k])]
    BY DEF VisibleContents
  <2>2. VisibleContents' = [k \in Key |-> EntryAt(log', index'[k])]
    BY DEF VisibleContents
  <2>3. \A k \in Key : EntryAt(log', index'[k]) = IF k = rec.key THEN e ELSE EntryAt(log, index[k])
    BY <1>1, <1>2, <1>4 DEF e
  <2> QED
    BY <1>1, <2>1, <2>2, <2>3
<1>8. DurableContents' = IF Intact THEN [DurableContents EXCEPT ![rec.key] = e]
                                   ELSE DurableContents
  <2>1. DurableContents' = [k \in Key |-> EntryAt(log', Rebuild(log')[k])]
    BY DEF DurableContents
  <2>2. \A k \in Key : EntryAt(log', Rebuild(log')[k]) =
          IF Intact /\ rec.key = k THEN e ELSE EntryAt(log, Rebuild(log)[k])
    BY <1>1, <1>4, <1>5 DEF e
  <2> QED
    BY <1>1, <2>1, <2>2 DEF DurableContents
<1> QED
  BY <1>3, <1>6, <1>7, <1>8 DEF KV!Write

(* A step that keeps the file keeps what is durable.                        *)
LEMMA SameFile ==
  ASSUME log' = log
  PROVE  DurableContents' = DurableContents /\ Intact' = Intact
BY DEF DurableContents, EntryAt, AbsentEntry, Intact

(* A torn record is never scanned, so it changes nothing that is durable.   *)
LEMMA TornIsInvisible ==
  ASSUME IInv, log' = Append(log, Torn)
  PROVE  DurableContents' = DurableContents /\ Intact' = FALSE
<1>1. log \in Seq(Item) /\ Torn \in Item /\ TypeOK /\ ScanFinds
  BY DEF IInv, TypeOK, Item
<1>2. /\ \A k \in Key : Rebuild(log)[k] \in 0 .. Len(log)
      /\ \A k \in Key : Rebuild(log')[k] = Rebuild(log)[k]
  <2>1. \A k \in Key : Rebuild(log)[k] \in 0 .. Len(log)
    BY <1>1, RebuildFinds DEF IsLast
  <2> QED
    BY <1>1, <2>1, RebuildAfterAppend
<1>3. \A k \in Key : EntryAt(log', Rebuild(log')[k]) = EntryAt(log, Rebuild(log)[k])
  BY <1>1, <1>2, EntryStays
<1>4. Intact' = FALSE
  <2>1. Len(log) + 1 \in DOMAIN log' /\ log'[Len(log) + 1] = Torn
    BY <1>1
  <2> QED
    BY <2>1 DEF Intact
<1> QED
  BY <1>3, <1>4 DEF DurableContents

LEMMA InitRefines == Init => KV!Init
<1> SUFFICES ASSUME Init PROVE KV!Init
  OBVIOUS
<1>1. IInv /\ Len(log) = 0
  BY InitIInv DEF Init
<1>2. \A k \in Key : Rebuild(log)[k] = 0
  <2>1. ScanEnd(log) \in 0 .. 0 /\ \A k \in Key : IsLast(log, ScanEnd(log), k, Rebuild(log)[k])
    BY <1>1, RebuildFinds DEF IInv
  <2>2. ScanEnd(log) = 0
    BY <2>1
  <2>3. ASSUME NEW k \in Key
        PROVE  Rebuild(log)[k] = 0
    <3>1. Rebuild(log)[k] \in 0 .. 0
      BY <2>1, <2>2 DEF IsLast
    <3> QED
      BY <3>1
  <2> QED
    BY <2>3
<1>3. DurableContents = [k \in Key |-> AbsentEntry]
  BY <1>2 DEF DurableContents, EntryAt
<1>4. VisibleContents = DurableContents
  BY DEF Init, VisibleContents
<1>5. Intact = TRUE
  BY DEF Init, Intact
<1> QED
  BY <1>3, <1>4, <1>5 DEF KV!Init, KV!Nothing

LEMMA StepRefines == IInv /\ [Next]_vars => [KV!Next]_(KV!kvVars)
<1> SUFFICES ASSUME IInv, [Next]_vars PROVE [KV!Next]_(KV!kvVars)
  OBVIOUS
<1>1. ASSUME NEW k \in Key, NEW v \in Val, NEW ttl \in Ttls, Set(k, v, ttl)
      PROVE  KV!Next
  <2>1. Put(k, v, ttl) \in Record /\ Put(k, v, ttl).key = k
    BY PutIsARecord DEF IInv, Put
  <2>2. \E e \in Entries \cup {AbsentEntry} : KV!Write(k, e)
    BY <1>1, <2>1, AppendWrites DEF Set, CanAppend
  <2> QED
    BY <2>2 DEF KV!Next
<1>2. ASSUME NEW k \in Key, Delete(k)
      PROVE  KV!Next
  <2>1. Tombstone(k) \in Record /\ Tombstone(k).key = k
    BY TombstoneIsARecord DEF Tombstone
  <2>2. \E e \in Entries \cup {AbsentEntry} : KV!Write(k, e)
    BY <1>2, <2>1, AppendWrites DEF Delete, CanAppend
  <2> QED
    BY <2>2 DEF KV!Next
<1>3. ASSUME NEW k \in Key, NEW ttl \in Ttls, SetTtl(k, ttl)
      PROVE  KV!Next
  <2>1. Get(k) \in Val
    BY <1>3, GetReturnsAValue DEF SetTtl, IInv
  <2> QED
    BY <1>1, <1>3, <2>1 DEF SetTtl
<1>4. CASE Clear
  <2>1. VisibleContents' = [k \in Key |-> AbsentEntry]
    BY <1>4 DEF Clear, VisibleContents, EntryAt, NoIndex
  <2>2. KV!Forget
    BY <1>4, <2>1, SameFile DEF Clear, KV!Forget, KV!Nothing
  <2> QED
    BY <2>2 DEF KV!Next
<1>5. CASE Close
  <2>1. VisibleContents' = DurableContents'
    BY <1>5 DEF Close, VisibleContents
  <2>2. KV!Restart
    BY <1>5, <2>1, SameFile DEF Close, KV!Restart
  <2> QED
    BY <2>2 DEF KV!Next
<1>6. CASE CrashInAppend
  <2>1. VisibleContents' = DurableContents'
    BY <1>6 DEF CrashInAppend, VisibleContents
  <2>2. KV!Tear
    BY <1>6, <2>1, TornIsInvisible DEF CrashInAppend, KV!Tear
  <2> QED
    BY <2>2 DEF KV!Next
<1>7. CASE Open
  <2>1. VisibleContents = DurableContents
    BY <1>7 DEF Open, VisibleContents
  <2>2. VisibleContents' = DurableContents'
    BY <1>7 DEF Open, VisibleContents, DurableContents
  <2> QED
    BY <1>7, <2>1, <2>2, SameFile DEF Open, KV!kvVars
<1>8. CASE Tick \/ UNCHANGED vars
  <2>1. log' = log /\ index' = index /\ isOpen' = isOpen
    BY <1>8 DEF Tick, vars
  <2>2. VisibleContents' = VisibleContents
    BY <2>1, SameFile DEF VisibleContents, EntryAt, AbsentEntry
  <2> QED
    BY <2>1, <2>2, SameFile DEF KV!kvVars
<1> QED
  BY <1>1, <1>2, <1>3, <1>4, <1>5, <1>6, <1>7, <1>8 DEF Next, SetIfNotExists, SetIfExists

(* What a caller may rely on: seen through its reads and its restarts, the   *)
(* barrel is the abstract store.                                            *)
THEOREM BarrelImplementsKVStore == Spec => ImplementsKVStore
<1>1. Spec => KV!Init /\ [][KV!Next]_(KV!kvVars)
  BY InitRefines, StepRefines, Invariance, PTL DEF Spec
<1> QED
  BY <1>1 DEF ImplementsKVStore, KV!Spec

=============================================================================
