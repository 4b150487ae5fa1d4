-------------------------- MODULE Compaction_proofs --------------------------
(***************************************************************************)
(* Proofs about non-blocking compaction, for any keys, values, expiry times *)
(* and bounds: what reads find, while the worker runs and after restarts.   *)
(***************************************************************************)
EXTENDS Compaction, WellFoundedInduction, TLAPS

Entry == [file : 0 .. MaxFile, pos : Nat, del : BOOLEAN]
Opening == [ino : 0 .. MaxFile, size : Nat]

WorkerState ==
  [pc : {"idle"}, new : {0}]
    \cup [pc : {"scan", "close", "unlist", "assign", "remove"}, old : FileId, new : FileId]
    \cup [pc : {"pick"}, old : FileId, new : FileId, latest : [Key -> Nat], todo : SUBSET Key]
    \cup [pc : {"copy"}, old : FileId, new : FileId, latest : [Key -> Nat], todo : SUBSET Key,
          key : Key, saw : Entry]
    \cup [pc : {"reindex"}, old : FileId, new : FileId, latest : [Key -> Nat],
          todo : SUBSET Key, key : Key, saw : Entry, pos : Nat]
    \cup [pc : {"drop", "erase", "hint", "finish", "dead"}, new : FileId]

ClientState ==
  [pc : {"idle"}]
    \cup [pc : {"route"}, rec : Record, file : FileId]
    \cup [pc : {"append"}, rec : Record, file : FileId, viaNew : BOOLEAN]
    \cup [pc : {"index"}, rec : Record, file : FileId, pos : Nat]
    \cup [pc : {"find"}, key : Key, entry : Entry]
    \cup [pc : {"read"}, key : Key, entry : Entry, via : 0 .. MaxFile]

Typed ==
  /\ files \in [FileId -> Seq(Record)]
  /\ dir \in [FileId -> 0 .. MaxFile]
  /\ hint \in [FileId -> [Key -> Entry]]
  /\ index \in [Key -> Entry]
  /\ isOpen \in BOOLEAN /\ inProgress \in BOOLEAN
  /\ fileId \in FileId
  /\ dataFile \in Opening /\ dataFiles \in [FileId -> Opening]
  /\ worker \in WorkerState /\ client \in ClientState
  /\ clock \in 0 .. MaxClock
  /\ acked \in [Key -> Record \cup {Unknown}]
  /\ lost \subseteq Key /\ fragile \subseteq Key /\ since \subseteq Key

\* The worker has not switched files yet, and the file it copies to.
Copying == worker.pc \in {"scan", "pick", "copy", "reindex"}
NewFile == fileId + 1
\* The worker has named the new file but dataFile is a handle to the old one.
Switching == worker.pc \in {"close", "unlist", "assign"}

\* Which files are there and open, and who writes to which.
Handled ==
  /\ \A f \in FileId : dir[f] \in {0, f}
  /\ \A f \in FileId : dataFiles[f] = NoHandle \/ dataFiles[f].ino = f
  /\ isOpen => /\ dir[fileId] = fileId /\ dataFiles[fileId].ino = fileId
               /\ dataFile.ino = IF Switching THEN worker.old ELSE fileId
  /\ ~isOpen => worker = Asleep /\ client = Idle
  /\ dir[fileId] = 0 => files[fileId] = <<>>
  /\ inProgress <=> worker.pc # "idle"
  /\ \A f \in FileId : f > fileId => hint[f] = NoHint
  /\ \A f \in FileId, k \in Key : hint[f][k] = NoEntry \/ hint[f][k].file = f
WorkerHandles ==
  /\ Copying => /\ worker.old = fileId /\ worker.new = NewFile
                /\ dir[NewFile] = NewFile
                /\ dataFiles[NewFile] = [ino |-> NewFile, size |-> Len(files[NewFile])]
  /\ Switching \/ worker.pc = "remove" => worker.old < fileId
  /\ Switching \/ worker.pc \in {"remove", "hint"} => worker.new = fileId
  /\ worker.pc \in {"drop", "erase"} => worker.new = NewFile
  /\ worker.pc \in {"finish", "dead"} => worker.new \in {fileId, NewFile}
  /\ worker.pc = "drop" => dataFiles[NewFile] # NoHandle
  /\ \A f \in FileId :
       f > fileId => \/ dataFiles[f] = NoHandle
                     \/ f = NewFile /\ (Copying \/ worker.pc = "drop")
ClientHandles ==
  /\ client.pc \in {"route", "append", "index"} =>
       \/ client.file = NewFile /\ ~Switching
       \/ client.file = fileId /\ ~Copying
  /\ client.pc = "append" /\ ~client.viaNew => ~inProgress

\* What the worker knows of the old file, and of the copy it has just made.
Left == worker.todo \cup (IF worker.pc = "pick" THEN {} ELSE {worker.key})
Found ==
  /\ worker.pc \in {"pick", "copy", "reindex"} =>
       \A k \in Left : /\ worker.latest[k] \in DOMAIN files[fileId]
                       /\ files[fileId][worker.latest[k]].key = k
  /\ worker.pc \in {"copy", "reindex"} =>
       worker.saw.file # NewFile /\ worker.key \notin worker.todo
  /\ worker.pc = "reindex" =>
       /\ worker.pos \in DOMAIN files[NewFile]
       /\ files[NewFile][worker.pos] = files[fileId][worker.latest[worker.key]]

Sure(k)    == acked[k] # Unknown /\ k \notin lost
Pending(k) == client.pc = "index" /\ client.rec.key = k

\* What a file, and an entry, say of a key whose last acknowledged record is rec.
Lacks(l, k)         == \A p \in DOMAIN l : l[p].key # k
Only(l, k, rec)     == \A p \in DOMAIN l : l[p].key = k => l[p] = rec
EndsWith(l, k, rec) == LET p == Last(l, Len(l), k) IN p # 0 /\ l[p] = rec
Shows(l, e, rec)    == e.pos \in DOMAIN l /\ l[e.pos] = rec /\ (e.del <=> rec.val = NoVal)
Leads(fs, e, rec)   == e.file \in FileId /\ Shows(fs[e.file], e, rec)
Denies(e, rec)      == (e = NoEntry \/ e.del) /\ rec.val = NoVal

\* An entry that bears the number of the next file though its record is in this one.
Astray(e, rec) ==
  /\ e.file = NewFile /\ NewFile \in FileId /\ dataFiles[NewFile] = NoHandle /\ ~Switching
  /\ Shows(files[fileId], e, rec)

\* An entry of the index leads to the last acknowledged record, or denies rightly.
Places == {fileId} \cup (IF Copying THEN {NewFile} ELSE {})
Indexed(k) ==
  \/ Leads(files, index[k], acked[k]) /\ index[k].file \in Places
  \/ Astray(index[k], acked[k])
  \/ /\ Denies(index[k], acked[k]) /\ index[k].file <= fileId
     /\ Lacks(files[fileId], k) \/ (~Copying /\ Pending(k))

\* So does what the next open would find.
Exempt(k) == isOpen /\ (k \in fragile \/ (IF Copying THEN k \in since ELSE Pending(k)))
Recovered(k) ==
  IF hint[fileId] # NoHint THEN hint[fileId][k]
  ELSE EntryAt(files[fileId], fileId, Last(files[fileId], Len(files[fileId]), k))
Restorable(k) ==
  \/ Shows(files[fileId], Recovered(k), acked[k])
  \/ Denies(Recovered(k), acked[k]) /\ Lacks(files[fileId], k)

\* What the copying has achieved for a key.
Reindexing(k) == worker.pc = "reindex" /\ worker.key = k
Moved(k) ==
  /\ k \in since => index[k].file = NewFile
  /\ \/ index[k].file = NewFile \/ Pending(k) \/ Lacks(files[NewFile], k)
     \/ Reindexing(k) /\ Only(files[NewFile], k, acked[k])
  /\ k \notin fragile /\ ~Pending(k)
       /\ (index[k].file = NewFile \/ (Reindexing(k) /\ index[k] = worker.saw))
     => EndsWith(files[NewFile], k, acked[k])
  /\ worker.pc # "scan" =>
       /\ k \in Left => \/ index[k].file = NewFile
                        \/ index[k] = [file |-> fileId, pos |-> worker.latest[k], del |-> FALSE]
       /\ k \notin Left => index[k].file = NewFile \/ acked[k].val = NoVal

\* What a get under way will find: the worker may have switched files meanwhile.
Getting == client.pc \in {"find", "read"}
Overtaken(k, e) ==
  /\ e.file < fileId
  /\ Only(files[fileId], k, acked[k])
  /\ Switching => worker.old = e.file
Attached(k, e) ==
  \/ Leads(files, e, acked[k]) /\ (e.file \in Places \/ Overtaken(k, e))
  \/ Astray(e, acked[k])
Traced(k, e) ==
  \/ e.file = NewFile /\ index[k].file = NewFile
  \/ /\ e.file = fileId /\ Only(files[NewFile], k, acked[k])
     /\ index[k] = e \/ (worker.pc # "scan" /\ k \notin Left)
Chosen(e) == client.via = e.file \/ (client.via = 0 /\ dataFiles[e.file] = NoHandle)
Reading ==
  LET k == client.key  e == client.entry IN
  Getting /\ Sure(k) => /\ ~e.del
                        /\ Attached(k, e)
                        /\ Copying => Traced(k, e)
                        /\ client.pc = "read" => Chosen(e)

Claims(k) ==
  Sure(k) => /\ isOpen => Indexed(k)
             /\ ~Exempt(k) => Restorable(k)
             /\ Copying => Moved(k)

IInv ==
  /\ Typed /\ Handled /\ WorkerHandles /\ ClientHandles /\ Found /\ Reading
  /\ \A k \in Key : Claims(k)

-----------------------------------------------------------------------------
(* The ends of a file.                                                      *)
LEMMA Least ==
  ASSUME NEW T \in SUBSET Nat, T # {}
  PROVE  \E x \in T : \A y \in T : x <= y
<1> DEFINE R == OpToRel(<, Nat)
<1>1. PICK x \in T : \A y \in T : ~ (<<y, x>> \in R)
  <2>1. IsWellFoundedOn(R, Nat)
    BY NatLessThanWellFounded
  <2> HIDE DEF R
  <2> QED
    BY <2>1, WFMin
<1>2. \A y \in T : ~(y < x)
  BY <1>1 DEF OpToRel
<1> QED
  BY <1>2

LEMMA Greatest ==
  ASSUME NEW n \in Nat, NEW T \in SUBSET (1 .. n), T # {}
  PROVE  \E x \in T : \A y \in T : y <= x
<1> DEFINE U == {n - p : p \in T}
<1>1. \A p \in T : p \in Nat /\ n - p \in Nat
  OBVIOUS
<1>2. U \in SUBSET Nat /\ U # {}
  <2>1. U \in SUBSET Nat
    BY <1>1
  <2>2. PICK p \in T : TRUE
    OBVIOUS
  <2>3. n - p \in U
    OBVIOUS
  <2> QED
    BY <2>1, <2>3
<1>3. PICK u \in U : \A v \in U : u <= v
  <2> HIDE DEF U
  <2> QED
    BY <1>2, Least
<1>4. PICK x \in T : u = n - x
  BY <1>3
<1>5. ASSUME NEW y \in T PROVE y <= x
  <2>1. n - x <= n - y
    BY <1>3, <1>4
  <2> QED
    BY <1>1, <2>1
<1> QED
  BY <1>5

LEMMA LastFacts ==
  ASSUME NEW l, NEW n \in Nat, NEW k
  PROVE  \/ Last(l, n, k) = 0 /\ \A p \in 1 .. n : l[p].key # k
         \/ /\ Last(l, n, k) \in 1 .. n /\ l[Last(l, n, k)].key = k
            /\ \A p \in 1 .. n : l[p].key = k => p <= Last(l, n, k)
<1> DEFINE P == {p \in 1 .. n : l[p].key = k}
<1>1. CASE P = {}
  BY <1>1 DEF Last
<1>2. CASE P # {}
  <2>1. \E p \in P : \A q \in P : q <= p
    <3> HIDE DEF P
    <3>1. P \in SUBSET (1 .. n)
      BY DEF P
    <3> QED
      BY <1>2, <3>1, Greatest
  <2>2. Last(l, n, k) = CHOOSE p \in P : \A q \in P : q <= p
    BY <1>2 DEF Last
  <2>3. Last(l, n, k) \in P /\ \A q \in P : q <= Last(l, n, k)
    <3> HIDE DEF P
    <3> QED
      BY <2>1, <2>2
  <2> QED
    BY <2>3
<1> QED
  BY <1>1, <1>2

LEMMA LastIs ==
  ASSUME NEW l, NEW n \in Nat, NEW k, NEW p \in 1 .. n, l[p].key = k,
         \A q \in 1 .. n : l[q].key = k => q <= p
  PROVE  Last(l, n, k) = p
<1>1. /\ Last(l, n, k) \in 1 .. n /\ l[Last(l, n, k)].key = k
      /\ \A q \in 1 .. n : l[q].key = k => q <= Last(l, n, k)
  BY LastFacts
<1>2. Last(l, n, k) <= p /\ p <= Last(l, n, k)
  BY <1>1
<1> QED
  BY <1>1, <1>2

LEMMA StopFacts ==
  ASSUME NEW l \in Seq(Record)
  PROVE  Stop(l) \in 0 .. Len(l)
<1> DEFINE B == {p \in DOMAIN l : l[p].val \in BigVal}
<1>0. Len(l) \in Nat /\ DOMAIN l = 1 .. Len(l)
  OBVIOUS
<1>1. CASE B = {}
  BY <1>0, <1>1 DEF Stop
<1>2. CASE B # {}
  <2>1. B \in SUBSET Nat /\ B \subseteq 1 .. Len(l)
    BY <1>0
  <2>2. \E p \in B : \A q \in B : p <= q
    <3> HIDE DEF B
    <3> QED
      BY <1>2, <2>1, Least
  <2>3. Stop(l) = (CHOOSE p \in B : \A q \in B : p <= q) - 1
    BY <1>2 DEF Stop
  <2>4. (CHOOSE p \in B : \A q \in B : p <= q) \in B
    <3> HIDE DEF B
    <3> QED
      BY <2>2
  <2> QED
    BY <1>0, <2>1, <2>3, <2>4
<1> QED
  BY <1>1, <1>2

\* What a record at its end changes in a file.
LEMMA AppendFacts ==
  ASSUME NEW l \in Seq(Record), NEW r \in Record
  PROVE  /\ Append(l, r) \in Seq(Record)
         /\ Len(Append(l, r)) = Len(l) + 1 /\ Len(l) \in Nat
         /\ DOMAIN l = 1 .. Len(l) /\ DOMAIN Append(l, r) = 1 .. Len(l) + 1
         /\ \A p \in DOMAIN l : p \in DOMAIN Append(l, r) /\ Append(l, r)[p] = l[p]
         /\ Append(l, r)[Len(l) + 1] = r
         /\ \A p \in DOMAIN Append(l, r) : p \in DOMAIN l \/ p = Len(l) + 1
OBVIOUS

LEMMA LastAppended ==
  ASSUME NEW l \in Seq(Record), NEW r \in Record, NEW k
  PROVE  Last(Append(l, r), Len(Append(l, r)), k) =
           IF r.key = k THEN Len(l) + 1 ELSE Last(l, Len(l), k)
<1> DEFINE m == Append(l, r)
           n == Len(l)
<1>0. /\ n \in Nat /\ n + 1 \in Nat /\ Len(m) = n + 1 /\ m[n + 1] = r
      /\ \A p \in 1 .. n : m[p] = l[p]
      /\ \A p \in 1 .. n + 1 : p \in 1 .. n \/ p = n + 1
  BY AppendFacts
<1> HIDE DEF m, n
<1>1. CASE r.key = k
  <2>1. n + 1 \in 1 .. n + 1 /\ \A q \in 1 .. n + 1 : q <= n + 1
    BY <1>0
  <2>2. Last(m, n + 1, k) = n + 1
    BY <1>0, <1>1, <2>1, LastIs
  <2> QED
    BY <1>0, <1>1, <2>2 DEF m, n
<1>2. CASE r.key # k
  <2>1. CASE Last(l, n, k) = 0 /\ \A p \in 1 .. n : l[p].key # k
    <3>1. \A p \in 1 .. n + 1 : m[p].key # k
      BY <1>0, <1>2, <2>1
    <3>2. Last(m, n + 1, k) = 0
      BY <1>0, <3>1, LastFacts
    <3> QED
      BY <1>0, <1>2, <2>1, <3>2 DEF m, n
  <2>2. CASE /\ Last(l, n, k) \in 1 .. n /\ l[Last(l, n, k)].key = k
             /\ \A p \in 1 .. n : l[p].key = k => p <= Last(l, n, k)
    <3> DEFINE p == Last(l, n, k)
    <3>1. p \in 1 .. n + 1 /\ m[p].key = k
      BY <1>0, <2>2
    <3>2. \A q \in 1 .. n + 1 : m[q].key = k => q <= p
      BY <1>0, <1>2, <2>2
    <3>3. Last(m, n + 1, k) = p
      <4> HIDE DEF p
      <4> QED
        BY <1>0, <3>1, <3>2, LastIs
    <3> QED
      BY <1>0, <1>2, <3>3 DEF m, n
  <2> QED
    BY <1>0, <2>1, <2>2, LastFacts
<1> QED
  BY <1>1, <1>2

\* What it changes in what the file says of a key.
LEMMA SaidAfterAppend ==
  ASSUME NEW l \in Seq(Record), NEW r \in Record, NEW k
  PROVE  LET m == Append(l, r) IN
         /\ Lacks(m, k) <=> Lacks(l, k) /\ r.key # k
         /\ \A e, rec : Shows(l, e, rec) => Shows(m, e, rec)
         /\ \A rec : Only(l, k, rec) /\ (r.key = k => r = rec) => Only(m, k, rec)
         /\ r.key = k => EndsWith(m, k, r)
         /\ r.key # k => /\ \A rec : EndsWith(l, k, rec) => EndsWith(m, k, rec)
                         /\ \A f : EntryAt(m, f, Last(m, Len(m), k)) =
                                     EntryAt(l, f, Last(l, Len(l), k))
<1> DEFINE m == Append(l, r)
<1>0. /\ Len(m) = Len(l) + 1 /\ Len(l) \in Nat
      /\ DOMAIN l = 1 .. Len(l) /\ DOMAIN m = 1 .. Len(l) + 1
      /\ \A p \in DOMAIN l : p \in DOMAIN m /\ m[p] = l[p]
      /\ m[Len(l) + 1] = r
      /\ \A p \in DOMAIN m : p \in DOMAIN l \/ p = Len(l) + 1
  BY AppendFacts
<1>1. Last(m, Len(m), k) = IF r.key = k THEN Len(l) + 1 ELSE Last(l, Len(l), k)
  BY LastAppended
<1>2. Last(l, Len(l), k) = 0 \/ Last(l, Len(l), k) \in DOMAIN l
  BY <1>0, LastFacts
<1> HIDE DEF m
<1>3. Lacks(m, k) <=> Lacks(l, k) /\ r.key # k
  <2>1. Len(l) + 1 \in DOMAIN m
    BY <1>0
  <2> QED
    BY <1>0, <2>1 DEF Lacks
<1>4. \A e, rec : Shows(l, e, rec) => Shows(m, e, rec)
  BY <1>0 DEF Shows
<1>5. r.key = k => EndsWith(m, k, r)
  BY <1>0, <1>1 DEF EndsWith
<1>6. r.key # k => \A rec : EndsWith(l, k, rec) => EndsWith(m, k, rec)
  BY <1>0, <1>1, <1>2 DEF EndsWith
<1>7. r.key # k => \A f : EntryAt(m, f, Last(m, Len(m), k)) = EntryAt(l, f, Last(l, Len(l), k))
  BY <1>0, <1>1, <1>2 DEF EntryAt
<1>8. \A rec : Only(l, k, rec) /\ (r.key = k => r = rec) => Only(m, k, rec)
  BY <1>0 DEF Only
<1> QED
  BY <1>3, <1>4, <1>5, <1>6, <1>7, <1>8 DEF m

-----------------------------------------------------------------------------
(* Types.                                                                   *)
LEMMA WorkerFacts ==
  ASSUME NEW w \in WorkerState
  PROVE  /\ w.pc \in {"idle", "scan", "pick", "copy", "reindex", "close", "unlist", "assign",
                      "remove", "drop", "erase", "hint", "finish", "dead"}
         /\ w.pc = "idle" => w = Asleep
         /\ w.pc \in {"scan", "pick", "copy", "reindex", "close", "unlist", "assign", "remove"}
              => w.old \in FileId
         /\ w.pc # "idle" => w.new \in FileId
         /\ w.pc \in {"pick", "copy", "reindex"} =>
              w.latest \in [Key -> Nat] /\ w.todo \in SUBSET Key
         /\ w.pc \in {"copy", "reindex"} => w.key \in Key /\ w.saw \in Entry
         /\ w.pc = "reindex" => w.pos \in Nat
BY DEF WorkerState, Asleep

LEMMA ClientFacts ==
  ASSUME NEW c \in ClientState
  PROVE  /\ c.pc \in {"idle", "route", "append", "index", "find", "read"}
         /\ c.pc = "idle" => c = Idle
         /\ c.pc \in {"route", "append", "index"} => c.rec \in Record /\ c.file \in FileId
         /\ c.pc = "append" => c.viaNew \in BOOLEAN
         /\ c.pc = "index" => c.pos \in Nat
         /\ c.pc \in {"find", "read"} => c.key \in Key /\ c.entry \in Entry
         /\ c.pc = "read" => c.via \in 0 .. MaxFile
BY DEF ClientState, Idle

-----------------------------------------------------------------------------
(* Steps that change neither files nor index nor what was acknowledged.     *)

\* The worker does not move, or only after the copying, and names no file twice.
Later ==
  \/ worker' = worker
  \/ ~Copying /\ ~Copying' /\ (Switching' => Switching /\ worker'.old = worker.old)
\* No file is opened.
NoneOpened == \A f \in FileId : dataFiles[f] = NoHandle => dataFiles'[f] = NoHandle

LEMMA Bounds ==
  /\ MaxFile \in Nat /\ MaxClock \in Nat /\ MaxTtl \in Nat
  /\ \A f \in FileId : f \in Nat /\ f # 0 /\ f \in 0 .. MaxFile
  /\ NoEntry \in Entry /\ NoHandle \in Opening /\ NoHint \in [Key -> Entry]
BY BoundAssumption DEF FileId, Entry, Opening, NoEntry, NoHandle, NoHint

\* While the worker copies, its new file is one of the files.
LEMMA NewFiles ==
  ASSUME Typed, WorkerHandles, Copying
  PROVE  /\ NewFile \in FileId /\ NewFile # fileId /\ NewFile > fileId /\ fileId \in FileId
         /\ worker.old = fileId /\ worker.new = NewFile
<1>1. worker.new \in FileId /\ worker.new = NewFile /\ worker.old = fileId /\ fileId \in FileId
  BY WorkerFacts DEF Typed, WorkerHandles, Copying
<1> QED
  BY <1>1, Bounds DEF NewFile

\* An append to a file keeps what every entry leads to.
LEMMA AppendStep ==
  ASSUME files \in [FileId -> Seq(Record)], NEW f \in FileId, NEW r \in Record,
         files' = [files EXCEPT ![f] = Append(@, r)]
  PROVE  /\ files' \in [FileId -> Seq(Record)]
         /\ files'[f] = Append(files[f], r) /\ files[f] \in Seq(Record)
         /\ \A g \in FileId \ {f} : files'[g] = files[g]
         /\ \A e, rec : Leads(files, e, rec) => Leads(files', e, rec)
<1>1. /\ files' \in [FileId -> Seq(Record)]
      /\ files'[f] = Append(files[f], r) /\ files[f] \in Seq(Record)
      /\ \A g \in FileId \ {f} : files'[g] = files[g]
  BY AppendFacts
<1>2. \A e, rec : Leads(files, e, rec) => Leads(files', e, rec)
  BY <1>1, SaidAfterAppend DEF Leads
<1> QED
  BY <1>1, <1>2

LEMMA LaterFacts ==
  ASSUME Later
  PROVE  /\ Copying' <=> Copying
         /\ Switching' => Switching /\ worker'.old = worker.old
BY DEF Later, Copying, Switching

LEMMA SameClaims ==
  ASSUME NEW k \in Key, Claims(k), UNCHANGED <<files, hint, isOpen, fileId>>,
         acked'[k] = acked[k], index'[k] = index[k], k \in lost => k \in lost',
         k \in fragile => k \in fragile', k \in since' <=> k \in since,
         Pending(k)' <=> Pending(k), Later, NoneOpened
  PROVE  Claims(k)'
<1>1. SUFFICES ASSUME Sure(k)'
               PROVE  /\ isOpen' => Indexed(k)'
                      /\ ~Exempt(k)' => Restorable(k)'
                      /\ Copying' => Moved(k)'
  BY DEF Claims
<1>2. Sure(k)
  BY <1>1 DEF Sure
<1>3. (Copying' <=> Copying) /\ (Switching' => Switching) /\ NewFile' = NewFile
  BY LaterFacts DEF NewFile
<1>4. isOpen' => Indexed(k)'
  <2>1. Astray(index[k], acked[k]) => Astray(index[k], acked[k])'
    BY <1>3 DEF Astray, NoneOpened
  <2> QED
    BY <1>2, <1>3, <2>1 DEF Claims, Indexed, Places
<1>5. ~Exempt(k)' => Restorable(k)'
  BY <1>2, <1>3 DEF Claims, Exempt, Restorable, Recovered
<1>6. Copying' => Moved(k)'
  <2>1. Copying' => worker' = worker
    BY <1>3 DEF Later
  <2> QED
    BY <1>2, <1>3, <2>1 DEF Claims, Moved, Reindexing, Left
<1> QED
  BY <1>4, <1>5, <1>6

LEMMA QuietFrame ==
  ASSUME IInv, Typed', Handled', WorkerHandles', ClientHandles', Reading',
         UNCHANGED <<files, hint, index, isOpen, fileId, acked, lost, fragile, since>>,
         Later, NoneOpened,
         client' = client \/ (client.pc # "index" /\ client'.pc # "index")
  PROVE  IInv'
<1>1. \A k \in Key : Claims(k)'
  BY SameClaims DEF IInv, Pending
<1>2. Found'
  BY DEF IInv, Found, Left, NewFile, Copying, Later
<1> QED
  BY <1>1, <1>2 DEF IInv

\* The handles stay right when neither they nor the worker change.
LEMMA SameHandles ==
  ASSUME Handled, WorkerHandles,
         UNCHANGED <<files, dir, hint, dataFile, dataFiles, isOpen, fileId, inProgress, worker>>,
         ~isOpen => client' = client
  PROVE  /\ Handled' /\ WorkerHandles' /\ Later /\ NoneOpened
         /\ NewFile' = NewFile /\ (Copying' <=> Copying) /\ (Switching' <=> Switching)
BY DEF Handled, WorkerHandles, Copying, Switching, NewFile, Later, NoneOpened

\* So does what a get under way has found.
LEMMA SameReading ==
  ASSUME Typed, Reading, UNCHANGED <<files, index, fileId, client, acked, lost>>,
         Later, NoneOpened
  PROVE  Reading'
<1>1. SUFFICES ASSUME Getting, Sure(client.key)
               PROVE  /\ ~client.entry.del
                      /\ Attached(client.key, client.entry)'
                      /\ Copying' => Traced(client.key, client.entry)'
                      /\ client.pc = "read" => Chosen(client.entry)'
  BY DEF Reading, Getting, Sure
<1>2. /\ ~client.entry.del /\ Attached(client.key, client.entry)
      /\ Copying => Traced(client.key, client.entry)
      /\ client.pc = "read" => Chosen(client.entry)
  BY <1>1 DEF Reading
<1>3. /\ Copying' <=> Copying
      /\ Switching' => Switching /\ worker'.old = worker.old
      /\ NewFile' = NewFile
  BY LaterFacts DEF NewFile
<1>4. client.entry.file \in FileId
  BY <1>2 DEF Attached, Leads, Astray
<1>5. Attached(client.key, client.entry)'
  BY <1>2, <1>3, <1>4 DEF Attached, Places, Overtaken, Astray, NoneOpened
<1>6. Copying' => Traced(client.key, client.entry)'
  <2>1. Copying' => worker' = worker
    BY <1>3 DEF Later
  <2> QED
    BY <1>2, <1>3, <2>1 DEF Traced, Left
<1>7. client.pc = "read" => Chosen(client.entry)'
  BY <1>2, <1>4 DEF Chosen, NoneOpened
<1> QED
  BY <1>2, <1>5, <1>6, <1>7

LEMMA StartWriteStep ==
  ASSUME IInv, NEW k \in Key, NEW v \in Val \cup {NoVal}, NEW ttl \in Ttls, StartWrite(k, v, ttl)
  PROVE  IInv'
<1> DEFINE rec  == [key |-> k, val |-> v, exp |-> IF ttl = 0 THEN 0 ELSE clock + ttl]
           file == IF inProgress THEN worker.new ELSE fileId
           c    == [pc |-> "route", rec |-> rec, file |-> file]
<1>0. /\ Typed /\ Handled /\ WorkerHandles
      /\ client = Idle /\ client' = c /\ isOpen
      /\ UNCHANGED <<disk, handles, index, isOpen, fileId, inProgress, worker, clock, ghosts>>
  BY DEF IInv, StartWrite, Free
<1>1. rec \in Record
  <2>1. (IF ttl = 0 THEN 0 ELSE clock + ttl) \in 0 .. MaxClock + MaxTtl
    BY <1>0, Bounds DEF Ttls, Typed
  <2> QED
    BY <2>1 DEF Record
<1>2. /\ file \in FileId
      /\ \/ file = NewFile /\ ~Switching
         \/ file = fileId /\ ~Copying
  <2>1. worker.pc \in {"idle", "scan", "pick", "copy", "reindex", "close", "unlist", "assign",
                       "remove", "drop", "erase", "hint", "finish", "dead"}
        /\ (worker.pc # "idle" => worker.new \in FileId)
    BY <1>0, WorkerFacts DEF Typed
  <2> QED
    BY <1>0, <2>1 DEF Typed, Handled, WorkerHandles, Copying, Switching
<1>3. c \in ClientState
  BY <1>1, <1>2 DEF ClientState
<1>4. Typed'
  BY <1>0, <1>3 DEF Typed, disk, handles, ghosts
<1>5. /\ Handled' /\ WorkerHandles' /\ Later /\ NoneOpened
      /\ NewFile' = NewFile /\ (Copying' <=> Copying) /\ (Switching' <=> Switching)
  BY <1>0, SameHandles DEF disk, handles
<1>6. ClientHandles'
  <2> HIDE DEF rec, file
  <2> QED
    BY <1>0, <1>2, <1>5 DEF ClientHandles
<1>7. Reading' /\ client.pc # "index" /\ client'.pc # "index"
  BY <1>0 DEF Reading, Getting, Idle
<1> QED
  BY <1>0, <1>4, <1>5, <1>6, <1>7, QuietFrame DEF disk, ghosts

LEMMA RouteStep ==
  ASSUME IInv, Route
  PROVE  IInv'
<1> DEFINE c == [pc |-> "append", rec |-> client.rec, file |-> client.file,
                 viaNew |-> inProgress]
<1>0. /\ Typed /\ Handled /\ WorkerHandles /\ ClientHandles
      /\ client.pc = "route" /\ client' = c
      /\ UNCHANGED <<disk, handles, index, isOpen, fileId, inProgress, worker, clock, ghosts>>
  BY DEF IInv, Route
<1>1. client.rec \in Record /\ client.file \in FileId /\ inProgress \in BOOLEAN /\ isOpen
  BY <1>0, ClientFacts DEF Typed, Handled, Idle
<1>2. Typed'
  BY <1>0, <1>1 DEF Typed, ClientState, disk, handles, ghosts
<1>3. /\ Handled' /\ WorkerHandles' /\ Later /\ NoneOpened
      /\ NewFile' = NewFile /\ (Copying' <=> Copying) /\ (Switching' <=> Switching)
  BY <1>0, <1>1, SameHandles DEF disk, handles
<1>4. ClientHandles'
  BY <1>0, <1>3 DEF ClientHandles
<1>5. Reading' /\ client.pc # "index" /\ client'.pc # "index"
  BY <1>0 DEF Reading, Getting
<1> QED
  BY <1>0, <1>2, <1>3, <1>4, <1>5, QuietFrame DEF disk, ghosts

LEMMA StartGetStep ==
  ASSUME IInv, NEW k \in Key, StartGet(k)
  PROVE  IInv'
<1> DEFINE c == [pc |-> "find", key |-> k, entry |-> index[k]]
<1>0. /\ Typed /\ Handled /\ WorkerHandles /\ Claims(k)
      /\ client = Idle /\ client' = c /\ isOpen /\ index[k] # NoEntry /\ ~index[k].del
      /\ UNCHANGED <<disk, handles, index, isOpen, fileId, inProgress, worker, clock, ghosts>>
  BY DEF IInv, StartGet, Free
<1>1. Typed'
  BY <1>0 DEF Typed, ClientState, disk, handles, ghosts
<1>2. /\ Handled' /\ WorkerHandles' /\ Later /\ NoneOpened
      /\ NewFile' = NewFile /\ (Copying' <=> Copying) /\ (Switching' <=> Switching)
  BY <1>0, SameHandles DEF disk, handles
<1>3. ClientHandles' /\ client.pc # "index" /\ client'.pc # "index"
  BY <1>0 DEF ClientHandles, Idle
<1>4. ASSUME Sure(k)
      PROVE  Attached(k, index[k]) /\ (Copying => Traced(k, index[k]))
  <2>1. /\ Indexed(k) /\ ~Denies(index[k], acked[k]) /\ ~Pending(k)
        /\ Copying => Moved(k)
    BY <1>0, <1>4 DEF Claims, Denies, Pending, Idle
  <2>2. Attached(k, index[k])
    BY <2>1 DEF Indexed, Attached
  <2>3. ASSUME Copying PROVE Traced(k, index[k])
    <3>1. CASE index[k].file = NewFile
      BY <3>1 DEF Traced
    <3>2. CASE index[k].file # NewFile
      <4>1. index[k].file = fileId
        BY <2>1, <3>2 DEF Indexed, Places, Astray
      <4>2. Only(files[NewFile], k, acked[k])
        BY <2>1, <2>3, <3>2 DEF Moved, Only, Lacks
      <4> QED
        BY <4>1, <4>2 DEF Traced
    <3> QED
      BY <3>1, <3>2
  <2> QED
    BY <2>2, <2>3
<1>5. /\ client'.pc = "find" /\ client'.key = k /\ client'.entry = index[k]
      /\ UNCHANGED <<files, index, fileId, dataFiles, worker, acked, lost>>
  BY <1>0 DEF disk, handles, ghosts
<1>6. Reading'
  <2>1. SUFFICES ASSUME Sure(k)
                 PROVE  Attached(k, index[k])' /\ (Copying' => Traced(k, index[k])')
    BY <1>0, <1>5 DEF Reading, Sure
  <2> QED
    BY <1>2, <1>4, <1>5, <2>1
       DEF Attached, Traced, Places, Overtaken, Astray, Left
<1> QED
  BY <1>0, <1>1, <1>2, <1>3, <1>6, QuietFrame DEF disk, ghosts

LEMMA FindFileStep ==
  ASSUME IInv, FindFile
  PROVE  IInv'
<1> DEFINE e   == client.entry
           via == IF dataFiles[e.file] # NoHandle THEN e.file ELSE 0
           c   == [pc |-> "read", key |-> client.key, entry |-> e, via |-> via]
<1>0. /\ Typed /\ Handled /\ WorkerHandles /\ Reading
      /\ client.pc = "find" /\ client' = c
      /\ UNCHANGED <<disk, handles, index, isOpen, fileId, inProgress, worker, clock, ghosts>>
  BY DEF IInv, FindFile
<1>1. client.key \in Key /\ e \in Entry /\ via \in 0 .. MaxFile /\ isOpen
  BY <1>0, ClientFacts, Bounds DEF Typed, Handled, Idle, Entry
<1>2. Typed'
  BY <1>0, <1>1 DEF Typed, ClientState, disk, handles, ghosts
<1>3. /\ Handled' /\ WorkerHandles' /\ Later /\ NoneOpened
      /\ NewFile' = NewFile /\ (Copying' <=> Copying) /\ (Switching' <=> Switching)
  BY <1>0, <1>1, SameHandles DEF disk, handles
<1>4. ClientHandles' /\ client.pc # "index" /\ client'.pc # "index"
  BY <1>0 DEF ClientHandles
<1>5. /\ client'.pc = "read" /\ client'.key = client.key /\ client'.entry = e
      /\ client'.via = via
      /\ UNCHANGED <<files, index, fileId, dataFiles, worker, acked, lost>>
  BY <1>0 DEF disk, handles, ghosts
<1>6. Reading'
  <2>1. SUFFICES ASSUME Sure(client.key)
                 PROVE  /\ ~e.del /\ Attached(client.key, e)'
                        /\ Copying' => Traced(client.key, e)'
                        /\ client'.via = e.file \/ (client'.via = 0 /\ dataFiles'[e.file] = NoHandle)
    BY <1>5 DEF Reading, Sure, Chosen
  <2>2. /\ ~e.del /\ Attached(client.key, e)
        /\ Copying => Traced(client.key, e)
    BY <1>0, <2>1 DEF Reading, Getting
  <2>3. client'.via = e.file \/ (client'.via = 0 /\ dataFiles'[e.file] = NoHandle)
    BY <1>5
  <2> HIDE DEF via, c
  <2>4. Attached(client.key, e)' /\ (Copying' => Traced(client.key, e)')
    BY <1>3, <1>5, <2>2
       DEF Attached, Traced, Places, Overtaken, Astray, Left
  <2> QED
    BY <2>2, <2>3, <2>4
<1> QED
  BY <1>0, <1>2, <1>3, <1>4, <1>6, QuietFrame DEF disk, ghosts

LEMMA FinishGetStep ==
  ASSUME IInv, FinishGet
  PROVE  IInv'
<1>0. /\ Typed /\ Handled /\ WorkerHandles
      /\ client.pc = "read" /\ client' = Idle
      /\ UNCHANGED <<disk, handles, index, isOpen, fileId, inProgress, worker, clock, ghosts>>
  BY DEF IInv, FinishGet
<1>1. Typed'
  BY <1>0 DEF Typed, ClientState, Idle, disk, handles, ghosts
<1>2. isOpen
  BY <1>0 DEF Handled, Idle
<1>3. Handled' /\ WorkerHandles' /\ Later /\ NoneOpened
  BY <1>0, <1>2, SameHandles DEF disk, handles
<1>4. ClientHandles' /\ Reading' /\ client.pc # "index" /\ client'.pc # "index"
  BY <1>0 DEF ClientHandles, Reading, Getting, Idle
<1> QED
  BY <1>0, <1>1, <1>3, <1>4, QuietFrame DEF disk, ghosts

\* A step of the worker after the switch of files, and the clock.
LEMMA LateStep ==
  ASSUME IInv,
         UNCHANGED <<files, hint, index, isOpen, fileId, client, acked, lost, fragile, since>>,
         Typed', Handled', WorkerHandles', Later, NoneOpened, inProgress' => inProgress
  PROVE  IInv'
<1>1. ClientHandles'
  BY LaterFacts DEF IInv, ClientHandles, NewFile
<1>2. Reading'
  BY SameReading DEF IInv
<1> QED
  BY <1>1, <1>2, QuietFrame

\* What every step between the switch of files and the end of the worker can use.
LEMMA SwitchedFacts ==
  ASSUME IInv, worker.pc # "idle"
  PROVE  /\ Typed /\ Handled /\ WorkerHandles /\ ClientHandles /\ isOpen /\ inProgress
         /\ fileId \in FileId /\ worker.new \in FileId /\ worker \in WorkerState
         /\ Switching \/ worker.pc = "remove" =>
              worker.old \in FileId /\ worker.old # fileId /\ worker.new = fileId
         /\ worker.pc \in {"drop", "erase"} =>
              worker.new = NewFile /\ NewFile \in FileId /\ NewFile # fileId
<1>1. Typed /\ Handled /\ WorkerHandles /\ ClientHandles
  BY DEF IInv
<1>2. isOpen /\ inProgress /\ fileId \in FileId /\ worker \in WorkerState
  BY <1>1 DEF Handled, Asleep, Typed
<1>3. worker.new \in FileId
  BY <1>2, WorkerFacts
<1>4. Switching \/ worker.pc = "remove" =>
        worker.old \in FileId /\ worker.old # fileId /\ worker.new = fileId
  BY <1>1, <1>2, WorkerFacts, Bounds DEF WorkerHandles, Switching
<1>5. worker.pc \in {"drop", "erase"} =>
        worker.new = NewFile /\ NewFile \in FileId /\ NewFile # fileId
  BY <1>1, <1>2, <1>3, Bounds DEF WorkerHandles, NewFile
<1> QED
  BY <1>1, <1>2, <1>3, <1>4, <1>5

LEMMA CloseOldStep ==
  ASSUME IInv, CloseOld
  PROVE  IInv'
<1>0. /\ worker.pc = "close" /\ worker' = [worker EXCEPT !.pc = "unlist"]
      /\ UNCHANGED <<disk, handles, index, isOpen, fileId, inProgress, client, clock,
                     counters, ghosts>>
  BY DEF CloseOld
<1>1. /\ Typed /\ Handled /\ WorkerHandles /\ isOpen /\ inProgress /\ worker \in WorkerState
      /\ fileId \in FileId
  BY <1>0, SwitchedFacts
<1>2. /\ worker' \in WorkerState /\ worker'.pc = "unlist" /\ worker'.new = worker.new
      /\ worker'.old = worker.old
  BY <1>0, <1>1 DEF WorkerState
<1>3. Later /\ NoneOpened /\ Switching /\ Switching'
  BY <1>0, <1>2 DEF Later, NoneOpened, Copying, Switching, handles
<1>4. Typed'
  BY <1>0, <1>1, <1>2 DEF Typed, disk, handles, ghosts
<1>5. Handled' /\ WorkerHandles'
  BY <1>0, <1>1, <1>2, <1>3
     DEF Handled, WorkerHandles, Copying, NewFile, Switching, disk, handles
<1> QED
  BY <1>0, <1>3, <1>4, <1>5, LateStep DEF disk, ghosts

LEMMA UnlistOldStep ==
  ASSUME IInv, UnlistOld
  PROVE  IInv'
<1>0. /\ worker.pc = "unlist" /\ worker' = [worker EXCEPT !.pc = "assign"]
      /\ dataFiles' = [dataFiles EXCEPT ![worker.old] = NoHandle]
      /\ UNCHANGED <<disk, dataFile, index, isOpen, fileId, inProgress, client, clock,
                     counters, ghosts>>
  BY DEF UnlistOld
<1>1. /\ Typed /\ Handled /\ WorkerHandles /\ isOpen /\ inProgress /\ worker \in WorkerState
      /\ worker.old \in FileId /\ worker.old # fileId /\ fileId \in FileId
  BY <1>0, SwitchedFacts DEF Switching
<1>2. /\ worker' \in WorkerState /\ worker'.pc = "assign" /\ worker'.new = worker.new
      /\ worker'.old = worker.old
  BY <1>0, <1>1 DEF WorkerState
<1>3. /\ dataFiles' \in [FileId -> Opening] /\ dataFiles'[worker.old] = NoHandle
      /\ \A f \in FileId \ {worker.old} : dataFiles'[f] = dataFiles[f]
  BY <1>0, <1>1, Bounds DEF Typed
<1>4. Later /\ NoneOpened /\ Switching /\ Switching'
  BY <1>0, <1>2, <1>3 DEF Later, NoneOpened, Copying, Switching
<1>5. Typed'
  BY <1>0, <1>1, <1>2, <1>3 DEF Typed, disk, ghosts
<1>6. Handled' /\ WorkerHandles'
  BY <1>0, <1>1, <1>2, <1>3, <1>4
     DEF Handled, WorkerHandles, Copying, NewFile, Switching, disk
<1> QED
  BY <1>0, <1>4, <1>5, <1>6, LateStep DEF disk, ghosts

LEMMA AssignDataFileStep ==
  ASSUME IInv, AssignDataFile
  PROVE  IInv'
<1>0. /\ worker.pc = "assign" /\ worker' = [worker EXCEPT !.pc = "remove"]
      /\ dataFile' = dataFiles[worker.new]
      /\ UNCHANGED <<disk, dataFiles, index, isOpen, fileId, inProgress, client, clock,
                     counters, ghosts>>
  BY DEF AssignDataFile
<1>1. /\ Typed /\ Handled /\ WorkerHandles /\ isOpen /\ inProgress /\ worker \in WorkerState
      /\ worker.new = fileId /\ fileId \in FileId
  BY <1>0, SwitchedFacts DEF Switching
<1>2. /\ worker' \in WorkerState /\ worker'.pc = "remove" /\ worker'.new = worker.new
      /\ worker'.old = worker.old
  BY <1>0, <1>1 DEF WorkerState
<1>3. dataFile' \in Opening /\ dataFile'.ino = fileId
  BY <1>0, <1>1 DEF Typed, Handled
<1>4. Later /\ NoneOpened /\ ~Switching'
  BY <1>0, <1>2 DEF Later, NoneOpened, Copying, Switching
<1>5. Typed'
  BY <1>0, <1>1, <1>2, <1>3 DEF Typed, disk, ghosts
<1>6. Handled' /\ WorkerHandles'
  BY <1>0, <1>1, <1>2, <1>3, <1>4
     DEF Handled, WorkerHandles, Copying, NewFile, Switching, disk
<1> QED
  BY <1>0, <1>4, <1>5, <1>6, LateStep DEF disk, ghosts

LEMMA RemoveOldStep ==
  ASSUME IInv, RemoveOld
  PROVE  IInv'
<1>0. /\ worker.pc = "remove" /\ worker' = [pc |-> "hint", new |-> worker.new]
      /\ dir' = [dir EXCEPT ![worker.old] = 0]
      /\ UNCHANGED <<files, hint, handles, index, isOpen, fileId, inProgress, client, clock,
                     counters, ghosts>>
  BY DEF RemoveOld
<1>1. /\ Typed /\ Handled /\ WorkerHandles /\ isOpen /\ inProgress
      /\ worker.old \in FileId /\ worker.new \in FileId /\ worker.old # fileId
      /\ fileId \in FileId /\ worker.new = fileId
  BY <1>0, SwitchedFacts
<1>2. worker' \in WorkerState /\ worker'.pc = "hint" /\ worker'.new = worker.new
  BY <1>0, <1>1 DEF WorkerState
<1>3. /\ dir' \in [FileId -> 0 .. MaxFile] /\ dir'[fileId] = dir[fileId]
      /\ \A f \in FileId : dir'[f] \in {0, f}
  BY <1>0, <1>1, Bounds DEF Typed, Handled
<1>4. Later /\ NoneOpened /\ ~Switching /\ ~Switching'
  BY <1>0, <1>2 DEF Later, NoneOpened, Copying, Switching, handles
<1>5. Typed'
  BY <1>0, <1>1, <1>2, <1>3 DEF Typed, handles, ghosts
<1>6. Handled' /\ WorkerHandles'
  BY <1>0, <1>1, <1>2, <1>3, <1>4
     DEF Handled, WorkerHandles, Copying, NewFile, Switching, handles
<1> QED
  BY <1>0, <1>4, <1>5, <1>6, LateStep DEF ghosts

LEMMA RemovalFailsStep ==
  ASSUME IInv, RemovalFails
  PROVE  IInv'
<1>0. /\ worker.pc \in {"remove", "erase"} /\ worker' = [pc |-> "dead", new |-> worker.new]
      /\ UNCHANGED <<disk, handles, index, isOpen, fileId, inProgress, client, clock,
                     counters, ghosts>>
  BY DEF RemovalFails
<1>1. /\ Typed /\ Handled /\ WorkerHandles /\ isOpen /\ inProgress
      /\ worker.new \in FileId /\ worker.new \in {fileId, NewFile}
  BY <1>0, SwitchedFacts
<1>2. worker' \in WorkerState /\ worker'.pc = "dead" /\ worker'.new = worker.new
  BY <1>0, <1>1 DEF WorkerState
<1>3. Later /\ NoneOpened /\ ~Switching /\ ~Switching' /\ NewFile' = NewFile
  BY <1>0, <1>2 DEF Later, NoneOpened, Copying, Switching, handles, NewFile
<1>4. Typed'
  BY <1>0, <1>1, <1>2 DEF Typed, disk, handles, ghosts
<1>5. Handled' /\ WorkerHandles'
  BY <1>0, <1>1, <1>2, <1>3 DEF Handled, WorkerHandles, Copying, Switching, disk, handles
<1> QED
  BY <1>0, <1>3, <1>4, <1>5, LateStep DEF disk, ghosts

LEMMA DropNewStep ==
  ASSUME IInv, DropNew
  PROVE  IInv'
<1>0. /\ worker.pc = "drop" /\ worker' = [worker EXCEPT !.pc = "erase"]
      /\ dataFiles' = [dataFiles EXCEPT ![worker.new] = NoHandle]
      /\ UNCHANGED <<disk, dataFile, index, isOpen, fileId, inProgress, client, clock,
                     counters, ghosts>>
  BY DEF DropNew
<1>1. /\ Typed /\ Handled /\ WorkerHandles /\ isOpen /\ inProgress /\ worker \in WorkerState
      /\ worker.new = NewFile /\ NewFile \in FileId /\ NewFile # fileId /\ fileId \in FileId
  BY <1>0, SwitchedFacts
<1>2. worker' \in WorkerState /\ worker'.pc = "erase" /\ worker'.new = worker.new
  BY <1>0, <1>1 DEF WorkerState
<1>3. /\ dataFiles' \in [FileId -> Opening] /\ dataFiles'[NewFile] = NoHandle
      /\ \A f \in FileId \ {NewFile} : dataFiles'[f] = dataFiles[f]
  BY <1>0, <1>1, Bounds DEF Typed
<1>4. Later /\ NoneOpened /\ ~Switching /\ ~Switching' /\ NewFile' = NewFile
  BY <1>0, <1>2, <1>3 DEF Later, NoneOpened, Copying, Switching, NewFile
<1>5. Typed'
  BY <1>0, <1>1, <1>2, <1>3 DEF Typed, disk, ghosts
<1>6. Handled' /\ WorkerHandles'
  BY <1>0, <1>1, <1>2, <1>3, <1>4 DEF Handled, WorkerHandles, Copying, Switching, disk
<1> QED
  BY <1>0, <1>4, <1>5, <1>6, LateStep DEF disk, ghosts

LEMMA EraseNewStep ==
  ASSUME IInv, EraseNew
  PROVE  IInv'
<1>0. /\ worker.pc = "erase" /\ worker' = [pc |-> "finish", new |-> worker.new]
      /\ dir' = [dir EXCEPT ![worker.new] = 0]
      /\ UNCHANGED <<files, hint, handles, index, isOpen, fileId, inProgress, client, clock,
                     counters, ghosts>>
  BY DEF EraseNew
<1>1. /\ Typed /\ Handled /\ WorkerHandles /\ isOpen /\ inProgress /\ worker.new \in FileId
      /\ worker.new = NewFile /\ NewFile \in FileId /\ NewFile # fileId /\ fileId \in FileId
  BY <1>0, SwitchedFacts
<1>2. worker' \in WorkerState /\ worker'.pc = "finish" /\ worker'.new = worker.new
  BY <1>0, <1>1 DEF WorkerState
<1>3. /\ dir' \in [FileId -> 0 .. MaxFile] /\ dir'[fileId] = dir[fileId]
      /\ \A f \in FileId : dir'[f] \in {0, f}
  BY <1>0, <1>1, Bounds DEF Typed, Handled
<1>4. Later /\ NoneOpened /\ ~Switching /\ ~Switching' /\ NewFile' = NewFile
  BY <1>0, <1>2 DEF Later, NoneOpened, Copying, Switching, handles, NewFile
<1>5. Typed'
  BY <1>0, <1>1, <1>2, <1>3 DEF Typed, handles, ghosts
<1>6. Handled' /\ WorkerHandles'
  BY <1>0, <1>1, <1>2, <1>3, <1>4 DEF Handled, WorkerHandles, Copying, Switching, handles
<1> QED
  BY <1>0, <1>4, <1>5, <1>6, LateStep DEF ghosts

LEMMA FinishStep ==
  ASSUME IInv, Finish
  PROVE  IInv'
<1>0. /\ worker.pc = "finish" /\ worker' = Asleep /\ inProgress' = FALSE
      /\ UNCHANGED <<disk, handles, index, isOpen, fileId, client, clock, counters, ghosts>>
  BY DEF Finish
<1>1. Typed /\ Handled /\ WorkerHandles /\ isOpen
  BY <1>0, SwitchedFacts
<1>2. worker' \in WorkerState /\ worker'.pc = "idle"
  BY <1>0 DEF WorkerState, Asleep
<1>3. Later /\ NoneOpened /\ ~Switching /\ ~Switching' /\ NewFile' = NewFile
  BY <1>0, <1>2 DEF Later, NoneOpened, Copying, Switching, handles, NewFile
<1>4. Typed'
  BY <1>0, <1>1, <1>2 DEF Typed, disk, handles, ghosts
<1>5. Handled' /\ WorkerHandles'
  BY <1>0, <1>1, <1>2, <1>3
     DEF Handled, WorkerHandles, Copying, Switching, Asleep, disk, handles
<1> QED
  BY <1>0, <1>3, <1>4, <1>5, LateStep DEF disk, ghosts

LEMMA TickStep ==
  ASSUME IInv, Tick
  PROVE  IInv'
<1>0. /\ Typed /\ Handled /\ WorkerHandles
      /\ UNCHANGED <<disk, handles, index, isOpen, fileId, inProgress, worker, client,
                     counters, ghosts>>
  BY DEF IInv, Tick
<1>1. clock' \in 0 .. MaxClock
  BY <1>0, Bounds DEF Tick, Typed
<1>2. Typed'
  BY <1>0, <1>1 DEF Typed, disk, handles, ghosts
<1>3. Handled' /\ WorkerHandles' /\ Later /\ NoneOpened
  BY <1>0, SameHandles DEF disk, handles
<1> QED
  BY <1>0, <1>2, <1>3, LateStep DEF disk, ghosts

-----------------------------------------------------------------------------
(* The application's writes.                                                *)

\* A record at the end of a file changes only what is said of its own key, whose write is
\* pending from then on.
LEMMA AppendedClaims ==
  ASSUME NEW k \in Key, Claims(k), files \in [FileId -> Seq(Record)], fileId \in FileId, isOpen,
         NEW f \in FileId, NEW r \in Record, files' = [files EXCEPT ![f] = Append(@, r)],
         Copying => NewFile \in FileId /\ f = NewFile /\ NewFile # fileId,
         ~Copying => f = fileId,
         ~Pending(k), Pending(k)' <=> r.key = k, NoneOpened,
         UNCHANGED <<hint, index, isOpen, fileId, worker, acked, lost, fragile, since>>
  PROVE  Claims(k)'
<1>1. SUFFICES ASSUME Sure(k)
               PROVE  /\ Indexed(k)'
                      /\ ~Exempt(k)' => Restorable(k)'
                      /\ Copying => Moved(k)'
  BY DEF Claims, Sure, Copying
<1>2. /\ files'[f] = Append(files[f], r) /\ files[f] \in Seq(Record)
      /\ \A g \in FileId \ {f} : files'[g] = files[g]
      /\ \A e, rec : Leads(files, e, rec) => Leads(files', e, rec)
  BY AppendStep
<1>3. LET m == files'[f] IN
      /\ Lacks(m, k) <=> Lacks(files[f], k) /\ r.key # k
      /\ \A e, rec : Shows(files[f], e, rec) => Shows(m, e, rec)
      /\ r.key # k => /\ \A rec : Only(files[f], k, rec) => Only(m, k, rec)
                      /\ \A rec : EndsWith(files[f], k, rec) => EndsWith(m, k, rec)
                      /\ \A g : EntryAt(m, g, Last(m, Len(m), k)) =
                                  EntryAt(files[f], g, Last(files[f], Len(files[f]), k))
  <2> DEFINE l == files[f]
  <2>1. l \in Seq(Record) /\ files'[f] = Append(l, r)
    BY <1>2
  <2> HIDE DEF l
  <2>2. LET m == Append(l, r) IN
        /\ Lacks(m, k) <=> Lacks(l, k) /\ r.key # k
        /\ \A e, rec : Shows(l, e, rec) => Shows(m, e, rec)
        /\ r.key # k => /\ \A rec : Only(l, k, rec) => Only(m, k, rec)
                        /\ \A rec : EndsWith(l, k, rec) => EndsWith(m, k, rec)
                        /\ \A g : EntryAt(m, g, Last(m, Len(m), k)) =
                                    EntryAt(l, g, Last(l, Len(l), k))
    BY <2>1, SaidAfterAppend
  <2> QED
    BY <2>1, <2>2 DEF l
<1>4. (Copying' <=> Copying) /\ (Switching' <=> Switching) /\ NewFile' = NewFile
  BY DEF Copying, Switching, NewFile
<1>5. Indexed(k)'
  <2>0. Indexed(k)
    BY <1>1 DEF Claims
  <2>1. CASE Leads(files, index[k], acked[k]) /\ index[k].file \in Places
    BY <1>2, <1>4, <2>1 DEF Indexed, Places
  <2>2. CASE Astray(index[k], acked[k])
    <3>1. Shows(files'[fileId], index[k], acked[k])
      BY <1>2, <1>3, <2>2 DEF Astray
    <3>2. dataFiles'[NewFile] = NoHandle
      BY <2>2 DEF Astray, NoneOpened
    <3> QED
      BY <1>4, <2>2, <3>1, <3>2 DEF Indexed, Astray
  <2>3. CASE /\ Denies(index[k], acked[k]) /\ index[k].file <= fileId
             /\ Lacks(files[fileId], k) \/ (~Copying /\ Pending(k))
    BY <1>2, <1>3, <1>4, <2>3 DEF Indexed
  <2> QED
    BY <2>0, <2>1, <2>2, <2>3 DEF Indexed
<1>6. ~Exempt(k)' => Restorable(k)'
  <2>1. ASSUME ~Exempt(k)' PROVE Restorable(k)
    BY <1>1, <1>4, <2>1 DEF Claims, Exempt
  <2>2. CASE Copying
    <3>1. files'[fileId] = files[fileId]
      BY <1>2, <2>2
    <3> QED
      BY <2>1, <3>1 DEF Restorable, Recovered
  <2>3. ASSUME ~Copying, ~Exempt(k)' PROVE Restorable(k)'
    <3>1. r.key # k /\ f = fileId
      BY <1>4, <2>3 DEF Exempt
    <3>2. Recovered(k)' = Recovered(k)
      BY <1>3, <3>1 DEF Recovered
    <3> QED
      BY <1>3, <2>1, <2>3, <3>1, <3>2 DEF Restorable
  <2> QED
    BY <2>2, <2>3
<1>7. Copying => Moved(k)'
  <2>1. SUFFICES ASSUME Copying PROVE Moved(k)'
    OBVIOUS
  <2>2. Moved(k) /\ f = NewFile
    BY <1>1, <2>1 DEF Claims
  <2>3. /\ Reindexing(k)' <=> Reindexing(k)
        /\ Left' = Left
    BY DEF Reindexing, Left
  <2> QED
    BY <1>1, <1>3, <1>4, <2>2, <2>3 DEF Moved
<1> QED
  BY <1>5, <1>6, <1>7

\* Which handle a write has chosen, and where its record goes.
LEMMA ChosenHandle ==
  ASSUME Typed, Handled, WorkerHandles, ClientHandles, isOpen, client.pc = "append",
         client.viaNew => dataFiles[client.file] # NoHandle
  PROVE  LET h == IF client.viaNew THEN dataFiles[client.file] ELSE dataFile IN
         /\ h \in Opening /\ h.ino \in FileId /\ fileId \in FileId
         /\ client.viaNew => h.ino = client.file
         /\ \/ h.ino = fileId /\ ~Copying /\ h.ino \notin Closed
            \/ h.ino = NewFile /\ Copying /\ NewFile # fileId /\ client.viaNew /\ Closed = {}
            \/ h.ino = NewFile /\ worker.pc = "drop" /\ client.viaNew /\ NewFile # fileId
               /\ Closed = {NewFile}
<1> DEFINE f == client.file
           h == IF client.viaNew THEN dataFiles[f] ELSE dataFile
<1>1. /\ f \in FileId /\ client.viaNew \in BOOLEAN /\ fileId \in FileId
      /\ worker \in WorkerState /\ h \in Opening
  BY ClientFacts DEF Typed
<1>2. /\ worker.pc \in {"unlist", "assign"} => Closed = {worker.old}
      /\ worker.pc = "drop" => Closed = {NewFile}
      /\ worker.pc \notin {"unlist", "assign", "drop"} => Closed = {}
  BY DEF Closed, WorkerHandles
<1>3. fileId \notin Closed
  BY <1>1, <1>2, Bounds DEF WorkerHandles, Switching, NewFile
<1>4. CASE ~client.viaNew
  <2>1. worker.pc = "idle"
    BY <1>4 DEF ClientHandles, Handled
  <2>2. h.ino = fileId /\ ~Copying
    BY <1>4, <2>1 DEF Handled, Copying, Switching
  <2> QED
    BY <1>1, <1>3, <1>4, <2>2
<1>5. CASE client.viaNew
  <2>1. h.ino = f
    BY <1>1, <1>5 DEF Handled
  <2>2. CASE f = fileId /\ ~Copying
    BY <1>1, <1>3, <1>5, <2>1, <2>2
  <2>3. CASE f = NewFile /\ ~Switching
    <3>1. NewFile > fileId /\ NewFile # fileId
      BY <1>1, Bounds DEF NewFile
    <3>2. Copying \/ worker.pc = "drop"
      BY <1>1, <1>5, <2>3, <3>1 DEF WorkerHandles
    <3>3. Copying => Closed = {}
      BY <1>2 DEF Copying
    <3> QED
      BY <1>1, <1>2, <1>5, <2>1, <2>3, <3>1, <3>2, <3>3
  <2> QED
    BY <2>2, <2>3 DEF ClientHandles
<1> QED
  BY <1>4, <1>5

LEMMA AppendWriteStep ==
  ASSUME IInv, AppendWrite
  PROVE  IInv'
<1> DEFINE f == client.file
           r == client.rec
           h == IF client.viaNew THEN dataFiles[f] ELSE dataFile
<1>0. /\ Typed /\ Handled /\ WorkerHandles /\ ClientHandles /\ Found
      /\ client.pc = "append" /\ isOpen /\ fileId \in FileId
      /\ r \in Record /\ f \in FileId /\ client.viaNew \in BOOLEAN
      /\ UNCHANGED <<index, isOpen, fileId, inProgress, worker, clock, counters, ghosts>>
  <2>1. Typed /\ Handled /\ WorkerHandles /\ ClientHandles /\ Found
    BY DEF IInv
  <2>2. client \in ClientState /\ client.pc = "append"
    BY <2>1 DEF Typed, AppendWrite
  <2>3. r \in Record /\ f \in FileId /\ client.viaNew \in BOOLEAN
    BY <2>2, ClientFacts
  <2>4. isOpen /\ fileId \in FileId
    BY <2>1, <2>2 DEF Typed, Handled, Idle
  <2> QED
    BY <2>1, <2>2, <2>3, <2>4 DEF AppendWrite
<1>1. CASE WriteFails
  <2>1. client' = Idle /\ UNCHANGED <<disk, handles>>
    BY <1>1 DEF WriteFails
  <2>2. Typed'
    BY <1>0, <2>1 DEF Typed, ClientState, Idle, disk, handles, ghosts
  <2>3. Handled' /\ WorkerHandles' /\ Later /\ NoneOpened
    BY <1>0, <2>1, SameHandles DEF disk, handles
  <2>4. ClientHandles' /\ Reading' /\ client.pc # "index" /\ client'.pc # "index"
    BY <1>0, <2>1 DEF ClientHandles, Reading, Getting, Idle
  <2> QED
    BY <1>0, <2>1, <2>2, <2>3, <2>4, QuietFrame DEF disk, ghosts
<1>2. CASE WriteLands
  <2> DEFINE c == [pc |-> "index", rec |-> r, file |-> f, pos |-> Grown(h).size]
  <2>1. /\ client.viaNew => dataFiles[f] # NoHandle
        /\ IF h.ino \in Closed THEN UNCHANGED files ELSE AppendTo(h, r)
        /\ UNCHANGED <<dir, hint>> /\ client' = c
        /\ client.viaNew => dataFiles' = [dataFiles EXCEPT ![f] = Grown(h)] /\ UNCHANGED dataFile
        /\ ~client.viaNew => dataFile' = Grown(h) /\ UNCHANGED dataFiles
    BY <1>2 DEF WriteLands
  <2>2. /\ h \in Opening /\ h.ino \in FileId
        /\ client.viaNew => h.ino = f
        /\ \/ h.ino = fileId /\ ~Copying /\ h.ino \notin Closed
           \/ h.ino = NewFile /\ Copying /\ NewFile # fileId /\ client.viaNew /\ Closed = {}
           \/ h.ino = NewFile /\ worker.pc = "drop" /\ client.viaNew /\ NewFile # fileId
              /\ Closed = {NewFile}
    BY <1>0, <2>1, ChosenHandle
  <2>3. Grown(h) \in Opening /\ Grown(h).ino = h.ino /\ Grown(h).size = h.size + 1
        /\ h.size \in Nat
    BY <2>2 DEF Opening, Grown
  <2>4. Copying => h = [ino |-> NewFile, size |-> Len(files[NewFile])]
    BY <1>0, <2>2, Bounds DEF WorkerHandles, Copying
  <2> HIDE DEF h
  <2>5. /\ dataFile' \in Opening /\ dataFiles' \in [FileId -> Opening]
        /\ client.viaNew => dataFile' = dataFile /\ dataFiles'[f] = Grown(h)
        /\ ~client.viaNew => dataFiles' = dataFiles /\ dataFile' = Grown(h)
        /\ \A g \in FileId : g # f => dataFiles'[g] = dataFiles[g]
    BY <1>0, <2>1, <2>3 DEF Typed
  <2>6. /\ NoneOpened /\ NewFile' = NewFile
        /\ (Copying' <=> Copying) /\ (Switching' <=> Switching) /\ Left' = Left
    BY <1>0, <2>1, <2>5 DEF NoneOpened, NewFile, Copying, Switching, Left
  <2>7. c \in ClientState
    BY <1>0, <2>3 DEF ClientState, Opening
  <2>8. ~client.viaNew => worker.pc = "idle"
    BY <1>0 DEF ClientHandles, Handled
  <2>9. /\ \A g \in FileId : dataFiles'[g] = NoHandle \/ dataFiles'[g].ino = g
        /\ dataFiles'[fileId].ino = fileId
        /\ dataFile'.ino = IF Switching THEN worker.old ELSE fileId
        /\ worker.pc = "drop" => dataFiles'[NewFile] # NoHandle
        /\ \A g \in FileId : g > fileId /\ dataFiles'[g] # NoHandle => dataFiles[g] # NoHandle
    <3>1. \A g \in FileId : dataFiles'[g] = NoHandle \/ dataFiles'[g].ino = g
      BY <1>0, <2>2, <2>3, <2>5 DEF Handled
    <3>2. dataFiles'[fileId].ino = fileId
      BY <1>0, <2>2, <2>3, <2>5 DEF Handled
    <3>3. dataFile'.ino = IF Switching THEN worker.old ELSE fileId
      <4>1. CASE client.viaNew
        BY <1>0, <2>5, <4>1 DEF Handled
      <4>2. CASE ~client.viaNew
        <5>1. dataFile' = Grown(h) /\ h.ino = dataFile.ino
          BY <2>5, <4>2 DEF h
        <5> QED
          BY <1>0, <2>3, <5>1 DEF Handled
      <4> QED
        BY <4>1, <4>2
    <3>4. worker.pc = "drop" => NewFile \in FileId
      BY <1>0, WorkerFacts DEF Typed, WorkerHandles
    <3>5. worker.pc = "drop" => dataFiles'[NewFile] # NoHandle
      <4> SUFFICES ASSUME worker.pc = "drop" PROVE dataFiles'[NewFile] # NoHandle
        OBVIOUS
      <4>1. dataFiles[NewFile] # NoHandle
        BY <1>0 DEF WorkerHandles
      <4>2. CASE f = NewFile
        <5>1. dataFiles'[NewFile] = Grown(h) /\ Grown(h).ino # 0
          BY <2>2, <2>3, <2>5, <2>8, <4>2, Bounds
        <5> QED
          BY <5>1 DEF NoHandle
      <4>3. CASE f # NewFile
        BY <2>5, <3>4, <4>1, <4>3
      <4> QED
        BY <4>2, <4>3
    <3>6. \A g \in FileId : g > fileId /\ dataFiles'[g] # NoHandle => dataFiles[g] # NoHandle
      BY <2>6 DEF NoneOpened
    <3> QED
      BY <3>1, <3>2, <3>3, <3>5, <3>6
  <2>10. ClientHandles'
    BY <1>0, <2>1, <2>6 DEF ClientHandles
  <2>11. Reading'
    BY <2>1 DEF Reading, Getting
  <2>12. \A k \in Key : ~Pending(k) /\ (Pending(k)' <=> r.key = k)
    BY <1>0, <2>1 DEF Pending
  <2>13. CASE h.ino \in Closed
    <3>1. UNCHANGED files /\ worker.pc = "drop" /\ ~Copying /\ ~Switching
      BY <2>1, <2>2, <2>13 DEF Copying, Switching
    <3>2. Typed'
      BY <1>0, <2>1, <2>5, <2>7, <3>1 DEF Typed, ghosts
    <3>3. Handled'
      BY <1>0, <2>1, <2>6, <2>9, <3>1 DEF Handled
    <3>4. WorkerHandles'
      BY <1>0, <2>1, <2>6, <2>9, <3>1 DEF WorkerHandles
    <3>5. Found'
      BY <1>0, <3>1 DEF Found
    <3>6. ASSUME NEW k \in Key, Sure(k)
          PROVE  Indexed(k)' /\ (~Exempt(k)' => Restorable(k)')
      <4>1. Indexed(k) /\ (~Exempt(k) => Restorable(k))
        BY <1>0, <3>6 DEF IInv, Claims
      <4>2. ~Astray(index[k], acked[k])
        BY <1>0, <3>1 DEF Astray, WorkerHandles
      <4>3. Indexed(k)'
        BY <1>0, <2>6, <2>12, <3>1, <4>1, <4>2 DEF Indexed, Places, ghosts
      <4>4. ~Exempt(k)' => Restorable(k)'
        BY <1>0, <2>1, <2>6, <2>12, <3>1, <4>1 DEF Exempt, Restorable, Recovered, ghosts
      <4> QED
        BY <4>3, <4>4
    <3>7. \A k \in Key : Claims(k)'
      BY <1>0, <2>6, <3>1, <3>6 DEF Claims, Sure, ghosts
    <3> QED
      BY <2>10, <2>11, <3>2, <3>3, <3>4, <3>5, <3>7 DEF IInv
  <2>14. CASE h.ino \notin Closed
    <3> DEFINE a == h.ino
    <3>1. /\ a \in FileId /\ files' = [files EXCEPT ![a] = Append(@, r)]
          /\ ~Copying => a = fileId
          /\ Copying => NewFile \in FileId /\ a = NewFile /\ NewFile # fileId
      BY <2>1, <2>2, <2>14 DEF AppendTo, Copying
    <3> HIDE DEF a
    <3>2. /\ files' \in [FileId -> Seq(Record)]
          /\ files'[a] = Append(files[a], r) /\ files[a] \in Seq(Record)
          /\ \A g \in FileId \ {a} : files'[g] = files[g]
          /\ Len(files'[a]) = Len(files[a]) + 1
          /\ \A p \in DOMAIN files[a] : p \in DOMAIN files'[a] /\ files'[a][p] = files[a][p]
      BY <1>0, <3>1, AppendStep, AppendFacts DEF Typed
    <3>3. Typed'
      BY <1>0, <2>1, <2>5, <2>7, <3>2 DEF Typed, ghosts
    <3>4. Handled'
      <4>1. dir[fileId] # 0
        BY <1>0, Bounds DEF Handled
      <4> QED
        BY <1>0, <2>1, <2>6, <2>9, <4>1 DEF Handled
    <3>5. WorkerHandles'
      <4>1. Copying => dataFiles'[NewFile] = [ino |-> NewFile, size |-> Len(files'[NewFile])]
        <5> SUFFICES ASSUME Copying
                     PROVE  dataFiles'[NewFile] = [ino |-> NewFile, size |-> Len(files'[NewFile])]
          OBVIOUS
        <5>1. client.viaNew /\ f = NewFile /\ dataFiles'[NewFile] = Grown(h)
          BY <2>2, <2>5, <2>8 DEF Copying
        <5> QED
          BY <2>4, <3>1, <3>2, <5>1 DEF Grown
      <4> QED
        BY <1>0, <2>1, <2>6, <2>9, <4>1 DEF WorkerHandles
    <3>6. Found'
      <4>1. Copying => files'[fileId] = files[fileId]
        BY <1>0, <3>1, <3>2
      <4>2. Copying => \A p \in DOMAIN files[NewFile] : p \in DOMAIN files'[NewFile]
                                                    /\ files'[NewFile][p] = files[NewFile][p]
        BY <3>1, <3>2
      <4> QED
        BY <1>0, <2>6, <4>1, <4>2 DEF Found, Copying
    <3>7. ASSUME NEW k \in Key PROVE Claims(k)'
      <4>1. Claims(k) /\ files \in [FileId -> Seq(Record)]
        BY DEF IInv, Typed
      <4> HIDE DEF f, r
      <4> QED
        BY <1>0, <2>1, <2>6, <2>12, <3>1, <4>1, AppendedClaims DEF ghosts
    <3> QED
      BY <2>10, <2>11, <3>3, <3>4, <3>5, <3>6, <3>7 DEF IInv
  <2> QED
    BY <2>13, <2>14
<1> QED
  BY <1>1, <1>2 DEF AppendWrite

LEMMA IndexWriteStep ==
  ASSUME IInv, IndexWrite
  PROVE  IInv'
<1> DEFINE f == client.file
           g == Handle(f).ino
           r == client.rec
           e == [file |-> f, pos |-> client.pos, del |-> r.val = NoVal]
<1>0. /\ Typed /\ Handled /\ WorkerHandles /\ ClientHandles /\ Found
      /\ client.pc = "index" /\ isOpen /\ fileId \in FileId
      /\ r \in Record /\ f \in FileId /\ client.pos \in Nat
  <2>1. Typed /\ Handled /\ WorkerHandles /\ ClientHandles /\ Found
    BY DEF IInv
  <2>2. client \in ClientState /\ client.pc = "index"
    BY <2>1 DEF Typed, IndexWrite
  <2>3. r \in Record /\ f \in FileId /\ client.pos \in Nat
    BY <2>2, ClientFacts
  <2>4. isOpen /\ fileId \in FileId
    BY <2>1, <2>2 DEF Typed, Handled, Idle
  <2> QED
    BY <2>1, <2>2, <2>3, <2>4
<1>1. /\ UNCHANGED <<disk, handles, isOpen, fileId, inProgress, worker, clock, counters>>
      /\ client' = Idle /\ since' = since \cup {r.key}
      /\ index' = [index EXCEPT ![r.key] = e] /\ acked' = [acked EXCEPT ![r.key] = r]
      /\ lost' = IF Misplaced(r, e) THEN lost \cup {r.key} ELSE lost \ {r.key}
      /\ fragile' = IF hint[g] # NoHint \/ (~Misplaced(r, e) /\ OutOfOrder(r.key, e))
                    THEN fragile \cup {r.key}
                    ELSE IF worker.pc = "idle" THEN fragile \ {r.key} ELSE fragile
  BY DEF IndexWrite
<1>2. r.key \in Key /\ e \in Entry /\ e.file = f /\ e.pos = client.pos
      /\ (e.del <=> r.val = NoVal)
  BY <1>0, Bounds DEF Record, Entry
<1>3. /\ Misplaced(r, e) <=> ~(Holds(g, e.pos) /\ files[g][e.pos] = r)
      /\ OutOfOrder(r.key, e) <=> Last(files[g], Len(files[g]), r.key) # e.pos
  BY <1>2 DEF Misplaced, OutOfOrder
<1> HIDE DEF g, e
<1>4. /\ index' \in [Key -> Entry] /\ acked' \in [Key -> Record \cup {Unknown}]
      /\ index'[r.key] = e /\ acked'[r.key] = r
      /\ \A k \in Key \ {r.key} : index'[k] = index[k] /\ acked'[k] = acked[k]
  BY <1>0, <1>1, <1>2 DEF Typed
<1>5. Typed'
  BY <1>0, <1>1, <1>2, <1>4 DEF Typed, ClientState, Idle, disk, handles
<1>6. /\ Handled' /\ WorkerHandles' /\ Later /\ NoneOpened
      /\ NewFile' = NewFile /\ (Copying' <=> Copying) /\ (Switching' <=> Switching)
  BY <1>0, <1>1, SameHandles DEF disk, handles
<1>7. ClientHandles' /\ Reading'
  BY <1>1 DEF ClientHandles, Reading, Getting, Idle
<1>8. Found'
  BY <1>0, <1>1 DEF Found, Left, NewFile, disk
<1>9. ASSUME NEW k \in Key, k # r.key PROVE Claims(k)'
  <2>1. ~Pending(k) /\ ~Pending(k)'
    BY <1>1, <1>9 DEF Pending, Idle
  <2>2. /\ k \in lost => k \in lost'
        /\ k \in fragile => k \in fragile'
        /\ k \in since' <=> k \in since
    BY <1>1, <1>9
  <2> QED
    BY <1>1, <1>4, <1>6, <1>9, <2>1, <2>2, SameClaims DEF IInv, disk
<1>10. ASSUME ~Misplaced(r, e)
       PROVE  /\ Shows(files[g], e, r)
              /\ Copying => f = NewFile /\ g = NewFile
              /\ ~Copying => g = fileId
              /\ f = fileId \/ Copying \/ (f = NewFile /\ dataFiles[f] = NoHandle /\ ~Switching)
  <2>1. Holds(g, e.pos) /\ files[g][e.pos] = r
    BY <1>3, <1>10
  <2>2. Shows(files[g], e, r)
    BY <1>2, <2>1 DEF Holds, Shows
  <2>3. dataFiles[f] # NoHandle => g = f
    BY <1>0 DEF Handled, Handle, g
  <2>4. dataFiles[f] = NoHandle /\ ~Switching => g = fileId
    BY <1>0 DEF Handled, Handle, g
  <2>5. dataFiles[fileId] # NoHandle
    BY <1>0, Bounds DEF Handled, NoHandle
  <2>6. CASE f = fileId /\ ~Copying
    BY <2>2, <2>3, <2>5, <2>6
  <2>7. CASE f = NewFile /\ ~Switching
    <3>1. NewFile > fileId
      BY <1>0, Bounds DEF NewFile
    <3>2. CASE Copying
      <4>1. dataFiles[NewFile] # NoHandle
        BY <1>0, <2>7, <3>2, Bounds DEF WorkerHandles, NoHandle
      <4> QED
        BY <2>2, <2>3, <2>7, <3>2, <4>1
    <3>3. CASE ~Copying /\ dataFiles[f] # NoHandle
      <4>1. worker.pc = "drop" /\ worker.new = NewFile
        BY <1>0, <2>7, <3>1, <3>3 DEF WorkerHandles
      <4>2. g \in Closed
        BY <2>3, <2>7, <3>3, <4>1 DEF Closed
      <4> QED
        BY <2>1, <4>2 DEF Holds
    <3>4. CASE ~Copying /\ dataFiles[f] = NoHandle
      BY <2>2, <2>4, <2>7, <3>4
    <3> QED
      BY <3>2, <3>3, <3>4
  <2> QED
    BY <1>0, <2>6, <2>7 DEF ClientHandles
<1>11. ASSUME NEW k \in Key, k = r.key, Sure(k)'
       PROVE  Indexed(k)' /\ (~Exempt(k)' => Restorable(k)') /\ (Copying' => Moved(k)')
  <2>1. ~Misplaced(r, e)
    BY <1>1, <1>11 DEF Sure
  <2>2. /\ Shows(files[g], e, r)
        /\ Copying => f = NewFile /\ g = NewFile
        /\ ~Copying => g = fileId
        /\ f = fileId \/ Copying \/ (f = NewFile /\ dataFiles[f] = NoHandle /\ ~Switching)
    BY <1>10, <2>1
  <2>3. k \notin fragile' => hint[g] = NoHint /\ Last(files[g], Len(files[g]), k) = e.pos
    BY <1>1, <1>3, <1>11, <2>1
  <2>4. e.pos # 0
    <3>1. g \in FileId => files[g] \in Seq(Record)
      BY <1>0 DEF Typed
    <3>2. g \in FileId
      BY <1>0, <2>2
    <3> QED
      BY <2>2, <3>1, <3>2 DEF Shows
  <2>5. index'[k] = e /\ acked'[k] = r /\ UNCHANGED <<files, hint, dataFiles, fileId, worker>>
    BY <1>1, <1>4, <1>11 DEF disk, handles
  <2>6. Indexed(k)'
    <3>1. CASE f = fileId \/ Copying
      <4>1. Leads(files, e, r) /\ e.file \in Places
        BY <1>0, <1>2, <2>2, <3>1 DEF Leads, Places
      <4> QED
        BY <1>6, <2>5, <4>1 DEF Indexed, Places
    <3>2. CASE ~Copying /\ f = NewFile /\ dataFiles[f] = NoHandle /\ ~Switching
      <4>1. Astray(e, r)
        BY <1>0, <1>2, <2>2, <3>2 DEF Astray
      <4> QED
        BY <1>6, <2>5, <4>1 DEF Indexed, Astray
    <3> QED
      BY <2>2, <3>1, <3>2
  <2>7. ~Exempt(k)' => Restorable(k)'
    <3> SUFFICES ASSUME ~Exempt(k)' PROVE Restorable(k)'
      OBVIOUS
    <3>1. ~Copying /\ k \notin fragile' /\ g = fileId
      BY <1>0, <1>1, <1>6, <1>11, <2>2 DEF Exempt
    <3> DEFINE d == [file |-> fileId, pos |-> e.pos, del |-> files[fileId][e.pos].val = NoVal]
    <3>2. Recovered(k)' = d
      BY <2>3, <2>4, <2>5, <3>1 DEF Recovered, EntryAt
    <3>3. Shows(files[fileId], d, r)
      BY <2>2, <3>1 DEF Shows
    <3> HIDE DEF d
    <3> QED
      BY <2>5, <3>2, <3>3 DEF Restorable
  <2>8. Copying' => Moved(k)'
    <3> SUFFICES ASSUME Copying' PROVE Moved(k)'
      OBVIOUS
    <3>1. index'[k].file = NewFile /\ g = NewFile
      BY <1>2, <1>6, <2>2, <2>5
    <3>2. k \notin fragile' => EndsWith(files[NewFile], k, r)
      BY <2>2, <2>3, <2>4, <3>1 DEF EndsWith, Shows
    <3> QED
      BY <1>6, <2>5, <3>1, <3>2 DEF Moved
  <2> QED
    BY <2>6, <2>7, <2>8
<1>12. \A k \in Key : Claims(k)'
  BY <1>9, <1>11 DEF Claims
<1> QED
  BY <1>5, <1>6, <1>7, <1>8, <1>12 DEF IInv

LEMMA ClearStep ==
  ASSUME IInv, Clear
  PROVE  IInv'
<1>0. /\ Typed /\ Handled /\ WorkerHandles /\ ClientHandles /\ Found
      /\ client = Idle /\ index' = NoHint /\ acked' = [k \in Key |-> Unknown]
      /\ UNCHANGED <<disk, handles, isOpen, fileId, inProgress, worker, client, clock, counters,
                     lost, fragile, since>>
  BY DEF IInv, Clear, Free
<1>1. Typed'
  BY <1>0, Bounds DEF Typed, disk, handles
<1>2. Handled' /\ WorkerHandles'
  BY <1>0, SameHandles DEF disk, handles
<1>3. ClientHandles' /\ Reading'
  BY <1>0 DEF ClientHandles, Reading, Getting, Idle
<1>4. Found'
  BY <1>0 DEF Found, Left, NewFile, disk
<1>5. \A k \in Key : Claims(k)'
  BY <1>0 DEF Claims, Sure
<1> QED
  BY <1>1, <1>2, <1>3, <1>4, <1>5 DEF IInv

-----------------------------------------------------------------------------
(* The worker, until it switches files.                                     *)

\* What every step of the copying can use.
LEMMA CopyingFacts ==
  ASSUME IInv, Copying
  PROVE  /\ Typed /\ Handled /\ WorkerHandles /\ ClientHandles /\ Found /\ isOpen
         /\ NewFile \in FileId /\ NewFile # fileId /\ NewFile > fileId /\ fileId \in FileId
         /\ worker.old = fileId /\ worker.new = NewFile
         /\ files[fileId] \in Seq(Record) /\ files[NewFile] \in Seq(Record)
         /\ worker \in WorkerState /\ dir[fileId] = fileId /\ dir[NewFile] = NewFile
         /\ ~Switching /\ dataFiles[NewFile] # NoHandle
         /\ \A e, rec : ~Astray(e, rec)
<1>1. Typed /\ Handled /\ WorkerHandles /\ ClientHandles /\ Found
  BY DEF IInv
<1>2. isOpen
  BY <1>1 DEF Handled, Copying, Asleep, Typed
<1>3. /\ NewFile \in FileId /\ NewFile # fileId /\ NewFile > fileId /\ fileId \in FileId
      /\ worker.old = fileId /\ worker.new = NewFile
  BY <1>1, NewFiles
<1>4. ~Switching /\ dataFiles[NewFile] # NoHandle
  BY <1>1, <1>3, Bounds DEF WorkerHandles, NoHandle, Copying, Switching
<1> QED
  BY <1>1, <1>2, <1>3, <1>4 DEF Typed, Handled, WorkerHandles, Astray

LEMMA TriggerCompactStep ==
  ASSUME IInv, TriggerCompact
  PROVE  IInv'
<1> DEFINE n == fileId + 1
<1>0. /\ Typed /\ Handled /\ WorkerHandles /\ isOpen /\ client = Idle
      /\ worker.pc = "idle" /\ fileId \in FileId /\ n \in FileId /\ n # fileId
  <2>1. Typed /\ Handled /\ WorkerHandles /\ isOpen /\ client = Idle /\ worker.pc = "idle"
    BY DEF IInv, TriggerCompact, Free, Handled
  <2>2. fileId \in FileId /\ n \in FileId /\ n # fileId
    BY <2>1, BoundAssumption DEF TriggerCompact, Typed, FileId
  <2> QED
    BY <2>1, <2>2
<1>1. /\ dir' = [dir EXCEPT ![n] = IF @ = 0 THEN n ELSE @]
      /\ files' = IF dir[n] = 0 THEN [files EXCEPT ![n] = <<>>] ELSE files
      /\ dataFiles' = [dataFiles EXCEPT ![n] = [ino |-> dir'[n], size |-> Len(files'[dir'[n]])]]
      /\ inProgress' = TRUE /\ since' = {}
      /\ worker' = [pc |-> "scan", old |-> fileId, new |-> n]
      /\ lost' = lost \cup {k \in Key : Last(files'[dir'[n]], Len(files'[dir'[n]]), k) # 0}
                      \cup {k \in Key : index[k].file = n}
      /\ UNCHANGED <<hint, dataFile, index, isOpen, fileId, client, clock, counters, acked,
                     fragile>>
  BY DEF TriggerCompact, CreateIfMissing, Opened
<1>2. /\ files' \in [FileId -> Seq(Record)] /\ \A f \in FileId \ {n} : files'[f] = files[f]
      /\ dir' \in [FileId -> 0 .. MaxFile] /\ dir'[n] = n
      /\ \A f \in FileId \ {n} : dir'[f] = dir[f]
      /\ files'[n] \in Seq(Record) /\ Len(files'[n]) \in Nat
  BY <1>0, <1>1, Bounds DEF Typed, Handled
<1>3. /\ dataFiles' \in [FileId -> Opening]
      /\ dataFiles'[n] = [ino |-> n, size |-> Len(files'[n])]
      /\ \A f \in FileId \ {n} : dataFiles'[f] = dataFiles[f]
  BY <1>0, <1>1, <1>2, Bounds DEF Typed, Opening
<1>4. worker' \in WorkerState
  BY <1>0, <1>1 DEF WorkerState
<1>5. Typed'
  BY <1>0, <1>1, <1>2, <1>3, <1>4 DEF Typed
<1>6. Handled'
  BY <1>0, <1>1, <1>2, <1>3 DEF Handled, Switching
<1>7. WorkerHandles' /\ ClientHandles'
  BY <1>0, <1>1, <1>2, <1>3
     DEF WorkerHandles, ClientHandles, Copying, Switching, NewFile, Idle
<1>8. Found' /\ Reading'
  BY <1>0, <1>1 DEF Found, Reading, Getting, Idle
<1>9. ASSUME NEW k \in Key, Sure(k)'
      PROVE  Indexed(k)' /\ (~Exempt(k)' => Restorable(k)') /\ Moved(k)'
  <2>1. Sure(k) /\ Last(files'[n], Len(files'[n]), k) = 0 /\ index[k].file # n
    BY <1>1, <1>2, <1>9 DEF Sure
  <2>2. Lacks(files'[n], k)
    <3> DEFINE m == files'[n]
    <3>1. Last(m, Len(m), k) = 0 /\ Len(m) \in Nat /\ DOMAIN m = 1 .. Len(m)
      BY <1>2, <2>1
    <3> HIDE DEF m
    <3>2. \A p \in 1 .. Len(m) : m[p].key # k
      BY <3>1, LastFacts
    <3> QED
      BY <3>1, <3>2 DEF Lacks, m
  <2>3. ~Pending(k) /\ ~Copying /\ Copying' /\ NewFile = n /\ NewFile' = n
        /\ files'[fileId] = files[fileId] /\ Claims(k)
    BY <1>0, <1>1, <1>2 DEF Pending, Idle, Copying, NewFile, IInv
  <2>4. \/ Leads(files, index[k], acked[k]) /\ index[k].file = fileId
        \/ /\ Denies(index[k], acked[k]) /\ index[k].file <= fileId
           /\ Lacks(files[fileId], k)
    BY <1>0, <2>1, <2>3 DEF Claims, Indexed, Places, Astray
  <2>5. Indexed(k)'
    BY <1>1, <2>3, <2>4 DEF Indexed, Leads, Places
  <2>6. ~Exempt(k)' => Restorable(k)'
    BY <1>0, <1>1, <2>1, <2>3 DEF Claims, Exempt, Restorable, Recovered
  <2>7. Moved(k)'
    BY <1>1, <2>1, <2>2, <2>3, <2>4 DEF Moved, Reindexing
  <2> QED
    BY <2>5, <2>6, <2>7
<1>10. \A k \in Key : Claims(k)'
  BY <1>9 DEF Claims
<1> QED
  BY <1>5, <1>6, <1>7, <1>8, <1>10 DEF IInv

\* A step of the worker that appends nothing and indexes nothing.
LEMMA CopyingFrame ==
  ASSUME NEW k \in Key, Claims(k), isOpen, Copying, Copying', \A e, rec : ~Astray(e, rec),
         UNCHANGED <<files, hint, index, isOpen, fileId, client, acked, fragile, since>>,
         k \in lost => k \in lost',
         ~Reindexing(k), ~Reindexing(k)', worker'.pc # "scan",
         \/ /\ worker.pc # "scan" /\ worker'.latest = worker.latest
            /\ k \in Left' <=> k \in Left
         \/ Sure(k)' =>
              /\ k \in Left' => \/ index[k].file = NewFile
                                \/ index[k] = [file |-> fileId, pos |-> worker'.latest[k],
                                               del |-> FALSE]
              /\ k \notin Left' => index[k].file = NewFile \/ acked[k].val = NoVal
  PROVE  Claims(k)'
<1>1. SUFFICES ASSUME Sure(k)'
               PROVE  Indexed(k)' /\ (~Exempt(k)' => Restorable(k)') /\ Moved(k)'
  BY DEF Claims
<1>2. Sure(k) /\ NewFile' = NewFile /\ (Pending(k)' <=> Pending(k))
  BY <1>1 DEF Sure, NewFile, Pending
<1>3. Indexed(k)'
  BY <1>2 DEF Claims, Indexed, Places
<1>4. ~Exempt(k)' => Restorable(k)'
  BY <1>2 DEF Claims, Exempt, Restorable, Recovered
<1>5. Moved(k)'
  <2>1. Moved(k)
    BY <1>2 DEF Claims
  <2>2. /\ k \in Left' => \/ index[k].file = NewFile
                          \/ index[k] = [file |-> fileId, pos |-> worker'.latest[k],
                                         del |-> FALSE]
        /\ k \notin Left' => index[k].file = NewFile \/ acked[k].val = NoVal
    BY <1>1, <2>1 DEF Moved
  <2> QED
    BY <1>2, <2>1, <2>2 DEF Moved
<1> QED
  BY <1>3, <1>4, <1>5

\* What a get under way has found, over a step of the copying: its entry may leave the index
\* only for a copy of the same record.
LEMMA CopyingReading ==
  ASSUME Typed, Reading, Copying, Copying', \A e, rec : ~Astray(e, rec),
         UNCHANGED <<fileId, client, acked>>, lost \subseteq lost',
         \A f \in FileId : dataFiles[f] = NoHandle => dataFiles'[f] = NoHandle,
         \A e, rec : Leads(files, e, rec) => Leads(files', e, rec),
         Getting /\ Sure(client.key)' /\ Traced(client.key, client.entry) =>
           Traced(client.key, client.entry)'
  PROVE  Reading'
<1>1. SUFFICES ASSUME Getting, Sure(client.key)'
               PROVE  /\ ~client.entry.del
                      /\ Attached(client.key, client.entry)'
                      /\ Traced(client.key, client.entry)'
                      /\ client.pc = "read" => Chosen(client.entry)'
  BY DEF Reading, Getting, Sure
<1>2. Sure(client.key) /\ NewFile' = NewFile
  BY <1>1 DEF Sure, NewFile
<1>3. /\ ~client.entry.del /\ Attached(client.key, client.entry)
      /\ Traced(client.key, client.entry)
      /\ client.pc = "read" => Chosen(client.entry)
  BY <1>1, <1>2 DEF Reading
<1>4. Leads(files, client.entry, acked[client.key]) /\ client.entry.file \in FileId
  BY <1>3 DEF Attached, Leads
<1>5. client.entry.file \in Places
  BY <1>3 DEF Traced, Places
<1>6. Attached(client.key, client.entry)'
  BY <1>2, <1>4, <1>5 DEF Attached, Places
<1>7. client.pc = "read" => Chosen(client.entry)'
  BY <1>3, <1>4 DEF Chosen
<1> QED
  BY <1>1, <1>3, <1>6, <1>7

LEMMA ScanStep ==
  ASSUME IInv, Scan
  PROVE  IInv'
<1> DEFINE l       == files[fileId]
           latest  == [k \in Key |-> Last(l, Stop(l), k)]
           dead(k) == Live(l[latest[k]].val, l[latest[k]].exp) = NoVal
           todo    == {k \in Key : latest[k] # 0 /\ ~dead(k)}
           w       == [pc |-> "pick", old |-> fileId, new |-> NewFile, latest |-> latest,
                       todo |-> todo]
<1>0. Copying /\ worker.pc = "scan"
  BY DEF Scan, Copying
<1>1. /\ Typed /\ Handled /\ WorkerHandles /\ ClientHandles /\ isOpen
      /\ NewFile \in FileId /\ NewFile # fileId /\ fileId \in FileId
      /\ worker.old = fileId /\ worker.new = NewFile /\ l \in Seq(Record)
      /\ dir[fileId] = fileId /\ ~Switching /\ \A e, rec : ~Astray(e, rec)
  BY <1>0, CopyingFacts
<1>2. /\ worker' = w
      /\ lost' = lost
           \cup {k \in Key : index[k].file = fileId /\ index[k].pos # latest[k]}
           \cup {k \in Key : latest[k] # 0 /\ dead(k) /\ l[latest[k]].val # NoVal}
      /\ UNCHANGED <<disk, handles, index, isOpen, fileId, inProgress, client, clock,
                     counters, acked, fragile, since>>
  BY <1>1 DEF Scan
<1>3. Stop(l) \in 0 .. Len(l) /\ Len(l) \in Nat /\ DOMAIN l = 1 .. Len(l)
  <2> HIDE DEF l
  <2> QED
    BY <1>1, StopFacts
<1>4. ASSUME NEW k \in Key
      PROVE  /\ latest[k] \in Nat
             /\ latest[k] # 0 => latest[k] \in DOMAIN l /\ l[latest[k]].key = k
  <2>1. Stop(l) \in Nat
    BY <1>3
  <2>2. Last(l, Stop(l), k) = 0 \/ (Last(l, Stop(l), k) \in 1 .. Stop(l)
                                    /\ l[Last(l, Stop(l), k)].key = k)
    <3> HIDE DEF l
    <3> QED
      BY <2>1, LastFacts
  <2> QED
    BY <1>3, <2>2
<1>5. latest \in [Key -> Nat] /\ todo \in SUBSET Key
  BY <1>4
<1> HIDE DEF latest
<1>6. w \in WorkerState
  <2> HIDE DEF todo
  <2> QED
    BY <1>1, <1>5 DEF WorkerState
<1>7. Typed'
  BY <1>1, <1>2, <1>6 DEF Typed, disk, handles
<1>8. Handled' /\ WorkerHandles' /\ ClientHandles' /\ Copying' /\ ~Switching'
  BY <1>0, <1>1, <1>2
     DEF Handled, WorkerHandles, ClientHandles, Copying, Switching, NewFile, disk, handles
<1>9. Left' = todo /\ Found' /\ Reading'
  <2>1. Left' = todo
    BY <1>2 DEF Left
  <2>2. Found'
    BY <1>2, <1>4, <2>1 DEF Found, disk
  <2>3. Traced(client.key, client.entry) => Traced(client.key, client.entry)'
    BY <1>0, <1>2 DEF Traced, NewFile, disk
  <2>4. Reading'
    <3>1. /\ UNCHANGED <<files, dataFiles, fileId, client, acked>> /\ lost \subseteq lost'
      BY <1>2 DEF disk, handles
    <3> HIDE DEF l, todo, w
    <3> QED
      BY <1>0, <1>1, <1>8, <2>3, <3>1, CopyingReading DEF IInv
  <2> QED
    BY <2>1, <2>2, <2>4
<1>10. ASSUME NEW k \in Key, Sure(k)'
       PROVE  /\ k \in todo => \/ index[k].file = NewFile
                               \/ index[k] = [file |-> fileId, pos |-> latest[k], del |-> FALSE]
              /\ k \notin todo => index[k].file = NewFile \/ acked[k].val = NoVal
  <2>1. /\ Sure(k) /\ index[k] \in Entry
        /\ index[k].file = fileId => index[k].pos = latest[k]
        /\ latest[k] # 0 /\ dead(k) => l[latest[k]].val = NoVal
    BY <1>1, <1>2, <1>10 DEF Sure, Typed
  <2>2. Indexed(k)
    BY <1>1, <2>1 DEF IInv, Claims
  <2>3. CASE Leads(files, index[k], acked[k]) /\ index[k].file = fileId
    <3>1. /\ latest[k] \in DOMAIN l /\ l[latest[k]] = acked[k]
          /\ index[k].del <=> acked[k].val = NoVal
      BY <2>1, <2>3 DEF Leads, Shows
    <3>2. latest[k] # 0
      BY <1>3, <3>1
    <3>3. k \in todo => acked[k].val # NoVal
      BY <3>1 DEF Live
    <3>4. k \notin todo => acked[k].val = NoVal
      BY <2>1, <3>1, <3>2
    <3>5. k \in todo => index[k] = [file |-> fileId, pos |-> latest[k], del |-> FALSE]
      BY <2>1, <2>3, <3>1, <3>3 DEF Entry
    <3> QED
      BY <3>4, <3>5
  <2>4. CASE Leads(files, index[k], acked[k]) /\ index[k].file = NewFile
    BY <2>4
  <2>5. CASE Denies(index[k], acked[k]) /\ Lacks(l, k)
    <3>1. latest[k] = 0
      BY <1>4, <2>5 DEF Lacks
    <3> QED
      BY <2>5, <3>1 DEF Denies
  <2> QED
    BY <1>0, <1>1, <2>2, <2>3, <2>4, <2>5 DEF Indexed, Places
<1>11. \A k \in Key : Claims(k)'
  <2>1. /\ worker'.pc = "pick" /\ worker'.latest = latest /\ Copying'
        /\ lost \subseteq lost'
        /\ UNCHANGED <<files, hint, index, isOpen, fileId, client, acked, fragile, since>>
    BY <1>2 DEF Copying, disk
  <2> HIDE DEF w, todo
  <2> QED
    BY <1>0, <1>1, <1>9, <1>10, <2>1, CopyingFrame DEF IInv, Reindexing
<1> QED
  BY <1>7, <1>8, <1>9, <1>11 DEF IInv

LEMMA PickStep ==
  ASSUME IInv, NEW key \in Key, Pick(key)
  PROVE  IInv'
<1> DEFINE skip == [worker EXCEPT !.todo = @ \ {key}]
           copy == [pc |-> "copy", old |-> worker.old, new |-> worker.new,
                    latest |-> worker.latest, todo |-> worker.todo \ {key},
                    key |-> key, saw |-> index[key]]
<1>0. Copying /\ worker.pc = "pick" /\ key \in worker.todo
  BY DEF Pick, Copying
<1>1. /\ Typed /\ Handled /\ WorkerHandles /\ ClientHandles /\ Found /\ isOpen
      /\ NewFile \in FileId /\ NewFile # fileId /\ fileId \in FileId
      /\ worker.old = fileId /\ worker.new = NewFile /\ worker \in WorkerState
      /\ ~Switching /\ \A e, rec : ~Astray(e, rec)
  BY <1>0, CopyingFacts
<1>2. /\ worker' = IF index[key] # NoEntry /\ index[key].file # fileId THEN skip ELSE copy
      /\ UNCHANGED <<disk, handles, index, isOpen, fileId, inProgress, client, clock,
                     counters, ghosts>>
  BY <1>1 DEF Pick
<1>3. /\ skip \in WorkerState /\ skip.pc = "pick" /\ skip.old = fileId /\ skip.new = NewFile
      /\ skip.latest = worker.latest /\ skip.todo = worker.todo \ {key}
  BY <1>0, <1>1 DEF WorkerState
<1>4. copy \in WorkerState
  <2>1. /\ worker.latest \in [Key -> Nat] /\ worker.todo \ {key} \in SUBSET Key
        /\ index[key] \in Entry
    BY <1>0, <1>1, WorkerFacts DEF Typed
  <2> QED
    BY <1>1, <2>1 DEF WorkerState
<1>5. /\ worker' \in WorkerState /\ worker'.pc \in {"pick", "copy"}
      /\ worker'.old = fileId /\ worker'.new = NewFile /\ worker'.latest = worker.latest
      /\ Copying' /\ NewFile' = NewFile
      /\ \A k \in Left' : k \in Left
      /\ \A k \in Key : k # key => (k \in Left' <=> k \in Left)
      /\ key \notin Left' => index[key] # NoEntry /\ index[key].file # fileId
      /\ worker'.pc = "copy" => worker'.saw = index[key]
                                /\ ~(index[key] # NoEntry /\ index[key].file # fileId)
  <2>1. CASE index[key] # NoEntry /\ index[key].file # fileId
    <3> HIDE DEF skip
    <3> QED
      BY <1>0, <1>1, <1>2, <1>3, <2>1 DEF Left, Copying, NewFile
  <2>2. CASE ~(index[key] # NoEntry /\ index[key].file # fileId)
    BY <1>0, <1>1, <1>2, <1>4, <2>2 DEF Left, Copying, NewFile
  <2> QED
    BY <2>1, <2>2
<1>6. Typed'
  BY <1>1, <1>2, <1>5 DEF Typed, disk, handles, ghosts
<1>7. Handled' /\ WorkerHandles' /\ ClientHandles'
  BY <1>0, <1>1, <1>2, <1>5
     DEF Handled, WorkerHandles, ClientHandles, Copying, Switching, Asleep, disk, handles
<1>8. Found' /\ Reading'
  <2>1. worker'.pc = "copy" =>
          worker'.saw.file # NewFile /\ worker'.key \notin worker'.todo
    BY <1>1, <1>2, <1>3, <1>5, Bounds DEF NoEntry
  <2>2. Found'
    BY <1>0, <1>1, <1>2, <1>5, <2>1 DEF Found, disk
  <2>3. Reading'
    <3>1. UNCHANGED <<files, dataFiles, fileId, client, acked, lost>>
      BY <1>2 DEF disk, handles, ghosts
    <3>2. ASSUME Getting, Traced(client.key, client.entry)
          PROVE  Traced(client.key, client.entry)'
      <4>1. /\ UNCHANGED <<files, fileId, index, client, acked>> /\ NewFile' = NewFile
            /\ worker.pc # "scan" /\ worker'.pc # "scan"
            /\ client.key \notin Left => client.key \notin Left'
        BY <1>0, <1>2, <1>5 DEF disk, ghosts
      <4> HIDE DEF skip, copy
      <4> QED
        BY <3>2, <4>1 DEF Traced
    <3> QED
      BY <1>0, <1>1, <1>5, <3>1, <3>2, CopyingReading DEF IInv
  <2> QED
    BY <2>2, <2>3
<1>9. ASSUME NEW k \in Key PROVE Claims(k)'
  <2>0. /\ Claims(k) /\ ~Reindexing(k) /\ ~Reindexing(k)' /\ worker'.pc # "scan"
        /\ UNCHANGED <<files, hint, index, isOpen, fileId, client, acked, lost, fragile, since>>
    BY <1>0, <1>2, <1>5 DEF IInv, Reindexing, disk, ghosts
  <2>1. CASE k \in Left' <=> k \in Left
    BY <1>0, <1>1, <1>5, <2>0, <2>1, CopyingFrame
  <2>2. CASE ~(k \in Left' <=> k \in Left)
    <3>1. k = key /\ key \notin Left' /\ key \in Left
      BY <1>0, <1>5, <2>2 DEF Left
    <3>2. Sure(k)' => index[k].file = NewFile
      BY <1>0, <1>5, <2>0, <3>1 DEF Claims, Sure, Moved
    <3> QED
      BY <1>0, <1>1, <1>5, <2>0, <3>1, <3>2, CopyingFrame
  <2> QED
    BY <2>1, <2>2
<1> QED
  BY <1>6, <1>7, <1>8, <1>9 DEF IInv

LEMMA CopyStep ==
  ASSUME IInv, Copy
  PROVE  IInv'
<1> DEFINE key == worker.key
           rec == files[fileId][worker.latest[key]]
           h   == [ino |-> NewFile, size |-> Len(files[NewFile])]
           w   == [pc |-> "reindex", old |-> fileId, new |-> NewFile, latest |-> worker.latest,
                   todo |-> worker.todo, key |-> key, saw |-> worker.saw, pos |-> h.size + 1]
<1>0. Copying /\ worker.pc = "copy" /\ key \in Left
  BY DEF Copy, Copying, Left
<1>1. /\ Typed /\ Handled /\ WorkerHandles /\ ClientHandles /\ Found /\ isOpen
      /\ NewFile \in FileId /\ NewFile # fileId /\ fileId \in FileId
      /\ worker.old = fileId /\ worker.new = NewFile /\ worker \in WorkerState
      /\ files[fileId] \in Seq(Record) /\ files[NewFile] \in Seq(Record)
      /\ dir[fileId] = fileId /\ dataFiles[NewFile] = h
      /\ ~Switching /\ dataFiles[NewFile] # NoHandle /\ \A e, r : ~Astray(e, r)
  BY <1>0, CopyingFacts DEF WorkerHandles
<1>2. /\ key \in Key /\ worker.saw \in Entry /\ worker.saw.file # NewFile
      /\ key \notin worker.todo
      /\ worker.latest \in [Key -> Nat] /\ worker.todo \in SUBSET Key
      /\ worker.latest[key] \in DOMAIN files[fileId] /\ rec \in Record /\ rec.key = key
      /\ h.size \in Nat
  BY <1>0, <1>1, WorkerFacts DEF Found
<1>3. Grown(h) = [ino |-> NewFile, size |-> h.size + 1] /\ h.ino = NewFile
  BY DEF Grown
<1>4. /\ files' = [files EXCEPT ![NewFile] = Append(@, rec)]
      /\ dataFiles' = [dataFiles EXCEPT ![NewFile] = Grown(h)]
      /\ worker' = w
      /\ fragile' = IF \/ client.pc = "index" /\ client.rec.key = key
                       \/ index[key] # worker.saw
                    THEN fragile \cup {key} ELSE fragile
      /\ UNCHANGED <<dir, hint, dataFile, index, isOpen, fileId, inProgress, client,
                     clock, counters, acked, lost, since>>
  BY <1>1, <1>3 DEF Copy, AppendTo
<1> HIDE DEF h, rec
<1>5. /\ files' \in [FileId -> Seq(Record)]
      /\ files'[NewFile] = Append(files[NewFile], rec)
      /\ \A g \in FileId \ {NewFile} : files'[g] = files[g]
      /\ \A e, r : Leads(files, e, r) => Leads(files', e, r)
  BY <1>1, <1>2, <1>4, AppendStep DEF Typed
<1>6. /\ Len(files'[NewFile]) = h.size + 1 /\ h.size + 1 \in DOMAIN files'[NewFile]
      /\ files'[NewFile][h.size + 1] = rec
  BY <1>1, <1>2, <1>5, AppendFacts DEF h
<1>7. /\ w \in WorkerState /\ worker'.pc = "reindex" /\ worker'.old = fileId
      /\ worker'.new = NewFile /\ worker'.latest = worker.latest /\ worker'.key = key
      /\ worker'.saw = worker.saw /\ worker'.pos = h.size + 1
      /\ worker'.todo = worker.todo
      /\ Left' = Left /\ Copying' /\ ~Switching' /\ NewFile' = NewFile
  BY <1>0, <1>1, <1>2, <1>4 DEF WorkerState, Left, Copying, Switching, NewFile
<1>8. /\ dataFiles' \in [FileId -> Opening] /\ dataFiles'[NewFile] = Grown(h)
      /\ \A g \in FileId \ {NewFile} : dataFiles'[g] = dataFiles[g]
  <2>1. Grown(h) \in Opening
    BY <1>1, <1>2, <1>3, Bounds DEF Opening
  <2> QED
    BY <1>1, <1>4, <2>1 DEF Typed
<1>9. Typed'
  BY <1>1, <1>2, <1>4, <1>5, <1>7, <1>8 DEF Typed
<1>10. Handled'
  BY <1>0, <1>1, <1>3, <1>4, <1>5, <1>7, <1>8 DEF Handled
<1>11. WorkerHandles' /\ ClientHandles'
  BY <1>0, <1>1, <1>3, <1>4, <1>6, <1>7, <1>8 DEF WorkerHandles, ClientHandles, Copying
<1>12. ASSUME NEW k \in Key
       PROVE  LET l == files[NewFile]
                  m == files'[NewFile]
              IN  /\ Lacks(m, k) <=> Lacks(l, k) /\ key # k
                  /\ \A r : Only(l, k, r) /\ (key = k => rec = r) => Only(m, k, r)
                  /\ key = k => EndsWith(m, k, rec)
                  /\ key # k => \A r : EndsWith(l, k, r) => EndsWith(m, k, r)
  <2> DEFINE l == files[NewFile]
  <2>1. l \in Seq(Record) /\ files'[NewFile] = Append(l, rec)
    BY <1>1, <1>5
  <2> HIDE DEF l
  <2>2. LET m == Append(l, rec) IN
        /\ Lacks(m, k) <=> Lacks(l, k) /\ rec.key # k
        /\ \A r : Only(l, k, r) /\ (rec.key = k => rec = r) => Only(m, k, r)
        /\ rec.key = k => EndsWith(m, k, rec)
        /\ rec.key # k => \A r : EndsWith(l, k, r) => EndsWith(m, k, r)
    BY <1>2, <2>1, SaidAfterAppend
  <2> QED
    BY <1>2, <2>1, <2>2 DEF l
<1>13. ASSUME Sure(key), index[key].file = fileId
       PROVE  /\ index[key] = [file |-> fileId, pos |-> worker.latest[key], del |-> FALSE]
              /\ acked[key] = rec
  <2>1. Indexed(key) /\ Moved(key)
    BY <1>0, <1>1, <1>2, <1>13 DEF IInv, Claims
  <2>2. index[key] = [file |-> fileId, pos |-> worker.latest[key], del |-> FALSE]
    BY <1>0, <1>1, <1>13, <2>1 DEF Moved
  <2>3. ~Denies(index[key], acked[key])
    BY <1>1, <2>2, Bounds DEF Denies, NoEntry
  <2> QED
    BY <1>1, <2>1, <2>2, <2>3 DEF Indexed, Leads, Shows, rec
<1>14. Found' /\ Reading'
  <2>1. files'[fileId] = files[fileId]
    BY <1>1, <1>5
  <2>2. Found'
    <3>1. worker.latest[key] \in DOMAIN files[fileId] /\ rec = files[fileId][worker.latest[key]]
      BY <1>2 DEF rec
    <3>2. fileId' = fileId /\ worker'.pos \in DOMAIN files'[NewFile]
      BY <1>4, <1>6, <1>7
    <3> QED
      BY <1>0, <1>1, <1>2, <1>6, <1>7, <2>1, <3>1, <3>2 DEF Found
  <2>3. ASSUME Getting, Sure(client.key)', Traced(client.key, client.entry)
        PROVE  Traced(client.key, client.entry)'
    <3> DEFINE k == client.key
               e == client.entry
    <3>1. k \in Key /\ Sure(k) /\ ~e.del /\ Attached(k, e)
      <4>1. Sure(k)
        BY <1>4, <2>3 DEF Sure
      <4> QED
        BY <1>1, <2>3, <4>1, ClientFacts DEF IInv, Reading, Typed, Getting
    <3>2. CASE e.file = NewFile /\ index[k].file = NewFile
      BY <1>4, <1>7, <3>2 DEF Traced
    <3>3. CASE /\ e.file = fileId /\ Only(files[NewFile], k, acked[k])
               /\ index[k] = e \/ (worker.pc # "scan" /\ k \notin Left)
      <4>1. k = key => acked[k] = rec
        BY <1>0, <1>13, <3>1, <3>3
      <4>2. Only(files'[NewFile], k, acked[k])
        BY <1>12, <3>1, <3>3, <4>1
      <4>3. index[k] = e \/ (worker'.pc # "scan" /\ k \notin Left')
        BY <1>7, <3>3
      <4> QED
        BY <1>4, <1>7, <3>3, <4>2, <4>3 DEF Traced
    <3> QED
      BY <2>3, <3>2, <3>3 DEF Traced
  <2>4. Reading'
    <3>1. UNCHANGED <<fileId, client, acked, lost>>
      BY <1>4
    <3>2. \A f \in FileId : dataFiles[f] = NoHandle => dataFiles'[f] = NoHandle
      BY <1>1, <1>8
    <3> QED
      BY <1>0, <1>1, <1>5, <1>7, <2>3, <3>1, <3>2, CopyingReading DEF IInv
  <2> QED
    BY <2>2, <2>4
<1>15. ASSUME NEW k \in Key, Sure(k)'
       PROVE  Indexed(k)' /\ (~Exempt(k)' => Restorable(k)') /\ Moved(k)'
  <2>1. /\ Sure(k) /\ (Pending(k)' <=> Pending(k)) /\ files'[fileId] = files[fileId]
        /\ k \in fragile => k \in fragile'
    BY <1>1, <1>4, <1>5, <1>15 DEF Sure, Pending
  <2>2. Indexed(k) /\ (~Exempt(k) => Restorable(k)) /\ Moved(k)
    BY <1>0, <1>1, <2>1 DEF IInv, Claims
  <2>3. Indexed(k)'
    BY <1>0, <1>1, <1>4, <1>5, <1>7, <2>1, <2>2 DEF Indexed, Places
  <2>4. ~Exempt(k)' => Restorable(k)'
    BY <1>0, <1>4, <1>7, <2>1, <2>2 DEF Exempt, Restorable, Recovered
  <2>5. ~Reindexing(k) /\ (Reindexing(k)' <=> k = key)
    BY <1>0, <1>7 DEF Reindexing
  <2>6. CASE k # key
    BY <1>0, <1>4, <1>7, <1>12, <2>1, <2>2, <2>3, <2>4, <2>5, <2>6 DEF Moved
  <2>7. CASE k = key
    <3>1. k \notin fragile' => ~Pending(k) /\ index[k] = worker.saw
      BY <1>4, <2>7 DEF Pending
    <3>2. k \notin fragile' => EndsWith(files'[NewFile], k, acked[k])
      <4> SUFFICES ASSUME k \notin fragile' PROVE acked[k] = rec
        BY <1>12, <2>7
      <4>1. index[k].file # NewFile
        BY <1>2, <2>7, <3>1
      <4>2. index[k].file = fileId
        BY <1>0, <2>2, <2>7, <4>1 DEF Moved
      <4> QED
        BY <1>13, <2>1, <2>7, <4>2
    <3>3. \/ index[k].file = NewFile \/ Pending(k)
          \/ Only(files'[NewFile], k, acked[k])
      <4> SUFFICES ASSUME index[k].file # NewFile, ~Pending(k)
                   PROVE  Only(files'[NewFile], k, acked[k])
        OBVIOUS
      <4>1. Lacks(files[NewFile], k) /\ index[k].file = fileId
        BY <1>0, <2>2, <2>5, <2>7 DEF Moved
      <4>2. acked[k] = rec
        BY <1>13, <2>1, <2>7, <4>1
      <4>3. Only(files[NewFile], k, acked[k])
        BY <4>1 DEF Only, Lacks
      <4> QED
        BY <1>12, <4>2, <4>3
    <3> QED
      BY <1>0, <1>4, <1>7, <2>1, <2>2, <2>3, <2>4, <2>5, <2>7, <3>1, <3>2, <3>3 DEF Moved
  <2> QED
    BY <2>6, <2>7
<1>16. \A k \in Key : Claims(k)'
  BY <1>15 DEF Claims
<1> QED
  BY <1>9, <1>10, <1>11, <1>14, <1>16 DEF IInv

LEMMA ReindexStep ==
  ASSUME IInv, Reindex
  PROVE  IInv'
<1> DEFINE key == worker.key
           e   == [file |-> NewFile, pos |-> worker.pos, del |-> FALSE]
           w   == [pc |-> "pick", old |-> fileId, new |-> NewFile, latest |-> worker.latest,
                   todo |-> worker.todo]
<1>0. Copying /\ worker.pc = "reindex" /\ key \in Left
  BY DEF Reindex, Copying, Left
<1>1. /\ Typed /\ Handled /\ WorkerHandles /\ ClientHandles /\ Found /\ isOpen
      /\ NewFile \in FileId /\ NewFile # fileId /\ fileId \in FileId
      /\ worker.old = fileId /\ worker.new = NewFile /\ worker \in WorkerState
      /\ ~Switching /\ \A g, rec : ~Astray(g, rec)
  BY <1>0, CopyingFacts
<1>2. /\ key \in Key /\ worker.saw \in Entry /\ worker.saw.file # NewFile
      /\ key \notin worker.todo
      /\ worker.latest \in [Key -> Nat] /\ worker.todo \in SUBSET Key
      /\ worker.pos \in DOMAIN files[NewFile] /\ worker.pos \in Nat
      /\ files[NewFile][worker.pos] = files[fileId][worker.latest[key]]
  BY <1>0, <1>1, WorkerFacts DEF Found
<1>3. /\ index' = [index EXCEPT ![key] = e] /\ worker' = w
      /\ lost' = IF index[key] # worker.saw THEN lost \cup {key} ELSE lost
      /\ UNCHANGED <<disk, handles, isOpen, fileId, inProgress, client, clock,
                     counters, acked, fragile, since>>
  BY <1>1 DEF Reindex
<1>4. /\ e \in Entry /\ index' \in [Key -> Entry] /\ index'[key] = e
      /\ \A k \in Key \ {key} : index'[k] = index[k]
  <2>1. e \in Entry
    BY <1>1, <1>2, Bounds DEF Entry
  <2> QED
    BY <1>1, <1>2, <1>3, <2>1 DEF Typed
<1>5. /\ w \in WorkerState /\ worker'.pc = "pick" /\ worker'.old = fileId
      /\ worker'.new = NewFile /\ worker'.latest = worker.latest /\ worker'.todo = worker.todo
      /\ Left' = worker.todo /\ Left = worker.todo \cup {key}
      /\ Copying' /\ ~Switching' /\ NewFile' = NewFile
  BY <1>0, <1>1, <1>2, <1>3 DEF WorkerState, Left, Copying, Switching, NewFile
<1>6. Typed'
  BY <1>1, <1>3, <1>4, <1>5 DEF Typed, disk, handles
<1>7. Handled' /\ WorkerHandles' /\ ClientHandles'
  BY <1>0, <1>1, <1>3, <1>5
     DEF Handled, WorkerHandles, ClientHandles, Copying, Switching, Asleep, disk, handles
<1>8. Found' /\ Reading'
  <2>1. Found'
    BY <1>0, <1>1, <1>3, <1>5 DEF Found, disk
  <2>2. Reading'
    <3>1. UNCHANGED <<files, dataFiles, fileId, client, acked>> /\ lost \subseteq lost'
      BY <1>3 DEF disk, handles
    <3>2. Getting => client.key \in Key
      BY <1>1, ClientFacts DEF Typed, Getting
    <3>3. ASSUME Getting, Traced(client.key, client.entry)
          PROVE  Traced(client.key, client.entry)'
      <4>1. CASE client.key = key
        <5>1. index'[client.key].file = NewFile /\ client.key \notin Left'
          BY <1>2, <1>4, <1>5, <4>1
        <5> QED
          BY <1>5, <3>1, <3>3, <5>1 DEF Traced
      <4>2. CASE client.key # key
        <5>1. index'[client.key] = index[client.key]
              /\ (client.key \in Left' <=> client.key \in Left)
          BY <1>4, <1>5, <3>2, <3>3, <4>2
        <5> QED
          BY <1>0, <1>5, <3>1, <3>3, <5>1 DEF Traced
      <4> QED
        BY <4>1, <4>2
    <3> HIDE DEF e, w
    <3> QED
      BY <1>0, <1>1, <1>5, <3>1, <3>3, CopyingReading DEF IInv
  <2> QED
    BY <2>1, <2>2
<1>9. ASSUME NEW k \in Key, Sure(k)'
      PROVE  Indexed(k)' /\ (~Exempt(k)' => Restorable(k)') /\ Moved(k)'
  <2>1. Sure(k) /\ (Pending(k)' <=> Pending(k)) /\ UNCHANGED <<files, hint, acked, fragile, since>>
    BY <1>3, <1>9 DEF Sure, Pending, disk
  <2>2. Indexed(k) /\ (~Exempt(k) => Restorable(k)) /\ Moved(k)
    BY <1>0, <1>1, <2>1 DEF IInv, Claims
  <2>3. ~Exempt(k)' => Restorable(k)'
    BY <1>0, <1>3, <1>5, <2>1, <2>2 DEF Exempt, Restorable, Recovered
  <2>4. ~Reindexing(k)' /\ (Reindexing(k) <=> k = key)
    BY <1>0, <1>5 DEF Reindexing
  <2>5. CASE k # key
    <3>1. index'[k] = index[k] /\ (k \in Left' <=> k \in Left)
      BY <1>4, <1>5, <2>5
    <3>2. Indexed(k)'
      BY <1>0, <1>1, <1>3, <1>5, <2>1, <2>2, <3>1 DEF Indexed, Places
    <3>3. Moved(k)'
      BY <1>0, <1>3, <1>5, <2>1, <2>2, <2>4, <2>5, <3>1 DEF Moved
    <3> QED
      BY <2>3, <3>2, <3>3
  <2>6. CASE k = key
    <3>1. index[k] = worker.saw
      BY <1>3, <1>9, <2>6 DEF Sure
    <3>2. index[k] = [file |-> fileId, pos |-> worker.latest[k], del |-> FALSE]
      BY <1>0, <1>2, <2>2, <2>6, <3>1 DEF Moved
    <3>3. ~Denies(index[k], acked[k])
      BY <1>1, <3>2, Bounds DEF Denies, NoEntry
    <3>4. acked[k] = files[fileId][worker.latest[k]] /\ acked[k].val # NoVal
      BY <1>1, <2>2, <3>2, <3>3 DEF Indexed, Leads, Shows
    <3>5. Indexed(k)'
      BY <1>1, <1>2, <1>4, <1>5, <2>1, <2>6, <3>4 DEF Indexed, Leads, Shows, Places
    <3>6. k \notin fragile /\ ~Pending(k) => EndsWith(files[NewFile], k, acked[k])
      BY <2>2, <2>4, <2>6, <3>1 DEF Moved
    <3>7. Moved(k)'
      BY <1>3, <1>4, <1>5, <2>1, <2>6, <3>6 DEF Moved
    <3> QED
      BY <2>3, <3>5, <3>7
  <2> QED
    BY <2>5, <2>6
<1>10. \A k \in Key : Claims(k)'
  BY <1>9 DEF Claims
<1> QED
  BY <1>6, <1>7, <1>8, <1>10 DEF IInv

\* What the file itself says of a key, when there is no hint.
LEMMA SaidByFile ==
  ASSUME NEW l \in Seq(Record), NEW f, NEW k, NEW rec,
         EndsWith(l, k, rec) \/ (Lacks(l, k) /\ rec.val = NoVal)
  PROVE  LET e == EntryAt(l, f, Last(l, Len(l), k)) IN
         Shows(l, e, rec) \/ (Denies(e, rec) /\ Lacks(l, k))
<1> DEFINE p == Last(l, Len(l), k)
<1>1. DOMAIN l = 1 .. Len(l) /\ Len(l) \in Nat
  OBVIOUS
<1>2. \/ p = 0
      \/ p \in DOMAIN l /\ l[p].key = k
  <2>1. \/ p = 0
        \/ p \in 1 .. Len(l) /\ l[p].key = k
    BY <1>1, LastFacts
  <2> HIDE DEF p
  <2> QED
    BY <1>1, <2>1
<1> HIDE DEF p
<1>3. CASE EndsWith(l, k, rec)
  <2>1. p # 0 /\ l[p] = rec /\ p \in DOMAIN l
    BY <1>2, <1>3 DEF EndsWith, p
  <2> QED
    BY <2>1 DEF EntryAt, Shows, p
<1>4. CASE Lacks(l, k) /\ rec.val = NoVal
  <2>1. p = 0
    BY <1>2, <1>4 DEF Lacks
  <2> QED
    BY <1>4, <2>1 DEF EntryAt, Denies, p
<1> QED
  BY <1>3, <1>4

LEMMA SwitchStep ==
  ASSUME IInv, Switch
  PROVE  IInv'
<1>0. Copying /\ worker.pc = "pick" /\ worker.todo = {} /\ Left = {}
  BY DEF Switch, Copying, Left
<1>1. /\ Typed /\ Handled /\ WorkerHandles /\ ClientHandles /\ Found /\ isOpen
      /\ NewFile \in FileId /\ NewFile # fileId /\ NewFile > fileId /\ fileId \in FileId
      /\ worker.old = fileId /\ worker.new = NewFile /\ worker \in WorkerState
      /\ files[NewFile] \in Seq(Record) /\ dir[NewFile] = NewFile
      /\ \A e, rec : ~Astray(e, rec)
  BY <1>0, CopyingFacts
<1>2. /\ fileId' = NewFile
      /\ worker' = [pc |-> "close", old |-> fileId, new |-> NewFile]
      /\ UNCHANGED <<disk, handles, index, isOpen, inProgress, client, clock, counters, ghosts>>
  BY <1>1 DEF Switch
<1>3. worker' \in WorkerState /\ ~Copying' /\ Switching' /\ worker'.old = fileId
  BY <1>1, <1>2 DEF WorkerState, Copying, Switching
<1>4. /\ dataFile.ino = fileId /\ dataFiles[NewFile].ino = NewFile
      /\ \A f \in FileId : f > NewFile => dataFiles[f] = NoHandle /\ f > fileId
  BY <1>0, <1>1, Bounds DEF Handled, WorkerHandles
<1>5. Typed'
  BY <1>1, <1>2, <1>3 DEF Typed, disk, handles, ghosts
<1>6. Handled'
  BY <1>0, <1>1, <1>2, <1>3, <1>4, Bounds DEF Handled, WorkerHandles, disk, handles
<1>7. WorkerHandles' /\ ClientHandles'
  <2>1. WorkerHandles'
    BY <1>1, <1>2, <1>3, <1>4, Bounds DEF WorkerHandles, handles
  <2>2. client.pc \in {"route", "append", "index"} => client.file = NewFile
    BY <1>0, <1>1 DEF ClientHandles
  <2> QED
    BY <1>1, <1>2, <1>3, <2>1, <2>2 DEF ClientHandles
<1>8. Found' /\ Reading'
  <2>1. Found'
    BY <1>2 DEF Found
  <2>2. SUFFICES ASSUME Getting, Sure(client.key)
                 PROVE  /\ ~client.entry.del
                        /\ Attached(client.key, client.entry)'
                        /\ client.pc = "read" => Chosen(client.entry)'
    BY <1>2, <1>3, <2>1 DEF Reading, Getting, Sure, ghosts
  <2>3. /\ ~client.entry.del /\ Attached(client.key, client.entry)
        /\ Traced(client.key, client.entry)
        /\ client.pc = "read" => Chosen(client.entry)
    BY <1>0, <2>2 DEF IInv, Reading
  <2>4. Leads(files, client.entry, acked[client.key])
    BY <1>1, <2>3 DEF Attached
  <2>5. client.entry.file = NewFile \/ (client.entry.file = fileId
                                      /\ Only(files[NewFile], client.key, acked[client.key]))
    BY <2>3 DEF Traced
  <2>6. fileId < NewFile
    BY <1>1, Bounds
  <2>7. Attached(client.key, client.entry)'
    BY <1>2, <1>3, <2>4, <2>5, <2>6 DEF Attached, Places, Overtaken, disk, ghosts
  <2>8. client.pc = "read" => Chosen(client.entry)'
    BY <1>2, <2>3 DEF Chosen, handles
  <2> QED
    BY <2>3, <2>7, <2>8
<1>9. ASSUME NEW k \in Key, Sure(k)'
      PROVE  Indexed(k)' /\ (~Exempt(k)' => Restorable(k)')
  <2>1. /\ Sure(k) /\ (Pending(k)' <=> Pending(k))
        /\ UNCHANGED <<files, hint, index, acked, fragile>>
    BY <1>2, <1>9 DEF Sure, Pending, disk, ghosts
  <2>2. Indexed(k) /\ Moved(k)
    BY <1>0, <1>1, <2>1 DEF IInv, Claims
  <2>3. /\ index[k].file = NewFile \/ acked[k].val = NoVal
        /\ index[k].file = NewFile \/ Pending(k) \/ Lacks(files[NewFile], k)
        /\ k \notin fragile /\ ~Pending(k) /\ index[k].file = NewFile
             => EndsWith(files[NewFile], k, acked[k])
    BY <1>0, <2>2 DEF Moved, Reindexing
  <2>4. Indexed(k)'
    <3>1. CASE index[k].file = NewFile
      <4>1. Leads(files, index[k], acked[k])
        BY <1>1, <2>2, <3>1, Bounds DEF Indexed
      <4> QED
        BY <1>2, <2>1, <3>1, <4>1 DEF Indexed, Places
    <3>2. CASE index[k].file # NewFile
      <4>1. Denies(index[k], acked[k]) /\ index[k].file <= NewFile
        BY <1>0, <1>1, <2>2, <2>3, <3>2, Bounds DEF Indexed, Places, Leads, Shows, Denies, Typed, Entry
      <4> QED
        BY <1>2, <1>3, <2>1, <2>3, <3>2, <4>1 DEF Indexed
    <3> QED
      BY <3>1, <3>2
  <2>5. ~Exempt(k)' => Restorable(k)'
    <3> SUFFICES ASSUME ~Exempt(k)' PROVE Restorable(k)'
      OBVIOUS
    <3> DEFINE l == files[NewFile]
               e == EntryAt(l, NewFile, Last(l, Len(l), k))
    <3>1. k \notin fragile /\ ~Pending(k)
      BY <1>1, <1>2, <1>3, <2>1 DEF Exempt
    <3>2. EndsWith(l, k, acked[k]) \/ (Lacks(l, k) /\ acked[k].val = NoVal)
      BY <2>3, <3>1
    <3>3. Recovered(k)' = e
      BY <1>1, <1>2, <2>1 DEF Recovered, Handled
    <3>4. Shows(l, e, acked[k]) \/ (Denies(e, acked[k]) /\ Lacks(l, k))
      <4>1. l \in Seq(Record)
        BY <1>1
      <4> HIDE DEF l
      <4> QED
        BY <3>2, <4>1, SaidByFile
    <3> QED
      BY <1>2, <2>1, <3>3, <3>4 DEF Restorable
  <2> QED
    BY <2>4, <2>5
<1>10. \A k \in Key : Claims(k)'
  BY <1>3, <1>9 DEF Claims
<1> QED
  BY <1>5, <1>6, <1>7, <1>8, <1>10 DEF IInv

LEMMA WriteHintStep ==
  ASSUME IInv, WriteHint
  PROVE  IInv'
<1> DEFINE H == [k \in Key |-> IF index[k] = NoEntry THEN NoEntry
                               ELSE [index[k] EXCEPT !.file = fileId]]
<1>0. /\ worker.pc = "hint" /\ worker' = [pc |-> "finish", new |-> worker.new]
      /\ UNCHANGED <<files, dir, handles, index, isOpen, fileId, inProgress, client, clock,
                     acked, lost, since>>
  BY DEF WriteHint
<1>1. /\ Typed /\ Handled /\ WorkerHandles /\ ClientHandles /\ isOpen /\ fileId \in FileId
      /\ worker.new = fileId
  BY <1>0, SwitchedFacts DEF WorkerHandles
<1>2. /\ worker' \in WorkerState /\ worker'.pc = "finish" /\ worker'.new = fileId
      /\ ~Copying /\ ~Copying' /\ ~Switching /\ ~Switching' /\ NewFile' = NewFile
      /\ Later /\ NoneOpened
  BY <1>0, <1>1
     DEF WorkerState, Copying, Switching, NewFile, Later, NoneOpened, handles
<1>3. CASE UNCHANGED <<hint, fragile>>
  <2>1. Typed'
    BY <1>0, <1>1, <1>2, <1>3 DEF Typed, handles
  <2>2. Handled' /\ WorkerHandles'
    BY <1>0, <1>1, <1>2, <1>3 DEF Handled, WorkerHandles, Copying, Switching, handles
  <2> QED
    BY <1>0, <1>1, <1>2, <1>3, <2>1, <2>2, LateStep
<1>4. CASE /\ hint' = [hint EXCEPT ![fileId] = H]
           /\ fragile' = IF index = NoHint THEN fragile ELSE {}
  <2>1. /\ H \in [Key -> Entry]
        /\ \A k \in Key : /\ index[k] = NoEntry => H[k] = NoEntry
                          /\ index[k] # NoEntry => H[k].file = fileId /\ H[k].del = index[k].del
                                                  /\ H[k].pos = index[k].pos
                          /\ index[k].file = fileId => H[k] = index[k] /\ H[k] # NoEntry
                          /\ NoHint[k] = NoEntry
    <3>1. ASSUME NEW e \in Entry
          PROVE  /\ [e EXCEPT !.file = fileId] \in Entry
                 /\ [e EXCEPT !.file = fileId].file = fileId
                 /\ [e EXCEPT !.file = fileId].del = e.del
                 /\ [e EXCEPT !.file = fileId].pos = e.pos
                 /\ e.file = fileId => [e EXCEPT !.file = fileId] = e /\ e # NoEntry
      BY <1>1, Bounds DEF Entry, NoEntry
    <3>2. NoEntry \in Entry /\ \A k \in Key : index[k] \in Entry /\ NoHint[k] = NoEntry
      BY <1>1, Bounds DEF Typed, NoHint
    <3>3. H \in [Key -> Entry]
      BY <3>1, <3>2
    <3>4. ASSUME NEW k \in Key
          PROVE  /\ index[k] = NoEntry => H[k] = NoEntry
                 /\ index[k] # NoEntry => H[k].file = fileId /\ H[k].del = index[k].del
                                                  /\ H[k].pos = index[k].pos
                 /\ index[k].file = fileId => H[k] = index[k] /\ H[k] # NoEntry
      <4> DEFINE e == index[k]
                 g == [e EXCEPT !.file = fileId]
      <4>1. /\ g.file = fileId /\ g.del = e.del /\ g.pos = e.pos
            /\ e.file = fileId => g = e /\ e # NoEntry
        BY <3>1, <3>2
      <4>2. H[k] = IF e = NoEntry THEN NoEntry ELSE g
        OBVIOUS
      <4> HIDE DEF e, g, H
      <4>3. /\ e = NoEntry => H[k] = NoEntry
            /\ e # NoEntry => H[k].file = fileId /\ H[k].del = e.del
                           /\ H[k].pos = e.pos
            /\ e.file = fileId => H[k] = e /\ H[k] # NoEntry
        BY <4>1, <4>2
      <4> QED
        BY <4>3 DEF e
    <3> HIDE DEF H
    <3> QED
      BY <3>2, <3>3, <3>4
  <2> HIDE DEF H
  <2>2. /\ hint' \in [FileId -> [Key -> Entry]] /\ hint'[fileId] = H
        /\ \A f \in FileId \ {fileId} : hint'[f] = hint[f]
    BY <1>1, <1>4, <2>1 DEF Typed
  <2>3. Typed'
    BY <1>0, <1>1, <1>2, <1>4, <2>2 DEF Typed, handles
  <2>4. Handled'
    BY <1>0, <1>1, <1>2, <2>1, <2>2, Bounds DEF Handled, handles
  <2>5. WorkerHandles' /\ ClientHandles'
    BY <1>0, <1>1, <1>2 DEF WorkerHandles, ClientHandles, handles
  <2>6. Found' /\ Reading'
    <3>1. Found'
      BY <1>2 DEF Found, Copying
    <3>2. Reading'
      BY <1>0, <1>1, <1>2, SameReading DEF IInv
    <3> QED
      BY <3>1, <3>2
  <2>7. ASSUME NEW k \in Key, Sure(k)'
        PROVE  Indexed(k)' /\ (~Exempt(k)' => Restorable(k)')
    <3>1. Sure(k) /\ (Pending(k)' <=> Pending(k))
      BY <1>0, <2>7 DEF Sure, Pending
    <3>2. Indexed(k)
      BY <1>1, <3>1 DEF IInv, Claims
    <3>3. Indexed(k)'
      BY <1>0, <1>1, <1>2, <3>1, <3>2 DEF Indexed, Places, Astray, handles
    <3>4. ASSUME ~Exempt(k)' PROVE Restorable(k)'
      <4>1. ~Pending(k)
        BY <1>0, <1>1, <1>2, <3>1, <3>4 DEF Exempt
      <4>2. CASE Leads(files, index[k], acked[k]) /\ index[k].file = fileId
        <5>1. H # NoHint /\ H[k] = index[k]
          BY <2>1, <4>2
        <5>2. Recovered(k)' = index[k]
          BY <1>0, <2>2, <5>1 DEF Recovered
        <5> QED
          BY <1>0, <4>2, <5>2 DEF Restorable, Leads
      <4>3. CASE Denies(index[k], acked[k]) /\ Lacks(files[fileId], k)
        <5>1. CASE H = NoHint
          <6> DEFINE l == files[fileId]
                     e == EntryAt(l, fileId, Last(l, Len(l), k))
          <6>1. Recovered(k)' = e
            BY <1>0, <2>2, <5>1 DEF Recovered
          <6>2. l \in Seq(Record) /\ Lacks(l, k) /\ acked[k].val = NoVal
            BY <1>0, <1>1, <4>3 DEF Typed, Denies
          <6>3. Shows(l, e, acked[k]) \/ (Denies(e, acked[k]) /\ Lacks(l, k))
            <7> HIDE DEF l
            <7> QED
              BY <6>2, SaidByFile
          <6> QED
            BY <1>0, <6>1, <6>3 DEF Restorable
        <5>2. CASE H # NoHint
          <6>1. Recovered(k)' = H[k]
            BY <1>0, <2>2, <5>2 DEF Recovered
          <6>2. Denies(H[k], acked[k])
            BY <2>1, <4>3 DEF Denies
          <6> QED
            BY <1>0, <4>3, <6>1, <6>2 DEF Restorable
        <5> QED
          BY <5>1, <5>2
      <4>4. CASE Astray(index[k], acked[k])
        <5>1. index[k] # NoEntry /\ Shows(files[fileId], index[k], acked[k])
          BY <1>1, <4>4, Bounds DEF Astray, NoEntry
        <5>2. H # NoHint /\ H[k].pos = index[k].pos /\ H[k].del = index[k].del
          <6>1. H[k].file = fileId /\ H[k].pos = index[k].pos /\ H[k].del = index[k].del
            BY <2>1, <5>1
          <6>2. fileId # NoEntry.file
            BY <1>1, Bounds DEF NoEntry
          <6> QED
            BY <2>1, <6>1, <6>2
        <5>3. Recovered(k)' = H[k]
          BY <1>0, <2>2, <5>2 DEF Recovered
        <5> QED
          BY <1>0, <5>1, <5>2, <5>3 DEF Restorable, Shows
      <4> QED
        BY <1>2, <3>2, <4>1, <4>2, <4>3, <4>4 DEF Indexed, Places
    <3> QED
      BY <3>3, <3>4
  <2>8. \A k \in Key : Claims(k)'
    BY <1>2, <2>7 DEF Claims
  <2> QED
    BY <2>3, <2>4, <2>5, <2>6, <2>8 DEF IInv
<1> QED
  BY <1>3, <1>4 DEF WriteHint

LEMMA RollbackStep ==
  ASSUME IInv, Rollback
  PROVE  IInv'
<1>0. Copying /\ worker.pc = "copy"
  BY DEF Rollback, Copying
<1>1. /\ Typed /\ Handled /\ WorkerHandles /\ ClientHandles /\ isOpen
      /\ NewFile \in FileId /\ NewFile # fileId /\ NewFile > fileId /\ fileId \in FileId
      /\ worker.old = fileId /\ worker.new = NewFile /\ ~Switching
      /\ dataFiles[NewFile] # NoHandle /\ \A e, rec : ~Astray(e, rec)
  BY <1>0, CopyingFacts
<1>2. /\ worker' = [pc |-> "drop", new |-> NewFile]
      /\ lost' = lost \cup {k \in Key : index[k].file = NewFile}
      /\ UNCHANGED <<disk, handles, index, isOpen, fileId, inProgress, client,
                     clock, acked, fragile, since>>
  BY <1>1 DEF Rollback
<1>3. worker' \in WorkerState /\ ~Copying' /\ ~Switching' /\ NewFile' = NewFile
  BY <1>1, <1>2 DEF WorkerState, Copying, Switching, NewFile
<1>4. Typed'
  BY <1>1, <1>2, <1>3 DEF Typed, disk, handles
<1>5. Handled' /\ WorkerHandles' /\ ClientHandles'
  BY <1>0, <1>1, <1>2, <1>3
     DEF Handled, WorkerHandles, ClientHandles, disk, handles
<1>6. Found' /\ Reading'
  <2>1. Found'
    BY <1>2 DEF Found
  <2>2. SUFFICES ASSUME Getting, Sure(client.key)'
                 PROVE  /\ ~client.entry.del
                        /\ Attached(client.key, client.entry)'
                        /\ client.pc = "read" => Chosen(client.entry)'
    BY <1>2, <1>3, <2>1 DEF Reading, Getting, Sure
  <2>3. Sure(client.key) /\ client.key \in Key /\ index[client.key].file # NewFile
    BY <1>1, <1>2, <2>2, ClientFacts DEF Sure, Typed, Getting
  <2>4. /\ ~client.entry.del /\ Attached(client.key, client.entry)
        /\ Traced(client.key, client.entry)
        /\ client.pc = "read" => Chosen(client.entry)
    BY <1>0, <2>2, <2>3 DEF IInv, Reading
  <2>5. Leads(files, client.entry, acked[client.key]) /\ client.entry.file = fileId
    BY <1>1, <2>3, <2>4 DEF Attached, Traced
  <2>6. Attached(client.key, client.entry)'
    BY <1>2, <2>5 DEF Attached, Places, disk
  <2>7. client.pc = "read" => Chosen(client.entry)'
    BY <1>2, <2>4 DEF Chosen, handles
  <2> QED
    BY <2>4, <2>6, <2>7
<1>7. ASSUME NEW k \in Key, Sure(k)'
      PROVE  Indexed(k)' /\ (~Exempt(k)' => Restorable(k)')
  <2>1. Sure(k) /\ (Pending(k)' <=> Pending(k)) /\ index[k].file # NewFile
    BY <1>2, <1>7 DEF Sure, Pending
  <2>2. Indexed(k) /\ Moved(k) /\ (~Exempt(k) => Restorable(k))
    BY <1>0, <1>1, <2>1 DEF IInv, Claims
  <2>3. Indexed(k)'
    BY <1>0, <1>1, <1>2, <1>3, <2>1, <2>2 DEF Indexed, Places, disk
  <2>4. k \notin since
    BY <2>1, <2>2 DEF Moved
  <2>5. ~Exempt(k)' => Restorable(k)'
    BY <1>0, <1>1, <1>2, <2>2, <2>4 DEF Exempt, Restorable, Recovered, disk
  <2> QED
    BY <2>3, <2>5
<1>8. \A k \in Key : Claims(k)'
  BY <1>3, <1>7 DEF Claims
<1> QED
  BY <1>4, <1>5, <1>6, <1>8 DEF IInv

-----------------------------------------------------------------------------
(* Closing, crashing and opening.                                           *)
LEMMA ShutStep ==
  ASSUME IInv, isOpen, Shut, UNCHANGED <<fragile, since>>,
         lost' \subseteq Key, lost \subseteq lost', fragile \subseteq lost',
         Copying => since \subseteq lost',
         acked' \in [Key -> Record \cup {Unknown}],
         \A k \in Key : acked'[k] = Unknown \/ (acked'[k] = acked[k] /\ ~Pending(k))
  PROVE  IInv'
<1>0. /\ Typed /\ Handled
      /\ isOpen' = FALSE /\ index' = NoHint /\ dataFile' = NoHandle
      /\ dataFiles' = [f \in FileId |-> NoHandle] /\ inProgress' = FALSE
      /\ worker' = Asleep /\ client' = Idle
      /\ UNCHANGED <<files, dir, hint, fileId, clock>>
  BY DEF IInv, Shut, disk
<1>1. worker' \in WorkerState /\ worker'.pc = "idle" /\ client' \in ClientState /\ ~Copying'
  BY <1>0 DEF WorkerState, ClientState, Asleep, Idle, Copying
<1>2. Typed'
  BY <1>0, <1>1, Bounds DEF Typed
<1>3. Handled' /\ WorkerHandles' /\ ClientHandles'
  BY <1>0, <1>1 DEF Handled, WorkerHandles, ClientHandles, Switching, Idle
<1>4. Found' /\ Reading'
  BY <1>0, <1>1 DEF Found, Reading, Getting, Idle
<1>5. ASSUME NEW k \in Key, Sure(k)' PROVE Restorable(k)'
  <2>1. Sure(k) /\ acked'[k] = acked[k] /\ ~Pending(k) /\ k \notin fragile
        /\ ~(Copying /\ k \in since)
    BY <1>5 DEF Sure
  <2>2. Restorable(k)
    BY <2>1 DEF IInv, Claims, Exempt
  <2> QED
    BY <1>0, <2>1, <2>2 DEF Restorable, Recovered
<1>6. \A k \in Key : Claims(k)'
  BY <1>0, <1>1, <1>5 DEF Claims
<1> QED
  BY <1>2, <1>3, <1>4, <1>6 DEF IInv

LEMMA CloseStep ==
  ASSUME IInv, Close
  PROVE  IInv'
<1>1. Typed /\ Handled /\ isOpen /\ client = Idle /\ ~Copying
  BY DEF IInv, Close, Free, Handled, Copying
<1>2. Shut /\ lost' = lost \cup fragile /\ UNCHANGED <<acked, fragile, since>>
  BY DEF Close
<1>3. \A k \in Key : ~Pending(k)
  BY <1>1 DEF Pending, Idle
<1>4. /\ lost' \subseteq Key /\ lost \subseteq lost' /\ fragile \subseteq lost'
      /\ acked' \in [Key -> Record \cup {Unknown}]
  BY <1>1, <1>2 DEF Typed
<1> QED
  BY <1>1, <1>2, <1>3, <1>4, ShutStep

LEMMA CrashStep ==
  ASSUME IInv, Crash
  PROVE  IInv'
<1>1. Typed /\ isOpen
  BY DEF IInv, Crash
<1>2. /\ Shut /\ UNCHANGED <<fragile, since>>
      /\ lost' = lost \cup fragile \cup (IF Copying THEN since ELSE {})
      /\ acked' = IF client.pc = "index"
                  THEN [acked EXCEPT ![client.rec.key] = Unknown] ELSE acked
  BY DEF Crash, Copying
<1>3. client.pc = "index" => client.rec.key \in Key
  BY <1>1, ClientFacts DEF Typed, Record
<1>4. /\ acked' \in [Key -> Record \cup {Unknown}]
      /\ \A k \in Key : acked'[k] = Unknown \/ (acked'[k] = acked[k] /\ ~Pending(k))
  BY <1>1, <1>2, <1>3 DEF Typed, Pending
<1>5. /\ lost' \subseteq Key /\ lost \subseteq lost' /\ fragile \subseteq lost'
      /\ Copying => since \subseteq lost'
  BY <1>1, <1>2 DEF Typed
<1> QED
  BY <1>1, <1>2, <1>4, <1>5, ShutStep

\* What is rebuilt for a key.
LEMMA RecoveredFacts ==
  ASSUME Typed, Handled, NEW k \in Key
  PROVE  /\ Recovered(k) \in Entry
         /\ Recovered(k) = NoEntry \/ Recovered(k).file = fileId
<1>1. fileId \in FileId /\ fileId \in 0 .. MaxFile /\ files[fileId] \in Seq(Record)
      /\ hint[fileId][k] \in Entry
  BY Bounds DEF Typed
<1>2. CASE hint[fileId] # NoHint
  BY <1>1, <1>2 DEF Recovered, Handled
<1>3. CASE hint[fileId] = NoHint
  <2> DEFINE l == files[fileId]
             p == Last(l, Len(l), k)
  <2>1. Len(l) \in Nat
    BY <1>1
  <2>2. p \in Nat
    <3> HIDE DEF l
    <3> QED
      BY <2>1, LastFacts
  <2>3. Recovered(k) = EntryAt(l, fileId, p)
    BY <1>3 DEF Recovered
  <2> HIDE DEF l, p
  <2> QED
    BY <1>1, <2>2, <2>3, Bounds DEF EntryAt, Entry, NoEntry
<1> QED
  BY <1>2, <1>3

LEMMA OpenStep ==
  ASSUME IInv, Open
  PROVE  IInv'
<1> DEFINE h == [ino |-> fileId, size |-> Len(files[fileId])]
<1>0. /\ Typed /\ Handled /\ ~isOpen /\ worker = Asleep /\ client = Idle
      /\ fileId \in FileId /\ fileId # 0 /\ fileId \in 0 .. MaxFile
      /\ files[fileId] \in Seq(Record) /\ dir[fileId] \in {0, fileId}
  BY Bounds DEF IInv, Open, Handled, Typed
<1>1. UNCHANGED <<files, fileId, hint, inProgress, worker, client, clock, ghosts>> /\ isOpen' = TRUE
  <2>1. dir[fileId] = 0 => [files EXCEPT ![fileId] = <<>>] = files
    BY <1>0 DEF Typed, Handled
  <2> QED
    BY <2>1 DEF Open, CreateIfMissing
<1>2. /\ dir' \in [FileId -> 0 .. MaxFile] /\ dir'[fileId] = fileId
      /\ \A f \in FileId : dir'[f] \in {0, f}
  BY <1>0 DEF Open, CreateIfMissing, Typed, Handled
<1>3. dataFile' = h /\ dataFiles' = [dataFiles EXCEPT ![fileId] = h] /\ h \in Opening
  BY <1>0, <1>1, <1>2 DEF Open, Opened, Opening
<1>4. /\ dataFiles' \in [FileId -> Opening] /\ dataFiles'[fileId] = h
      /\ \A f \in FileId : dataFiles'[f] = NoHandle \/ dataFiles'[f].ino = f
  BY <1>0, <1>3 DEF Typed, Handled
<1>5. index' = Rebuild(fileId)
  BY DEF Open
<1>6. ASSUME NEW k \in Key
      PROVE  /\ Recovered(k) \in Entry
             /\ Recovered(k) = NoEntry \/ Recovered(k).file = fileId
             /\ \/ index'[k] = Recovered(k)
                \/ index'[k] = NoEntry /\ files[fileId] = <<>>
  <2>1. Recovered(k) \in Entry /\ (Recovered(k) = NoEntry \/ Recovered(k).file = fileId)
    BY <1>0, RecoveredFacts
  <2>2. CASE dir[fileId] = 0 \/ files[fileId] = <<>>
    BY <1>0, <1>5, <2>1, <2>2 DEF Rebuild, Handled, NoHint
  <2>3. CASE ~(dir[fileId] = 0 \/ files[fileId] = <<>>)
    BY <1>0, <1>5, <2>1, <2>3 DEF Rebuild, Recovered
  <2> QED
    BY <2>1, <2>2, <2>3
<1>7. index' \in [Key -> Entry]
  <2>1. \A k \in Key : index'[k] \in Entry
    BY <1>6, Bounds
  <2>2. Rebuild(fileId) = [k \in Key |-> Rebuild(fileId)[k]]
    BY <1>0 DEF Rebuild, NoHint, Typed
  <2> QED
    BY <1>5, <2>1, <2>2
<1> HIDE DEF h
<1>8. Typed'
  BY <1>0, <1>1, <1>2, <1>3, <1>4, <1>7 DEF Typed, ghosts
<1>9. Handled'
  BY <1>0, <1>1, <1>2, <1>3, <1>4 DEF Handled, Switching, Asleep, h
<1>10. WorkerHandles' /\ ClientHandles' /\ Found' /\ Reading' /\ ~Copying'
  <2>1. \A f \in FileId : f > fileId => dataFiles'[f] = NoHandle
    <3>1. \A f \in FileId : f > fileId => f # fileId
      BY <1>0, Bounds
    <3>2. \A f \in FileId : f > fileId => dataFiles[f] = NoHandle
      BY <1>0 DEF IInv, WorkerHandles, Copying, Asleep
    <3> QED
      BY <1>0, <1>3, <3>1, <3>2 DEF Typed
  <2> QED
    BY <1>0, <1>1, <2>1
       DEF WorkerHandles, ClientHandles, Found, Reading, Getting, Copying, Switching, Asleep, Idle
<1>11. ASSUME NEW k \in Key, Sure(k)'
       PROVE  Indexed(k)' /\ Restorable(k)'
  <2>1. Sure(k) /\ UNCHANGED acked
    BY <1>1, <1>11 DEF Sure, ghosts
  <2>2. Restorable(k)
    BY <1>0, <2>1 DEF IInv, Claims, Exempt
  <2>3. Restorable(k)'
    BY <1>1, <2>1, <2>2 DEF Restorable, Recovered
  <2>4. CASE Shows(files[fileId], Recovered(k), acked[k])
    <3>1. DOMAIN files[fileId] = 1 .. Len(files[fileId]) /\ Len(files[fileId]) \in Nat
      BY <1>0
    <3>2. Recovered(k) # NoEntry /\ files[fileId] # <<>>
      BY <2>4, <3>1 DEF Shows, NoEntry
    <3>3. index'[k] = Recovered(k) /\ Recovered(k).file = fileId
      BY <1>6, <3>2
    <3>4. Leads(files, index'[k], acked[k])
      BY <1>0, <2>4, <3>3 DEF Leads
    <3> QED
      BY <1>1, <2>1, <2>3, <3>3, <3>4 DEF Indexed, Places
  <2>5. CASE Denies(Recovered(k), acked[k]) /\ Lacks(files[fileId], k)
    <3>1. Denies(index'[k], acked[k]) /\ index'[k].file <= fileId
      <4>1. \/ index'[k] = NoEntry
            \/ index'[k] = Recovered(k) /\ Recovered(k).file = fileId
        BY <1>6
      <4>2. NoEntry.file <= fileId /\ fileId <= fileId
        BY <1>0, Bounds DEF NoEntry
      <4> QED
        BY <2>5, <4>1, <4>2 DEF Denies
    <3> QED
      BY <1>1, <2>1, <2>3, <2>5, <3>1 DEF Indexed
  <2> QED
    BY <2>2, <2>3, <2>4, <2>5 DEF Restorable
<1>12. \A k \in Key : Claims(k)'
  BY <1>10, <1>11 DEF Claims
<1> QED
  BY <1>8, <1>9, <1>10, <1>12 DEF IInv

-----------------------------------------------------------------------------
(* The inductive invariant.                                                 *)
LEMMA InitIInv == Init => IInv
<1> SUFFICES ASSUME Init PROVE IInv
  OBVIOUS
<1>1. /\ worker = Asleep /\ client = Idle /\ isOpen = FALSE /\ fileId = 1 /\ inProgress = FALSE
      /\ files = [f \in FileId |-> <<>>] /\ hint = [f \in FileId |-> NoHint]
      /\ dir = [f \in FileId |-> 0] /\ dataFiles = [f \in FileId |-> NoHandle]
      /\ dataFile = NoHandle /\ index = NoHint /\ acked = Never /\ clock = 0
      /\ lost = {} /\ fragile = {} /\ since = {}
  BY DEF Init
<1>2. 1 \in FileId /\ 0 \in 0 .. MaxFile
  BY BoundAssumption DEF FileId
<1>3. Typed
  <2>1. files \in [FileId -> Seq(Record)] /\ dir \in [FileId -> 0 .. MaxFile]
    BY <1>1, <1>2
  <2>2. acked \in [Key -> Record \cup {Unknown}] /\ clock \in 0 .. MaxClock
    BY <1>1, Bounds DEF Never, Record
  <2>3. worker \in WorkerState /\ client \in ClientState
    BY <1>1 DEF WorkerState, ClientState, Asleep, Idle
  <2>4. hint \in [FileId -> [Key -> Entry]] /\ dataFiles \in [FileId -> Opening]
        /\ index \in [Key -> Entry] /\ dataFile \in Opening
    <3>1. NoHint \in [Key -> Entry] /\ NoHandle \in Opening
      BY Bounds
    <3> QED
      BY <1>1, <3>1
  <2> QED
    BY <1>1, <1>2, <2>1, <2>2, <2>3, <2>4 DEF Typed
<1>4. Handled /\ WorkerHandles /\ ClientHandles /\ Found /\ Reading /\ ~Copying
  BY <1>1, <1>2
     DEF Handled, WorkerHandles, ClientHandles, Found, Reading, Getting, Copying, Switching,
         Asleep, Idle, NoHint
<1>5. ASSUME NEW k \in Key PROVE Restorable(k)
  <2> DEFINE l == files[1]
             e == EntryAt(l, 1, Last(l, Len(l), k))
  <2>1. l \in Seq(Record) /\ Lacks(l, k) /\ acked[k].val = NoVal
    BY <1>1, <1>2 DEF Lacks, Never
  <2>2. Recovered(k) = e
    BY <1>1, <1>2 DEF Recovered
  <2>3. Shows(l, e, acked[k]) \/ (Denies(e, acked[k]) /\ Lacks(l, k))
    <3> HIDE DEF l
    <3> QED
      BY <2>1, SaidByFile
  <2> QED
    BY <1>1, <2>2, <2>3 DEF Restorable
<1>6. \A k \in Key : Claims(k)
  BY <1>1, <1>4, <1>5 DEF Claims
<1> QED
  BY <1>3, <1>4, <1>6 DEF IInv

LEMMA StutterKeeps ==
  ASSUME IInv, UNCHANGED vars
  PROVE  IInv'
<1>1. /\ Typed /\ Handled /\ WorkerHandles
      /\ UNCHANGED <<files, dir, hint, dataFile, dataFiles, index, isOpen, fileId, inProgress,
                     worker, client, clock, acked, lost, fragile, since>>
  BY DEF IInv, vars, disk, handles, ghosts
<1>2. Typed' /\ Handled' /\ WorkerHandles' /\ Later /\ NoneOpened
  BY <1>1, SameHandles DEF Typed
<1> QED
  BY <1>1, <1>2, LateStep

LEMMA NextKeeps ==
  ASSUME IInv, [Next]_vars
  PROVE  IInv'
<1>1. CASE Worker
  <2>1. CASE Scan
    BY <2>1, ScanStep
  <2>2. ASSUME NEW k \in Key, Pick(k) PROVE IInv'
    BY <2>2, PickStep
  <2>3. CASE Copy
    BY <2>3, CopyStep
  <2>4. CASE Reindex
    BY <2>4, ReindexStep
  <2>5. CASE Switch
    BY <2>5, SwitchStep
  <2>6. CASE CloseOld
    BY <2>6, CloseOldStep
  <2>7. CASE UnlistOld
    BY <2>7, UnlistOldStep
  <2>8. CASE AssignDataFile
    BY <2>8, AssignDataFileStep
  <2>9. CASE RemoveOld
    BY <2>9, RemoveOldStep
  <2>10. CASE RemovalFails
    BY <2>10, RemovalFailsStep
  <2>11. CASE WriteHint
    BY <2>11, WriteHintStep
  <2>12. CASE Finish
    BY <2>12, FinishStep
  <2>13. CASE Rollback
    BY <2>13, RollbackStep
  <2>14. CASE DropNew
    BY <2>14, DropNewStep
  <2>15. CASE EraseNew
    BY <2>15, EraseNewStep
  <2> QED
    BY <1>1, <2>1, <2>2, <2>3, <2>4, <2>5, <2>6, <2>7, <2>8, <2>9, <2>10, <2>11, <2>12, <2>13, <2>14, <2>15
       DEF Worker
<1>2. CASE Application
  <2>1. ASSUME NEW k \in Key, NEW v \in Val, NEW ttl \in Ttls, StartWrite(k, v, ttl) PROVE IInv'
    <3>1. v \in Val \cup {NoVal}
      OBVIOUS
    <3> QED
      BY <2>1, <3>1, StartWriteStep
  <2>2. ASSUME NEW k \in Key, StartWrite(k, NoVal, 0) PROVE IInv'
    <3>1. NoVal \in Val \cup {NoVal} /\ 0 \in Ttls
      BY Bounds DEF Ttls
    <3> QED
      BY <2>2, <3>1, StartWriteStep
  <2>3. CASE Route
    BY <2>3, RouteStep
  <2>4. CASE AppendWrite
    BY <2>4, AppendWriteStep
  <2>5. CASE IndexWrite
    BY <2>5, IndexWriteStep
  <2>6. ASSUME NEW k \in Key, StartGet(k) PROVE IInv'
    BY <2>6, StartGetStep
  <2>7. CASE FindFile
    BY <2>7, FindFileStep
  <2>8. CASE FinishGet
    BY <2>8, FinishGetStep
  <2>9. CASE Clear
    BY <2>9, ClearStep
  <2>10. CASE TriggerCompact
    BY <2>10, TriggerCompactStep
  <2>11. CASE Close
    BY <2>11, CloseStep
  <2>12. CASE Open
    BY <2>12, OpenStep
  <2> QED
    BY <1>2, <2>1, <2>2, <2>3, <2>4, <2>5, <2>6, <2>7, <2>8, <2>9, <2>10, <2>11, <2>12
       DEF Application
<1>3. CASE Crash
  BY <1>3, CrashStep
<1>4. CASE Tick
  BY <1>4, TickStep
<1>5. CASE UNCHANGED vars
  BY <1>5, StutterKeeps
<1> QED
  BY <1>1, <1>2, <1>3, <1>4, <1>5 DEF Next

\* Every reachable state satisfies the inductive invariant.
THEOREM Invariance == Spec => []IInv
<1>1. IInv /\ [Next]_vars => IInv'
  BY NextKeeps
<1> QED
  BY InitIInv, <1>1, PTL DEF Spec

-----------------------------------------------------------------------------
(* What follows from it.                                                    *)

\* The files an entry may lead to are open.
LEMMA PlacesAreOpen ==
  ASSUME Typed, Handled, WorkerHandles, isOpen, NEW f \in Places
  PROVE  /\ f \in FileId /\ dataFiles[f] # NoHandle /\ dataFiles[f].ino = f /\ dir[f] = f
         /\ f \notin Closed
<1>1. CASE f = fileId
  <2>1. f \notin Closed
    BY <1>1, Bounds DEF Typed, WorkerHandles, Switching, Closed, NewFile
  <2> QED
    BY <1>1, <2>1, Bounds DEF Typed, Handled, NoHandle
<1>2. CASE Copying /\ f = NewFile
  <2>1. NewFile \in FileId
    BY <1>2, NewFiles
  <2>2. Closed = {}
    BY <1>2 DEF Closed, Copying
  <2> QED
    BY <1>2, <2>1, <2>2, Bounds DEF WorkerHandles, NoHandle
<1> QED
  BY <1>1, <1>2 DEF Places

\* A read through the handle of a file that is open, or through dataFile.
LEMMA ReadOfEntry ==
  ASSUME NEW e, NEW f, Handle(e.file).ino = f, NEW rec, Shows(files[f], e, rec), f \notin Closed
  PROVE  ReadValue(e) = Live(rec.val, rec.exp)
BY DEF ReadValue, Holds, Shows

(* Types, and the flag that says a compaction runs: it is set exactly while  *)
(* the worker has something to do, and an open barrel has its data file.    *)
THEOREM TypeCorrect == Spec => []TypeOK
<1>1. ASSUME IInv PROVE TypeOK
  <2>1. Typed /\ Handled /\ WorkerHandles
    BY <1>1 DEF IInv
  <2>2. client.pc \in {"idle", "route", "append", "index", "find", "read"}
    BY <2>1, ClientFacts DEF Typed
  <2>3. worker.pc \in {"idle", "scan", "pick", "copy", "reindex", "close", "unlist",
                       "assign", "remove", "drop", "erase", "hint", "finish", "dead"}
    BY <2>1, WorkerFacts DEF Typed
  <2>4. \A k \in Key : /\ index[k].file \in 0 .. MaxFile /\ index[k].del \in BOOLEAN
                       /\ index[k].pos \in Nat
    BY <2>1 DEF Typed, Entry
  <2>5. isOpen => dataFile # NoHandle /\ dataFiles[fileId] # NoHandle
    <3>1. Switching => worker.old \in FileId
      BY <2>1, WorkerFacts DEF Typed, Switching
    <3> QED
      BY <2>1, <3>1, Bounds DEF Typed, Handled, NoHandle
  <2>6. \A f \in FileId : dataFiles[f].ino \in 0 .. MaxFile
    BY <2>1 DEF Typed, Opening
  <2> QED
    BY <2>1, <2>2, <2>3, <2>4, <2>5, <2>6 DEF TypeOK, Typed, Handled
<1> QED
  BY Invariance, <1>1, PTL

(* A get that no step of the worker interrupts returns the last acknowledged *)
(* write (its value, or nothing once it has expired), through compactions,  *)
(* rollbacks, crashes and reopens, and also when set has put the record in   *)
(* another file than its entry says, unless a named step has taken the key.  *)
THEOREM ReadsAreRight == Spec => []ReadsFindTheLastWrite
<1>1. ASSUME IInv, isOpen, NEW k \in Key, Known(k), k \notin lost
      PROVE  Get(k) = Expected(k)
  <2>1. Typed /\ Handled /\ WorkerHandles /\ Indexed(k)
    BY <1>1 DEF IInv, Claims, Sure, Known
  <2>2. ASSUME NEW f, Handle(index[k].file).ino = f, f \notin Closed,
               Shows(files[f], index[k], acked[k]), index[k].file \in FileId
        PROVE  Get(k) = Expected(k)
    <3>1. ReadValue(index[k]) = Expected(k)
      BY <2>2, ReadOfEntry DEF Expected
    <3>2. index[k] # NoEntry
      BY <2>2, Bounds DEF NoEntry
    <3>3. index[k].del => Expected(k) = NoVal
      BY <2>2 DEF Shows, Expected, Live
    <3> QED
      BY <3>1, <3>2, <3>3 DEF Get
  <2>3. CASE Leads(files, index[k], acked[k]) /\ index[k].file \in Places
    <3> DEFINE f == index[k].file
    <3>1. /\ f \in FileId /\ dataFiles[f] # NoHandle /\ dataFiles[f].ino = f /\ f \notin Closed
      BY <1>1, <2>1, <2>3, PlacesAreOpen
    <3>2. Handle(f).ino = f /\ Shows(files[f], index[k], acked[k])
      BY <2>3, <3>1 DEF Handle, Leads
    <3> QED
      BY <2>2, <3>1, <3>2
  <2>4. CASE Astray(index[k], acked[k])
    <3>1. Handle(index[k].file).ino = fileId
      BY <1>1, <2>1, <2>4 DEF Astray, Handle, Handled
    <3>2. fileId \notin Closed
      BY <1>1, <2>1, PlacesAreOpen DEF Places
    <3> QED
      BY <2>2, <2>4, <3>1, <3>2 DEF Astray
  <2>5. CASE Denies(index[k], acked[k])
    BY <2>5 DEF Denies, Get, Expected, Live
  <2> QED
    BY <2>1, <2>3, <2>4, <2>5 DEF Indexed
<1>2. IInv => ReadsFindTheLastWrite
  BY <1>1 DEF ReadsFindTheLastWrite
<1> QED
  BY Invariance, <1>2, PTL

(* A get that the worker overtakes between its lookup, its choice of a       *)
(* handle and its read: while the file it looked up is open it reads the     *)
(* last acknowledged record of its key; when that file is gone and the read  *)
(* falls through to the new one, what it finds there is of another key or    *)
(* again that record.                                                       *)
THEOREM ReadsInFlightAreRight == Spec => []ReadsInFlightFindIt
<1>1. ASSUME IInv, client.pc = "read", acked[client.key] # Unknown, client.key \notin lost
      PROVE  /\ client.via # 0 /\ client.via \notin Closed /\ dataFiles[client.via] # NoHandle
                  => ReadSucceeds /\ Fetched = acked[client.key]
             /\ ReadSucceeds /\ Fetched.key = client.key => Fetched = acked[client.key]
  <2> DEFINE k == client.key
             e == client.entry
  <2>1. /\ Typed /\ Handled /\ WorkerHandles /\ isOpen
        /\ Attached(k, e) /\ Chosen(e)
    BY <1>1 DEF IInv, Reading, Getting, Sure, Handled, Idle
  <2>2. ASSUME client.via # 0, client.via \notin Closed, dataFiles[client.via] # NoHandle
        PROVE  ReadSucceeds /\ Fetched = acked[k]
    <3>1. Source = e.file /\ client.via = e.file
      BY <2>1, <2>2 DEF Chosen, Source
    <3>2. Leads(files, e, acked[k])
      BY <2>1, <2>2, <3>1 DEF Attached, Astray
    <3> QED
      BY <2>2, <3>1, <3>2 DEF Leads, Shows, ReadSucceeds, Fetched, Holds
  <2>3. ASSUME ReadSucceeds, Fetched.key = k PROVE Fetched = acked[k]
    <3>1. CASE client.via # 0
      <4>1. client.via \notin Closed /\ dataFiles[client.via] # NoHandle
        BY <2>3, <3>1 DEF ReadSucceeds, Holds, Source
      <4> QED
        BY <2>2, <3>1, <4>1
    <3>2. CASE client.via = 0
      <4>1. /\ Source = (IF Switching THEN worker.old ELSE fileId)
            /\ e.pos \in DOMAIN files[Source]
        BY <2>1, <2>3, <3>2 DEF Source, Handled, ReadSucceeds, Holds
      <4>2. CASE Leads(files, e, acked[k]) /\ e.file \in Places
        <5>1. client.via = e.file \/ dataFiles[e.file] = NoHandle
          BY <2>1 DEF Chosen
        <5>2. e.file \in FileId /\ dataFiles[e.file] # NoHandle
          BY <2>1, <4>2, PlacesAreOpen
        <5> QED
          BY <3>2, <5>1, <5>2, Bounds
      <4>3. CASE Leads(files, e, acked[k]) /\ Overtaken(k, e)
        <5>1. CASE Switching
          BY <4>1, <4>3, <5>1 DEF Overtaken, Leads, Shows, Fetched
        <5>2. CASE ~Switching
          BY <2>3, <4>1, <4>3, <5>2 DEF Overtaken, Only, Fetched
        <5> QED
          BY <5>1, <5>2
      <4>4. CASE Astray(e, acked[k])
        BY <4>1, <4>4 DEF Astray, Shows, Fetched
      <4> QED
        BY <2>1, <4>2, <4>3, <4>4 DEF Attached
    <3> QED
      BY <3>1, <3>2
  <2> QED
    BY <2>2, <2>3
<1>2. IInv => ReadsInFlightFindIt
  BY <1>1 DEF ReadsInFlightFindIt
<1> QED
  BY Invariance, <1>2, PTL

(* At every moment, between any two steps of the worker and in a barrel that *)
(* is closed, the last record of a live key is in a file that has a name.    *)
THEOREM NothingLiveIsRemoved == Spec => []LiveDataIsOnDisk
<1>1. ASSUME IInv, NEW k \in Key, Known(k), k \notin lost, Expected(k) # NoVal
      PROVE  OnDisk(acked[k])
  <2>1. Typed /\ Handled /\ WorkerHandles /\ Sure(k) /\ Claims(k) /\ acked[k].val # NoVal
    BY <1>1 DEF IInv, Sure, Known, Expected, Live
  <2>2. CASE isOpen
    <3>1. PICK f \in Places : Shows(files[f], index[k], acked[k])
      <4>1. CASE Leads(files, index[k], acked[k]) /\ index[k].file \in Places
        BY <4>1 DEF Leads
      <4>2. CASE Astray(index[k], acked[k])
        BY <4>2 DEF Astray, Places
      <4> QED
        BY <2>1, <2>2, <4>1, <4>2 DEF Claims, Indexed, Denies
    <3>2. f \in FileId /\ dir[f] = f
      BY <2>1, <2>2, <3>1, PlacesAreOpen
    <3> QED
      BY <3>1, <3>2, Bounds DEF OnDisk, Shows
  <2>3. CASE ~isOpen
    <3>1. Shows(files[fileId], Recovered(k), acked[k])
      BY <2>1, <2>3 DEF Claims, Exempt, Restorable, Denies
    <3>2. files[fileId] # <<>> /\ fileId \in FileId
      BY <2>1, <3>1 DEF Shows, Typed
    <3>3. dir[fileId] = fileId
      BY <2>1, <3>2 DEF Handled
    <3> QED
      BY <3>1, <3>2, <3>3, Bounds DEF OnDisk, Shows
  <2> QED
    BY <2>2, <2>3
<1>2. IInv => LiveDataIsOnDisk
  BY <1>1 DEF LiveDataIsOnDisk
<1> QED
  BY Invariance, <1>2, PTL

=============================================================================
