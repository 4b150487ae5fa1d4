----------------------------- MODULE Compaction -----------------------------
(***************************************************************************)
(* Non-blocking compaction of a barrel in hash or critbit mode: the worker  *)
(* thread copies live records from the old data file to a new one while one *)
(* application thread goes on reading, writing, closing and reopening.     *)
(*                                                                         *)
(* The two threads share the index (one lock per access), the table of open *)
(* data files and the compaction state; nothing protects a sequence of     *)
(* accesses, so each access is a step of its own.  A position is the        *)
(* ordinal of a record in its file and all records have the same size, so   *)
(* a stale position leads to some other whole record.                       *)
(***************************************************************************)
EXTENDS Naturals, Sequences, FiniteSets

CONSTANTS
  Key,
  Val,          \* non-empty values
  BigVal,       \* those that are stored compressed (256 bytes or more)
  NoVal,        \* the empty string: a tombstone, or "not found"
  Unknown,
  RemovalMayFail, \* removing the old file may raise OSError
  MaxFile,      \* bound on file ids: MaxFile - 1 compactions succeed in a row
  MaxWrites,    \* bound on the writes of the application
  MaxTtl,
  MaxClock,
  MaxFailures,  \* bound on the appends and hint files of the worker that fail
  MaxCrashes    \* bound on the deaths of the process

ASSUME ValAssumption == NoVal \notin Val /\ BigVal \subseteq Val
ASSUME BoundAssumption ==
  /\ MaxFile \in Nat \ {0}
  /\ MaxWrites \in Nat /\ MaxTtl \in Nat /\ MaxClock \in Nat
  /\ MaxFailures \in Nat /\ MaxCrashes \in Nat
  /\ RemovalMayFail \in BOOLEAN

FileId == 1 .. MaxFile
Ttls   == 0 .. MaxTtl
Record == [key : Key, val : Val \cup {NoVal}, exp : 0 .. MaxClock + MaxTtl]

NoEntry  == [file |-> 0, pos |-> 0, del |-> FALSE]
NoHandle == [ino |-> 0, size |-> 0]
NoHint   == [k \in Key |-> NoEntry]

VARIABLES
  files,       \* [FileId -> Seq(Record)], file contents by inode
  dir,         \* [FileId -> inode], directory entries by number, 0: no such file
  hint,        \* [FileId -> [Key -> entry]], the hint files
  index,       \* [Key -> entry], keyDir or critBit
  isOpen,
  fileId,      \* barrel.fileId; it also stands for barrel.path, NNNNNN.data
  dataFile,    \* barrel.dataFile, a value: a copy of the size, the same file
  dataFiles,   \* [FileId -> handle], barrel.dataFiles
  inProgress,  \* compactionState.inProgress
  worker,      \* locals of the compaction thread
  client,      \* locals of the application thread
  clock,
  writes, failures, crashes,   \* counted against the bounds
  acked,       \* what the last acknowledged write of a key said
  lost,        \* keys one of the steps named below has taken from the reads
  fragile,     \* keys one of those steps has taken from the next open
  since        \* keys written since the running compaction was triggered

disk     == <<files, dir, hint>>
handles  == <<dataFile, dataFiles>>
counters == <<writes, failures, crashes>>
ghosts   == <<acked, lost, fragile, since>>
vars     == <<disk, handles, index, isOpen, fileId, inProgress, worker, client,
              clock, counters, ghosts>>

-----------------------------------------------------------------------------
(* Files and reads.                                                         *)

IsExpired(exp) == exp # 0 /\ clock >= exp
Live(val, exp) == IF IsExpired(exp) THEN NoVal ELSE val

Handle(f) == IF dataFiles[f] # NoHandle THEN dataFiles[f] ELSE dataFile

(* Files whose FILE the worker has closed while handles to it are still in   *)
(* the table or in dataFile.  What is read through one of them is discarded: *)
(* the seek fails, and get answers "".                                      *)
Closed ==
  CASE worker.pc \in {"unlist", "assign"} -> {worker.old}
    [] worker.pc = "drop"                 -> {worker.new}
    [] OTHER                              -> {}

(* What is at position p of file f, as its reader sees it.                   *)
Holds(f, p) == f \notin Closed /\ p \in DOMAIN files[f]

(* readRecord at a position taken from the index.  A variant the runs must   *)
(* reject does not look at the expiration.                                  *)
ReadValueExpired(e) ==
  LET f == Handle(e.file).ino
  IN  IF Holds(f, e.pos) THEN files[f][e.pos].val ELSE NoVal

ReadValue(e) ==
  LET f == Handle(e.file).ino
  IN  IF Holds(f, e.pos) THEN Live(files[f][e.pos].val, files[f][e.pos].exp) ELSE NoVal

Get(k) == IF index[k] = NoEntry \/ index[k].del THEN NoVal ELSE ReadValue(index[k])

(* The last of the first n records of l that has key k, 0 when there is none.*)
Last(l, n, k) ==
  LET P == {p \in 1 .. n : l[p].key = k}
  IN  IF P = {} THEN 0 ELSE CHOOSE p \in P : \A q \in P : q <= p

EntryAt(l, f, p) ==
  IF p = 0 THEN NoEntry ELSE [file |-> f, pos |-> p, del |-> l[p].val = NoVal]

(* rebuildIndexFromDataFile: the entries of a hint file if it has any, under *)
(* the file id of its header; what was appended since is not looked at.     *)
Rebuild(f) ==
  LET l == files[dir[f]]
  IN  IF dir[f] = 0 \/ l = <<>> THEN NoHint
      ELSE IF hint[f] # NoHint THEN hint[f]
      ELSE [k \in Key |-> EntryAt(l, f, Last(l, Len(l), k))]

(* open() of a data file: an existing one keeps its contents.               *)
CreateIfMissing(f) ==
  /\ dir' = [dir EXCEPT ![f] = IF @ = 0 THEN f ELSE @]
  /\ files' = IF dir[f] = 0 THEN [files EXCEPT ![f] = <<>>] ELSE files
Opened(f) == [ino |-> dir'[f], size |-> Len(files'[dir'[f]])]

AppendTo(h, rec) == files' = [files EXCEPT ![h.ino] = Append(@, rec)]
Grown(h) == [h EXCEPT !.size = @ + 1]

-----------------------------------------------------------------------------
(* The application thread: set, delete, get, clear.                         *)

Idle == [pc |-> "idle"]
Free == isOpen /\ client = Idle

(* set and delete read the compaction flag for the file number of the entry  *)
(* ...                                                                      *)
StartWrite(k, v, ttl) ==
  /\ Free
  /\ writes < MaxWrites
  /\ writes' = writes + 1
  /\ client' = [pc |-> "route",
                rec |-> [key |-> k, val |-> v, exp |-> IF ttl = 0 THEN 0 ELSE clock + ttl],
                file |-> IF inProgress THEN worker.new ELSE fileId]
  /\ UNCHANGED <<disk, handles, index, isOpen, fileId, inProgress, worker, clock,
                 failures, crashes, ghosts>>

(* ... read it again for the handle: after a compaction that has ended in    *)
(* between the record goes to dataFile, under the number chosen before ...  *)
Route ==
  /\ client.pc = "route"
  /\ client' = [pc |-> "append", rec |-> client.rec, file |-> client.file,
                viaNew |-> inProgress]
  /\ UNCHANGED <<disk, handles, index, isOpen, fileId, inProgress, worker, clock,
                 counters, ghosts>>

(* ... append the record there.  The record lands at the end of the file, its *)
(* position is the size this handle believes in.  A missing table entry      *)
(* raises KeyError, and set answers false.  A handle that the worker has     *)
(* closed may raise, or take the record without writing it anywhere.         *)
WriteFails ==
  /\ client.viaNew
  /\ dataFiles[client.file] = NoHandle \/ client.file \in Closed
  /\ client' = Idle
  /\ UNCHANGED <<disk, handles>>

WriteLands ==
  LET h == IF client.viaNew THEN dataFiles[client.file] ELSE dataFile
  IN  /\ client.viaNew => dataFiles[client.file] # NoHandle
      /\ IF h.ino \in Closed THEN UNCHANGED files ELSE AppendTo(h, client.rec)
      /\ UNCHANGED <<dir, hint>>
      /\ IF client.viaNew
         THEN /\ dataFiles' = [dataFiles EXCEPT ![client.file] = Grown(h)]
              /\ UNCHANGED dataFile
         ELSE dataFile' = Grown(h) /\ UNCHANGED dataFiles
      /\ client' = [pc   |-> "index",
                    rec  |-> client.rec,
                    file |-> client.file,
                    pos  |-> Grown(h).size]

AppendWrite ==
  /\ client.pc = "append"
  /\ WriteFails \/ WriteLands
  /\ UNCHANGED <<index, isOpen, fileId, inProgress, worker, clock, counters, ghosts>>

(* ... and point the index at it.  The write is acknowledged.  It is lost at  *)
(* once when a read does not find the record by it: the size was stale, or   *)
(* a rollback has closed the file.  It is fragile in a file that has a hint,  *)
(* whose tail the next open does not scan, or when the worker has appended   *)
(* an older record of the key behind it.                                     *)
Misplaced(rec, e) ==
  LET f == Handle(e.file).ino IN ~(Holds(f, e.pos) /\ files[f][e.pos] = rec)

OutOfOrder(k, e) ==
  LET l == files[Handle(e.file).ino] IN Last(l, Len(l), k) # e.pos

IndexWrite ==
  LET k == client.rec.key
      e == [file |-> client.file, pos |-> client.pos, del |-> client.rec.val = NoVal]
  IN  /\ client.pc = "index"
      /\ index' = [index EXCEPT ![k] = e]
      /\ client' = Idle
      /\ acked' = [acked EXCEPT ![k] = client.rec]
      /\ lost' = IF Misplaced(client.rec, e) THEN lost \cup {k} ELSE lost \ {k}
      /\ fragile' = IF \/ hint[Handle(client.file).ino] # NoHint
                       \/ ~Misplaced(client.rec, e) /\ OutOfOrder(k, e)
                    THEN fragile \cup {k}
                    ELSE IF worker.pc = "idle" THEN fragile \ {k} ELSE fragile
      /\ since' = since \cup {k}
      /\ UNCHANGED <<disk, handles, isOpen, fileId, inProgress, worker, clock, counters>>

(* get looks the key up ...                                                 *)
StartGet(k) ==
  /\ Free
  /\ index[k] # NoEntry /\ ~index[k].del
  /\ client' = [pc |-> "find", key |-> k, entry |-> index[k]]
  /\ UNCHANGED <<disk, handles, index, isOpen, fileId, inProgress, worker, clock,
                 counters, ghosts>>

(* A variant the runs must reject: every get goes through dataFile, as the   *)
(* range reads of barrel.nim do.                                            *)
FindDataFile ==
  /\ client.pc = "find"
  /\ client' = [pc |-> "read", key |-> client.key, entry |-> client.entry, via |-> 0]
  /\ UNCHANGED <<disk, handles, index, isOpen, fileId, inProgress, worker, clock,
                 counters, ghosts>>

(* ... copies the handle of the entry's file, or takes dataFile (0) ...      *)
FindFile ==
  LET f == client.entry.file
  IN  /\ client.pc = "find"
      /\ client' = [pc |-> "read", key |-> client.key, entry |-> client.entry,
                    via |-> IF dataFiles[f] # NoHandle THEN f ELSE 0]
      /\ UNCHANGED <<disk, handles, index, isOpen, fileId, inProgress, worker, clock,
                     counters, ghosts>>

(* ... and reads: through dataFile as it is by now, through a copy only when  *)
(* the worker has not closed the file meanwhile.  Nobody compares the key of *)
(* the record that is found.                                                *)
Source == IF client.via = 0 THEN dataFile.ino ELSE client.via
ReadSucceeds ==
  /\ client.via = 0 \/ dataFiles[client.via] # NoHandle
  /\ Holds(Source, client.entry.pos)
Fetched == files[Source][client.entry.pos]

FinishGet ==
  /\ client.pc = "read"
  /\ client' = Idle
  /\ UNCHANGED <<disk, handles, index, isOpen, fileId, inProgress, worker, clock,
                 counters, ghosts>>

(* clear() empties the index only: until it is written again, a key is gone, *)
(* or back after the next compaction or the next open.                      *)
Clear ==
  /\ Free
  /\ index' = NoHint
  /\ acked' = [k \in Key |-> Unknown]
  /\ UNCHANGED <<disk, handles, isOpen, fileId, inProgress, worker, client, clock,
                 counters, lost, fragile, since>>

-----------------------------------------------------------------------------
(* The compaction thread.                                                   *)

Asleep == [pc |-> "idle", new |-> 0]

(* triggerCompact, called by the application thread.  The compaction marker  *)
(* is left out: no code that openBarrel runs reads it.  A new file left      *)
(* behind by a crash is continued: the keys of its records may reappear.  An *)
(* entry that Route has left under the number of the new file leads astray   *)
(* from here on, and the worker takes its key for one written since.         *)
TriggerCompact ==
  /\ Free
  /\ ~inProgress
  /\ fileId < MaxFile
  /\ CreateIfMissing(fileId + 1)
  /\ dataFiles' = [dataFiles EXCEPT ![fileId + 1] = Opened(fileId + 1)]
  /\ inProgress' = TRUE
  /\ worker' = [pc |-> "scan", old |-> fileId, new |-> fileId + 1]
  /\ since' = {}
  /\ LET l == files'[dir'[fileId + 1]]
     IN  lost' = lost \cup {k \in Key : Last(l, Len(l), k) # 0}
                      \cup {k \in Key : index[k].file = fileId + 1}
  /\ UNCHANGED <<hint, dataFile, index, isOpen, fileId, client, clock, counters, acked,
                 fragile>>

(* Pass 1: the last record of every key.  readRecordAt takes a compressed    *)
(* record for one that is shorter by the four bytes of the original length, *)
(* its checksum differs, and the scan ends there.  Tombstones and expired   *)
(* records are dropped; the index entries that lead to them stay.  A key is  *)
(* lost when the scan does not end at the record its entry leads to, since   *)
(* positions are never compared, or when it has expired: its entry dangles.  *)
Stop(l) ==
  LET B == {p \in DOMAIN l : l[p].val \in BigVal}
  IN  IF B = {} THEN Len(l) ELSE (CHOOSE p \in B : \A q \in B : p <= q) - 1

Scan ==
  LET l      == files[dir[worker.old]]
      latest == [k \in Key |-> Last(l, Stop(l), k)]
      dead(k) == Live(l[latest[k]].val, l[latest[k]].exp) = NoVal
  IN  /\ worker.pc = "scan"
      /\ worker' = [pc |-> "pick", old |-> worker.old, new |-> worker.new,
                    latest |-> latest,
                    todo |-> {k \in Key : latest[k] # 0 /\ ~dead(k)}]
      /\ lost' = lost
           \cup {k \in Key : index[k].file = worker.old /\ index[k].pos # latest[k]}
           \cup {k \in Key : latest[k] # 0 /\ dead(k) /\ l[latest[k]].val # NoVal}
      /\ UNCHANGED <<disk, handles, index, isOpen, fileId, inProgress, client, clock,
                     counters, acked, fragile, since>>

(* A variant the runs must reject: shadowed records are copied too.          *)
PickShadowed(k) ==
  /\ worker.pc = "pick"
  /\ k \in worker.todo
  /\ worker' = [pc |-> "copy", old |-> worker.old, new |-> worker.new,
                latest |-> worker.latest, todo |-> worker.todo \ {k},
                key |-> k, saw |-> index[k]]
  /\ UNCHANGED <<disk, handles, index, isOpen, fileId, inProgress, client, clock,
                 counters, ghosts>>

(* Pass 2, for one key: skip it when the index leads to another file ...     *)
Pick(k) ==
  /\ worker.pc = "pick"
  /\ k \in worker.todo
  /\ worker' = IF index[k] # NoEntry /\ index[k].file # worker.old
               THEN [worker EXCEPT !.todo = @ \ {k}]
               ELSE [pc |-> "copy", old |-> worker.old, new |-> worker.new,
                     latest |-> worker.latest, todo |-> worker.todo \ {k},
                     key |-> k, saw |-> index[k]]
  /\ UNCHANGED <<disk, handles, index, isOpen, fileId, inProgress, client, clock,
                 counters, ghosts>>

(* ... append its record to the new file; the index order and the file order *)
(* of a write that has been appended but not indexed differ from here on ... *)
Copy ==
  LET h   == dataFiles[worker.new]
      rec == files[dir[worker.old]][worker.latest[worker.key]]
  IN  /\ worker.pc = "copy"
      /\ AppendTo(h, rec)
      /\ dataFiles' = [dataFiles EXCEPT ![worker.new] = Grown(h)]
      /\ worker' = [pc |-> "reindex", old |-> worker.old, new |-> worker.new,
                    latest |-> worker.latest, todo |-> worker.todo,
                    key |-> worker.key, saw |-> worker.saw, pos |-> Grown(h).size]
      /\ fragile' = IF \/ client.pc = "index" /\ client.rec.key = worker.key
                       \/ index[worker.key] # worker.saw
                    THEN fragile \cup {worker.key} ELSE fragile
      /\ UNCHANGED <<dir, hint, dataFile, index, isOpen, fileId, inProgress, client,
                     clock, counters, acked, lost, since>>

(* ... and point the index at the copy, whatever the index says by now.      *)
Reindex ==
  LET k == worker.key
  IN  /\ worker.pc = "reindex"
      /\ index' = [index EXCEPT ![k] = [file |-> worker.new, pos |-> worker.pos,
                                        del |-> FALSE]]
      /\ worker' = [pc |-> "pick", old |-> worker.old, new |-> worker.new,
                    latest |-> worker.latest, todo |-> worker.todo]
      /\ lost' = IF index[k] # worker.saw THEN lost \cup {k} ELSE lost
      /\ UNCHANGED <<disk, handles, isOpen, fileId, inProgress, client, clock,
                     counters, acked, fragile, since>>

(* A variant the runs must reject: some keys have not been copied yet.       *)
SwitchEarly ==
  /\ worker.pc = "pick"
  /\ fileId' = worker.new
  /\ worker' = [pc |-> "close", old |-> worker.old, new |-> worker.new]
  /\ UNCHANGED <<disk, handles, index, isOpen, inProgress, client, clock, counters,
                 ghosts>>

(* The worker makes the new file the barrel's: first its number and path ... *)
Switch ==
  /\ worker.pc = "pick"
  /\ worker.todo = {}
  /\ fileId' = worker.new
  /\ worker' = [pc |-> "close", old |-> worker.old, new |-> worker.new]
  /\ UNCHANGED <<disk, handles, index, isOpen, inProgress, client, clock, counters,
                 ghosts>>

(* ... then it closes the old file, dataFile being a handle to it too ...    *)
CloseOld ==
  /\ worker.pc = "close"
  /\ worker' = [worker EXCEPT !.pc = "unlist"]
  /\ UNCHANGED <<disk, handles, index, isOpen, fileId, inProgress, client, clock,
                 counters, ghosts>>

(* ... takes it from the table ...                                          *)
UnlistOld ==
  /\ worker.pc = "unlist"
  /\ dataFiles' = [dataFiles EXCEPT ![worker.old] = NoHandle]
  /\ worker' = [worker EXCEPT !.pc = "assign"]
  /\ UNCHANGED <<disk, dataFile, index, isOpen, fileId, inProgress, client, clock,
                 counters, ghosts>>

(* ... and copies the new handle to dataFile, which writes use when no       *)
(* compaction runs.                                                         *)
AssignDataFile ==
  /\ worker.pc = "assign"
  /\ dataFile' = dataFiles[worker.new]
  /\ worker' = [worker EXCEPT !.pc = "remove"]
  /\ UNCHANGED <<disk, dataFiles, index, isOpen, fileId, inProgress, client, clock,
                 counters, ghosts>>

RemoveOld ==
  /\ worker.pc = "remove"
  /\ dir' = [dir EXCEPT ![worker.old] = 0]
  /\ worker' = [pc |-> "hint", new |-> worker.new]
  /\ UNCHANGED <<files, hint, handles, index, isOpen, fileId, inProgress, client,
                 clock, counters, ghosts>>

(* removeFile raises, for the old file or in a rollback: the except clause    *)
(* around the whole thread swallows it, and nobody resets the flag.          *)
RemovalFails ==
  /\ worker.pc \in {"remove", "erase"}
  /\ RemovalMayFail
  /\ worker' = [pc |-> "dead", new |-> worker.new]
  /\ UNCHANGED <<disk, handles, index, isOpen, fileId, inProgress, client, clock,
                 counters, ghosts>>

(* generateHintFileForBarrel: the positions of all entries, under one file   *)
(* id; when it cannot be written there is no hint file.  The entries are    *)
(* collected before the file is renamed into place; a write in between is   *)
(* one that came after the hint.                                            *)
WriteHint ==
  /\ worker.pc = "hint"
  /\ \/ /\ hint' = [hint EXCEPT ![fileId] =
             [k \in Key |-> IF index[k] = NoEntry THEN NoEntry
                            ELSE [index[k] EXCEPT !.file = fileId]]]
        /\ fragile' = IF index = NoHint THEN fragile ELSE {}
        /\ UNCHANGED failures
     \/ /\ failures < MaxFailures
        /\ failures' = failures + 1
        /\ UNCHANGED <<hint, fragile>>
  /\ worker' = [pc |-> "finish", new |-> worker.new]
  /\ UNCHANGED <<files, dir, handles, index, isOpen, fileId, inProgress, client,
                 clock, writes, crashes, acked, lost, since>>

(* The flag is the last thing the worker touches.                           *)
Finish ==
  /\ worker.pc = "finish"
  /\ inProgress' = FALSE
  /\ worker' = Asleep
  /\ UNCHANGED <<disk, handles, index, isOpen, fileId, client, clock, counters, ghosts>>

(* An append fails (the disk is full): the new file is closed, with every    *)
(* write it has taken ...                                                   *)
Rollback ==
  /\ worker.pc = "copy"
  /\ failures < MaxFailures
  /\ failures' = failures + 1
  /\ worker' = [pc |-> "drop", new |-> worker.new]
  /\ lost' = lost \cup {k \in Key : index[k].file = worker.new}
  /\ UNCHANGED <<disk, handles, index, isOpen, fileId, inProgress, client, clock,
                 writes, crashes, acked, fragile, since>>

(* ... taken from the table (a variant the runs must reject takes the old    *)
(* one, which the barrel goes on using) ...                                 *)
DropOld ==
  /\ worker.pc = "drop"
  /\ dataFiles' = [dataFiles EXCEPT ![fileId] = NoHandle]
  /\ worker' = [worker EXCEPT !.pc = "erase"]
  /\ UNCHANGED <<disk, dataFile, index, isOpen, fileId, inProgress, client, clock,
                 counters, ghosts>>

DropNew ==
  /\ worker.pc = "drop"
  /\ dataFiles' = [dataFiles EXCEPT ![worker.new] = NoHandle]
  /\ worker' = [worker EXCEPT !.pc = "erase"]
  /\ UNCHANGED <<disk, dataFile, index, isOpen, fileId, inProgress, client, clock,
                 counters, ghosts>>

(* ... and removed.  A variant the runs must reject forgets the flag.        *)
EraseKeepsFlag ==
  /\ worker.pc = "erase"
  /\ dir' = [dir EXCEPT ![worker.new] = 0]
  /\ worker' = [pc |-> "dead", new |-> worker.new]
  /\ UNCHANGED <<files, hint, handles, index, isOpen, fileId, inProgress, client,
                 clock, counters, ghosts>>

EraseNew ==
  /\ worker.pc = "erase"
  /\ dir' = [dir EXCEPT ![worker.new] = 0]
  /\ worker' = [pc |-> "finish", new |-> worker.new]
  /\ UNCHANGED <<files, hint, handles, index, isOpen, fileId, inProgress, client,
                 clock, counters, ghosts>>

-----------------------------------------------------------------------------
(* Life cycle.                                                              *)

(* close() waits until no compaction runs.                                  *)
Shut ==
  /\ isOpen' = FALSE
  /\ index' = NoHint
  /\ dataFile' = NoHandle
  /\ dataFiles' = [f \in FileId |-> NoHandle]
  /\ inProgress' = FALSE
  /\ worker' = Asleep
  /\ client' = Idle
  /\ UNCHANGED <<disk, fileId, clock, writes, failures>>

Close ==
  /\ Free
  /\ ~inProgress
  /\ Shut
  /\ lost' = lost \cup fragile
  /\ UNCHANGED <<crashes, acked, fragile, since>>

(* The process dies.  The barrel is opened again at the path it had, so what *)
(* a compaction that had not switched files took into the new one is lost.   *)
Crash ==
  /\ isOpen
  /\ crashes < MaxCrashes
  /\ crashes' = crashes + 1
  /\ Shut
  /\ acked' = IF client.pc = "index"
              THEN [acked EXCEPT ![client.rec.key] = Unknown] ELSE acked
  /\ lost' = lost \cup fragile
        \cup (IF worker.pc \in {"scan", "pick", "copy", "reindex"} THEN since ELSE {})
  /\ UNCHANGED <<fragile, since>>

(* openBarrel.  The caller passes the number of the path as the file id.     *)
Open ==
  /\ ~isOpen
  /\ isOpen' = TRUE
  /\ CreateIfMissing(fileId)
  /\ dataFile' = Opened(fileId)
  /\ dataFiles' = [dataFiles EXCEPT ![fileId] = Opened(fileId)]
  /\ index' = Rebuild(fileId)
  /\ UNCHANGED <<fileId, hint, inProgress, worker, client, clock, counters, ghosts>>

Tick ==
  /\ clock < MaxClock
  /\ clock' = clock + 1
  /\ UNCHANGED <<disk, handles, index, isOpen, fileId, inProgress, worker, client,
                 counters, ghosts>>

Never == [k \in Key |-> [key |-> k, val |-> NoVal, exp |-> 0]]

Init ==
  /\ files = [f \in FileId |-> <<>>]
  /\ dir = [f \in FileId |-> 0]
  /\ hint = [f \in FileId |-> NoHint]
  /\ index = NoHint
  /\ isOpen = FALSE
  /\ fileId = 1
  /\ dataFile = NoHandle
  /\ dataFiles = [f \in FileId |-> NoHandle]
  /\ inProgress = FALSE
  /\ worker = Asleep
  /\ client = Idle
  /\ clock = 0
  /\ writes = 0 /\ failures = 0 /\ crashes = 0
  /\ acked = Never
  /\ lost = {} /\ fragile = {} /\ since = {}

Worker ==
  \/ Scan \/ (\E k \in Key : Pick(k)) \/ Copy \/ Reindex
  \/ Switch \/ CloseOld \/ UnlistOld \/ AssignDataFile \/ RemoveOld
  \/ Rollback \/ DropNew \/ EraseNew
  \/ RemovalFails \/ WriteHint \/ Finish

Application ==
  \/ \E k \in Key, v \in Val, ttl \in Ttls : StartWrite(k, v, ttl)
  \/ \E k \in Key : StartWrite(k, NoVal, 0)
  \/ Route
  \/ AppendWrite
  \/ IndexWrite
  \/ \E k \in Key : StartGet(k)
  \/ FindFile
  \/ FinishGet
  \/ Clear
  \/ TriggerCompact
  \/ Close
  \/ Open

Next == Worker \/ Application \/ Crash \/ Tick

(* The operating system schedules the compaction thread; nothing makes the   *)
(* application call anything.                                               *)
Spec == Init /\ [][Next]_vars /\ WF_vars(Worker)

-----------------------------------------------------------------------------
(* Properties.                                                              *)

(* What a read of k should find: the last write the application was told    *)
(* had succeeded.                                                           *)
Expected(k) == Live(acked[k].val, acked[k].exp)
Known(k) ==
  /\ acked[k] # Unknown
  /\ client.pc = "index" => client.rec.key # k

TypeOK ==
  /\ files \in [FileId -> Seq(Record)]
  /\ dir \in [FileId -> 0 .. MaxFile]
  /\ \A k \in Key : /\ index[k].file \in 0 .. MaxFile /\ index[k].del \in BOOLEAN
                     /\ index[k].pos \in Nat
  /\ isOpen \in BOOLEAN /\ inProgress \in BOOLEAN
  /\ fileId \in FileId
  /\ \A f \in FileId : dataFiles[f].ino \in 0 .. MaxFile
  /\ lost \subseteq Key /\ fragile \subseteq Key /\ since \subseteq Key
  /\ client.pc \in {"idle", "route", "append", "index", "find", "read"}
  /\ worker.pc \in {"idle", "scan", "pick", "copy", "reindex", "close", "unlist",
                    "assign", "remove", "drop", "erase", "hint", "finish", "dead"}
  /\ inProgress <=> worker.pc # "idle"
  /\ isOpen => dataFile # NoHandle /\ dataFiles[fileId] # NoHandle

(* Compactions, crashes, rollbacks and reopens in any order never change     *)
(* what the application reads of a key, unless one of the named steps has    *)
(* taken that key: an entry written over a newer one (Reindex), a position   *)
(* from a stale size or in a file that a rollback has closed (IndexWrite),   *)
(* the part of the file after a compressed record and expired records        *)
(* (Scan), a rollback (Rollback), a new file that exists, or whose number an *)
(* entry already has (TriggerCompact), the tail of a hinted file or the new  *)
(* file of a compaction that did not end (Close, Crash).                     *)
ReadsFindTheLastWrite ==
  isOpen => \A k \in Key : Known(k) /\ k \notin lost => Get(k) = Expected(k)

(* A get may be overtaken by the worker between its lookup, its choice of a  *)
(* handle and its read.  As long as the file it looked up is open it reads   *)
(* the last write of its key; when the file is gone and the read goes to     *)
(* another one, a record of its key that it meets there is still the last    *)
(* write, never one that was overwritten.                                   *)
ReadsInFlightFindIt ==
  client.pc = "read" /\ acked[client.key] # Unknown /\ client.key \notin lost =>
    /\ client.via # 0 /\ client.via \notin Closed /\ dataFiles[client.via] # NoHandle
         => ReadSucceeds /\ Fetched = acked[client.key]
    /\ ReadSucceeds /\ Fetched.key = client.key => Fetched = acked[client.key]

(* "All operations are thread-safe": a get returns a value of its own key,   *)
(* whatever the worker does meanwhile.  barrel.nim:509-520 does not keep     *)
(* this: when the worker has taken the old file from the table, the position *)
(* in the old file is read in the new one.                                  *)
GetsReadTheirKey ==
  client.pc = "read" /\ ReadSucceeds /\ client.key \notin lost => Fetched.key = client.key

(* At no moment, a crash at any step included, does the last record of a     *)
(* live key exist only in a file that has been removed.                     *)
OnDisk(rec) ==
  \E f \in FileId : dir[f] # 0 /\ \E p \in DOMAIN files[dir[f]] : files[dir[f]][p] = rec
LiveDataIsOnDisk ==
  \A k \in Key : Known(k) /\ k \notin lost /\ Expected(k) # NoVal => OnDisk(acked[k])

(* A compaction ends, so close() and waitForCompaction() return.             *)
CompactionEnds == inProgress ~> ~inProgress

=============================================================================
