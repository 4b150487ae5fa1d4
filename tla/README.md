# TLA+ models of BitBarrel

BitBarrel is a key-value store in the style of Bitcask: append-only data files, an
in-memory index that points into them, background compaction, and a WebSocket server with
publish/subscribe on top, which applications reach through client libraries, one of them in C.
This directory models its control: which state each operation
reads and writes, in which order, and what other threads, a crash, a lost message or a failed
call can do in between. Every definition is translated from the source: the store and the server
are the Nim code under `src/src/`, the C client is `src/clients/c/src/`; `PROJECT.json` maps each
definition to its lines.

Contents: [the system](#the-system), [the modules](#the-modules),
[the runs](#the-runs), [what is proved](#what-is-proved),
[what is abstracted](#what-is-abstracted-and-what-is-not-modelled),
[divergences found](#divergences-found), [the plan](#the-plan).

## The system

| component | state it keeps | operations | meets | properties that make it correct |
|---|---|---|---|---|
| Barrel `bitbarrel/barrel.nim` | path, file id, data-file handles, index, compaction state | get, exists, set (NX, XX), delete, setTtl, compareAndSwap, clear, open, close, range reads | data file, index, compaction, hooks | an index entry leads to a record of its key; a restart finds what was acknowledged; what is deleted or expired stays so |
| Data file `storage/datafile.nim` | FILE position, size, read-write lock | appendRecord, readRecord, readRecordAt, open, close | barrel, compaction | a position returned by an append is where the record is |
| Indexes `storage/keydir.nim`, `critbit` | key to (file, position, size) | add, get, remove, scan, each under its lock | barrel, compaction | the newest record of a key wins |
| Rebuild at open `barrel.nim:99-252` | none | scan of the data file, or hint file | barrel | the rebuilt index equals the one that was lost |
| Compaction `barrel.nim:1617-1760`, `compact.nim:510-600` | inProgress, old and new file | triggerCompact, worker thread, rollback | barrel, index, files, hint file | invisible to readers and writers; no live record only in a removed file; it ends |
| Blocking compaction `compact.nim:150-300` | marker file | compact, recover | barrel | the same, with the barrel stopped |
| Hint file `storage/hintfile.nim` | snapshot of the index | generate, load | compaction, rebuild | never older than the file it describes |
| Recovery engine `storage/recovery.nim` | none | scan, report | (called by nobody) | agrees with the barrel's own scan |
| Record codec `storage/record.nim` | none | encode, decode, timestamps of 31 bits | data file | what is encoded is decoded |
| Buffers `writebuffer.nim`, `readbuffer.nim` | statistics | | barrel | |
| HugeBarrel `storage/hugebarrel.nim`, `rangekeydir.nim` | list of ranges, one index per range, LRU cache of them, data files, split marker | set (with new ranges and splits), get, delete, flush, close, open with two recoveries, compactFile | a barrel for its metadata, data files | a key is found through any splits, evictions and reopens; a death between two writes costs no saved key |
| Unused range indexes `rangeindex.nim`, `rangecache.nim`, `rangehint.nim`, `orderedrange.nim` | | | (used by nobody) | an earlier design |
| Registry `network/session.nim` | open barrels, one lock | getBarrel, createBarrel, closeBarrel, dropBarrel | server, barrels | a barrel that is used is open |
| Server `network/server.nim` | sessions, WebSockets, watches, one lock | one command per binary message | registry, pub/sub, hooks | an answer tells what happened; lock orders do not cross |
| Pub/sub `pubsub/manager.nim`, `eventbroker.nim` | topics, patterns, subscriptions, clients, four locks | subscribe, unsubscribe, publish, connection close | server, history, presence, change hooks | tables agree; who is subscribed is served; who left is not |
| Presence `pubsub/presence.nim` | members per topic, heartbeats | join, leave, ping, sweep | event broker | a silent member leaves, a live one stays |
| History `pubsub/history_v2.nim`, `shared_barrel_backend.nim` | ring, pending batch, sequence counters | add, flush, query, recover | publish, a barrel | a stored message keeps its number, once |
| C client, requests `bitbarrel.c` | connection, `request_lock`, `current_barrel`, next sequence number | connect, disconnect, barrel calls, key-value calls, batches | transport, server, callbacks | a call takes its own answer, returns, and reports success only when the server did the work |
| C client, events `pubsub.c` | callback, queue of messages | subscribe, watch and their kin, history, presence, process, wait, poll | the same | events are handed over once and in order; an event is no answer |
| C client, ranges `range.c` | none | items in a range, with a prefix | the same | what the server wrote is what the caller gets |
| C client, codec `protocol.c` | none | requests, answers, handshake, events | the readers and writers of `network/protocol.nim` | the two sides agree; what is torn is refused |
| C client, transport `websocket.c` with libwebsockets | two receive slots, connected flag | connect, send, receive, disconnect, and the callback of the library | libwebsockets, the calls above | nothing is received twice or out of order; a waiting caller is not deaf |
| C client, transport without libwebsockets (rest of `websocket.c`) | socket | the same | | frames are parsed in step |
| References, query hooks, authentication, configuration, metrics, command line, clients in other languages | | | | parsing, codecs, reporting |

What is hard:

* **Threads.** The compaction thread shares the index and the table of handles with the
  application; each access is locked or atomic, no sequence of accesses is. The server
  handles events of different connections on different threads; pub/sub has one lock per
  table and takes them one after the other.
* **Crashes.** A torn append, a compaction or a split of a range cut off between any two steps, a
  hint file that outlives the state it describes, entries that were only in memory.
* **Failures of one step.** A full disk during a copy, an old file that cannot be removed, an
  assertion that fails in a handler.
* **Long histories.** Tombstones, TTLs, clear, restarts and compactions in any order.
* **Answers without a name.** The C client compares no sequence number, so everything rests on each
  call taking exactly one message: over events that come between, time-outs whose answers come
  late, threads that share the connection, and what an old connection left in the buffers.

`PROJECT.json` lists such hazards, each at its line with the properties that watch it, or with
the reason why none does.

## The modules

| module | models | composed of |
|---|---|---|
| `KVStore` | what one barrel promises: what a read finds now (`visible`), what the next open finds (`durable`), and whether an append was cut short (`intact`) | |
| `Barrel` | one barrel, one thread: log, index, rebuild, restart | `KVStore` through `INSTANCE ... WITH` |
| `Barrel_proofs` | theorems about `Barrel` | `Barrel`, `TLAPS` |
| `Compaction` | one application thread and the compaction thread, step by step, over the same files | |
| `Compaction_proofs` | theorems about `Compaction` | `Compaction`, `TLAPS` |
| `HugeBarrel` | the two-tier store: ranges, their indexes, the cache, splits, and what an open repairs | |
| `HugeBarrel_proofs` | theorems about `HugeBarrel`: its types, where entries lead, and what is read, after a close too | `HugeBarrel`, `TLAPS` |
| `HugeBarrelCrash_proofs` | theorems about `HugeBarrel`: what barrel1 keeps at every write, and what a recovery finds | `HugeBarrel_proofs` |
| `PubSub` | connections, subscription tables, publishing and delivery, lock by lock | |
| `MCPubSub` | topics, patterns and inputs for TLC | `PubSub` |
| `PubSub_proofs` | theorems about `PubSub` | `PubSub`, `TLAPS` |
| `LossyChannel` | what a caller of the WebSocket layer may rely on, without its buffers | |
| `WebSocketLws` | the libwebsockets transport of the C client | `LossyChannel` through `INSTANCE` |
| `WebSocketLws_proofs` | theorems about `WebSocketLws` | `WebSocketLws`, `TLAPS` |
| `CClient` | threads of an application on one C client, the server at the other end, and the messages between | takes `LossyChannel` for its transport |
| `MCCClient` | operations of each thread for TLC | `CClient` |
| `CClient_proofs` | theorems about `CClient`: the lock, whose answer a call takes, success, the barrel in use, the order of events | `CClient`, `TLAPS` |
| `ClientCodec` | every message between the C client and the server, byte by byte, whole and torn | |
| `MCClientCodec` | strings and numbers for TLC | `ClientCodec` |
| `ClientCodec_proofs` | theorems about `ClientCodec`: what is written is read, what is torn is refused | `ClientCodec`, `TLAPS` |

### Barrel

| TLA+ | code |
|---|---|
| `log` | the items of the data file behind its header; a position is an ordinal, not an offset |
| `index` | `keyDir` / `critBit`: key to position, 0 for "not there" |
| `isOpen`, `clock` | the open flag; `getTime()` in seconds |
| `Set`, `SetIfNotExists`, `SetIfExists`, `Delete`, `SetTtl` | the calls of the same name: `appendRecord`, then `indexAdd` |
| `Clear` | empties the index, and only the index (`barrel.nim:871-880`) |
| `CrashInAppend` | the process dies inside `appendRecord`; the front part of the record stays as `Torn` |
| `Close`, `Open`, `Rebuild` | `close`, `openBarrel`, `rebuildIndexFromDataFile` without a hint file |

A tombstone is a record with an empty value and, as in the code, it stays in the index after a
rebuild. `Scannable` defines where the scan ends: at the first torn item, because behind a
checksum that differs the scan goes one byte on and breaks at a key length over the limit.

### Compaction

| TLA+ | code |
|---|---|
| `files`, `dir`, `hint` | file contents by inode, directory entries, hint files |
| `dataFile`, `dataFiles` | two places for the handle of the active file: `barrel.dataFile` is a *copy*, with a size of its own, of the one in the table |
| `index`, `fileId`, `inProgress` | the index, `barrel.fileId`, `compactionState.inProgress` |
| `worker` | program counter and locals of `compactWorkerThread` and `performCompactNonBlocking`: `scan`, `pick`, `copy`, `reindex`, `remove`, `hint`, `finish` |
| `client` | the application thread inside `set`, `delete` or `get` |
| `StartWrite`, `Route`, `AppendWrite`, `IndexWrite` | `set` and `delete`: read the flag for the number of the file, read it again for the handle, append, index |
| `StartGet`, `FindFile`, `FinishGet` | `get`: index lookup, the file of the entry in the table, then the read |
| `TriggerCompact`, `Scan`, `Pick`, `Copy`, `Reindex` | the trigger, and the two passes over the old file |
| `Switch`, `CloseOld`, `UnlistOld`, `AssignDataFile`, `RemoveOld`, `WriteHint`, `Finish` | the end of a compaction: number and path, closing the old file, its table entry, `barrel.dataFile`, the old file's name, the hint file, the flag |
| `Rollback`, `DropNew`, `EraseNew`, `RemovalFails` | a failed append: closing the new file, its table entry, its name; a name that cannot be removed |
| `Closed` | a file the worker has closed while handles to it are still in use |
| `acked`, `lost`, `fragile`, `since` | ghosts: what was acknowledged, and which keys have met one of the steps named below |

One action is one access to something both threads use. What a thread does with a handle whose file
the other has closed is undefined in C; the model has the outcomes: a read finds nothing, an append
fails or is taken and not written anywhere.

The code loses updates in known ways, so "reads find the last write" holds only for keys that
have met none of them. Each is charged at the step where it happens and nowhere else:

* `Reindex` over an entry that is newer than the one the worker saw;
* `IndexWrite` of a position that does not lead to the record: the size of the handle was stale, or a
  rollback has closed the file;
* `Scan` past a compressed or expired record;
* `Rollback` of a file that took writes;
* a reopen that takes a hint file or the old file (`Close`, `Crash`);
* `TriggerCompact`, when the new file is there already, left behind by a crash, or when an entry already has
  its number: `set` reads the flag twice, and after a rollback that ended in between (`Route`) the
  record is in the old file and its entry says the new one. Until the next trigger reads find it all the same,
  since the table has no such file and `get` falls back to `dataFile`; from there on the worker takes the key
  for one written since and removes the old file with its only record.

Every other interleaving, failure and crash must keep every key, and that
is what the passing runs check.

A barrel's path is taken to be `NNNNNN.data`, the form `triggerCompact` replaces the number in;
`fileId` stands for it. See [divergences](#divergences-found) for other paths.

### HugeBarrel

| TLA+ | code |
|---|---|
| `disk.rkds`, `disk.meta`, `disk.split` | the entries of barrel1: the serialized `RangeKeyDir` of each range, the list of ranges, the split marker |
| `disk.files` | the data files of barrel2 |
| `mem` | the `HugeBarrel` object: `ranges`, the cache (table and LRU list as one sequence), the counter of file and range numbers, the file that new ranges are assigned to |
| `NewRkd`, `Inserted`, `Flushed`, `Serialized`, `Deserialized` | `rangekeydir.nim`: a sorted array, the pending inserts, and the blob; the blob of a range without pending inserts loses the assigned file, as `serialize` does |
| `FindRange`, `WithRange` | `findRangeForKey`, the binary search, and the sorted insertion into `ranges` |
| `Load`, `CachePut`, `Evicted`, `SaveRangeKeyDir` | the cache in front of barrel1 |
| `SetOp`, `NewRange`, `SplitRangeAtomic`, `GetOp`, `DeleteOp`, `FlushOp`, `CloseOp` | the calls of the same name |
| `Reopened`, `RecoverPendingSplit`, `RebuildRanges` | `openHugeBarrel` on barrel1 |
| `Scanned`, `ScanStep`, `RecoveryMap`, `RecoverRange`, `RebuildFromBarrel2` | the recovery of entries from the records of barrel2 |
| `want`, `sound` | ghosts: the record a key should have; whether ranges never overlapped and no range took the name of another |

A call is one step, as if one thread at a time worked on a HugeBarrel. That is an assumption which the code
does not see to: `server.nim:506-573` calls the wrapper from several worker threads without a lock.
What can come between the parts of a call is here the death of the process: an operation is a function from a work area (memory, disk, the disks
it went through) to a work area, and a step (`Finish`) either takes the end of it or dies on one of
those disks. The counter starts at 2 at every open, so a range can get the name of a live one, and
a key in a gap between two ranges gets a range that overlaps the next: both are in the model.
After them `sound` is FALSE and reads are promised nothing, but entries must still point at records
of their key.

### PubSub

| TLA+ | code |
|---|---|
| `topics`, `sequence`, `subscribers` | `manager.topics` and, of each topic, `sequence` and `subscribers` |
| `patternSubs`, `subs`, `clientSubs` | the three other tables of `PubSubManager` |
| `lock` | who holds `topicsLock` and `subsLock` |
| `clients`, `webSockets` | `broker.clients`, `server.webSockets` |
| `conn` | what the handler of each connection is doing |
| `Subscribe` ... `Record` | `subscribe`: limit, pattern or topic, record, each in its critical section |
| `Unsubscribe`, `RemoveFromPattern`, `FindSubscriber`, `RemoveSubscriber`, `EndRemove` | `unsubscribe`, by id, by name or everything, under `subsLock` to its end |
| `CloseEvent`, `UnsubscribeAll`, `RemoveClient` | the end of a connection, in this order |
| `Publish`, `KvChange`, `Number`, `ExactIds`, `ExactSubs`, `PatternIds`, `PatternSubs`, `Stamp`, `Send`, `EndPublish` | `publish` and the key-value change hook, which has no numbering |
| `raced`, `audit` | ghosts: subscriptions hit by a lost update; what the running publish owes, has sent and must not send |

The subscriber set of a topic is changed by `subscribe` under `topicsLock` and by
`unsubscribe` under `subsLock`. Nothing orders these two, so each is a read and a write in the
model and the later write wins.

### WebSocketLws

| TLA+ | code |
|---|---|
| `recv`, `queue` | `recv_buffer`, `recv_len`, `recv_complete` and `queue_buffer`, `queue_len`, `queue_complete`: two slots; the bytes of a slot are the set of the pieces it has |
| `connected`, `wsi` | `ws->connected`, what the client believes; the connection libwebsockets works on |
| `Established`, `ReceivePiece`, `Closed` | the cases of `ws_event_callback`; they run only inside `lws_service`, that is in the loops of `ws_connect` and `ws_recv_binary` (`pc # "idle"`) |
| `Connect`, `ConnectReturns`, `ConnectTimesOut` | `ws_connect`: the slots stay as they are |
| `RecvAtOnce`, `RecvBegins`, `RecvReturns`, `RecvFails` | the parts of `ws_recv_binary`: a message that waits, the emptied slots and the loop, its two ways out |
| `HandOver` | the caller is given the first slot; the second moves up if its message is complete |
| `Disconnect`, `SendFails` | `ws_disconnect`, `ws_send_binary`: only the flag changes |
| `Send` | the server sends a message of one or more pieces (external) |
| `arrived`, `taken`, `given`, `out` | ghosts: what a callback was called with, what the caller was given |

One `lws_service` may run several callbacks, so pieces arrive behind a message that is already
complete. They go to the second slot, and when that is complete as well they are thrown away.

### CClient

| TLA+ | code |
|---|---|
| `lock`, `call` | `request_lock`; the call each thread is in: `lock`, `send`, `recv`, `handle` (an event), `hs` and `ping` (of `bb_connect`), `return` |
| `connected`, `up` | `ws->connected`; whether the server has the connection open |
| `toServer`, `inbox` | requests and messages on their way; a request is told apart by the number of its call |
| `session` | the server's session: barrel, and whether it has subscriptions |
| `current`, `kept` | `current_barrel`; a ghost: it was set on an earlier connection |
| `callback`, `mqueue`, `handled` | `message_callback`, `g_message_queue`; a ghost: the events handed over |
| `Begin`, `Acquire`, `SendFails`, `Send`, `TakeAnswer`, `ReceiveFails`, `Return` | `send_request` and the calls that send and receive by themselves |
| `TakeEvent`, `HandleEvent`, `SkipEvent`, `EventForAnswer` | what each kind of call does with an event that comes before its answer: hand it over, free it, or take it for the answer |
| `Publish` | `bb_publish`, which does not wait for its answer |
| `Connect`, `HandshakeFails`, `HandshakeTaken`, `PingNotSent`, `Pong`, `NoPong`, `bb_disconnect` | `bb_connect` step by step, `bb_disconnect` |
| `BeginReader`, `EmptyRound`, `WaitReturns`, `bb_poll_message`, `bb_set_message_callback` | the calls that only take events |
| `bb_create_barrel(s)` ... `bb_unwatch_key(s, left)` | what each function makes of the status of its answer |
| `Statuses`, `After`, `ServerCarriesOut`, `ServerAnswers`, `ServerSendsEvent`, `ServerCloses` | the server, as `network/server.nim` answers this client: which statuses a command may have and what it does to the session; the answer is sent after the command is carried out, so the first event of a subscription may come before the answer of its own `bb_subscribe` |
| `MessageLost` | the transport has no room: behind two waiting messages (`WebSocketLws`) |
| `trouble` | a ghost: whether the connection has met one of the causes below |

Of the 30 operations 25 wait, in five ways: `Requests` (through `send_request`), `Singles` (under
the lock, but the first message is the answer), `Plain` (the same without the lock), `Watches`
(without the lock, events are thrown away) and `Readers`. With no comparison of
sequence numbers the code can lose its step, in known ways: a receive that fails, too many events, an
event taken for an answer, the unread answer of `bb_publish`, a message lost, a message left in the
buffers at `bb_connect`, and calls that receive without the lock beside another. `trouble` is set at
these steps and nowhere else, and a new connection without leftovers clears it. Everything else must
keep each call with its own answer.

### ClientCodec

| TLA+ | code |
|---|---|
| `encode_request`, `encode_range_request`, `encode_prefix_request`, `encode_history_request`, `encode_presence_request`, `encode_publish_request` | `protocol.c` |
| `subscribe_payload`, `watch_payload`, `publish_request`, `bb_batch_set`, `bb_batch_get`, `bb_batch_delete` | what functions of `pubsub.c` and `bitbarrel.c` write by hand |
| `decodeRequest`, `decodePayload`, `encodeResponse`, `encodeRangeResponse`, `encodeHandshake`, `encodePubSubEvent` | the server's side, in `network/protocol.nim` and `server.nim` |
| `decode_response`, `decode_range_response_binary`, `parse_range_response`, `parse_handshake`, `process_pubsub_event`, `tokens` | the client's parsers |
| `Ask`, `AskTooMuch`, `AskInVain`, `ServerSends` | every message either side may write |
| `Asks`, `BufferSize`, `Cut` | `send_request` and its buffer of 64 KB; `uint16_t len = strlen(s)` |
| `Tear`, `Receive` | the transport drops a tail; the other side reads |

A message takes one trip: it is written, may lose its tail at any byte, and is read.

The client checks neither that a string is short enough for a length of two bytes nor that a request fits into
its buffer. The first is in the model: `Cut` is what the encoders make of any string, `Ask` has
the strings that are short enough (`Countable`), and `AskTooMuch` the `bb_set` of a longer key, and of one with a
time to live, which no encoder is given. The second has no defined outcome and is left out: the guard
`Asks` takes the requests that fit.

## The runs

| run | result | question | bounds |
|---|---|---|---|
| `barrel` | passes | do index, file and rebuild agree, and does the barrel implement `KVStore`? | 2 keys, 1 value, 4 log items, TTL up to 1, clock up to 2 |
| `compaction` | passes | outside the named steps, does any interleaving, rollback or crash lose a key or move its only record to a removed file? | 2 keys, 2 values (one compressed), 2 compactions, 2 writes, 1 failed call, 1 crash; 5,053,835 states |
| `compaction_ends` | passes | does every compaction end, after a failure too, and do expiring keys read right? | 1 key, 2 writes, TTL 1 |
| `compaction_stale_read` | violated | does a get return a value of its own key? | 2 keys, 2 writes, no failure |
| `pubsub` | passes | do the tables agree, is everybody served who should be, nobody who left, and does every handler end? | 2 connections, 2 topics of which 1 may exist, 1 pattern, 2 subscriptions per connection, 3 subscribes, 1 event |
| `huge` | passes | do splits, evictions, flushes, recoveries and a death after any durable write keep every key? | 3 keys, 4 records of which 1 compressed, ranges of 1 entry, cache of 1 range, 2 opens, each with or without recovery; 262,236 states |
| `huge_reverts` | violated | does a recovery keep the newest record of a key? | the same |
| `websocket` | passes | do the two receive slots behave as a lossy channel, and never leave a caller deaf? | 6 pieces, 3 connections |
| `websocket_torn` | violated | are received messages whole? | 6 pieces, 3 connections |
| `client` | passes | does every call take its own answer, return, and tell the truth about success and the barrel? | 2 threads of 5 and 6 operations, 2 barrels, 3 calls, 2 messages per call, 1 event; 412,177 states |
| `client_events` | passes | are events handed over in order when two threads take them in? | 2 threads of 3 and 4 operations, 1 barrel, 4 calls, 2 messages per call, 2 events; 7,101,465 states |
| `client_codec` | passes | do the two sides read what the other wrote, and refuse what is torn? | 11 values of a byte, 4 strings of which 1 too long for a length of two bytes, 3 payloads of which 1 long, 2 sequence numbers, up to 2 items, every cut; 31,477 states |

**What each property says.**

* `EntryPointsAtItsKey`: whatever was torn, cleared or reopened, an index entry leads to a whole
  record of its own key. `RestartLosesNothing`: while nothing is torn, the rebuilt index has every
  entry of the running one at the same position. `DeadKeysStayDead`: a key whose last record is a
  tombstone or has expired is never read again until it is written, any number of restarts
  included. `ImplementsKVStore`: every step is a step of `KVStore` or a stutter.
* `ReadsFindTheLastWrite`: reads find the last acknowledged write. `ReadsInFlightFindIt` speaks of a get that
  the worker overtakes between its lookup, its choice of a handle and its read: as long as its file is open it
  finds the last acknowledged write; when the file is gone, and the position is looked for in another one, a
  record of its key there is still that write. It may be the record of another key instead, which
  `GetsReadTheirKey` excludes and `compaction_stale_read` shows.
  `LiveDataIsOnDisk`: at no step is the last record of a live key only in a removed file, so a
  crash there costs nothing. `CompactionEnds`: `inProgress` becomes false again, on which `close`
  and `waitForCompaction` depend.
* `TablesAgree`: between two events of a connection, and after an unsubscribe that failed, record,
  client entry and topic or pattern entry exist together or not at all, and nothing is left after
  `CloseEvent`.
  `EverySubscriberIsServed`, `NothingAfterUnsubscribe`: whoever is subscribed from the start of a
  publish to its end is sent the event, whoever left before it began is not.
  `HandlersEnd`: no handler waits for ever.

* `EntriesPointAtRecords`: whatever splits, evictions, reloads, recoveries and deaths did, an entry
  on disk or in the cache leads to a record of its own key; `get` reads there without looking at the
  key. `ReadsFindTheLastWrite` (of `HugeBarrel`): as long as the ranges are sound, a get finds
  what the last set, delete or open made of the key. `NoStepLosesSavedKeys`: under the same
  condition, a durable write leaves barrel1 with every key as it had it or as the call made it, so a death at any
  point of a split is repaired by the next open; an open with recovery changes a key to its last *legible*
  record only, the last one that its scan can read. Where a step leaves a split under way it needs another: that barrel1 had no
  blobs of ranges but those of the list (`AllListed`), since the next open makes ranges of all of them.
  `CloseSavesEverything`: after a close, barrel1 alone has all keys.
  `RecoveryFindsEveryKey`: an open with recovery leaves every key with its last legible record, and one that has
  none as barrel1 had it. This may be older than what barrel1 had, which `RecoveryKeepsTheNewest` excludes and
  `huge_reverts` shows.
* `NeverDeaf`: the second slot is never complete while the first is not; in such a state the callback
  would ignore all that arrives and the caller would wait for it. `NoLossWhileThereIsRoom`: as long as
  every message is one piece, one that has arrived is lost only behind two that wait, or behind the
  mark that the end of an earlier connection leaves. `ImplementsLossyChannel`: over any connections,
  bursts and time-outs nothing is received twice and, with messages of one piece, nothing out of
  order. `MessagesAreWhole` is violated.
* `OwnAnswer`: a call that has taken a message has taken the answer to its own request.
  `NoAnswerLeftBehind`: when no call is running, neither a request nor an answer is on its way, so the
  next call starts clean. `SuccessIsEarned`: a call that returns success has an answer in hand that says so, and no
  event, no handshake and not nothing, even after trouble; without trouble it is the ok of its own request.
  `BarrelAgrees`: when no call is running, `current_barrel` is the barrel of the server's session, which
  decides what the next `bb_get` reads; it needs the one thread that chooses barrels, since
  `current_barrel` is changed after the unlock. `OwnAnswer`, `NoAnswerLeftBehind`, `BarrelAgrees` and the last part of
  `SuccessIsEarned` hold until the connection meets one of the causes named above. `CallsEnd`: every call returns, with or without trouble: the loops over events
  end, and every way out gives the lock back.
* `EventsInOrder`: events reach the callback, the queue or the caller of `bb_wait_message` in the order of
  sending, though they are handed over after the receive and under another lock.
* `RequestsArrive`, `AnswersArrive`: what the reader understands of a whole message is what the writer meant, field
  by field; for requests that fit their buffer, and but for two things that are lost on the way (`Carried`): the
  time to live of `bb_set`, and of a key whose length two bytes cannot say all but the bytes that the remainder
  counts. `NothingElseArrives`: torn requests, publications, and batches of one or two entries are
  refused as a whole, and never taken for another request. (From 256 entries on the bytes of a batch's count lie
  where the server reads the length of a key that is not empty; such batches are not in the model.)
  `TornAnswersAreRefused`: a torn answer is not taken for a shorter value or a
  shorter list. `EventIsNoAnswer`: a call that takes an event for its answer gets
  nothing or, from one of more than 64 KB, a status that is no success, at any cut.

**Why the bounds are enough.** `barrel` needs a record, a shadowing record, a tombstone and one
item behind a torn one: four. In `compaction`, one key is moved while the other is written; the
second compaction meets the state that the first, a rollback or a crash left (a hint file, an
abandoned new file, dangling entries); a third would start from the same kinds of state. In
`pubsub`, two connections on one topic are what the unordered sections need, a third
subscription reaches the limit per client, the second topic the limit on topics, and the pattern
overlaps a topic, so a subscriber can be reached twice. In `huge`, a range splits at its second
entry, so four records of three keys split twice and still write to a half; with a cache of one
range every access to another range evicts; the second open meets every disk the first session
can leave, and runs a recovery or not; one compressed record is one the recovery does not see.
Without compressed records, a cache of two ranges, five records or three opens gave the same
result, and so did 15 million states of random courses with 6 keys and ranges of two entries.

In `websocket`, six pieces fill both slots twice, and three connections let the messages of the first
meet the handshakes of two others. In `client`, three calls are a connect, a call that goes wrong
or overlaps, and the call that would pay for it; two messages per call are the smallest limit with
an event before the answer (the code allows ten), and one event beyond it is the time-out. The threads'
operations (`AnswerOps`) have one of each kind, and all that choose a barrel; operations of one kind
differ only in what they make of a status, and the lemma `NoOperationHidesAFailure` of `CClient_proofs`
covers all of them and all statuses. In `client_events`, a connect, a subscription and
two calls that take events in are four calls, and two events can be out of order. In `client_codec`,
the strings have different lengths, so no two fields can be exchanged unseen, one of them is longer by two
than the greatest length of two bytes, and the
numbers have bytes that are 0 and bytes that are not; a byte with 11 values, the fewest with room for the
commands and the comma, has every carry of one with 256, and the long payload makes an event longer than
a length of two bytes can say, as one of more than 64 KB is. `MaxPieces`, `MaxConnects`, `MaxCalls` and the `MaxEvents` of `CClient` bound what the
environment does; `MaxAttempts` is the program's.

`MaxPacked`, `MaxOpens`, `MaxWrites`, `MaxFailures`,
`MaxCrashes`, `MaxFile`, `MaxSubs`, `MaxEvents`, `MaxLog` and `MaxClock` bound what the
environment does; `MaxTopics` and `MaxPerClient` are settings of the program.
`Publisher = {c2}` with one event says which connection publishes: the two are alike otherwise.

**Fairness.** `Compaction` has weak fairness of `Worker`: it is an operating-system thread with
no lock it could wait for. `PubSub` has weak fairness of each `Handler(c)`, the thread that
handles the present event; the waiting for a lock in the model ends whenever the lock is
free for long enough, which is all that weak fairness gives. `CClient` has weak fairness of
each `Steps(t)`, a thread that runs inside a call: its receives have time-outs, so one of its steps can
always be taken without the server, and the calls are bounded, so a thread that waits for the lock
finds it free for good in the end. Nothing is assumed of the application, of clients, of the server
of `CClient`, of the clock, or of crashes and failures.

**Deadlock** is checked in `Barrel` and `Compaction`. It is not in `PubSub`, where all connections may be
closed and all bounds used up (`HandlersEnd` takes its place there), in `HugeBarrel`, which stops
when the barrel is closed and has been opened as often as the bound allows, in `WebSocketLws` and
`CClient`, where the application may have made all its calls (`CallsEnd` takes its place in `CClient`), and
in `ClientCodec`, where a message makes one trip.

## What is proved

`Barrel_proofs` proves, for every set of keys and values and every bound, under the
assumptions that the empty string is no value (`ValAssumption`), that the bounds are natural
numbers (`BoundAssumption`) and that a torn item is no record (`TornAssumption`):

| theorem | says |
|---|---|
| `TypeCorrect` | `Spec => []TypeOK`; an index position is never outside the file |
| `EntriesPointAtTheirKeys` | `Spec => []EntryPointsAtItsKey` |
| `RestartsLoseNothing` | `Spec => []RestartLosesNothing` |
| `DeadKeysAreNeverRead` | `Spec => DeadKeysStayDead` |
| `BarrelImplementsKVStore` | `Spec => ImplementsKVStore` |

The argument. `ScanEnd` and `Last` are `CHOOSE`s; `ScanEndIsUnique` and `LastIsUnique` say that
whatever satisfies their definition is the choice. `AppendToIntact`, `AppendToTorn`,
`LastBeforeAppend` and `LastAfterAppend` say how one append moves them. That a scan end and a
last record *exist* for every log would be an induction over the log, which the provers cannot
do over an operator; instead it is carried along as part of the invariant, one append at a time:
`ScanFinds`. The inductive invariant is

    IInv == TypeOK /\ ScanFinds /\ EntryPointsAtItsKey /\ RestartLosesNothing

The type alone does not give `EntryPointsAtItsKey` after a reopen (the rebuilt position must be
one of the key), and `EntryPointsAtItsKey` alone does not give `RestartLosesNothing` (an older
record of the right key would do). `AppendKeepsIInv` treats the five writes at once, since each is
an append followed by an index update; `ForgetKeepsIInv` treats clear and close.

The refinement maps `visible` to what the index shows and `durable` to what `Rebuild` finds:
writes and deletions map to `Write`, `Clear` to `Forget`, `Close` to `Restart`, `CrashInAppend`
to `Tear`, and `Open`, which makes visible what was durable, and `Tick` to stutters.

`Compaction_proofs` proves, for any keys, values, expiry times, files and bounds, under the assumptions
that the empty string is no value and that the large values are values (`ValAssumption`) and that the
bounds are natural numbers (`BoundAssumption`):

| theorem | says |
|---|---|
| `TypeCorrect` | `Spec => []TypeOK` |
| `ReadsAreRight` | `Spec => []ReadsFindTheLastWrite` |
| `ReadsInFlightAreRight` | `Spec => []ReadsInFlightFindIt` |
| `NothingLiveIsRemoved` | `Spec => []LiveDataIsOnDisk` |

None of the last three is inductive: what a read finds after a switch of files depends on what the copying
has put there, and what is found after a crash on files nobody has read since. The inductive invariant is

    IInv == Typed /\ Handled /\ WorkerHandles /\ ClientHandles /\ Found /\ Reading
              /\ \A k \in Key : Claims(k)

`Handled`, `WorkerHandles` and `ClientHandles` say which files have names and handles, and which of them
each thread writes to at each step; `Found`, that the worker's snapshot of the old file leads to records of
its keys. `Claims(k)` speaks of a key whose last acknowledged record is known and that has met none of the
named steps, and has three parts:

* `Indexed(k)`, in an open barrel: the entry leads to the last acknowledged record, in a file that the next
  switch or crash will not take away, or rightly says that there is none, or is `Astray`: it has the number of a
  file that is not open, of a rollback between the two readings of the flag, and its position is right in the
  one that a read falls back to;
* `Restorable(k)`: what the next open would find, through a hint file or a scan, is that record, or nothing
  where nothing is right. It has exceptions (`Exempt`) exactly while a write or a copy is between its
  append and its index update;
* `Moved(k)`, while the worker copies: a key whose entry has moved has its last record at the end of the new
  file, one that has not is still to be copied (`Left`), or is dead.

`Indexed` alone says nothing of the file a crash falls back to, `Restorable` alone nothing of reads, and
neither survives the switch of files without `Moved`, which turns what was true of the new file into what
the next open finds. `Reading` carries a `get` over the switch: its entry leads to the
last acknowledged record (`Attached`); if this is in a file that the worker has left behind, the present file has
of the key that record only (`Overtaken`), and while the worker copies, so has the new one (`Traced`); the handle is
that of its file, or `dataFile` when the file has left the table (`Chosen`). The first and the last record of a key in a
file are `CHOOSE`s; that they exist is proved from the least element of a set of numbers (`Least`), which needs
no induction over an operator. The proof has a lemma per action; the actions that change one key
(`IndexWrite`, `Reindex`, the appends) first show that the claims about the other keys stay.

`HugeBarrel_proofs` proves, for any number of keys, entries in a range, ranges in the cache and in a file,
writes and opens, with and without recovery (`BoundAssumption`: the sizes are positive, as the
configuration makes them):

| theorem | says |
|---|---|
| `TypeCorrect` | `Spec => []TypeOK`: the cache within its size and no range twice in it, dirty only with inserts that wait, the list of ranges sorted |
| `EntriesLeadToTheirRecords` | `Spec => []EntriesPointAtRecords` |

A call is one step of the model but many writes of the code, and the process may die after each; so the
inductive invariant is short and has to be said of every disk on the way:

    IInv          == the types of opens and want /\ disk \in Disks(disk.files) /\ mem \in Memories(disk.files)
    Work(F, files) == areas with such a memory and disk over files, that went through disks over a set of files in F

`Disks(files)` and `Memories(files)` are the disks and memories all of whose entries lead to a record of
their key in `files`, with the bounds of the cache and the order of the ranges. Every part of an operation
has a lemma that it leads from `Work` to `Work` (`CachePutKeeps`, `SplitKeepsWork`, `RebuildRangesKeeps`,
`RecoverKeeps`, ...), and `FinishKeeps` turns the end of an operation, or any disk on its way, into the next
state. Only an append changes the files: `FilesGrow` and `GrownKeeps` say that what led to a record still
does, and that the new record is where its entry will say. A split keeps the claim because both
halves are parts of one table, for which `LowerHalfOf` shows that the half exists; a recovery because
the scan reports only records that are there (`ScannedFound`). The theorem says nothing about ranges that
overlap or take each other's names: entries lead to records of their key all the same.

The operations that go through a list, a cache or the files of a disk are folds, which compute by recursion
over a set of numbers, the greatest last. That such a function exists, and that what each step
preserves holds at the end, is proved once, by the least counterexample among the numbers
(`FoldExists`, `FoldHolds`, `FoldIn`), without an induction rule that takes an operator; the binary search has the
same argument over the distance of its ends (`SearchExists`, `FindRangeFinds`).

The second part of `HugeBarrel_proofs` proves, for the same constants and with nothing assumed beyond `BoundAssumption`:

| theorem | says |
|---|---|
| `ReadsAreRight` | `Spec => []ReadsFindTheLastWrite` |
| `ClosesSaveAll` | `Spec => CloseSavesEverything` |

What is read depends on the range that the binary search finds, on where its entries are (in the cache or
in barrel1) and, after the next eviction or open, on the blob that is behind them. The inductive invariant
speaks of all three, as long as the ranges are `sound`:

    RInv == IInv /\ (sound => DiskOK(disk) /\ (mem.isOpen => Steady(Area) /\ \A k : Read(Area, k) = want[k]))

* `DiskOK(d)`: an open can go on from `d`. The bounds in each blob take in all its entries (`Hull`); unless
  a split is under way, the ranges of the list have different names, and a blob each that they cover. It
  holds at each write of an operation, not only at its end, so that a death there is covered too.
* `Steady(h)`: the list in memory is the one on disk and no two of its ranges overlap, the cache has of
  each range that is not dirty what barrel1 has (`Coherent`), and what it has of the others lies within their
  bounds (`Fitting`): otherwise an entry would be where the search never comes.

`Entr(h, n)` is what a range has, wherever it is at the time; each part of an operation gets a lemma that says
of which ranges it changes the entries (`Frame(h, g, X)`), and loading, evicting and saving change none.
`FindsCovering` is the converse of `FindRangeFinds`: on ranges that do not overlap, the binary search
finds the one that covers the key. A split is the longest part: `SplitGood` follows it write by write to two
ranges that have the old one's entries between them, and `SplitReads` shows that every key reads as before,
also the keys above the old upper bound, which the unbounded upper half takes in. Whether the ranges
end up sound is known only at the end of a call; `Grows` says that a clash of names, once there, is not
forgotten, so that the end may assume that there was none on the way.

`ClosesSaveAll` needs one more thing, in `CInv`: an open barrel without ranges has an empty barrel1
(`Peopled`); else the next open would make ranges of blobs that the open barrel did not show. That the
barrel is closed with *every* entry on disk is in `CloseGood` (`Saves`).

`HugeBarrelCrash_proofs` proves, again from `BoundAssumption` alone:

| theorem | says |
|---|---|
| `SavedKeysStay` | `Spec => NoStepLosesSavedKeys` |
| `RecoveriesFindAll` | `Spec => RecoveryFindsEveryKey` |

The first is about the disks *between* the writes of a call, on which the next open finds one half of a split, or
both beside the old range, and rebuilds a list whose ranges overlap. Its inductive invariant adds to `CInv`
that no blob claims keys of another range:

    TInv == CInv /\ (sound => Snug(disk) /\ (mem.isOpen => Fine(Area)))

`Snug(d)`: what the bounds in a blob cover, the range of that name covers (`Inner`). `Fine(h)` says the same
of the cache, whose tables become the next blobs. Without them a half that is not yet on disk could be hidden
behind a neighbour whose blob is too wide.

What a call leaves at each of its writes is told by a *view*: the list and the split that the disk has,
the names of blobs that must and that may be there, the ranges within which their bounds lie, and the values
that a key may have in them. `Keeps(h, w, S)` says that the disk and the cache of `h` are as the view `w`
says and that every disk so far is in `S`; `Holding(F, w, S)`, that every disk like `w` is in `S`. So an
operation that stays within a view (an eviction, a load, a save: `EvictedKept`, `LoadKept`, `SaveKept`) leaves
only disks of `S` behind, whatever it writes and in whichever order, and an operation that changes the list or
the split goes from one view to the next. `S` is `Safe`: the disks from which the next open reads of
each key what it read before the call, what the open barrel had, or, once the record is appended, what the
call made of it; for an open with recovery, what it read before, or the last legible record of the key.

`FoundKept`, `OpenedKept` and `SetKept` follow a `set` through these views, and `SplitKept` follows the split in
it: before it is marked, with the halves being written, with the old blob removed, and with the new list.
In the middle views the next open rebuilds the list from whichever blobs are there. A range that covers the
key answers right, whichever it is (`Tight`); what has to be shown is that the search over overlapping ranges
ends at one at all (`HalfFound`). It does because only the last range is split while the ranges are sound and
its upper half is unbounded: no other range has keys from there on (`Shadowed`), so the search is not led
past it. What an open writes while it repairs leaves a disk from which the next open reads the same, at each
write (`Resumed`, `Reaches`); an open with recovery then stays within a view too (`RecoveryKept`).

Both theorems need to know which record the recovery gives a key. The scan reports every uncompressed record, in
the order of files and positions (`ScannedAll`, `Before`, `Lists`); the map of the scan has of each key the last one so
far (`ScanStepLatest`) and keeps what another key has (`ScanStepStill`); so what the map has at the end is
`LastLegible` (`LegibleAre`), and the ranges are given it or keep what they had (`RecoveryReads`, `RecoveryFinds`).

`PubSub_proofs` proves, for any connections, topics, patterns, matching between them and limits:

| theorem | says |
|---|---|
| `TypeCorrect` | `Spec => []TypeOK`, with the ownership of both locks |
| `TablesAlwaysAgree` | `Spec => []TablesAgree` |
| `SubscribersAreServed` | `Spec => []EverySubscriberIsServed` |
| `RemovedAreSparedEvents` | `Spec => []NothingAfterUnsubscribe` |

The assumptions: topics and patterns have different names (`NameAssumption`: a name with a wildcard is a
pattern), matching relates the two (`MatchingAssumption`), inputs are names (`InputAssumption`), limits
are numbers (`LimitAssumption`), there are finitely many connections (`ClientAssumption`), and `NoSub` is no
subscription (`NoSubAssumption`). The inductive invariant is

    IInv == Typed /\ (\A c \in Client : Books(c) /\ Shunned(c) /\ Owed(c)) /\ Listed

`Books(c)` is the bookkeeping of one connection in the middle of its five critical sections: the id it is
adding is new, the records are those of its list but for the one it is adding or removing, and a closed
connection has none. `Listed` says the same of the topics and patterns: an id is there just when
its record, or the handler that is about to write it, says so; for topics it excepts the ids that a lost
update has hit, since `subscribers` is changed under two locks. Both are needed at each other's steps:
`TablesAgree` is their conjunction at rest. `Owed(c)` follows what a running publish owes through its five
sections: a subscription that was there at the start, and that nobody has begun to remove, is among the ids
collected so far or still to be collected (`Kept`). `Shunned(c)` says the opposite of what was gone when it
began: ids are never used twice, so it cannot come back and is never among the targets.

`WebSocketLws_proofs` proves, for any number of pieces and connections (`BoundAssumption`):

| theorem | says |
|---|---|
| `TypeCorrect` | `Spec => []TypeOK` |
| `CallerIsNeverDeaf` | `Spec => []NeverDeaf` |
| `LossOnlyWithoutRoom` | `Spec => NoLossWhileThereIsRoom` |
| `Refinement` | `Spec => ImplementsLossyChannel` |

Its inductive invariant is

    IInv == TypeOK /\ Places /\ NeverDeaf /\ (OnePieceMessages => InOrder)

`Places` says where each piece is (in a slot, taken, or lost, and never in two places) and that what
arrives next is new: without it, nothing keeps a piece from being taken twice. `InOrder` says that what
was taken is older than what is in the first slot, and that older than what is in the second; it
holds only while messages are one piece, which is exactly what `websocket_torn` shows. `NeverDeaf` is
needed by its own proof and by the refinement: a handed-over slot must not leave an older message behind.

`CClient_proofs` proves, for any threads, barrels, numbers of calls, events and attempts
(`NullAssumption`, `BoundAssumption`):

| theorem | says |
|---|---|
| `TypeCorrect` | `Spec => []TypeOK`, with the ownership of `request_lock` |
| `CallsTakeTheirAnswer` | `Spec => []OwnAnswer` |
| `NothingIsLeftBehind` | `Spec => []NoAnswerLeftBehind` |

`OwnAnswer` is far from inductive: which message a call takes depends on what all other threads, the
server and the transport did before. The inductive invariant is

    IInv    == Typed /\ (InStep => Orderly)
    Orderly == OneReceiver /\ OwnAnswer /\ (Live => Awaited) /\ Fresh

`Typed` is the type invariant with the types of queues and calls. `OneReceiver`: no two threads
receive at once; it rests on the lock for the calls that take it, and on the blame for those that do not.
`Awaited`: among requests and messages on their way there is at most one that is no event, and the call
that waits for it, for this operation with this argument, is there. It holds only while the connection is `Live` (in use, or a call waits on it),
since a failed `bb_connect` leaves a handshake behind that only the next one discards. `Fresh`:
while a connection is set up there are no events, or the PING might meet one. Three lemmas treat the
kinds of steps of a thread: `Stops`, `KeepsReceiving` and `NothingMoves`; `SendOrderly`,
`HandshakeOrderly` and `ConnectOrderly` the steps that begin a wait; and the actions of the server
and the transport have one each. The invariant was checked with TLC on the instances of `client`
and `client_events` before it was proved.

The second part of `CClient_proofs` goes on from there, under the same assumptions:

| theorem | says |
|---|---|
| `SuccessIsAlwaysEarned` | `Spec => []SuccessIsEarned` |
| `TheBarrelAgrees` | `Spec => []BarrelAgrees`, if one thread chooses barrels (`OneChooser`) |
| `EventsAreInOrder` | `Spec => EventsInOrder` |

`SuccessIsEarned` is kept by every step given `IInv`. At a step that ends a call it rests on `NoOperationHidesAFailure`,
a lemma about the translation of every status by every function, and on every other way out (a failed send or
receive, an event or a handshake taken for the answer, a failed connect) reporting no success, whatever happened on the
connection before; a call that has ended stays as it is until it returns. `OneChooser` is an assumption about the application and not about the library: with two such
threads the property is false, since `current_barrel` is changed after the unlock. `BarrelAgrees` speaks of the
time when no call is running; its invariant has to speak of every time:

    AInv == IInv /\ OwnOps /\ Agreed

`Agreed`: the server's barrel is the one the client believes in (`Base`), until the server has carried out
a call that chooses one; from then to the return of this call (`Answered`) it is what the call makes of it
(`Applied`). That there is only one such call, and that no other thread takes its answer, is where
`OneChooser` and `IInv` come in. `EventsInOrder` needs the order of everything in between:

    EInv == IInv /\ Numbered /\ (InStep => Ascending)

`Ascending`: the events handed over come before the one a thread has in hand, and this one before those on
their way, which ascend; a second thread with an event in hand would break it, and `OneReceiver` excludes
that. A lost message, an answer or a received one only thins out what is on its way (`Thinned`).

`ClientCodec_proofs` proves every property of `ClientCodec`, for any number of values of a byte above 9, any
strings, payloads and sequence numbers, and any cut. Assumed is that a byte has room for
the commands and the comma (`BaseAssumption`), that strings are those of C, without NUL and shorter than four
bytes can say (`StringAssumption`), that payloads and sequence numbers fit into four bytes (`PayloadAssumption`,
`SeqsAssumption`), and that `Refused` is not one of the results it is told from (`RefusedAssumption`). That a string
is short enough for a length of two bytes and a request for its buffer is not assumed of the constants, and nothing in the
code sees to it. `AskTooMuch` has the overlong keys of `bb_set`, and `RequestsAreUnderstood` says what arrives of
them; the other strings of `Ask` are short enough, and every request fits its buffer. Limits
(two), statuses (seven) and the number of items, names, plugins and entries of a batch (up to two) are those
of the model.

| theorem | says |
|---|---|
| `TypeCorrect` | `Spec => []TypeOK`: nothing but bytes is written |
| `RequestsAreUnderstood` | `Spec => []RequestsArrive` |
| `NothingElseIsUnderstood` | `Spec => []NothingElseArrives` |
| `AnswersAreRead` | `Spec => []AnswersArrive` |
| `TornAnswersFail` | `Spec => []TornAnswersAreRefused` |
| `EventsAreNoAnswers` | `Spec => []EventIsNoAnswer` |

The invariant is short, since a message takes one trip:

    IInv == types /\ (phase # "idle" => \E w : Sent(kind, meant, w) /\ Heads(wire, w) /\ (cut <=> wire is shorter))
                  /\ (phase = "read" => got = Reading(kind, wire))

`Sent(k, m, w)`: `w` is what one side writes who means `m`; `Heads(d, w)`: `d` is how `w` begins. What
remains says of each kind of message what a reader makes of each of its heads. The readers are recursive
functions, over the bytes of a number, the fields of a message, the items of an answer, the bytes of a list
of names. That such a function exists is proved once (`StepsExist`), and what its steps preserve holds at its
end (`Climb`), both by the least counterexample among the numbers and without an induction rule that takes an
operator. From there:

* `NumberOf`: a number below the bound of its field is read as it was written;
* `ReadsBack`: fields are read back one after the other from whatever begins with them, and refused if the
  end of them is missing. All readers of the server rest on it, and the handshake and event of the client;
* `RequestArrives`: the fields of a payload in the value of a request. The last field of every payload the
  client writes, and of the request, ends with it, so a missing tail is missed somewhere;
* `ResponseReads`, `RangeResponseReads`, `NamesRead`, `HandshakeReads`, `EventReads`: the parsers of the client.
  `NamesRead` follows `strtok` byte by byte: behind a comma a name begins, behind another byte it goes on;
* `EventNoAnswer`: the four bytes that `decode_response` takes for a length begin with the length of the topic,
  which is not empty, so they say 64 KB at least and an event of less is refused; a longer one that is taken
  has the status 0xFF, which is no success.

Only model-checked, since they are out of the prover's reach: liveness under fairness (`CompactionEnds`,
`HandlersEnd`, `CallsEnd`) and `ENABLED`. Every invariant and every action property that the passing runs
check is stated by a theorem.

## What is abstracted and what is not modelled

* `Barrel`: one thread; a torn append ends inside the value (a cut inside the header or key is
  detected in the same way unless the next byte is NUL); the record layout, sync modes and size
  limits are left out; the clock is bounded, so the wrap of 31-bit expiry times is not met.
* `Compaction`: all records have the same size, so a stale position leads to another whole record
  and never into the middle of one; the assignment of the handle to `barrel.dataFile` is one step, so a
  struct that is half old and half new is not met; a read of a file is one step, so the race on the shared file
  position is not met (planned); one application thread; the marker file is left out, since no
  code that `openBarrel` calls reads it; the entries of a hint file are collected in one step;
  the removal of the new file in a rollback does not fail. `lost` and `fragile` only ever name
  keys at the steps listed above. `compaction_ends` has files that can be removed.
* `PubSub`: the data race on a `HashSet` is modelled by its mildest outcome, a lost update; the
  unlocked lookup of a topic in `sendToClient` is an atomic read; the number of subscribers of a
  topic is unlimited, as the server configures it; events of type presence, the history
  that `publish` ends with and the statistics are left out; connection ids are not used twice; the
  events of one connection are handled in order, as the WebSocket library does; `sessionsLock`, which the
  server holds while a subscription joins its presence topic and while a watch is ended
  (`server.nim:1184-1191`, `1442-1450`), is left out: pub/sub takes none of the server's locks inside its own, so it adds
  no cycle to the locks that are modelled (the locks of the server are planned); an assertion that
  fails ends the handler of its connection. Pattern matching is the constant `Matching`.
* `HugeBarrel`: the calls of several server threads at once are left out (see above); a write to barrel1 is whole or not there (what a torn one does is `Barrel`'s
  subject), and a torn record of barrel2 is skipped by the recovery scan, so it is none; empty
  values, which the code takes for deletions, are left out; automatic splits are on; whether the
  insert buffer of a range is full or its flush is due is a free choice; the recovery goes through
  its hash table in any order, `close` through the cache in the order of use; the fast path of `flush`
  for sequential inserts (`rangekeydir.nim:466-565`) cannot be reached, since `insert` has raised the upper
  bound by then (`rangekeydir.nim:446-449`); `compactFile` and the public `splitRange` are left
  out. A recovery may bring back an older record of a key or a deleted key; `want` takes
  what it finds, and `NoStepLosesSavedKeys` and `RecoveryFindsEveryKey` say which record that may be.
* `WebSocketLws`: one thread calls it; two threads inside `ws_recv_binary` are a data race on the slots,
  which `CClient` knows as calls that receive without the lock. Piece and frame boundaries are the
  same thing; the bytes inside a piece, memory that runs out and the text calls are left out. Closing
  handshakes and TLS belong to libwebsockets.
* `CClient`: one client; the callback does not call the client (see below); values and keys are left
  out, since an answer is told by its call; `next_seq` is left out, since nothing compares it; the
  answer of another thread's request is another answer even when it would decode the same. The server
  is free in what other clients did to its barrels meanwhile. `ServerCloses` drops the requests on their
  way; messages that have arrived stay.
* `ClientCodec`: the strings are those of C, without NUL; a request that is longer than the client's buffer is
  undefined behaviour and left out; of the server's limits those of the lengths and of the commands are modelled,
  and those of 32 MB for a value and 10000 entries for a batch are not, since a request of the client that
  fits its buffer meets neither; `bb_list_subscribers` is left out (see below); the answers of batches are left out, since the server answers none with items; lists that
  are JSON-like text, of topics, subscribers and history, are planned. `EventIsNoAnswer` speaks of
  what the decoders return: an event of more than 64 KB may decode, and its status 0xFF then ends the
  call with another error than the one that `CClient`, whose events are shorter, gives it.
* Not modelled yet: see the plan. Not modelled at all: the write and read buffers (statistics
  only), configuration, authentication, metrics, command line, clients in
  other languages, benchmarks (codecs, reporting and pure input/output).

## Divergences found

Each has a run that exhibits it; `PROJECT.json` quotes the statement of the repository that it
contradicts.

1. A get that is between lookup and read when the worker takes the old file from the table reads at the old
   position in the new file, and returns the value of another key (`compaction_stale_read`).
2. A recovery of a HugeBarrel passes over compressed records and puts an older record of the key in the
   place of the newer one (`huge_reverts`).
3. The pieces of a message that arrive behind a complete one stay in the second slot when the caller
   takes the message in front; the later pieces go to the first slot and are returned as a message
   (`websocket_torn`).

Seen while reading, in the models as far as said, without a run of their own:

* A write between the shadow check and the index update of a compaction is overwritten by the older record
  (`compact.nim:577`). Modelled by `Reindex`, which names the key as lost.
* A set whose compaction is rolled back and ended between its two readings of the flag (`barrel.nim:785`, `790`)
  appends to the old file under the number of the removed one; the next compaction takes the key for one
  written since, and removes the old file with its only record. Modelled by `Route` and
  `TriggerCompact`, which names the key as lost.
* The pub/sub calls of the C client receive without the lock that makes the others safe (`pubsub.c:255`), and take
  the answers of other threads' calls, though the README of the client calls all operations thread-safe
  (`src/clients/c/README.md:294`). Modelled; a call without the lock beside another sets `trouble`.
* A key of 64 KB or more is cut by the C client to the remainder of its length, and `bb_set` sets another key
  (`protocol.c:28`); its time to live is never sent (`bitbarrel.c:278`). Modelled by `AskTooMuch`;
  `Carried` says what is left. A request longer than its buffer is written over the end of it
  (`bitbarrel.c:277`, `range.c:143-166`, `pubsub.c:206-245`). Not modelled.
* A barrel whose path is not of the form `NNNNNN.data`, as those of the registry
  (`<name>.data`, `session.nim:92`), compacts into the very file that the worker then removes
  (`barrel.nim:1700`). Not modelled; the server never triggers a compaction.
* When the old file of a compaction cannot be removed, `inProgress` stays set and `close` never
  returns (`barrel.nim:1674`). Modelled by `RemovalFails`; `compaction_ends` leaves it out.
* An event is stamped with the topic's number at sending time and not with its own
  (`eventbroker.nim:134`). Modelled by `Number` and `Stamp`.
* After a torn append, later writes are acknowledged and not found by any restart. Modelled by
  `CrashInAppend`; `RestartLosesNothing` speaks of logs that are not torn.
* A compaction ends its scan at the first compressed record and drops the rest; after a compaction, a
  hint file hides every later write from the next open. Modelled; both are among the named steps.
* `subscribe` and `unsubscribe` change a subscriber set under different locks; a lost update fails
  an assertion later (`manager.nim:237`). Modelled; `raced` names the subscriptions.
* A key between the two halves of a split range of a HugeBarrel, or below all ranges, gets a range without
  an upper bound, in front of ranges whose keys are then no longer found (`hugebarrel.nim:506`); and the
  counter of range numbers starts again at 2 at every open, so a new range may take the name, and the
  place in barrel1, of one that lives (`hugebarrel.nim:612`). Modelled; `sound` says of a state that
  neither has happened.
* A recovery of a HugeBarrel that dies before it saves the list of ranges leaves ranges in barrel1 that no
  list names. When a later split dies, the open after it takes them in, in front of saved ranges, whose
  keys may then no longer be found (`hugebarrel.nim:1155`; with eight keys, ranges of two entries and six
  opens TLC follows such a course). Modelled; `AllListed` is there to leave it out.
* Deletions from a HugeBarrel are undone by the recovery of the next open. Modelled; `want` takes
  account of it.
* The batch calls of the C client write requests without flags, key length and value length, which the
  server refuses (`AskInVain`); `bb_publish` encodes its request over its own payload, is always
  refused, and leaves its answer to the next call.
* `bb_get` and `bb_exists` do not tell an error from a key that is not
  there; `bb_list_subscribers` sends the topic as the key, while the server reads the value
  (`server.nim:1249`); a key with a comma is two keys for `bb_list_keys`; the lists of topics and
  subscribers have field names among their values, and the history looks for fields that the server
  does not write. Not modelled but for the statuses and the comma (`Listable`).
* `bb_wait_message` and `bb_process_messages` read an older layout of events, in which the topic is empty.
* `bb_unwatch_key` counts its attempts down behind the test, and throws away an answer that comes as the
  last message allowed (`pubsub.c:819`). Modelled.
* The callback runs under `callback_lock`, and `request_lock` when a request took the event in: a callback
  that calls the client never returns (`pubsub.c:185`). The queue of messages is one for the whole process,
  whatever the number of clients (`pubsub.c:72`). `next_seq` is incremented outside the lock.
* The transport without libwebsockets does not mask its frames, and leaves the stream in the middle of
  a frame after a length it could not read, a frame that is too large or a PING with a payload.

## The plan

In this order; the number of runs is kept small, so later passing runs take the place of violation
runs whose finding is settled.

1. **Server**: registry, sessions, hooks and their two locks. Closing a HugeBarrel under the
   registry lock saves its ranges, whose change hook takes `sessionsLock`, which commands hold
   while they ask the registry for a barrel. Wrappers used after close, watches with one pattern,
   answers to failed writes, drop and re-create with a left-over hint file. Composes with `PubSub`
   (a change hook is `KvChange`) and with `CClient`, whose server it refines.
2. **C client, continued**: the answers that are JSON-like text, against their writers in the
   server; the transport without libwebsockets, whose abstract specification is the `LossyChannel`
   again.
3. **History**: the three counters for one sequence, the pending batch, crash, and the recovery
   that nobody calls. Abstract specification: a log per topic whose numbers are never reused.
4. **HugeBarrel, continued**: `compactFile`, which takes the assigned file that reloaded ranges have
   lost for the owner of a record, and removes a file that cached handles still append to; the public
   `splitRange`. Abstract specification: the same `KVStore`, on sound ranges.
5. **DataFile**: unnumbered paths and the blocking compaction; handles, the read-write lock that each
   read copies, the shared file position, failed appends, two writers (NX and XX, the order of appends
   and of index updates), the self-deadlock of compareAndSwap.
6. **Presence**: joins, pings and heartbeats, sweeps, connection close.
7. **Pure parts**: timestamps at 31 bits, the scan of the recovery engine against the barrel's,
   pattern matching against a reference definition.
8. **Theorems**: lock ownership in `Server`; the same invariants for `compactFile` and the public `splitRange`.
