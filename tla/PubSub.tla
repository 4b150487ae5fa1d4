------------------------------- MODULE PubSub -------------------------------
(***************************************************************************)
(* Subscriptions, publishing and delivery of the server: the tables of the  *)
(* PubSubManager, the client list of the EventBroker and the table of open *)
(* WebSockets, used at the same time by the handlers of all connections.   *)
(*                                                                         *)
(* The events of one connection are handled one after another, each by      *)
(* some worker thread, so Client stands for a connection and for the thread *)
(* that handles its present event.  Every critical section is a step.      *)
(* topicsLock and subsLock are variables, since a section under one of them *)
(* takes several steps; patternLock, clientsLock and sessionsLock are held  *)
(* for one step only.                                                      *)
(*                                                                         *)
(* unsubscribe and unsubscribeAll change the subscriber set of a topic      *)
(* under subsLock, subscribe under topicsLock: nothing orders the two.      *)
(* Each is a read and a write here, and the second write wins.              *)
(***************************************************************************)
EXTENDS Naturals, FiniteSets

CONSTANTS
  Client,
  Topic,
  Pattern,
  Matching,     \* the pairs <<topic, pattern>> that match
  Nobody,       \* holds a lock that is free
  NoSub,        \* no record of this subscription
  MaxTopics,    \* config.maxTopics
  MaxPerClient, \* config.maxSubscriptionsPerClient
  Wishes,       \* the pairs <<topic or pattern, key-value events?>> asked for
  Publisher,    \* the connections that publish or change keys
  Published,    \* the message types they publish
  MaxSubs,      \* bound on the subscribe calls of all connections together
  MaxEvents     \* bound on the messages and key-value changes

ASSUME ClientAssumption == IsFiniteSet(Client)
ASSUME MatchingAssumption == Matching \subseteq Topic \X Pattern
ASSUME NameAssumption == Topic \cap Pattern = {} /\ Nobody \notin Client
ASSUME InputAssumption ==
  /\ Wishes \subseteq (Topic \cup Pattern) \X BOOLEAN
  /\ Publisher \subseteq Client
  /\ Published \subseteq {"data", "kv"}
ASSUME LimitAssumption ==
  MaxTopics \in Nat /\ MaxPerClient \in Nat /\ MaxSubs \in Nat /\ MaxEvents \in Nat

(* What a message is about.  Subscribers get all data and, if they ask for   *)
(* them, key-value events.                                                  *)
Kind  == {"data", "kv"}
SubId == Client \X (1 .. MaxSubs)     \* a UUID: never given out twice
Sub   == [client : Client, to : Topic \cup Pattern, kv : BOOLEAN]

ASSUME NoSubAssumption == NoSub \notin Sub

VARIABLES
  topics,      \* names in manager.topics; a topic is never removed
  sequence,    \* [Topic -> Nat], topic.sequence
  subscribers, \* [Topic -> SUBSET SubId], topic.subscribers
  patternSubs, \* [Pattern -> SUBSET SubId], manager.patternSubscriptions
  subs,        \* [SubId -> Sub or NoSub], manager.subscriptions
  clientSubs,  \* [Client -> SUBSET SubId], manager.clientSubscriptions
  lock,        \* who holds topicsLock and subsLock
  clients,     \* broker.clients
  webSockets,  \* server.webSockets
  conn,        \* what the handler of each connection is doing
  issued,      \* [Client -> 0 .. MaxSubs], subscribe calls so far
  events,      \* counted against MaxEvents
  raced,       \* subscriptions hit by a lost update of a subscriber set
  audit        \* [Client -> what its running publish owes, has sent, must not send]

tables == <<topics, sequence, subscribers, patternSubs, subs, clientSubs>>
server == <<clients, webSockets>>
ghosts == <<events, raced, audit>>
vars   == <<tables, lock, server, conn, issued, ghosts>>

Idle == [pc |-> "idle"]
Goto(c, state) == conn' = [conn EXCEPT ![c] = state]
Free(l) == lock[l] = Nobody
Take(l, c) == lock' = [lock EXCEPT ![l] = c]
Release(l) == lock' = [lock EXCEPT ![l] = Nobody]
Full == MaxTopics > 0 /\ Cardinality(topics) >= MaxTopics

(* The write of a subscriber set that was read as saw: what others have      *)
(* changed since is undone.                                                 *)
SetSubscribers(t, saw, new) ==
  /\ subscribers' = [subscribers EXCEPT ![t] = new]
  /\ raced' = raced \cup (saw \ subscribers[t]) \cup (subscribers[t] \ saw)

-----------------------------------------------------------------------------
(* Connections.                                                             *)

OpenEvent(c) ==
  /\ conn[c].pc = "new"
  /\ webSockets' = webSockets \cup {c}
  /\ Goto(c, [pc |-> "open"])
  /\ UNCHANGED <<tables, lock, clients, issued, ghosts>>

AddClient(c) ==
  /\ conn[c].pc = "open"
  /\ clients' = clients \cup {c}
  /\ Goto(c, Idle)
  /\ UNCHANGED <<tables, lock, webSockets, issued, ghosts>>

-----------------------------------------------------------------------------
(* subscribe.                                                               *)

Subscribe(c, to, kv) ==
  /\ conn[c] = Idle
  /\ Cardinality({id \in SubId : id[2] <= issued[id[1]]}) < MaxSubs
  /\ issued' = [issued EXCEPT ![c] = @ + 1]
  /\ Goto(c, [pc |-> "limit", id |-> <<c, issued[c] + 1>>,
              sub |-> [client |-> c, to |-> to, kv |-> kv]])
  /\ UNCHANGED <<tables, lock, server, ghosts>>

CheckLimit(c) ==
  /\ conn[c].pc = "limit"
  /\ Free("subs")
  /\ IF MaxPerClient > 0 /\ Cardinality(clientSubs[c]) >= MaxPerClient
     THEN Goto(c, Idle)
     ELSE Goto(c, [conn[c] EXCEPT !.pc = IF conn[c].sub.to \in Pattern
                                         THEN "pattern" ELSE "topic"])
  /\ UNCHANGED <<tables, lock, server, issued, ghosts>>

AddPattern(c) ==
  /\ conn[c].pc = "pattern"
  /\ patternSubs' = [patternSubs EXCEPT ![conn[c].sub.to] = @ \cup {conn[c].id}]
  /\ Goto(c, [conn[c] EXCEPT !.pc = "record"])
  /\ UNCHANGED <<topics, sequence, subscribers, subs, clientSubs, lock, server,
                 issued, ghosts>>

(* A variant the runs must reject: the exception leaves the lock taken.      *)
FindTopicKeepsLock(c) ==
  LET t == conn[c].sub.to
  IN  /\ conn[c].pc = "topic"
      /\ Free("topics")
      /\ Take("topics", c)
      /\ IF t \notin topics /\ Full
         THEN Goto(c, Idle) /\ UNCHANGED topics
         ELSE /\ topics' = topics \cup {t}
              /\ Goto(c, [pc |-> "join", id |-> conn[c].id, sub |-> conn[c].sub,
                          saw |-> subscribers[t]])
      /\ UNCHANGED <<sequence, subscribers, patternSubs, subs, clientSubs, server,
                     issued, ghosts>>

(* Under topicsLock: the topic is created, unless there are too many, ...    *)
FindTopic(c) ==
  LET t == conn[c].sub.to
  IN  /\ conn[c].pc = "topic"
      /\ Free("topics")
      /\ IF t \notin topics /\ Full
         THEN Goto(c, Idle) /\ UNCHANGED <<topics, lock>>
         ELSE /\ topics' = topics \cup {t}
              /\ Take("topics", c)
              /\ Goto(c, [pc |-> "join", id |-> conn[c].id, sub |-> conn[c].sub,
                          saw |-> subscribers[t]])
      /\ UNCHANGED <<sequence, subscribers, patternSubs, subs, clientSubs, server,
                     issued, ghosts>>

(* ... and the subscription added to it.                                    *)
AddSubscriber(c) ==
  /\ conn[c].pc = "join"
  /\ SetSubscribers(conn[c].sub.to, conn[c].saw, conn[c].saw \cup {conn[c].id})
  /\ Release("topics")
  /\ Goto(c, [pc |-> "record", id |-> conn[c].id, sub |-> conn[c].sub])
  /\ UNCHANGED <<topics, sequence, patternSubs, subs, clientSubs, server, issued,
                 events, audit>>

Record(c) ==
  /\ conn[c].pc = "record"
  /\ Free("subs")
  /\ subs' = [subs EXCEPT ![conn[c].id] = conn[c].sub]
  /\ clientSubs' = [clientSubs EXCEPT ![c] = @ \cup {conn[c].id}]
  /\ Goto(c, Idle)
  /\ UNCHANGED <<topics, sequence, subscribers, patternSubs, lock, server, issued,
                 ghosts>>

-----------------------------------------------------------------------------
(* unsubscribe and the end of a connection.                                 *)

(* From here on nobody has to send to the subscriptions in ids.              *)
Excuse(ids) == audit' = [d \in Client |-> [audit[d] EXCEPT !.due = @ \ ids]]

(* unsubscribe with the id of a subscription, with a topic or pattern, or    *)
(* with nothing.  It keeps subsLock to the end.                             *)
Unsubscribe(c, ids) ==
  /\ conn[c] = Idle
  /\ Free("subs")
  /\ ids # {}
  /\ Take("subs", c)
  /\ Excuse(ids)
  /\ Goto(c, [pc |-> "remove", todo |-> ids, then |-> "idle"])
  /\ UNCHANGED <<tables, server, issued, events, raced>>

Choices(c) ==
  {{id} : id \in clientSubs[c]} \cup {clientSubs[c]}
    \cup {{id \in clientSubs[c] : subs[id].to = name} : name \in Topic \cup Pattern}

(* CloseEvent: first the WebSocket, ...                                     *)
CloseEvent(c) ==
  /\ conn[c] = Idle
  /\ webSockets' = webSockets \ {c}
  /\ Excuse(clientSubs[c])
  /\ Goto(c, [pc |-> "close"])
  /\ UNCHANGED <<tables, lock, clients, issued, events, raced>>

(* ... then unsubscribeAll, under subsLock to its end, ...                   *)
UnsubscribeAll(c) ==
  /\ conn[c].pc = "close"
  /\ Free("subs")
  /\ Take("subs", c)
  /\ Goto(c, [pc |-> "remove", todo |-> clientSubs[c], then |-> "leave"])
  /\ UNCHANGED <<tables, server, issued, ghosts>>

(* A subscription leaves its pattern, and the tables.                        *)
Forget(c, id) ==
  /\ subs' = [subs EXCEPT ![id] = NoSub]
  /\ clientSubs' = [clientSubs EXCEPT ![c] = @ \ {id}]

(* A variant the runs must reject: the pattern keeps the subscription.       *)
RemoveFromTablesOnly(c, id) ==
  /\ conn[c].pc = "remove"
  /\ id \in conn[c].todo
  /\ subs[id].to \in Pattern
  /\ Forget(c, id)
  /\ Goto(c, [conn[c] EXCEPT !.todo = @ \ {id}])
  /\ UNCHANGED <<topics, sequence, subscribers, patternSubs, lock, server, issued,
                 ghosts>>

RemoveFromPattern(c, id) ==
  /\ conn[c].pc = "remove"
  /\ id \in conn[c].todo
  /\ subs[id].to \in Pattern
  /\ patternSubs' = [patternSubs EXCEPT ![subs[id].to] = @ \ {id}]
  /\ Forget(c, id)
  /\ Goto(c, [conn[c] EXCEPT !.todo = @ \ {id}])
  /\ UNCHANGED <<topics, sequence, subscribers, lock, server, issued, ghosts>>

(* removeSubscriber, which unsubscribe asserts and unsubscribeAll does not:  *)
(* the assertion raises a Defect, which no handler catches, and gives the   *)
(* lock back.                                                               *)
FindSubscriber(c, id) ==
  LET saw == subscribers[subs[id].to]
  IN  /\ conn[c].pc = "remove"
      /\ id \in conn[c].todo
      /\ subs[id].to \in Topic
      /\ IF id \notin saw /\ conn[c].then = "idle"
         THEN Release("subs") /\ Goto(c, [pc |-> "failed"])
         ELSE /\ Goto(c, [pc |-> "excl", todo |-> conn[c].todo,
                          then |-> conn[c].then, id |-> id, saw |-> saw])
              /\ UNCHANGED lock
      /\ UNCHANGED <<tables, server, issued, ghosts>>

RemoveSubscriber(c) ==
  LET id == conn[c].id
  IN  /\ conn[c].pc = "excl"
      /\ IF id \in conn[c].saw
         THEN SetSubscribers(subs[id].to, conn[c].saw, conn[c].saw \ {id})
         ELSE UNCHANGED <<subscribers, raced>>
      /\ Forget(c, id)
      /\ Goto(c, [pc |-> "remove", todo |-> conn[c].todo \ {id},
                  then |-> conn[c].then])
      /\ UNCHANGED <<topics, sequence, patternSubs, lock, server, issued, events,
                     audit>>

(* All are removed.  A variant the runs must reject keeps the lock.           *)
EndRemoveKeepsLock(c) ==
  /\ conn[c].pc = "remove"
  /\ conn[c].todo = {}
  /\ Goto(c, [pc |-> conn[c].then])
  /\ UNCHANGED <<tables, lock, server, issued, ghosts>>

EndRemove(c) ==
  /\ conn[c].pc = "remove"
  /\ conn[c].todo = {}
  /\ Release("subs")
  /\ Goto(c, [pc |-> conn[c].then])
  /\ UNCHANGED <<tables, server, issued, ghosts>>

(* ... and then the broker.                                                 *)
RemoveClient(c) ==
  /\ conn[c].pc = "leave"
  /\ clients' = clients \ {c}
  /\ Goto(c, [pc |-> "closed"])
  /\ UNCHANGED <<tables, lock, webSockets, issued, ghosts>>

-----------------------------------------------------------------------------
(* publish, and the key-value change hook, which a set or a delete calls in   *)
(* the thread of the connection that asked for it.                          *)

Wanted(sub, t, kind) ==
  /\ sub # NoSub
  /\ sub.to = t \/ <<t, sub.to>> \in Matching
  /\ kind = "kv" => sub.kv

Subscribing(id) ==
  conn[id[1]].pc \in {"limit", "pattern", "topic", "join", "record"} /\ conn[id[1]].id = id
Leaving(id) ==
  \/ conn[id[1]].pc = "close"
  \/ conn[id[1]].pc \in {"remove", "excl"} /\ id \in conn[id[1]].todo

(* The audit of a publish: the subscriptions that are there when it begins,  *)
(* and those that have been removed by then.                                *)
NoAudit == [due |-> {}, gone |-> {}, sent |-> {}]
NewAudit(t, kind) ==
  [due  |-> {id \in SubId : Wanted(subs[id], t, kind) /\ ~Leaving(id)},
   gone |-> {id \in SubId : id[2] <= issued[id[1]] /\ ~Subscribing(id) /\ subs[id] = NoSub},
   sent |-> {}]

Start(c, t, kind, pc) ==
  /\ conn[c] = Idle
  /\ events < MaxEvents
  /\ events' = events + 1
  /\ audit' = [audit EXCEPT ![c] = NewAudit(t, kind)]
  /\ Goto(c, [pc |-> pc, topic |-> t, kind |-> kind, number |-> 0,
              ids |-> {}, targets |-> {}, stamp |-> 0])
  /\ UNCHANGED <<tables, lock, server, issued, raced>>

Publish(c, t, kind) == Start(c, t, kind, "number")
KvChange(c, t) == Start(c, t, "kv", "exact")

Done(c) ==
  /\ Goto(c, Idle)
  /\ audit' = [audit EXCEPT ![c] = NoAudit]

(* getOrCreateTopic and the numbering: two sections under topicsLock, with   *)
(* nothing between them that another thread could change.                   *)
Number(c) ==
  LET t == conn[c].topic
  IN  /\ conn[c].pc = "number"
      /\ Free("topics")
      /\ IF t \notin topics /\ Full
         THEN Done(c) /\ UNCHANGED <<topics, sequence>>
         ELSE /\ topics' = topics \cup {t}
              /\ sequence' = [sequence EXCEPT ![t] = @ + 1]
              /\ Goto(c, [conn[c] EXCEPT !.pc = "exact", !.number = sequence[t] + 1])
              /\ UNCHANGED audit
      /\ UNCHANGED <<subscribers, patternSubs, subs, clientSubs, lock, server, issued,
                     events, raced>>

(* getSubscribersForTopic: the ids under topicsLock, ...                     *)
ExactIds(c) ==
  /\ conn[c].pc = "exact"
  /\ Free("topics")
  /\ Goto(c, [conn[c] EXCEPT !.pc = "exactSubs", !.ids = subscribers[conn[c].topic]])
  /\ UNCHANGED <<tables, lock, server, issued, ghosts>>

(* ... their records under subsLock.  What has been removed in between is    *)
(* left out.  A variant the runs must reject takes what the topic lists.    *)
InterestedUnchecked(c) == conn[c].ids
Interested(c) == {id \in conn[c].ids : Wanted(subs[id], conn[c].topic, conn[c].kind)}

ExactSubs(c) ==
  /\ conn[c].pc = "exactSubs"
  /\ Free("subs")
  /\ Goto(c, [conn[c] EXCEPT !.pc = "patternIds", !.targets = Interested(c)])
  /\ UNCHANGED <<tables, lock, server, issued, ghosts>>

(* getPatternSubscribersForTopic: the same under patternLock and subsLock,   *)
(* and the two lists become one.  A variant the runs must reject keeps the  *)
(* second list only.                                                        *)
PatternIds(c) ==
  /\ conn[c].pc = "patternIds"
  /\ Goto(c, [conn[c] EXCEPT !.pc = "patternSubs",
       !.ids = UNION {patternSubs[p] : p \in {q \in Pattern : <<conn[c].topic, q>> \in Matching}}])
  /\ UNCHANGED <<tables, lock, server, issued, ghosts>>

PatternSubsAlone(c) ==
  /\ conn[c].pc = "patternSubs"
  /\ Free("subs")
  /\ Goto(c, [conn[c] EXCEPT !.pc = "stamp", !.ids = {}, !.targets = Interested(c)])
  /\ UNCHANGED <<tables, lock, server, issued, ghosts>>

PatternSubs(c) ==
  /\ conn[c].pc = "patternSubs"
  /\ Free("subs")
  /\ Goto(c, [conn[c] EXCEPT !.pc = "stamp", !.ids = {},
                             !.targets = @ \cup Interested(c)])
  /\ UNCHANGED <<tables, lock, server, issued, ghosts>>

(* sendToClient, under clientsLock: nothing for a client the broker does not *)
(* know; else an event with the present sequence number of the topic.       *)
Stamp(c, id) ==
  /\ conn[c].pc = "stamp"
  /\ id \in conn[c].targets
  /\ Goto(c, IF id[1] \in clients
             THEN [conn[c] EXCEPT !.pc = "send", !.ids = {id},
                                  !.stamp = sequence[conn[c].topic]]
             ELSE [conn[c] EXCEPT !.targets = @ \ {id}])
  /\ UNCHANGED <<tables, lock, server, issued, ghosts>>

(* The callback of the server sends it, under sessionsLock, if the WebSocket *)
(* is still there.                                                          *)
Send(c) ==
  LET to == {id \in conn[c].ids : id[1] \in webSockets}
  IN  /\ conn[c].pc = "send"
      /\ audit' = [audit EXCEPT ![c].sent = @ \cup to]
      /\ Goto(c, [conn[c] EXCEPT !.pc = "stamp", !.ids = {}, !.stamp = 0,
                                 !.targets = @ \ conn[c].ids])
      /\ UNCHANGED <<tables, lock, server, issued, events, raced>>

(* What follows, the history, has a lock and a numbering of its own.         *)
EndPublish(c) ==
  /\ conn[c].pc = "stamp"
  /\ conn[c].targets = {}
  /\ Done(c)
  /\ UNCHANGED <<tables, lock, server, issued, events, raced>>

-----------------------------------------------------------------------------
Init ==
  /\ topics = {}
  /\ sequence = [t \in Topic |-> 0]
  /\ subscribers = [t \in Topic |-> {}]
  /\ patternSubs = [p \in Pattern |-> {}]
  /\ subs = [id \in SubId |-> NoSub]
  /\ clientSubs = [c \in Client |-> {}]
  /\ lock = [l \in {"topics", "subs"} |-> Nobody]
  /\ clients = {} /\ webSockets = {}
  /\ conn = [c \in Client |-> [pc |-> "new"]]
  /\ issued = [c \in Client |-> 0]
  /\ events = 0
  /\ raced = {}
  /\ audit = [c \in Client |-> NoAudit]

(* What arrives from the network.                                           *)
Event(c) ==
  \/ OpenEvent(c)
  \/ CloseEvent(c)
  \/ \E wish \in Wishes : Subscribe(c, wish[1], wish[2])
  \/ \E ids \in Choices(c) : Unsubscribe(c, ids)
  \/ /\ c \in Publisher
     /\ \E t \in Topic : KvChange(c, t) \/ \E kind \in Published : Publish(c, t, kind)

(* What the thread of the handler does.                                     *)
Handler(c) ==
  \/ AddClient(c)
  \/ CheckLimit(c) \/ AddPattern(c) \/ FindTopic(c) \/ AddSubscriber(c) \/ Record(c)
  \/ UnsubscribeAll(c) \/ RemoveSubscriber(c) \/ EndRemove(c) \/ RemoveClient(c)
  \/ \E id \in SubId : RemoveFromPattern(c, id) \/ FindSubscriber(c, id) \/ Stamp(c, id)
  \/ Number(c) \/ ExactIds(c) \/ ExactSubs(c) \/ PatternIds(c) \/ PatternSubs(c)
  \/ Send(c) \/ EndPublish(c)

Next == \E c \in Client : Event(c) \/ Handler(c)

(* The operating system schedules the worker threads; nothing makes a client *)
(* ask for anything.                                                        *)
Spec == Init /\ [][Next]_vars /\ \A c \in Client : WF_vars(Handler(c))

-----------------------------------------------------------------------------
(* Properties.                                                              *)

AtRest(c) == conn[c].pc \in {"new", "idle", "closed", "failed"}

TypeOK ==
  /\ topics \subseteq Topic
  /\ sequence \in [Topic -> Nat]
  /\ subscribers \in [Topic -> SUBSET SubId]
  /\ patternSubs \in [Pattern -> SUBSET SubId]
  /\ subs \in [SubId -> Sub \cup {NoSub}]
  /\ \A c \in Client : clientSubs[c] \subseteq SubId /\ \A id \in clientSubs[c] : id[1] = c
  /\ lock \in [{"topics", "subs"} -> Client \cup {Nobody}]
  /\ lock["topics"] # Nobody => conn[lock["topics"]].pc = "join"
  /\ lock["subs"] # Nobody => conn[lock["subs"]].pc \in {"remove", "excl"}
  /\ clients \subseteq Client /\ webSockets \subseteq Client
  /\ issued \in [Client -> 0 .. MaxSubs]
  /\ raced \subseteq SubId

(* Between two events of a connection, and after a failed unsubscribe, the    *)
(* three tables tell the same of its subscriptions: a record, an entry of    *)
(* the client, and a place in exactly the topic or the pattern of the        *)
(* record.  After its CloseEvent nothing is left.  Subscriptions hit by a    *)
(* lost update are excepted.                                                *)
TablesAgree ==
  \A c \in Client : AtRest(c) =>
    /\ conn[c].pc = "closed" => clientSubs[c] = {}
    /\ \A id \in SubId : id[1] = c =>
         /\ id \in clientSubs[c] <=> subs[id] # NoSub
         /\ subs[id] # NoSub => subs[id].client = c
         /\ \A p \in Pattern :
              id \in patternSubs[p] <=> subs[id] # NoSub /\ subs[id].to = p
         /\ id \notin raced =>
              \A t \in Topic :
                id \in subscribers[t] <=> subs[id] # NoSub /\ subs[id].to = t

(* A subscription that was there when publish was called, and that nobody    *)
(* has begun to remove when it ends, has been sent the event, whatever other *)
(* connections subscribed, removed or published in the meantime.             *)
EverySubscriberIsServed ==
  \A c \in Client : conn[c].pc = "stamp" /\ conn[c].targets = {} =>
    audit[c].due \ raced \subseteq audit[c].sent

(* A subscription that was gone before publish was called is sent nothing.   *)
NothingAfterUnsubscribe ==
  \A c \in Client : audit[c].sent \cap audit[c].gone = {}

(* Every handler comes to its end: no lock is kept, no two threads wait for  *)
(* each other.                                                              *)
HandlersEnd == \A c \in Client : ~AtRest(c) ~> AtRest(c)

=============================================================================
