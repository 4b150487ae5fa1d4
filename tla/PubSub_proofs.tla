---------------------------- MODULE PubSub_proofs ----------------------------
(***************************************************************************)
(* Proofs about the pub/sub manager, for any connections, topics, patterns  *)
(* and limits: the two locks, the agreement of the tables, and who is sent  *)
(* an event.                                                                *)
(***************************************************************************)
EXTENDS PubSub, FiniteSetTheorems, TLAPS

Resting     == {"new", "open", "idle", "close", "leave", "closed", "failed"}
Subscribers == {"limit", "pattern", "topic", "record"}
Publishing  == {"number", "exact", "exactSubs", "patternIds", "patternSubs", "stamp", "send"}

State ==
  [pc : Resting]
    \cup [pc : Subscribers, id : SubId, sub : Sub]
    \cup [pc : {"join"}, id : SubId, sub : Sub, saw : SUBSET SubId]
    \cup [pc : {"remove"}, todo : SUBSET SubId, then : {"idle", "leave"}]
    \cup [pc : {"excl"}, todo : SUBSET SubId, then : {"idle", "leave"}, id : SubId,
          saw : SUBSET SubId]
    \cup [pc : Publishing, topic : Topic, kind : Kind, number : Nat, ids : SUBSET SubId,
          targets : SUBSET SubId, stamp : Nat]

Audit == [due : SUBSET SubId, gone : SUBSET SubId, sent : SUBSET SubId]

TablesTyped ==
  /\ topics \subseteq Topic
  /\ sequence \in [Topic -> Nat]
  /\ subscribers \in [Topic -> SUBSET SubId]
  /\ patternSubs \in [Pattern -> SUBSET SubId]
  /\ subs \in [SubId -> Sub \cup {NoSub}]
  /\ clientSubs \in [Client -> SUBSET SubId]
  /\ \A c \in Client : \A id \in clientSubs[c] : id[1] = c
  /\ clients \subseteq Client /\ webSockets \subseteq Client
  /\ issued \in [Client -> 0 .. MaxSubs]
  /\ raced \subseteq SubId
  /\ audit \in [Client -> Audit]

\* Whoever is in a section that takes several steps, and nobody else, holds its lock.
Section(l) == IF l = "topics" THEN {"join"} ELSE {"remove", "excl"}
Locks == {"topics", "subs"}
LocksHeld ==
  /\ lock \in [Locks -> Client \cup {Nobody}]
  /\ \A l \in Locks, c \in Client : lock[l] = c <=> conn[c].pc \in Section(l)

Typed == TablesTyped /\ conn \in [Client -> State] /\ LocksHeld

\* A subscription that is being added is new: no record has its id.
Fresh(c) ==
  /\ conn[c].pc \in {"new", "open"} => issued[c] = 0
  /\ conn[c].pc \in Subscribers \cup {"join"} =>
       /\ conn[c].id = <<c, issued[c]>> /\ conn[c].sub.client = c
       /\ subs[conn[c].id] = NoSub
  /\ conn[c].pc = "pattern" => conn[c].sub.to \in Pattern
  /\ conn[c].pc \in {"topic", "join"} => conn[c].sub.to \in Topic
  /\ \A id \in SubId : id[1] = c /\ subs[id] # NoSub => id[2] <= issued[c]

\* manager.subscriptions and manager.clientSubscriptions change together.
Recorded(c) ==
  \A id \in SubId : id[1] = c => /\ id \in clientSubs[c] <=> subs[id] # NoSub
                                 /\ subs[id] # NoSub => subs[id].client = c

\* What is being removed is still recorded; at the end of a connection it is everything.
\* A subscription that is not where it should be has been hit by a lost update.
Removing(c) ==
  /\ conn[c].pc \in {"remove", "excl"} =>
       /\ conn[c].todo \subseteq clientSubs[c]
       /\ conn[c].then = "leave" => conn[c].todo = clientSubs[c]
  /\ conn[c].pc = "excl" =>
       /\ conn[c].id \in conn[c].todo
       /\ subs[conn[c].id].to \in Topic
       /\ conn[c].id \notin conn[c].saw => conn[c].id \in raced
  /\ conn[c].pc \in {"leave", "closed"} => clientSubs[c] = {}

\* A connection is known to the broker and has its WebSocket until its CloseEvent.
Up(c) ==
  /\ conn[c].pc \notin {"new", "open", "close", "leave", "closed"}
  /\ conn[c].pc \in {"remove", "excl"} => conn[c].then = "idle"
Connected(c) ==
  /\ Up(c) => c \in clients /\ c \in webSockets
  /\ conn[c].pc = "open" => c \in webSockets

Books(c) == Fresh(c) /\ Recorded(c) /\ Removing(c) /\ Connected(c)

\* A subscription belongs to a name from the moment it is added there to its removal.
BelongsTo(id, name) ==
  \/ subs[id] # NoSub /\ subs[id].to = name
  \/ conn[id[1]].pc = "record" /\ conn[id[1]].id = id /\ conn[id[1]].sub.to = name

Listed ==
  \A id \in SubId :
    /\ \A p \in Pattern : id \in patternSubs[p] <=> BelongsTo(id, p)
    /\ id \notin raced => \A t \in Topic : id \in subscribers[t] <=> BelongsTo(id, t)

\* What was gone when a publish began stays gone, and is never among its targets.
Gone(id) == id[2] <= issued[id[1]] /\ ~Subscribing(id) /\ subs[id] = NoSub
Shunned(c) ==
  /\ \A id \in audit[c].gone : Gone(id)
  /\ audit[c].sent \cap audit[c].gone = {}
  /\ conn[c].pc \in Publishing => conn[c].targets \cap audit[c].gone = {}
  /\ conn[c].pc = "send" => conn[c].ids \subseteq conn[c].targets

\* Where a publish keeps a subscription that it owes the event.
Kept(c, id) ==
  LET to == subs[id].to IN
  /\ conn[c].pc = "exactSubs" /\ to = conn[c].topic => id \in conn[c].ids
  /\ conn[c].pc = "patternIds" /\ to = conn[c].topic => id \in conn[c].targets
  /\ conn[c].pc = "patternSubs" => id \in conn[c].targets \cup conn[c].ids
  /\ conn[c].pc \in {"stamp", "send"} => id \in conn[c].targets \cup audit[c].sent

Owed(c) ==
  conn[c].pc \in Publishing =>
    \A id \in audit[c].due :
      /\ Wanted(subs[id], conn[c].topic, conn[c].kind)
      /\ ~Leaving(id)
      /\ id \notin raced => Kept(c, id)

IInv ==
  /\ Typed
  /\ \A c \in Client : Books(c) /\ Shunned(c) /\ Owed(c)
  /\ Listed

-----------------------------------------------------------------------------
(* Types.                                                                   *)

\* What the fields of a state are, by its program counter.
LEMMA StateFacts ==
  ASSUME NEW s \in State
  PROVE  /\ s.pc \in Resting \cup Subscribers \cup {"join", "remove", "excl"} \cup Publishing
         /\ s.pc \in Subscribers \cup {"join"} => s.id \in SubId /\ s.sub \in Sub
         /\ s.pc \in Subscribers =>
              \A pc \in Subscribers : [s EXCEPT !.pc = pc] \in
                                        [pc : Subscribers, id : SubId, sub : Sub]
         /\ s.pc \in {"join", "excl"} => s.saw \in SUBSET SubId
         /\ s.pc \in {"remove", "excl"} => s.todo \in SUBSET SubId /\ s.then \in {"idle", "leave"}
         /\ s.pc = "excl" => s.id \in SubId
         /\ s.pc \in Publishing =>
              /\ s.topic \in Topic /\ s.kind \in Kind /\ s.number \in Nat
              /\ s.ids \in SUBSET SubId /\ s.targets \in SUBSET SubId /\ s.stamp \in Nat
BY DEF State, Resting, Subscribers, Publishing

LEMMA NewState ==
  ASSUME conn \in [Client -> State], NEW c \in Client, NEW s \in State, Goto(c, s)
  PROVE  /\ conn' \in [Client -> State]
         /\ conn'[c] = s /\ \A d \in Client \ {c} : conn'[d] = conn[d]
BY DEF Goto

LEMMA States ==
  /\ \A pc \in Resting : [pc |-> pc] \in State
  /\ \A pc \in Subscribers, id \in SubId, sub \in Sub :
       [pc |-> pc, id |-> id, sub |-> sub] \in State
  /\ \A id \in SubId, sub \in Sub, saw \in SUBSET SubId :
       [pc |-> "join", id |-> id, sub |-> sub, saw |-> saw] \in State
  /\ \A todo \in SUBSET SubId, then \in {"idle", "leave"} :
       [pc |-> "remove", todo |-> todo, then |-> then] \in State
  /\ \A todo, saw \in SUBSET SubId, then \in {"idle", "leave"}, id \in SubId :
       [pc |-> "excl", todo |-> todo, then |-> then, id |-> id, saw |-> saw] \in State
BY DEF State

\* The lock of a section is kept, taken and given back with it.
LEMMA LocksKept ==
  ASSUME LocksHeld, conn \in [Client -> State], NEW c \in Client, NEW s \in State,
         Goto(c, s), UNCHANGED lock, \A l \in Locks : s.pc \in Section(l) <=> conn[c].pc \in Section(l)
  PROVE  LocksHeld'
BY NewState DEF LocksHeld

LEMMA LockTaken ==
  ASSUME LocksHeld, conn \in [Client -> State], NEW c \in Client, NEW s \in State,
         Goto(c, s), NEW l \in Locks, Free(l), Take(l, c), s.pc \in Section(l),
         conn[c].pc \notin {"join", "remove", "excl"}
  PROVE  LocksHeld'
<1>1. /\ lock' \in [Locks -> Client \cup {Nobody}]
      /\ lock'[l] = c /\ \A m \in Locks \ {l} : lock'[m] = lock[m]
  BY DEF LocksHeld, Take
<1>2. \A m \in Locks \ {l} : s.pc \notin Section(m)
  BY DEF Locks, Section
<1>3. \A d \in Client : conn[d].pc \notin Section(l)
  BY NameAssumption DEF LocksHeld, Free
<1> QED
  BY <1>1, <1>2, <1>3, NewState DEF LocksHeld, Section

LEMMA LockReleased ==
  ASSUME LocksHeld, conn \in [Client -> State], NEW c \in Client, NEW s \in State,
         Goto(c, s), NEW l \in Locks, Release(l), conn[c].pc \in Section(l),
         s.pc \notin {"join", "remove", "excl"}
  PROVE  LocksHeld'
<1>1. /\ lock' \in [Locks -> Client \cup {Nobody}]
      /\ lock'[l] = Nobody /\ \A m \in Locks \ {l} : lock'[m] = lock[m]
  BY DEF LocksHeld, Release
<1>2. \A m \in Locks \ {l} : conn[c].pc \notin Section(m)
  BY DEF Locks, Section
<1>3. \A d \in Client \ {c} : conn[d].pc \notin Section(l)
  BY DEF LocksHeld
<1> QED
  BY <1>1, <1>2, <1>3, NewState, NameAssumption DEF LocksHeld, Section

LEMMA TypedFrame ==
  ASSUME Typed, NEW c \in Client, NEW s \in State, Goto(c, s), TablesTyped', LocksHeld'
  PROVE  Typed'
BY NewState DEF Typed

-----------------------------------------------------------------------------
(* What a step of one connection leaves alone.                              *)

Local(c) ==
  /\ conn' \in [Client -> State]
  /\ \A d \in Client \ {c} :
       /\ conn'[d] = conn[d] /\ clientSubs'[d] = clientSubs[d] /\ issued'[d] = issued[d]
       /\ d \in clients' <=> d \in clients
       /\ d \in webSockets' <=> d \in webSockets
  /\ \A id \in SubId : id[1] # c => subs'[id] = subs[id]
  /\ raced \subseteq raced'

LEMMA SubIds == \A id \in SubId : id[1] \in Client /\ id[2] \in 1 .. MaxSubs /\ id = <<id[1], id[2]>>
BY DEF SubId

LEMMA OwnIds ==
  ASSUME IInv, NEW c \in Client
  PROVE  /\ conn[c] \in State /\ clientSubs[c] \in SUBSET SubId
         /\ \A id \in clientSubs[c] : id \in SubId /\ id[1] = c /\ subs[id] # NoSub
         /\ conn[c].pc \in Subscribers \cup {"join"} =>
              conn[c].id \in SubId /\ conn[c].id[1] = c /\ conn[c].id[2] = issued[c]
         /\ conn[c].pc \in {"remove", "excl"} => \A id \in conn[c].todo : id \in clientSubs[c]
         /\ conn[c].pc = "excl" => conn[c].id \in clientSubs[c]
<1>1. conn[c] \in State /\ clientSubs[c] \in SUBSET SubId
  BY DEF IInv, Typed, TablesTyped
<1>2. \A id \in clientSubs[c] : id \in SubId /\ id[1] = c /\ subs[id] # NoSub
  BY <1>1 DEF IInv, Typed, TablesTyped, Books, Recorded
<1>3. conn[c].pc \in Subscribers \cup {"join"} =>
        conn[c].id \in SubId /\ conn[c].id[1] = c /\ conn[c].id[2] = issued[c]
  BY <1>1, StateFacts DEF IInv, Books, Fresh
<1>4. /\ conn[c].pc \in {"remove", "excl"} => \A id \in conn[c].todo : id \in clientSubs[c]
      /\ conn[c].pc = "excl" => conn[c].id \in clientSubs[c]
  BY DEF IInv, Books, Removing
<1> QED
  BY <1>1, <1>2, <1>3, <1>4

LEMMA OthersBooks ==
  ASSUME IInv, NEW c \in Client, Local(c), NEW d \in Client \ {c}
  PROVE  Books(d)'
<1>1. /\ conn'[d] = conn[d] /\ clientSubs'[d] = clientSubs[d] /\ issued'[d] = issued[d]
      /\ d \in clients' <=> d \in clients
      /\ d \in webSockets' <=> d \in webSockets
      /\ raced \subseteq raced'
  BY DEF Local
<1>2. \A id \in SubId : id[1] = d => subs'[id] = subs[id]
  BY DEF Local
<1>3. Books(d)
  BY DEF IInv
<1>4. Fresh(d)'
  BY <1>1, <1>2, <1>3, OwnIds DEF Books, Fresh
<1>5. Recorded(d)'
  BY <1>1, <1>2, <1>3 DEF Books, Recorded
<1>6. Removing(d)'
  BY <1>1, <1>2, <1>3, OwnIds DEF Books, Removing
<1>7. Connected(d)'
  BY <1>1, <1>3 DEF Books, Connected, Up
<1> QED
  BY <1>4, <1>5, <1>6, <1>7 DEF Books

\* A step of a connection that is not publishing.
LEMMA AuditFrame ==
  ASSUME IInv, NEW c \in Client, Local(c),
         conn[c].pc \notin Publishing, conn'[c].pc \notin Publishing,
         \A d \in Client : /\ audit'[d].gone = audit[d].gone
                           /\ audit'[d].sent = audit[d].sent
                           /\ audit'[d].due \subseteq audit[d].due,
         \A id \in SubId : id[1] = c /\ Gone(id) => Gone(id)',
         \A d \in Client : \A id \in audit'[d].due :
           conn[d].pc \in Publishing /\ id[1] = c =>
             subs'[id] = subs[id] /\ (Leaving(id)' => Leaving(id))
  PROVE  \A d \in Client : Shunned(d)' /\ Owed(d)'
<1>1. \A id \in SubId : Gone(id) => Gone(id)'
  <2> SUFFICES ASSUME NEW id \in SubId, id[1] # c, Gone(id) PROVE Gone(id)'
    OBVIOUS
  <2> QED
    BY SubIds DEF Local, Gone, Subscribing
<1> SUFFICES ASSUME NEW d \in Client PROVE Shunned(d)' /\ Owed(d)'
  OBVIOUS
<1>2. /\ Shunned(d) /\ Owed(d) /\ audit[d] \in Audit
      /\ audit'[d].gone = audit[d].gone /\ audit'[d].sent = audit[d].sent
      /\ audit'[d].due \subseteq audit[d].due /\ raced \subseteq raced'
  BY DEF IInv, Typed, TablesTyped, Local
<1>3. d # c => conn'[d] = conn[d]
  BY DEF Local
<1>4. Shunned(d)'
  <2>1. \A id \in audit'[d].gone : Gone(id)'
    BY <1>1, <1>2 DEF Shunned, Audit
  <2> QED
    BY <2>1, <1>2, <1>3 DEF Shunned, Publishing
<1>5. Owed(d)'
  <2> SUFFICES ASSUME d # c, conn[d].pc \in Publishing, NEW id \in audit'[d].due
               PROVE  /\ Wanted(subs'[id], conn[d].topic, conn[d].kind)
                      /\ ~Leaving(id)'
                      /\ id \notin raced' => Kept(d, id)'
    BY <1>3 DEF Owed
  <2>1. id \in SubId /\ id[1] \in Client
    BY <1>2, SubIds DEF Audit
  <2>2. subs'[id] = subs[id] /\ (Leaving(id)' => Leaving(id))
    <3>1. CASE id[1] = c
      BY <3>1
    <3>2. CASE id[1] # c
      BY <3>2, <2>1 DEF Local, Leaving
    <3> QED
      BY <3>1, <3>2
  <2>3. Kept(d, id) => Kept(d, id)'
    BY <1>2, <1>3, <2>2 DEF Kept
  <2> QED
    BY <1>2, <2>2, <2>3 DEF Owed
<1> QED
  BY <1>4, <1>5

LEMMA ListedFrame ==
  ASSUME IInv, NEW c \in Client, Local(c), UNCHANGED <<patternSubs, subscribers>>,
         \A id \in SubId, name \in Topic \cup Pattern :
           id[1] = c => BelongsTo(id, name)' = BelongsTo(id, name)
  PROVE  Listed'
<1>1. \A id \in SubId, name \in Topic \cup Pattern : BelongsTo(id, name)' <=> BelongsTo(id, name)
  <2> SUFFICES ASSUME NEW id \in SubId, NEW name, id[1] # c
               PROVE  BelongsTo(id, name)' <=> BelongsTo(id, name)
    OBVIOUS
  <2> QED
    BY SubIds DEF BelongsTo, Local
<1> QED
  BY <1>1 DEF IInv, Listed, Local

\* A step of a publish changes no table but the numbers of the topic.
PublishStep(c, s) ==
  /\ s \in State /\ Goto(c, s)
  /\ conn[c].pc \in Publishing \cup {"idle"} /\ s.pc \in Publishing \cup {"idle"}
  /\ UNCHANGED <<subscribers, patternSubs, subs, clientSubs, lock, server, issued, raced>>
  /\ topics' \subseteq Topic /\ sequence' \in [Topic -> Nat]
  /\ audit' \in [Client -> Audit]
  /\ \A d \in Client \ {c} : audit'[d] = audit[d]

LEMMA PublishKeeps ==
  ASSUME Typed, NEW c \in Client, NEW s, PublishStep(c, s)
  PROVE  /\ conn'[c] = s /\ \A d \in Client \ {c} : conn'[d] = conn[d]
         /\ conn[c] \in State /\ audit[c] \in Audit /\ s \in State
         /\ UNCHANGED <<subs, subscribers, patternSubs, raced>>
         /\ subscribers \in [Topic -> SUBSET SubId] /\ patternSubs \in [Pattern -> SUBSET SubId]
         /\ \A id \in SubId : Gone(id) => Gone(id)'
         /\ \A id \in SubId : Leaving(id)' => Leaving(id)
<1>1. /\ conn'[c] = s /\ \A d \in Client \ {c} : conn'[d] = conn[d]
      /\ conn[c] \in State /\ audit[c] \in Audit /\ s \in State
  BY NewState DEF PublishStep, Typed, TablesTyped
<1>2. \A id \in SubId : Gone(id) => Gone(id)'
  BY <1>1, SubIds DEF Gone, Subscribing, Publishing, PublishStep
<1>3. \A id \in SubId : Leaving(id)' => Leaving(id)
  BY <1>1, SubIds DEF Leaving, Publishing, PublishStep
<1> QED
  BY <1>1, <1>2, <1>3 DEF PublishStep, Typed, TablesTyped

LEMMA PublishFrame ==
  ASSUME IInv, NEW c \in Client, NEW s, PublishStep(c, s), Shunned(c)', Owed(c)'
  PROVE  IInv'
<1>0. /\ Typed /\ TablesTyped /\ LocksHeld /\ conn \in [Client -> State]
      /\ Books(c) /\ Listed
  BY DEF IInv, Typed
<1>1. /\ conn' \in [Client -> State] /\ conn[c] \in State
      /\ conn'[c] = s /\ \A d \in Client \ {c} : conn'[d] = conn[d]
  BY <1>0, NewState DEF PublishStep
<1>2. Local(c)
  BY <1>1 DEF Local, server, PublishStep
<1>3. Typed'
  <2>1. LocksHeld'
    BY <1>0, LocksKept DEF Section, Publishing, PublishStep
  <2>2. TablesTyped'
    BY <1>0 DEF TablesTyped, server, PublishStep
  <2> QED
    BY <1>0, <2>1, <2>2, TypedFrame DEF PublishStep
<1>4. Books(c)'
  BY <1>0, <1>1 DEF Books, Fresh, Recorded, Removing, Connected, Up, server, Publishing,
                    Subscribers, PublishStep
<1>5. Listed'
  <2>1. \A id \in SubId, name \in Topic \cup Pattern :
          id[1] = c => BelongsTo(id, name)' = BelongsTo(id, name)
    BY <1>0, <1>1 DEF BelongsTo, Publishing, PublishStep
  <2> QED
    BY <1>2, <2>1, ListedFrame DEF PublishStep
<1>6. ASSUME NEW d \in Client \ {c} PROVE Shunned(d)' /\ Owed(d)'
  <2>1. /\ audit'[d] = audit[d] /\ audit[d] \in Audit /\ conn'[d] = conn[d]
        /\ Shunned(d) /\ Owed(d)
    BY <1>0, <1>1 DEF TablesTyped, IInv, PublishStep
  <2>2. Shunned(d)'
    BY <1>0, <2>1, PublishKeeps DEF Shunned, Audit
  <2>3. Owed(d)'
    BY <1>0, <2>1, PublishKeeps DEF Owed, Kept, Audit
  <2> QED
    BY <2>2, <2>3
<1> QED
  BY <1>2, <1>3, <1>4, <1>5, <1>6, OthersBooks DEF IInv

-----------------------------------------------------------------------------
(* The steps of a publish.                                                  *)

LEMMA PublishStates ==
  ASSUME NEW s \in State, s.pc \in Publishing
  PROVE  /\ \A pc \in Publishing : [s EXCEPT !.pc = pc] \in State
         /\ \A n \in Nat : [s EXCEPT !.pc = "exact", !.number = n] \in State
BY DEF State, Publishing, Resting, Subscribers

LEMMA StartStep ==
  ASSUME IInv, NEW c \in Client, NEW t \in Topic, NEW kind \in Kind,
         NEW pc \in {"number", "exact"}, Start(c, t, kind, pc)
  PROVE  IInv'
<1> DEFINE s == [pc |-> pc, topic |-> t, kind |-> kind, number |-> 0,
                 ids |-> {}, targets |-> {}, stamp |-> 0]
<1>0. Typed /\ TablesTyped
  BY DEF IInv, Typed
<1>1. s \in State
  BY DEF State, Publishing
<1>2. NewAudit(t, kind) \in Audit
  BY DEF NewAudit, Audit
<1>3. PublishStep(c, s)
  <2>1. /\ audit' \in [Client -> Audit]
        /\ \A d \in Client \ {c} : audit'[d] = audit[d]
    BY <1>0, <1>2 DEF Start, TablesTyped
  <2>2. conn[c].pc = "idle" /\ s.pc \in Publishing
    BY DEF Start, Idle, Publishing
  <2>3. Goto(c, s)
    BY DEF Start
  <2> QED
    BY <1>0, <1>1, <2>1, <2>2, <2>3 DEF Start, PublishStep, tables, TablesTyped
<1>4. audit'[c] = NewAudit(t, kind)
  BY <1>0 DEF Start, TablesTyped
<1>5. Shunned(c)'
  <2>1. \A id \in NewAudit(t, kind).gone : id \in SubId /\ Gone(id)
    BY DEF NewAudit, Gone
  <2> QED
    BY <1>0, <1>3, <1>4, <2>1, PublishKeeps DEF Shunned, NewAudit
<1>6. Owed(c)'
  <2>1. \A id \in NewAudit(t, kind).due :
          id \in SubId /\ Wanted(subs[id], t, kind) /\ ~Leaving(id)
    BY DEF NewAudit
  <2>2. conn'[c] = s
    BY <1>0, <1>3, PublishKeeps
  <2>3. conn'[c].pc \in {"number", "exact"} /\ conn'[c].topic = t /\ conn'[c].kind = kind
    BY <2>2
  <2>4. \A id \in SubId : Kept(c, id)'
    BY <2>3 DEF Kept
  <2> QED
    BY <1>0, <1>3, <1>4, <2>1, <2>3, <2>4, PublishKeeps DEF Owed
<1> QED
  BY <1>3, <1>5, <1>6, PublishFrame

\* A publish ends, or fails to begin.
LEMMA DoneStep ==
  ASSUME IInv, NEW c \in Client, conn[c].pc \in Publishing, Done(c),
         UNCHANGED <<tables, lock, server, issued, events, raced>>
  PROVE  IInv'
<1>0. Typed /\ TablesTyped
  BY DEF IInv, Typed
<1>1. Idle \in State /\ NoAudit \in Audit
  BY States DEF Idle, Resting, NoAudit, Audit
<1>2. PublishStep(c, Idle)
  BY <1>0, <1>1 DEF Done, PublishStep, Idle, tables, TablesTyped
<1>3. audit'[c] = NoAudit
  BY <1>0 DEF Done, TablesTyped
<1>4. conn'[c].pc = "idle"
  BY <1>0, <1>2, PublishKeeps DEF Idle
<1>5. Shunned(c)'
  BY <1>3, <1>4 DEF Shunned, NoAudit, Publishing, Gone
<1>6. Owed(c)'
  BY <1>4 DEF Owed, Publishing
<1> QED
  BY <1>2, <1>5, <1>6, PublishFrame

LEMMA NumberStep ==
  ASSUME IInv, NEW c \in Client, Number(c)
  PROVE  IInv'
<1> DEFINE t == conn[c].topic
           s == [conn[c] EXCEPT !.pc = "exact", !.number = sequence[t] + 1]
<1>0. /\ Typed /\ TablesTyped /\ conn[c] \in State /\ conn[c].pc = "number"
      /\ Shunned(c) /\ Owed(c)
  BY DEF IInv, Typed, Number
<1>1. t \in Topic /\ sequence[t] \in Nat
  BY <1>0, StateFacts DEF Publishing, TablesTyped
<1>2. CASE t \notin topics /\ Full
  BY <1>0, <1>2, DoneStep DEF Number, Publishing, tables
<1>3. CASE ~(t \notin topics /\ Full)
  <2>1. s \in State
    <3>1. sequence[t] + 1 \in Nat
      BY <1>1
    <3> HIDE DEF t
    <3> QED
      BY <1>0, <3>1, PublishStates DEF Publishing
  <2>2. /\ s.pc = "exact" /\ s.topic = t /\ s.kind = conn[c].kind
        /\ s.targets = conn[c].targets /\ s.ids = conn[c].ids
    BY <1>0 DEF State, Publishing, Resting, Subscribers
  <2>3. PublishStep(c, s)
    BY <1>0, <1>1, <1>3, <2>1, <2>2 DEF Number, PublishStep, TablesTyped, Publishing
  <2>4. audit' = audit
    BY <1>3 DEF Number
  <2>5. Shunned(c)' /\ Owed(c)'
    BY <1>0, <2>2, <2>3, <2>4, PublishKeeps DEF Shunned, Owed, Kept, Audit, Publishing
  <2> QED
    BY <2>3, <2>5, PublishFrame
<1> QED
  BY <1>2, <1>3

LEMMA ExactIdsStep ==
  ASSUME IInv, NEW c \in Client, ExactIds(c)
  PROVE  IInv'
<1> DEFINE t == conn[c].topic
           s == [conn[c] EXCEPT !.pc = "exactSubs", !.ids = subscribers[t]]
<1>0. /\ Typed /\ TablesTyped /\ conn[c] \in State /\ conn[c].pc = "exact"
      /\ Shunned(c) /\ Owed(c) /\ Listed
  BY DEF IInv, Typed, ExactIds
<1>1. t \in Topic /\ subscribers[t] \in SUBSET SubId
  BY <1>0, StateFacts DEF Publishing, TablesTyped
<1>2. /\ s \in State
      /\ s.pc = "exactSubs" /\ s.topic = t /\ s.kind = conn[c].kind
      /\ s.targets = conn[c].targets /\ s.ids = subscribers[t]
  BY <1>0, <1>1 DEF State, Publishing, Resting, Subscribers
<1>3. PublishStep(c, s) /\ audit' = audit
  BY <1>0, <1>1, <1>2 DEF ExactIds, PublishStep, TablesTyped, Publishing, tables, ghosts
<1>4. conn'[c] = s
  BY <1>0, <1>3, PublishKeeps
<1>5. Shunned(c)'
  BY <1>0, <1>2, <1>3, <1>4, PublishKeeps DEF Shunned, Audit, Publishing
<1>6. ASSUME NEW id \in audit[c].due, id \notin raced PROVE Kept(c, id)'
  <2>1. id \in SubId /\ subs[id] # NoSub
    BY <1>0, <1>3, PublishKeeps DEF Owed, Audit, Wanted, Publishing
  <2>2. subs[id].to = t => id \in subscribers[t]
    BY <1>0, <1>1, <1>6, <2>1 DEF Listed, BelongsTo
  <2> QED
    BY <1>0, <1>2, <1>3, <1>4, <2>2, PublishKeeps DEF Kept
<1>7. Owed(c)'
  BY <1>0, <1>2, <1>3, <1>4, <1>6, PublishKeeps DEF Owed, Audit, Publishing
<1> QED
  BY <1>3, <1>5, <1>7, PublishFrame

LEMMA InterestedFacts ==
  ASSUME Typed, NEW c \in Client, conn[c].pc \in Publishing
  PROVE  /\ Interested(c) \in SUBSET SubId
         /\ \A id \in Interested(c) : subs[id] # NoSub
BY StateFacts DEF Interested, Wanted, Typed

LEMMA ExactSubsStep ==
  ASSUME IInv, NEW c \in Client, ExactSubs(c)
  PROVE  IInv'
<1> DEFINE s == [conn[c] EXCEPT !.pc = "patternIds", !.targets = Interested(c)]
<1>0. /\ Typed /\ TablesTyped /\ conn[c] \in State /\ conn[c].pc = "exactSubs"
      /\ Shunned(c) /\ Owed(c)
  BY DEF IInv, Typed, ExactSubs
<1>1. Interested(c) \in SUBSET SubId /\ \A id \in Interested(c) : subs[id] # NoSub
  BY <1>0, InterestedFacts DEF Publishing
<1>2. /\ s \in State
      /\ s.pc = "patternIds" /\ s.topic = conn[c].topic /\ s.kind = conn[c].kind
      /\ s.targets = Interested(c) /\ s.ids = conn[c].ids
  BY <1>0, <1>1 DEF State, Publishing, Resting, Subscribers
<1>3. PublishStep(c, s) /\ audit' = audit
  BY <1>0, <1>1, <1>2 DEF ExactSubs, PublishStep, TablesTyped, Publishing, tables, ghosts
<1>4. conn'[c] = s
  BY <1>0, <1>3, PublishKeeps
<1>5. Shunned(c)'
  <2>1. Interested(c) \cap audit[c].gone = {}
    BY <1>0, <1>1 DEF Shunned, Gone
  <2> QED
    BY <1>0, <1>2, <1>3, <1>4, <2>1, PublishKeeps DEF Shunned, Audit, Publishing
<1>6. ASSUME NEW id \in audit[c].due, id \notin raced PROVE Kept(c, id)'
  <2>1. Wanted(subs[id], conn[c].topic, conn[c].kind) /\ Kept(c, id)
    BY <1>0, <1>6 DEF Owed, Publishing
  <2>2. subs[id].to = conn[c].topic => id \in Interested(c)
    BY <1>0, <2>1 DEF Kept, Interested
  <2> QED
    BY <1>0, <1>2, <1>3, <1>4, <2>2, PublishKeeps DEF Kept
<1>7. Owed(c)'
  BY <1>0, <1>2, <1>3, <1>4, <1>6, PublishKeeps DEF Owed, Audit, Publishing
<1> QED
  BY <1>3, <1>5, <1>7, PublishFrame

LEMMA PatternIdsStep ==
  ASSUME IInv, NEW c \in Client, PatternIds(c)
  PROVE  IInv'
<1> DEFINE t   == conn[c].topic
           ids == UNION {patternSubs[p] : p \in {q \in Pattern : <<t, q>> \in Matching}}
           s   == [conn[c] EXCEPT !.pc = "patternSubs", !.ids = ids]
<1>0. /\ Typed /\ TablesTyped /\ conn[c] \in State /\ conn[c].pc = "patternIds"
      /\ Shunned(c) /\ Owed(c) /\ Listed
  BY DEF IInv, Typed, PatternIds
<1>1. ids \in SUBSET SubId
  <2>1. \A p \in Pattern : patternSubs[p] \subseteq SubId
    BY <1>0 DEF TablesTyped
  <2> QED
    BY <2>1
<1>2. /\ s \in State
      /\ s.pc = "patternSubs" /\ s.topic = t /\ s.kind = conn[c].kind
      /\ s.targets = conn[c].targets /\ s.ids = ids
  <2> HIDE DEF ids
  <2> QED
    BY <1>0, <1>1 DEF State, Publishing, Resting, Subscribers
<1>3. PublishStep(c, s) /\ audit' = audit
  BY <1>0, <1>1, <1>2 DEF PatternIds, PublishStep, TablesTyped, Publishing, tables, ghosts
<1>4. conn'[c] = s
  BY <1>0, <1>3, PublishKeeps
<1>5. Shunned(c)'
  BY <1>0, <1>2, <1>3, <1>4, PublishKeeps DEF Shunned, Audit, Publishing
<1>6. ASSUME NEW id \in audit[c].due, id \notin raced PROVE Kept(c, id)'
  <2>1. Wanted(subs[id], t, conn[c].kind) /\ Kept(c, id) /\ id \in SubId
    BY <1>0, <1>3, <1>6, PublishKeeps DEF Owed, Publishing, Audit
  <2>2. CASE subs[id].to = t
    BY <1>0, <1>2, <1>3, <1>4, <2>1, <2>2, PublishKeeps DEF Kept
  <2>3. CASE <<t, subs[id].to>> \in Matching
    <3>1. subs[id].to \in Pattern
      BY <2>3, MatchingAssumption
    <3>2. id \in patternSubs[subs[id].to]
      BY <1>0, <2>1, <3>1 DEF Listed, BelongsTo, Wanted
    <3>3. id \in ids
      BY <2>3, <3>1, <3>2
    <3> QED
      BY <1>0, <1>2, <1>3, <1>4, <3>3, PublishKeeps DEF Kept
  <2> QED
    BY <2>1, <2>2, <2>3 DEF Wanted
<1>7. Owed(c)'
  BY <1>0, <1>2, <1>3, <1>4, <1>6, PublishKeeps DEF Owed, Audit, Publishing
<1> QED
  BY <1>3, <1>5, <1>7, PublishFrame

LEMMA PatternSubsStep ==
  ASSUME IInv, NEW c \in Client, PatternSubs(c)
  PROVE  IInv'
<1> DEFINE targets == conn[c].targets \cup Interested(c)
           s       == [conn[c] EXCEPT !.pc = "stamp", !.ids = {}, !.targets = targets]
<1>0. /\ Typed /\ TablesTyped /\ conn[c] \in State /\ conn[c].pc = "patternSubs"
      /\ Shunned(c) /\ Owed(c)
  BY DEF IInv, Typed, PatternSubs
<1>1. Interested(c) \in SUBSET SubId /\ \A id \in Interested(c) : subs[id] # NoSub
  BY <1>0, InterestedFacts DEF Publishing
<1>2. /\ s \in State
      /\ s.pc = "stamp" /\ s.topic = conn[c].topic /\ s.kind = conn[c].kind
      /\ s.targets = targets /\ s.ids = {}
  BY <1>0, <1>1 DEF State, Publishing, Resting, Subscribers
<1>3. PublishStep(c, s) /\ audit' = audit
  <2>1. Goto(c, s)
    BY <1>0, <1>1 DEF PatternSubs, Goto, State, Publishing, Resting, Subscribers
  <2> QED
    BY <1>0, <1>1, <1>2, <2>1 DEF PatternSubs, PublishStep, TablesTyped, Publishing, tables, ghosts
<1>4. conn'[c] = s
  BY <1>0, <1>3, PublishKeeps
<1>5. Shunned(c)'
  <2>1. Interested(c) \cap audit[c].gone = {}
    BY <1>0, <1>1 DEF Shunned, Gone
  <2> QED
    BY <1>0, <1>2, <1>3, <1>4, <2>1, PublishKeeps DEF Shunned, Audit, Publishing
<1>6. ASSUME NEW id \in audit[c].due, id \notin raced PROVE Kept(c, id)'
  <2>1. Wanted(subs[id], conn[c].topic, conn[c].kind) /\ Kept(c, id)
    BY <1>0, <1>6 DEF Owed, Publishing
  <2>2. id \in targets
    BY <1>0, <2>1 DEF Kept, Interested
  <2> QED
    BY <1>0, <1>2, <1>3, <1>4, <2>2, PublishKeeps DEF Kept
<1>7. Owed(c)'
  BY <1>0, <1>2, <1>3, <1>4, <1>6, PublishKeeps DEF Owed, Audit, Publishing
<1> QED
  BY <1>3, <1>5, <1>7, PublishFrame

\* Whom a publish owes an event is up: the broker knows it, and its WebSocket is open.
LEMMA OwedAreUp ==
  ASSUME IInv, NEW id \in SubId, subs[id] # NoSub, ~Leaving(id)
  PROVE  id[1] \in clients /\ id[1] \in webSockets
<1> DEFINE d == id[1]
<1>1. d \in Client /\ id[2] \in 1 .. MaxSubs /\ conn[d] \in State
  BY SubIds DEF IInv, Typed
<1>2. Books(d) /\ id \in clientSubs[d]
  BY <1>1 DEF IInv, Books, Recorded
<1>3. conn[d].pc \notin {"new", "open"}
  BY <1>1, <1>2 DEF Books, Fresh
<1>4. conn[d].pc \notin {"close", "leave", "closed"}
  BY <1>2 DEF Leaving, Books, Removing
<1>5. conn[d].pc \in {"remove", "excl"} => conn[d].then = "idle"
  BY <1>1, <1>2, StateFacts DEF Leaving, Books, Removing
<1> QED
  BY <1>2, <1>3, <1>4, <1>5 DEF Books, Connected, Up

LEMMA StampStep ==
  ASSUME IInv, NEW c \in Client, NEW id \in SubId, Stamp(c, id)
  PROVE  IInv'
<1> DEFINE known   == [conn[c] EXCEPT !.pc = "send", !.ids = {id},
                                      !.stamp = sequence[conn[c].topic]]
           unknown == [conn[c] EXCEPT !.targets = @ \ {id}]
           s       == IF id[1] \in clients THEN known ELSE unknown
<1>0. /\ Typed /\ TablesTyped /\ conn[c] \in State /\ conn[c].pc = "stamp"
      /\ Shunned(c) /\ Owed(c) /\ id \in conn[c].targets
  BY DEF IInv, Typed, Stamp
<1>1. sequence[conn[c].topic] \in Nat
  BY <1>0, StateFacts DEF Publishing, TablesTyped
<1>2. /\ known \in State /\ known.pc = "send" /\ known.topic = conn[c].topic
      /\ known.kind = conn[c].kind /\ known.targets = conn[c].targets /\ known.ids = {id}
  BY <1>0, <1>1 DEF State, Publishing, Resting, Subscribers
<1>3. /\ unknown \in State /\ unknown.pc = "stamp" /\ unknown.topic = conn[c].topic
      /\ unknown.kind = conn[c].kind /\ unknown.targets = conn[c].targets \ {id}
  BY <1>0 DEF State, Publishing, Resting, Subscribers
<1>4. PublishStep(c, s) /\ audit' = audit
  <2>1. Goto(c, s)
    BY DEF Stamp
  <2>2. s \in State /\ s.pc \in Publishing
    BY <1>2, <1>3 DEF Publishing
  <2> QED
    BY <1>0, <2>1, <2>2 DEF Stamp, PublishStep, TablesTyped, Publishing, tables, ghosts
<1>5. conn'[c] = s
  BY <1>0, <1>4, PublishKeeps
<1>6. /\ s.topic = conn[c].topic /\ s.kind = conn[c].kind
      /\ s.pc \in {"stamp", "send"} /\ s.targets \subseteq conn[c].targets
      /\ s.pc = "send" => s.ids \subseteq s.targets
      /\ \A x \in conn[c].targets : (x = id /\ id[1] \notin clients) \/ x \in s.targets
  BY <1>0, <1>2, <1>3
<1> HIDE DEF s
<1>7. Shunned(c)'
  BY <1>0, <1>4, <1>5, <1>6, PublishKeeps DEF Shunned, Audit, Publishing
<1>8. ASSUME NEW x \in audit[c].due, x \notin raced PROVE Kept(c, x)'
  <2>1. /\ Wanted(subs[x], conn[c].topic, conn[c].kind) /\ ~Leaving(x) /\ Kept(c, x)
        /\ x \in SubId
    BY <1>0, <1>4, <1>8, PublishKeeps DEF Owed, Publishing, Audit
  <2>2. x[1] \in clients
    BY <2>1, OwedAreUp DEF Wanted
  <2>3. x \in s.targets \cup audit[c].sent
    BY <1>0, <1>6, <2>1, <2>2 DEF Kept
  <2> QED
    BY <1>0, <1>4, <1>5, <1>6, <2>3, PublishKeeps DEF Kept
<1>9. Owed(c)'
  BY <1>0, <1>4, <1>5, <1>6, <1>8, PublishKeeps DEF Owed, Audit, Publishing
<1> QED
  BY <1>4, <1>7, <1>9, PublishFrame

LEMMA SendStep ==
  ASSUME IInv, NEW c \in Client, Send(c)
  PROVE  IInv'
<1> DEFINE to == {id \in conn[c].ids : id[1] \in webSockets}
           s  == [conn[c] EXCEPT !.pc = "stamp", !.ids = {}, !.stamp = 0,
                                 !.targets = @ \ conn[c].ids]
<1>0. /\ Typed /\ TablesTyped /\ conn[c] \in State /\ conn[c].pc = "send"
      /\ Shunned(c) /\ Owed(c) /\ audit[c] \in Audit
  BY DEF IInv, Typed, TablesTyped, Send
<1>1. conn[c].ids \in SUBSET SubId /\ to \in SUBSET SubId
  BY <1>0, StateFacts DEF Publishing
<1>2. /\ s \in State /\ s.pc = "stamp" /\ s.topic = conn[c].topic
      /\ s.kind = conn[c].kind /\ s.targets = conn[c].targets \ conn[c].ids
  BY <1>0, <1>1 DEF State, Publishing, Resting, Subscribers
<1>3. /\ audit' \in [Client -> Audit]
      /\ \A d \in Client \ {c} : audit'[d] = audit[d]
      /\ audit'[c].due = audit[c].due /\ audit'[c].gone = audit[c].gone
      /\ audit'[c].sent = audit[c].sent \cup to
  <2>1. /\ [audit[c] EXCEPT !.sent = @ \cup to] \in Audit
        /\ [audit[c] EXCEPT !.sent = @ \cup to].due = audit[c].due
        /\ [audit[c] EXCEPT !.sent = @ \cup to].gone = audit[c].gone
        /\ [audit[c] EXCEPT !.sent = @ \cup to].sent = audit[c].sent \cup to
    <3> HIDE DEF to
    <3> QED
      BY <1>0, <1>1 DEF Audit
  <2>2. audit' = [audit EXCEPT ![c] = [audit[c] EXCEPT !.sent = @ \cup to]]
    BY DEF Send
  <2> HIDE DEF to
  <2> QED
    BY <1>0, <2>1, <2>2 DEF TablesTyped
<1>4. PublishStep(c, s)
  BY <1>0, <1>2, <1>3 DEF Send, PublishStep, TablesTyped, Publishing, tables
<1>5. conn'[c] = s
  BY <1>0, <1>4, PublishKeeps
<1>6. to \subseteq conn[c].targets
  BY <1>0 DEF Shunned
<1>7. Shunned(c)'
  <2> HIDE DEF to
  <2> QED
    BY <1>0, <1>2, <1>3, <1>4, <1>5, <1>6, PublishKeeps DEF Shunned, Audit, Publishing
<1>8. ASSUME NEW id \in audit[c].due, id \notin raced PROVE Kept(c, id)'
  <2>1. /\ Wanted(subs[id], conn[c].topic, conn[c].kind) /\ ~Leaving(id) /\ Kept(c, id)
        /\ id \in SubId
    BY <1>0, <1>8 DEF Owed, Publishing, Audit
  <2>2. id[1] \in webSockets
    BY <2>1, OwedAreUp DEF Wanted
  <2>3. id \in s.targets \cup audit'[c].sent
    BY <1>0, <1>2, <1>3, <2>1, <2>2 DEF Kept
  <2> QED
    BY <1>2, <1>5, <2>3 DEF Kept
<1>9. Owed(c)'
  BY <1>0, <1>2, <1>3, <1>4, <1>5, <1>8, PublishKeeps DEF Owed, Audit, Publishing
<1> QED
  BY <1>4, <1>7, <1>9, PublishFrame

LEMMA EndPublishStep ==
  ASSUME IInv, NEW c \in Client, EndPublish(c)
  PROVE  IInv'
BY DoneStep DEF EndPublish, Publishing

-----------------------------------------------------------------------------
(* The steps of connections, subscribe and unsubscribe.                     *)

LEMMA StepFrame ==
  ASSUME IInv, NEW c \in Client, Typed', Local(c), Books(c)', Listed',
         \A d \in Client : Shunned(d)' /\ Owed(d)'
  PROVE  IInv'
BY OthersBooks DEF IInv

\* The publications that run owe no more than before.
Spared == /\ audit' \in [Client -> Audit]
          /\ \A d \in Client : /\ audit'[d].gone = audit[d].gone
                               /\ audit'[d].sent = audit[d].sent
                               /\ audit'[d].due \subseteq audit[d].due

LEMMA SparedOrSame ==
  ASSUME Typed
  PROVE  /\ UNCHANGED audit => Spared
         /\ \A ids : Excuse(ids) => Spared /\ \A d \in Client : audit'[d].due \cap ids = {}
<1>1. audit \in [Client -> Audit]
  BY DEF Typed, TablesTyped
<1>2. ASSUME NEW ids, Excuse(ids), NEW d \in Client
      PROVE  /\ audit'[d] \in Audit
             /\ audit'[d].gone = audit[d].gone /\ audit'[d].sent = audit[d].sent
             /\ audit'[d].due = audit[d].due \ ids
  <2>1. audit'[d] = [audit[d] EXCEPT !.due = @ \ ids] /\ audit[d] \in Audit
    BY <1>1, <1>2 DEF Excuse
  <2> QED
    BY <2>1 DEF Audit
<1>3. \A ids : Excuse(ids) => DOMAIN audit' = Client /\ audit' = [d \in Client |-> audit'[d]]
  BY DEF Excuse
<1>4. \A ids : Excuse(ids) => audit' \in [Client -> Audit]
  BY <1>2, <1>3
<1> QED
  BY <1>1, <1>2, <1>4 DEF Spared

\* A step that only moves its connection on.
QuietStep(c, s) ==
  /\ s \in State /\ Goto(c, s)
  /\ conn[c].pc \notin Publishing \cup {"record"} /\ s.pc \notin Publishing \cup {"record"}
  /\ UNCHANGED <<sequence, subscribers, patternSubs, subs, clientSubs, issued, raced>>
  /\ topics' \subseteq Topic /\ clients' \subseteq Client /\ webSockets' \subseteq Client
  /\ \A d \in Client \ {c} : /\ d \in clients' <=> d \in clients
                             /\ d \in webSockets' <=> d \in webSockets
  /\ s.pc \in Subscribers \cup {"join"} =>
       /\ conn[c].pc \in Subscribers \cup {"join"}
       /\ s.id = conn[c].id /\ s.sub = conn[c].sub

LEMMA QuietFrame ==
  ASSUME IInv, NEW c \in Client, NEW s, QuietStep(c, s), LocksHeld', Spared, Books(c)',
         \A d \in Client : \A id \in audit'[d].due :
           conn[d].pc \in Publishing /\ id[1] = c /\ Leaving(id)' => Leaving(id)
  PROVE  IInv'
<1>0. /\ Typed /\ TablesTyped /\ conn \in [Client -> State] /\ conn[c] \in State
  BY DEF IInv, Typed
<1>1. /\ conn' \in [Client -> State]
      /\ conn'[c] = s /\ \A d \in Client \ {c} : conn'[d] = conn[d]
  BY <1>0, NewState DEF QuietStep
<1>2. Local(c)
  BY <1>1 DEF Local, QuietStep
<1>3. Typed'
  <2>1. TablesTyped'
    BY <1>0 DEF TablesTyped, QuietStep, Spared
  <2> QED
    BY <1>0, <2>1, TypedFrame DEF QuietStep
<1>4. Listed'
  <2>1. \A id \in SubId, name \in Topic \cup Pattern :
          id[1] = c => BelongsTo(id, name)' = BelongsTo(id, name)
    BY <1>0, <1>1 DEF BelongsTo, QuietStep
  <2> QED
    BY <1>2, <2>1, ListedFrame DEF QuietStep
<1>5. \A d \in Client : Shunned(d)' /\ Owed(d)'
  <2>1. \A id \in SubId : id[1] = c /\ Gone(id) => Gone(id)'
    BY <1>1 DEF Gone, Subscribing, QuietStep, Subscribers
  <2>2. \A d \in Client : \A id \in audit'[d].due :
          conn[d].pc \in Publishing /\ id[1] = c =>
            subs'[id] = subs[id] /\ (Leaving(id)' => Leaving(id))
    BY DEF QuietStep
  <2>3. conn[c].pc \notin Publishing /\ conn'[c].pc \notin Publishing
    BY <1>1 DEF QuietStep
  <2> QED
    BY <1>2, <2>1, <2>2, <2>3, AuditFrame DEF Spared
<1> QED
  BY <1>2, <1>3, <1>4, <1>5, StepFrame

LEMMA OpenEventStep ==
  ASSUME IInv, NEW c \in Client, OpenEvent(c)
  PROVE  IInv'
<1> DEFINE s == [pc |-> "open"]
<1>0. /\ Typed /\ TablesTyped /\ LocksHeld /\ conn \in [Client -> State] /\ conn[c] \in State
      /\ Books(c) /\ conn[c].pc = "new"
  BY DEF IInv, Typed, OpenEvent
<1>1. QuietStep(c, s)
  BY <1>0, States
     DEF OpenEvent, QuietStep, Resting, Publishing, Subscribers, tables, ghosts, TablesTyped
<1>2. LocksHeld' /\ conn'[c] = s
  BY <1>0, <1>1, LocksKept, NewState DEF OpenEvent, QuietStep, Section
<1>3. Books(c)'
  BY <1>0, <1>1, <1>2
     DEF OpenEvent, Books, Fresh, Recorded, Removing, Connected, Up, QuietStep, Subscribers
<1>4. Spared /\ \A id \in SubId : id[1] = c => ~Leaving(id)'
  BY <1>0, <1>2, SparedOrSame DEF OpenEvent, ghosts, Leaving
<1> QED
  BY <1>1, <1>2, <1>3, <1>4, QuietFrame DEF Spared, Audit

LEMMA AddClientStep ==
  ASSUME IInv, NEW c \in Client, AddClient(c)
  PROVE  IInv'
<1>0. /\ Typed /\ TablesTyped /\ LocksHeld /\ conn \in [Client -> State] /\ conn[c] \in State
      /\ Books(c) /\ conn[c].pc = "open"
  BY DEF IInv, Typed, AddClient
<1>1. QuietStep(c, Idle)
  BY <1>0, States DEF AddClient, QuietStep, Resting, Publishing, Subscribers, tables, ghosts,
                      TablesTyped, Idle
<1>2. LocksHeld' /\ conn'[c] = Idle
  BY <1>0, <1>1, LocksKept, NewState DEF AddClient, QuietStep, Section, Idle
<1>3. Books(c)'
  BY <1>0, <1>1, <1>2
     DEF AddClient, Books, Fresh, Recorded, Removing, Connected, Up, QuietStep, Subscribers, Idle
<1>4. Spared /\ \A id \in SubId : id[1] = c => ~Leaving(id)'
  BY <1>0, <1>2, SparedOrSame DEF AddClient, ghosts, Leaving, Idle
<1> QED
  BY <1>1, <1>2, <1>3, <1>4, QuietFrame DEF Spared, Audit

LEMMA CheckLimitStep ==
  ASSUME IInv, NEW c \in Client, CheckLimit(c)
  PROVE  IInv'
<1> DEFINE pc == IF conn[c].sub.to \in Pattern THEN "pattern" ELSE "topic"
           s  == IF MaxPerClient > 0 /\ Cardinality(clientSubs[c]) >= MaxPerClient
                 THEN Idle ELSE [conn[c] EXCEPT !.pc = pc]
<1>0. /\ Typed /\ TablesTyped /\ LocksHeld /\ conn \in [Client -> State] /\ conn[c] \in State
      /\ Books(c) /\ conn[c].pc = "limit"
  BY DEF IInv, Typed, CheckLimit
<1>1. conn[c].sub \in Sub /\ conn[c].sub.to \in Topic \cup Pattern
  BY <1>0, StateFacts DEF Subscribers, Sub
<1>2. /\ s \in State /\ s.pc \in {"idle", "pattern", "topic"}
      /\ s.pc # "idle" => /\ s.pc = pc
                          /\ s.id = conn[c].id /\ s.sub = conn[c].sub
  <2>1. CASE s = Idle
    BY <2>1, States DEF Idle, Resting
  <2>2. CASE s = [conn[c] EXCEPT !.pc = pc]
    BY <1>0, <2>2 DEF State, Resting, Subscribers, Publishing
  <2> QED
    BY <2>1, <2>2
<1>3. Goto(c, s)
  BY DEF CheckLimit
<1> HIDE DEF s
<1>4. QuietStep(c, s)
  BY <1>0, <1>2, <1>3
     DEF CheckLimit, QuietStep, Publishing, Subscribers, tables, ghosts, server, TablesTyped
<1>5. LocksHeld' /\ conn'[c] = s
  BY <1>0, <1>2, <1>4, LocksKept, NewState DEF CheckLimit, QuietStep, Section
<1>6. Books(c)'
  <2>1. Fresh(c)'
    BY <1>0, <1>1, <1>2, <1>4, <1>5 DEF Books, Fresh, QuietStep, Subscribers
  <2>2. Recorded(c)' /\ Removing(c)'
    BY <1>0, <1>2, <1>4, <1>5 DEF Books, Recorded, Removing, QuietStep
  <2>3. Connected(c)'
    BY <1>0, <1>2, <1>5 DEF CheckLimit, Books, Connected, Up, server
  <2> QED
    BY <2>1, <2>2, <2>3 DEF Books
<1>7. Spared /\ \A id \in SubId : id[1] = c => ~Leaving(id)'
  BY <1>0, <1>2, <1>5, SparedOrSame DEF CheckLimit, ghosts, Leaving
<1> QED
  BY <1>4, <1>5, <1>6, <1>7, QuietFrame DEF Spared, Audit

LEMMA FindTopicStep ==
  ASSUME IInv, NEW c \in Client, FindTopic(c)
  PROVE  IInv'
<1> DEFINE t  == conn[c].sub.to
           in == [pc |-> "join", id |-> conn[c].id, sub |-> conn[c].sub,
                  saw |-> subscribers[t]]
<1>0. /\ Typed /\ TablesTyped /\ LocksHeld /\ conn \in [Client -> State] /\ conn[c] \in State
      /\ Books(c) /\ conn[c].pc = "topic"
  BY DEF IInv, Typed, FindTopic
<1>1. t \in Topic /\ conn[c].id \in SubId /\ conn[c].sub \in Sub
  BY <1>0, StateFacts DEF Books, Fresh, Subscribers
<1>2. subscribers[t] \in SUBSET SubId
  BY <1>0, <1>1 DEF TablesTyped
<1>3. PICK s : /\ s = Idle \/ s = in
               /\ QuietStep(c, s) /\ LocksHeld'
  <2>1. CASE t \notin topics /\ Full
    <3>1. QuietStep(c, Idle)
      BY <1>0, <2>1, States
         DEF FindTopic, QuietStep, Resting, Publishing, Subscribers, tables, ghosts, server,
             TablesTyped, Idle
    <3>2. LocksHeld'
      BY <1>0, <2>1, <3>1, LocksKept DEF FindTopic, QuietStep, Section, Idle
    <3> QED
      BY <3>1, <3>2
  <2>2. CASE ~(t \notin topics /\ Full)
    <3>1. in \in State
      BY <1>1, <1>2, States
    <3>2. Goto(c, in) /\ Take("topics", c) /\ topics' = topics \cup {t}
      BY <2>2 DEF FindTopic
    <3>3. QuietStep(c, in)
      BY <1>0, <1>1, <3>1, <3>2
         DEF FindTopic, QuietStep, Publishing, Subscribers, ghosts, server, TablesTyped
    <3>4. LocksHeld'
      BY <1>0, <3>1, <3>2, LockTaken DEF FindTopic, Section, Locks
    <3> QED
      BY <3>3, <3>4
  <2> QED
    BY <2>1, <2>2
<1>4. conn'[c] = s
  BY <1>0, <1>3, NewState DEF QuietStep
<1>5. Books(c)'
  <2>1. Fresh(c)'
    BY <1>0, <1>1, <1>3, <1>4 DEF Books, Fresh, QuietStep, Subscribers, Idle
  <2>2. Recorded(c)' /\ Removing(c)'
    BY <1>0, <1>3, <1>4 DEF Books, Recorded, Removing, QuietStep, Idle
  <2>3. Connected(c)'
    BY <1>0, <1>3, <1>4 DEF FindTopic, Books, Connected, Up, server, Idle
  <2> QED
    BY <2>1, <2>2, <2>3 DEF Books
<1>6. Spared /\ \A id \in SubId : id[1] = c => ~Leaving(id)'
  BY <1>0, <1>3, <1>4, SparedOrSame DEF FindTopic, ghosts, Leaving, Idle
<1> QED
  BY <1>3, <1>5, <1>6, QuietFrame DEF Spared, Audit

LEMMA UnsubscribeStep ==
  ASSUME IInv, NEW c \in Client, NEW ids \in Choices(c), Unsubscribe(c, ids)
  PROVE  IInv'
<1> DEFINE s == [pc |-> "remove", todo |-> ids, then |-> "idle"]
<1>0. /\ Typed /\ TablesTyped /\ LocksHeld /\ conn \in [Client -> State] /\ conn[c] \in State
      /\ Books(c) /\ conn[c].pc = "idle"
  BY DEF IInv, Typed, Unsubscribe, Idle
<1>1. ids \subseteq clientSubs[c] /\ ids \in SUBSET SubId
  BY <1>0 DEF Choices, TablesTyped
<1>2. s \in State
  BY <1>1, States
<1>3. QuietStep(c, s)
  BY <1>0, <1>2
     DEF Unsubscribe, QuietStep, Publishing, Subscribers, tables, server, TablesTyped
<1>4. LocksHeld'
  BY <1>0, <1>2, LockTaken DEF Unsubscribe, Section, Locks
<1>5. conn'[c] = s
  BY <1>0, <1>3, NewState DEF QuietStep
<1>6. Books(c)'
  <2>1. Fresh(c)' /\ Recorded(c)'
    BY <1>0, <1>3, <1>5 DEF Books, Fresh, Recorded, QuietStep, Subscribers
  <2>2. Removing(c)'
    BY <1>1, <1>3, <1>5 DEF Removing, QuietStep
  <2>3. Connected(c)'
    BY <1>0, <1>5 DEF Unsubscribe, Books, Connected, Up, server
  <2> QED
    BY <2>1, <2>2, <2>3 DEF Books
<1>7. /\ Spared
      /\ \A d \in Client : audit'[d].due \cap ids = {}
  BY <1>0, SparedOrSame DEF Unsubscribe
<1>8. \A d \in Client : \A id \in audit'[d].due : id[1] = c /\ Leaving(id)' => Leaving(id)
  BY <1>5, <1>7 DEF Leaving
<1> QED
  BY <1>3, <1>4, <1>6, <1>7, <1>8, QuietFrame

LEMMA CloseEventStep ==
  ASSUME IInv, NEW c \in Client, CloseEvent(c)
  PROVE  IInv'
<1> DEFINE s == [pc |-> "close"]
<1>0. /\ Typed /\ TablesTyped /\ LocksHeld /\ conn \in [Client -> State] /\ conn[c] \in State
      /\ Books(c) /\ conn[c].pc = "idle"
  BY DEF IInv, Typed, CloseEvent, Idle
<1>1. QuietStep(c, s)
  BY <1>0, States
     DEF CloseEvent, QuietStep, Resting, Publishing, Subscribers, tables, TablesTyped
<1>2. LocksHeld' /\ conn'[c] = s
  BY <1>0, <1>1, LocksKept, NewState DEF CloseEvent, QuietStep, Section
<1>3. Books(c)'
  BY <1>0, <1>1, <1>2
     DEF CloseEvent, Books, Fresh, Recorded, Removing, Connected, Up, QuietStep, Subscribers
<1>4. /\ Spared
      /\ \A d \in Client : audit'[d].due \cap clientSubs[c] = {}
  BY <1>0, SparedOrSame DEF CloseEvent
<1>5. ASSUME NEW d \in Client, NEW id \in audit'[d].due, id[1] = c, conn[d].pc \in Publishing
      PROVE  FALSE
  <2>1. id \in audit[d].due /\ id \in SubId
    BY <1>0, <1>4 DEF Spared, TablesTyped, Audit
  <2>2. subs[id] # NoSub
    BY <1>5, <2>1 DEF IInv, Owed, Wanted
  <2> QED
    BY <1>0, <1>4, <1>5, <2>1, <2>2 DEF Books, Recorded
<1> QED
  BY <1>1, <1>2, <1>3, <1>4, <1>5, QuietFrame

LEMMA UnsubscribeAllStep ==
  ASSUME IInv, NEW c \in Client, UnsubscribeAll(c)
  PROVE  IInv'
<1> DEFINE s == [pc |-> "remove", todo |-> clientSubs[c], then |-> "leave"]
<1>0. /\ Typed /\ TablesTyped /\ LocksHeld /\ conn \in [Client -> State] /\ conn[c] \in State
      /\ Books(c) /\ conn[c].pc = "close"
  BY DEF IInv, Typed, UnsubscribeAll
<1>1. s \in State
  BY <1>0, States DEF TablesTyped
<1>2. QuietStep(c, s)
  BY <1>0, <1>1
     DEF UnsubscribeAll, QuietStep, Publishing, Subscribers, tables, server, ghosts, TablesTyped
<1>3. LocksHeld'
  BY <1>0, <1>1, LockTaken DEF UnsubscribeAll, Section, Locks
<1>4. conn'[c] = s
  BY <1>0, <1>2, NewState DEF QuietStep
<1>5. Books(c)'
  BY <1>0, <1>2, <1>4
     DEF Books, Fresh, Recorded, Removing, Connected, Up, QuietStep, Subscribers
<1>6. Spared /\ \A id \in SubId : id[1] = c => Leaving(id)
  BY <1>0, SparedOrSame DEF UnsubscribeAll, ghosts, Leaving
<1> QED
  BY <1>2, <1>3, <1>5, <1>6, QuietFrame DEF Spared, Audit

LEMMA EndRemoveStep ==
  ASSUME IInv, NEW c \in Client, EndRemove(c)
  PROVE  IInv'
<1> DEFINE s == [pc |-> conn[c].then]
<1>0. /\ Typed /\ TablesTyped /\ LocksHeld /\ conn \in [Client -> State] /\ conn[c] \in State
      /\ Books(c) /\ conn[c].pc = "remove"
  BY DEF IInv, Typed, EndRemove
<1>1. conn[c].then \in {"idle", "leave"} /\ s \in State
  BY <1>0, States, StateFacts DEF Resting
<1>2. QuietStep(c, s)
  BY <1>0, <1>1
     DEF EndRemove, QuietStep, Publishing, Subscribers, tables, server, ghosts, TablesTyped
<1>3. LocksHeld'
  BY <1>0, <1>1, LockReleased DEF EndRemove, Section, Locks
<1>4. conn'[c] = s
  BY <1>0, <1>2, NewState DEF QuietStep
<1>5. Books(c)'
  <2>1. Fresh(c)' /\ Recorded(c)'
    BY <1>0, <1>1, <1>2, <1>4 DEF Books, Fresh, Recorded, QuietStep, Subscribers
  <2>2. Removing(c)' /\ Connected(c)'
    BY <1>0, <1>1, <1>2, <1>4 DEF EndRemove, Books, Removing, Connected, Up, QuietStep, server
  <2> QED
    BY <2>1, <2>2 DEF Books
<1>6. Spared /\ \A id \in SubId : id[1] = c => ~Leaving(id)'
  BY <1>0, <1>1, <1>4, SparedOrSame DEF EndRemove, ghosts, Leaving
<1> QED
  BY <1>2, <1>3, <1>5, <1>6, QuietFrame DEF Spared, Audit

LEMMA RemoveClientStep ==
  ASSUME IInv, NEW c \in Client, RemoveClient(c)
  PROVE  IInv'
<1> DEFINE s == [pc |-> "closed"]
<1>0. /\ Typed /\ TablesTyped /\ LocksHeld /\ conn \in [Client -> State] /\ conn[c] \in State
      /\ Books(c) /\ conn[c].pc = "leave"
  BY DEF IInv, Typed, RemoveClient
<1>1. QuietStep(c, s)
  BY <1>0, States
     DEF RemoveClient, QuietStep, Resting, Publishing, Subscribers, tables, ghosts, TablesTyped
<1>2. LocksHeld' /\ conn'[c] = s
  BY <1>0, <1>1, LocksKept, NewState DEF RemoveClient, QuietStep, Section
<1>3. Books(c)'
  BY <1>0, <1>1, <1>2
     DEF Books, Fresh, Recorded, Removing, Connected, Up, QuietStep, Subscribers
<1>4. Spared /\ \A id \in SubId : id[1] = c => ~Leaving(id)'
  BY <1>0, <1>2, SparedOrSame DEF RemoveClient, ghosts, Leaving
<1> QED
  BY <1>1, <1>2, <1>3, <1>4, QuietFrame DEF Spared, Audit

LEMMA FindSubscriberStep ==
  ASSUME IInv, NEW c \in Client, NEW id \in SubId, FindSubscriber(c, id)
  PROVE  IInv'
<1> DEFINE saw    == subscribers[subs[id].to]
           failed == [pc |-> "failed"]
           excl   == [pc |-> "excl", todo |-> conn[c].todo, then |-> conn[c].then,
                      id |-> id, saw |-> saw]
<1>0. /\ Typed /\ TablesTyped /\ LocksHeld /\ conn \in [Client -> State] /\ conn[c] \in State
      /\ Books(c) /\ Listed /\ conn[c].pc = "remove"
      /\ id \in conn[c].todo /\ subs[id].to \in Topic
  BY DEF IInv, Typed, FindSubscriber
<1>1. /\ conn[c].todo \in SUBSET SubId /\ conn[c].then \in {"idle", "leave"}
      /\ saw \in SUBSET SubId
  BY <1>0, StateFacts DEF TablesTyped
<1>2. PICK s : /\ s = failed \/ s = excl
               /\ s = failed => conn[c].then = "idle"
               /\ QuietStep(c, s) /\ LocksHeld'
  <2>1. CASE id \notin saw /\ conn[c].then = "idle"
    <3>1. failed \in State /\ Goto(c, failed) /\ Release("subs")
      BY <2>1, States DEF FindSubscriber, Resting
    <3>2. QuietStep(c, failed)
      BY <1>0, <3>1
         DEF FindSubscriber, QuietStep, Publishing, Subscribers, tables, server, ghosts, TablesTyped
    <3>3. LocksHeld'
      BY <1>0, <3>1, LockReleased DEF Section, Locks
    <3> QED
      BY <2>1, <3>2, <3>3
  <2>2. CASE ~(id \notin saw /\ conn[c].then = "idle")
    <3>1. excl \in State /\ Goto(c, excl) /\ UNCHANGED lock
      BY <1>1, <2>2, States DEF FindSubscriber
    <3>2. QuietStep(c, excl)
      BY <1>0, <3>1
         DEF FindSubscriber, QuietStep, Publishing, Subscribers, tables, server, ghosts, TablesTyped
    <3>3. LocksHeld'
      BY <1>0, <3>1, LocksKept DEF Section
    <3> QED
      BY <2>2, <3>2, <3>3
  <2> QED
    BY <2>1, <2>2
<1>3. conn'[c] = s
  BY <1>0, <1>2, NewState DEF QuietStep
<1>4. id \in saw \/ id \in raced
  <2>1. subs[id] # NoSub
    BY <1>0, OwnIds
  <2> QED
    BY <1>0, <2>1 DEF Listed, BelongsTo
<1>5. Books(c)'
  <2>1. Fresh(c)' /\ Recorded(c)'
    BY <1>0, <1>2, <1>3 DEF Books, Fresh, Recorded, QuietStep, Subscribers
  <2>2. Removing(c)'
    BY <1>0, <1>2, <1>3, <1>4 DEF Books, Removing, QuietStep
  <2>3. Connected(c)'
    BY <1>0, <1>2, <1>3 DEF FindSubscriber, Books, Connected, Up, server
  <2> QED
    BY <2>1, <2>2, <2>3 DEF Books
<1>6. Spared /\ \A x \in SubId : x[1] = c /\ Leaving(x)' => Leaving(x)
  BY <1>0, <1>2, <1>3, SparedOrSame DEF FindSubscriber, ghosts, Leaving
<1> QED
  BY <1>2, <1>5, <1>6, QuietFrame DEF Spared, Audit

LEMMA SubscribeTyped ==
  ASSUME TablesTyped, NEW c \in Client,
         Cardinality({id \in SubId : id[2] <= issued[id[1]]}) < MaxSubs
  PROVE  issued[c] + 1 \in 1 .. MaxSubs
<1> DEFINE all == {id \in SubId : id[2] <= issued[id[1]]}
           own == {c} \X (1 .. issued[c])
<1>1. issued[c] \in 0 .. MaxSubs /\ MaxSubs \in Nat
  BY LimitAssumption DEF TablesTyped
<1>2. IsFiniteSet(SubId)
  <2> DEFINE numbers == 1 .. MaxSubs
  <2>1. IsFiniteSet(numbers)
    BY <1>1, FS_Interval
  <2>2. IsFiniteSet(Client \X numbers)
    <3> HIDE DEF numbers
    <3> QED
      BY <2>1, ClientAssumption, FS_Product
  <2> QED
    BY <2>2 DEF SubId
<1>3. IsFiniteSet(all)
  BY <1>2, FS_Subset
<1>4. Cardinality(own) = issued[c]
  <2> DEFINE numbers == 1 .. issued[c]
             me == {c}
  <2>1. IsFiniteSet(numbers) /\ Cardinality(numbers) = issued[c]
    <3>1. 1 \in Int /\ issued[c] \in Int /\ issued[c] - 1 + 1 = issued[c]
      BY <1>1
    <3>2. issued[c] = 0 => numbers = {} /\ 1 > issued[c]
      BY <1>1
    <3>3. CASE issued[c] = 0
      BY <3>2, <3>3, FS_EmptySet
    <3>4. CASE issued[c] # 0
      <4>1. ~(1 > issued[c])
        BY <1>1, <3>4
      <4> QED
        BY <3>1, <4>1, FS_Interval
    <3> QED
      BY <3>3, <3>4
  <2>2. IsFiniteSet(me) /\ Cardinality(me) = 1
    BY FS_Singleton
  <2>3. Cardinality(me \X numbers) = Cardinality(me) * Cardinality(numbers)
    <3> HIDE DEF me, numbers
    <3> QED
      BY <2>1, <2>2, FS_Product
  <2>4. 1 * issued[c] = issued[c]
    BY <1>1
  <2> QED
    BY <2>1, <2>2, <2>3, <2>4
<1>5. own \subseteq all
  BY <1>1 DEF SubId
<1>6. Cardinality(own) <= Cardinality(all) /\ Cardinality(all) \in Nat
  BY <1>3, <1>5, FS_Subset, FS_CardinalityType
<1> QED
  BY <1>1, <1>4, <1>6

LEMMA SubscribeStep ==
  ASSUME IInv, NEW c \in Client, NEW to \in Topic \cup Pattern, NEW kv \in BOOLEAN,
         Subscribe(c, to, kv)
  PROVE  IInv'
<1> DEFINE id == <<c, issued[c] + 1>>
           s  == [pc |-> "limit", id |-> id, sub |-> [client |-> c, to |-> to, kv |-> kv]]
<1>0. /\ Typed /\ TablesTyped /\ LocksHeld /\ conn \in [Client -> State] /\ conn[c] \in State
      /\ Books(c) /\ conn[c].pc = "idle"
  BY DEF IInv, Typed, Subscribe, Idle
<1>1. issued[c] + 1 \in 1 .. MaxSubs
  BY <1>0, SubscribeTyped DEF Subscribe
<1>2. id \in SubId /\ s \in State
  BY <1>1, States DEF SubId, Sub, Subscribers
<1>3. /\ issued' \in [Client -> 0 .. MaxSubs] /\ issued'[c] = issued[c] + 1
      /\ \A d \in Client \ {c} : issued'[d] = issued[d]
  BY <1>0, <1>1 DEF Subscribe, TablesTyped
<1>4. conn' \in [Client -> State] /\ conn'[c] = s /\ \A d \in Client \ {c} : conn'[d] = conn[d]
  BY <1>0, <1>2, NewState DEF Subscribe
<1>5. UNCHANGED <<tables, lock, server, ghosts>>
  BY DEF Subscribe
<1>6. Typed'
  <2>1. TablesTyped'
    BY <1>0, <1>3, <1>5 DEF TablesTyped, tables, server, ghosts
  <2>2. LocksHeld'
    BY <1>0, <1>2, <1>5, LocksKept DEF Subscribe, Section
  <2> QED
    BY <1>4, <2>1, <2>2 DEF Typed
<1>7. Local(c)
  BY <1>3, <1>4, <1>5 DEF Local, tables, server, ghosts
<1>8. Books(c)'
  <2>1. subs[id] = NoSub /\ issued[c] \in Nat
    BY <1>0, <1>1, <1>2 DEF Books, Fresh, TablesTyped
  <2>2. Fresh(c)'
    BY <1>0, <1>2, <1>3, <1>4, <1>5, <2>1, SubIds DEF Books, Fresh, tables
  <2>3. Recorded(c)' /\ Removing(c)' /\ Connected(c)'
    BY <1>0, <1>4, <1>5 DEF Books, Recorded, Removing, Connected, Up, tables, server, ghosts
  <2> QED
    BY <2>2, <2>3 DEF Books
<1>9. Listed'
  BY <1>0, <1>4, <1>5, <1>7, ListedFrame DEF BelongsTo, tables
<1>10. \A d \in Client : Shunned(d)' /\ Owed(d)'
  <2>1. \A x \in SubId : x[1] = c /\ Gone(x) => Gone(x)'
    BY <1>0, <1>1, <1>3, <1>4, <1>5, SubIds
       DEF Gone, Subscribing, Subscribers, tables, TablesTyped
  <2>2. conn[c].pc \notin Publishing /\ conn'[c].pc \notin Publishing
    BY <1>0, <1>4 DEF Publishing
  <2> QED
    BY <1>4, <1>5, <1>7, <2>1, <2>2, AuditFrame DEF Leaving, tables, ghosts
<1> QED
  BY <1>6, <1>7, <1>8, <1>9, <1>10, StepFrame

LEMMA AddPatternStep ==
  ASSUME IInv, NEW c \in Client, AddPattern(c)
  PROVE  IInv'
<1> DEFINE id == conn[c].id
           p  == conn[c].sub.to
           s  == [conn[c] EXCEPT !.pc = "record"]
<1>0. /\ Typed /\ TablesTyped /\ LocksHeld /\ conn \in [Client -> State] /\ conn[c] \in State
      /\ Books(c) /\ Listed /\ conn[c].pc = "pattern"
  BY DEF IInv, Typed, AddPattern
<1>1. /\ id \in SubId /\ id[1] = c /\ p \in Pattern /\ subs[id] = NoSub
  BY <1>0, OwnIds DEF Books, Fresh, Subscribers
<1>2. s \in State /\ s.pc = "record" /\ s.id = id /\ s.sub = conn[c].sub
  BY <1>0 DEF State, Resting, Subscribers, Publishing
<1>3. conn' \in [Client -> State] /\ conn'[c] = s /\ \A d \in Client \ {c} : conn'[d] = conn[d]
  BY <1>0, <1>2, NewState DEF AddPattern
<1>4. /\ UNCHANGED <<topics, sequence, subscribers, subs, clientSubs, lock, clients,
                     webSockets, issued, events, raced, audit>>
      /\ patternSubs' \in [Pattern -> SUBSET SubId]
      /\ \A q \in Pattern : patternSubs'[q] =
                              IF q = p THEN patternSubs[q] \cup {id} ELSE patternSubs[q]
  BY <1>0, <1>1 DEF AddPattern, server, ghosts, TablesTyped
<1>5. Typed'
  <2>1. TablesTyped'
    BY <1>0, <1>4 DEF TablesTyped
  <2>2. \A l \in Locks : s.pc \in Section(l) <=> conn[c].pc \in Section(l)
    BY <1>0, <1>2 DEF Section
  <2>3. Goto(c, s)
    BY DEF AddPattern
  <2>4. LocksHeld'
    <3> HIDE DEF s
    <3> QED
      BY <1>0, <1>2, <1>4, <2>2, <2>3, LocksKept
  <2> QED
    BY <1>3, <2>1, <2>4 DEF Typed
<1>6. Local(c)
  BY <1>3, <1>4 DEF Local
<1>7. Books(c)'
  <2>1. Fresh(c)'
    BY <1>0, <1>1, <1>2, <1>3, <1>4 DEF Books, Fresh, Subscribers
  <2>2. Recorded(c)' /\ Removing(c)' /\ Connected(c)'
    BY <1>0, <1>2, <1>3, <1>4 DEF Books, Recorded, Removing, Connected, Up
  <2> QED
    BY <2>1, <2>2 DEF Books
<1>8. Listed'
  <2> SUFFICES ASSUME NEW x \in SubId
               PROVE  /\ \A q \in Pattern : x \in patternSubs'[q] <=> BelongsTo(x, q)'
                      /\ x \notin raced => \A t \in Topic : x \in subscribers[t] <=> BelongsTo(x, t)'
    BY <1>4 DEF Listed
  <2>1. CASE x = id
    <3>1. \A name : BelongsTo(x, name)' <=> name = p
      BY <1>1, <1>2, <1>3, <1>4, <2>1 DEF BelongsTo
    <3>2. \A name : ~BelongsTo(x, name)
      BY <1>0, <1>1, <2>1 DEF BelongsTo
    <3> QED
      BY <1>0, <1>1, <1>4, <2>1, <3>1, <3>2, NameAssumption DEF Listed
  <2>2. CASE x # id
    <3>1. \A name : BelongsTo(x, name)' <=> BelongsTo(x, name)
      <4>1. x[1] \in Client /\ subs' = subs
        BY <1>4, SubIds
      <4>2. CASE x[1] = c
        <5>1. conn[x[1]].pc # "record" /\ conn'[x[1]].id # x
          BY <1>0, <1>2, <1>3, <2>2, <4>2
        <5> QED
          BY <4>1, <5>1 DEF BelongsTo
      <4>3. CASE x[1] # c
        <5>1. conn'[x[1]] = conn[x[1]]
          BY <1>3, <4>1, <4>3
        <5> QED
          BY <4>1, <5>1 DEF BelongsTo
      <4> QED
        BY <4>2, <4>3
    <3> QED
      BY <1>0, <1>4, <2>2, <3>1 DEF Listed
  <2> QED
    BY <2>1, <2>2
<1>9. \A d \in Client : Shunned(d)' /\ Owed(d)'
  <2>1. \A x \in SubId : x[1] = c /\ Gone(x) => Gone(x)'
    <3>1. issued' = issued /\ subs' = subs
      BY <1>4
    <3>2. conn'[c].pc = "record" /\ conn'[c].id = conn[c].id /\ conn[c].pc = "pattern"
      BY <1>0, <1>2, <1>3
    <3> QED
      BY <3>1, <3>2 DEF Gone, Subscribing
  <2>2. conn[c].pc \notin Publishing /\ conn'[c].pc \notin Publishing
    BY <1>0, <1>2, <1>3 DEF Publishing
  <2> QED
    BY <1>2, <1>3, <1>4, <1>6, <2>1, <2>2, AuditFrame DEF Leaving
<1> QED
  BY <1>5, <1>6, <1>7, <1>8, <1>9, StepFrame

\* The write of a subscriber set: whoever is hit by it is known to be raced.
LEMMA SetSubscribersFacts ==
  ASSUME TablesTyped, NEW t \in Topic, NEW saw \in SUBSET SubId, NEW new \in SUBSET SubId,
         SetSubscribers(t, saw, new)
  PROVE  /\ subscribers' \in [Topic -> SUBSET SubId] /\ raced' \subseteq SubId
         /\ raced \subseteq raced' /\ subscribers'[t] = new
         /\ \A u \in Topic \ {t} : subscribers'[u] = subscribers[u]
         /\ \A id \in SubId : id \notin raced' => id \notin raced /\ (id \in saw <=> id \in subscribers[t])
BY DEF SetSubscribers, TablesTyped

LEMMA AddSubscriberStep ==
  ASSUME IInv, NEW c \in Client, AddSubscriber(c)
  PROVE  IInv'
<1> DEFINE id  == conn[c].id
           t   == conn[c].sub.to
           saw == conn[c].saw
           s   == [pc |-> "record", id |-> conn[c].id, sub |-> conn[c].sub]
<1>0. /\ Typed /\ TablesTyped /\ LocksHeld /\ conn \in [Client -> State] /\ conn[c] \in State
      /\ Books(c) /\ Listed /\ conn[c].pc = "join"
  BY DEF IInv, Typed, AddSubscriber
<1>1. /\ id \in SubId /\ id[1] = c /\ t \in Topic /\ subs[id] = NoSub
      /\ saw \in SUBSET SubId /\ saw \cup {id} \in SUBSET SubId
  BY <1>0, OwnIds, StateFacts DEF Books, Fresh
<1>2. s \in State
  BY <1>0, <1>1, StateFacts, States DEF Subscribers
<1>3. conn' \in [Client -> State] /\ conn'[c] = s /\ \A d \in Client \ {c} : conn'[d] = conn[d]
  BY <1>0, <1>2, NewState DEF AddSubscriber
<1>4. /\ UNCHANGED <<topics, sequence, patternSubs, subs, clientSubs, clients,
                     webSockets, issued, events, audit>>
      /\ SetSubscribers(t, saw, saw \cup {id})
  BY DEF AddSubscriber, server
<1>5. /\ subscribers' \in [Topic -> SUBSET SubId] /\ raced' \subseteq SubId
      /\ raced \subseteq raced' /\ subscribers'[t] = saw \cup {id}
      /\ \A u \in Topic \ {t} : subscribers'[u] = subscribers[u]
      /\ \A x \in SubId : x \notin raced' => x \notin raced /\ (x \in saw <=> x \in subscribers[t])
  <2> HIDE DEF id, t, saw, s
  <2> QED
    BY <1>0, <1>1, <1>4, SetSubscribersFacts
<1>6. Typed'
  <2>1. TablesTyped'
    BY <1>0, <1>4, <1>5 DEF TablesTyped
  <2>2. LocksHeld'
    BY <1>0, <1>2, LockReleased DEF AddSubscriber, Section, Locks
  <2> QED
    BY <1>3, <2>1, <2>2 DEF Typed
<1>7. Local(c)
  BY <1>3, <1>4, <1>5 DEF Local
<1>8. Books(c)'
  <2>1. Fresh(c)'
    BY <1>0, <1>1, <1>3, <1>4 DEF Books, Fresh, Subscribers
  <2>2. Recorded(c)' /\ Removing(c)' /\ Connected(c)'
    BY <1>0, <1>3, <1>4 DEF Books, Recorded, Removing, Connected, Up
  <2> QED
    BY <2>1, <2>2 DEF Books
<1>9. Listed'
  <2> SUFFICES ASSUME NEW x \in SubId
               PROVE  /\ \A q \in Pattern : x \in patternSubs[q] <=> BelongsTo(x, q)'
                      /\ x \notin raced' => \A u \in Topic : x \in subscribers'[u] <=> BelongsTo(x, u)'
    BY <1>4 DEF Listed
  <2>1. CASE x = id
    <3>1. \A name : BelongsTo(x, name)' <=> name = t
      BY <1>1, <1>3, <1>4, <2>1 DEF BelongsTo
    <3>2. \A name : ~BelongsTo(x, name)
      BY <1>0, <1>1, <2>1 DEF BelongsTo
    <3> QED
      BY <1>0, <1>1, <1>5, <2>1, <3>1, <3>2, NameAssumption DEF Listed
  <2>2. CASE x # id
    <3>1. \A name : BelongsTo(x, name)' <=> BelongsTo(x, name)
      BY <1>0, <1>3, <1>4, <2>2, SubIds DEF BelongsTo
    <3> QED
      BY <1>0, <1>1, <1>5, <2>2, <3>1 DEF Listed
  <2> QED
    BY <2>1, <2>2
<1>10. \A d \in Client : Shunned(d)' /\ Owed(d)'
  <2>1. \A x \in SubId : x[1] = c /\ Gone(x) => Gone(x)'
    BY <1>0, <1>3, <1>4 DEF Gone, Subscribing
  <2>2. conn[c].pc \notin Publishing /\ conn'[c].pc \notin Publishing
    BY <1>0, <1>3 DEF Publishing
  <2> QED
    BY <1>3, <1>4, <1>7, <2>1, <2>2, AuditFrame DEF Leaving
<1> QED
  BY <1>6, <1>7, <1>8, <1>9, <1>10, StepFrame

LEMMA RecordStep ==
  ASSUME IInv, NEW c \in Client, Record(c)
  PROVE  IInv'
<1> DEFINE id  == conn[c].id
           sub == conn[c].sub
<1>0. /\ Typed /\ TablesTyped /\ LocksHeld /\ conn \in [Client -> State] /\ conn[c] \in State
      /\ Books(c) /\ Listed /\ conn[c].pc = "record"
  BY DEF IInv, Typed, Record
<1>1. /\ id \in SubId /\ id[1] = c /\ id[2] = issued[c] /\ subs[id] = NoSub
      /\ sub \in Sub /\ sub # NoSub /\ sub.client = c
  <2>1. id \in SubId /\ id[1] = c /\ id[2] = issued[c]
    BY <1>0, OwnIds DEF Subscribers
  <2>2. sub \in Sub /\ sub # NoSub
    BY <1>0, StateFacts, NoSubAssumption DEF Subscribers
  <2>3. subs[id] = NoSub /\ sub.client = c
    BY <1>0 DEF Books, Fresh, Subscribers
  <2> QED
    BY <2>1, <2>2, <2>3
<1>2. Idle \in State
  BY States DEF Idle, Resting
<1>3. conn' \in [Client -> State] /\ conn'[c] = Idle /\ \A d \in Client \ {c} : conn'[d] = conn[d]
  BY <1>0, <1>2, NewState DEF Record
<1>4. /\ UNCHANGED <<topics, sequence, subscribers, patternSubs, lock, clients,
                     webSockets, issued, events, raced, audit>>
      /\ subs' \in [SubId -> Sub \cup {NoSub}]
      /\ subs'[id] = sub /\ \A x \in SubId \ {id} : subs'[x] = subs[x]
      /\ clientSubs' \in [Client -> SUBSET SubId]
      /\ clientSubs'[c] = clientSubs[c] \cup {id}
      /\ \A d \in Client \ {c} : clientSubs'[d] = clientSubs[d]
  BY <1>0, <1>1 DEF Record, server, ghosts, TablesTyped
<1>5. Typed'
  <2>1. TablesTyped'
    BY <1>0, <1>1, <1>4 DEF TablesTyped
  <2>2. LocksHeld'
    BY <1>0, <1>2, <1>4, LocksKept DEF Record, Section, Idle
  <2> QED
    BY <1>3, <2>1, <2>2 DEF Typed
<1>6. Local(c)
  BY <1>1, <1>3, <1>4 DEF Local
<1>7. Books(c)'
  <2>1. Fresh(c)'
    <3>1. \A x \in SubId : x[1] = c /\ subs'[x] # NoSub => x[2] <= issued[c]
      BY <1>0, <1>1, <1>4 DEF Books, Fresh, TablesTyped
    <3> QED
      BY <1>3, <1>4, <3>1 DEF Fresh, Idle, Subscribers
  <2>2. Recorded(c)'
    BY <1>0, <1>1, <1>4 DEF Books, Recorded
  <2>3. Removing(c)' /\ Connected(c)'
    BY <1>0, <1>3, <1>4 DEF Books, Removing, Connected, Up, Idle
  <2> QED
    BY <2>1, <2>2, <2>3 DEF Books
<1>8. Listed'
  <2>1. \A x \in SubId, name \in Topic \cup Pattern :
          x[1] = c => BelongsTo(x, name)' = BelongsTo(x, name)
    BY <1>0, <1>1, <1>3, <1>4 DEF BelongsTo, Idle
  <2> QED
    BY <1>4, <1>6, <2>1, ListedFrame
<1>9. \A d \in Client : Shunned(d)' /\ Owed(d)'
  <2>1. \A x \in SubId : x[1] = c /\ Gone(x) => Gone(x)'
    BY <1>0, <1>1, <1>3, <1>4 DEF Gone, Subscribing, Idle
  <2>2. conn[c].pc \notin Publishing /\ conn'[c].pc \notin Publishing
    BY <1>0, <1>3 DEF Publishing, Idle
  <2>3. ASSUME NEW d \in Client, NEW x \in audit'[d].due, conn[d].pc \in Publishing
        PROVE  x \in SubId /\ subs'[x] = subs[x]
    <3>1. x \in SubId /\ x \in audit[d].due
      BY <1>0, <1>4, <2>3 DEF TablesTyped, Audit
    <3>2. subs[x] # NoSub
      BY <2>3, <3>1 DEF IInv, Owed, Wanted
    <3> QED
      BY <1>1, <1>4, <3>1, <3>2
  <2>4. \A x : x[1] = c => ~Leaving(x)'
    BY <1>3 DEF Leaving, Idle
  <2> QED
    BY <1>4, <1>6, <2>1, <2>2, <2>3, <2>4, AuditFrame
<1> QED
  BY <1>5, <1>6, <1>7, <1>8, <1>9, StepFrame

\* A subscription that is removed leaves every table, and nobody owes it anything.
LEMMA ForgetFrame ==
  ASSUME IInv, NEW c \in Client, NEW id \in SubId,
         conn[c].pc \in {"remove", "excl"}, id \in conn[c].todo,
         Goto(c, [pc |-> "remove", todo |-> conn[c].todo \ {id}, then |-> conn[c].then]),
         Forget(c, id),
         UNCHANGED <<topics, sequence, lock, server, issued, events, audit>>,
         subscribers' \in [Topic -> SUBSET SubId], patternSubs' \in [Pattern -> SUBSET SubId],
         raced \subseteq raced', raced' \subseteq SubId,
         \A p \in Pattern : patternSubs'[p] = patternSubs[p] \ {id},
         \A x \in SubId : x \notin raced' =>
           \A t \in Topic : x \in subscribers'[t] <=> x \in subscribers[t] /\ x # id
  PROVE  IInv'
<1> DEFINE s == [pc |-> "remove", todo |-> conn[c].todo \ {id}, then |-> conn[c].then]
<1>0. /\ Typed /\ TablesTyped /\ LocksHeld /\ conn \in [Client -> State] /\ conn[c] \in State
      /\ Books(c) /\ Listed
  BY DEF IInv, Typed
<1>1. /\ id[1] = c /\ id \in clientSubs[c] /\ subs[id] # NoSub
      /\ conn[c].todo \in SUBSET SubId /\ conn[c].then \in {"idle", "leave"}
  BY <1>0, OwnIds, StateFacts
<1>2. s \in State
  BY <1>1, States
<1>3. conn' \in [Client -> State] /\ conn'[c] = s /\ \A d \in Client \ {c} : conn'[d] = conn[d]
  BY <1>0, <1>2, NewState
<1>4. /\ subs' \in [SubId -> Sub \cup {NoSub}]
      /\ subs'[id] = NoSub /\ \A x \in SubId \ {id} : subs'[x] = subs[x]
      /\ clientSubs' \in [Client -> SUBSET SubId]
      /\ clientSubs'[c] = clientSubs[c] \ {id}
      /\ \A d \in Client \ {c} : clientSubs'[d] = clientSubs[d]
  BY <1>0 DEF Forget, TablesTyped
<1>5. Typed'
  <2>1. TablesTyped'
    BY <1>0, <1>4 DEF TablesTyped, server
  <2>2. LocksHeld'
    BY <1>0, <1>2, LocksKept DEF Section
  <2> QED
    BY <1>3, <2>1, <2>2 DEF Typed
<1>6. Local(c)
  BY <1>1, <1>3, <1>4 DEF Local, server
<1>7. Books(c)'
  <2>1. Fresh(c)'
    BY <1>0, <1>3, <1>4 DEF Books, Fresh, Subscribers
  <2>2. Recorded(c)'
    BY <1>0, <1>4 DEF Books, Recorded
  <2>3. Removing(c)' /\ Connected(c)'
    BY <1>0, <1>3, <1>4 DEF Books, Removing, Connected, Up, server
  <2> QED
    BY <2>1, <2>2, <2>3 DEF Books
<1>8. Listed'
  <2>1. \A x \in SubId, name \in Topic \cup Pattern : BelongsTo(x, name)' <=> BelongsTo(x, name) /\ x # id
    <3> SUFFICES ASSUME NEW x \in SubId, NEW name \in Topic \cup Pattern
                 PROVE  BelongsTo(x, name)' <=> BelongsTo(x, name) /\ x # id
      OBVIOUS
    <3>1. CASE x[1] = c
      BY <1>0, <1>3, <1>4, <3>1 DEF BelongsTo
    <3>2. CASE x[1] # c
      BY <1>1, <1>3, <1>4, <3>2, SubIds DEF BelongsTo
    <3> QED
      BY <3>1, <3>2
  <2> QED
    BY <1>0, <2>1 DEF Listed
<1>9. \A d \in Client : Shunned(d)' /\ Owed(d)'
  <2>1. \A x \in SubId : x[1] = c /\ Gone(x) => Gone(x)'
    BY <1>0, <1>3, <1>4 DEF Gone, Subscribing
  <2>2. conn[c].pc \notin Publishing /\ conn'[c].pc \notin Publishing
    BY <1>0, <1>3 DEF Publishing
  <2>3. ASSUME NEW d \in Client, NEW x \in audit'[d].due, conn[d].pc \in Publishing, x[1] = c
        PROVE  subs'[x] = subs[x] /\ (Leaving(x)' => Leaving(x))
    <3>1. x \in SubId /\ x \in audit[d].due
      BY <1>0 DEF TablesTyped, Audit
    <3>2. ~Leaving(x)
      BY <2>3, <3>1 DEF IInv, Owed
    <3>3. x # id
      BY <1>1, <3>2 DEF Leaving
    <3>4. ~Leaving(x)'
      BY <1>3, <2>3, <3>2 DEF Leaving
    <3> QED
      BY <1>4, <3>1, <3>3, <3>4
  <2> QED
    BY <1>6, <2>1, <2>2, <2>3, AuditFrame
<1> QED
  BY <1>5, <1>6, <1>7, <1>8, <1>9, StepFrame

LEMMA RemoveFromPatternStep ==
  ASSUME IInv, NEW c \in Client, NEW id \in SubId, RemoveFromPattern(c, id)
  PROVE  IInv'
<1>0. /\ Typed /\ TablesTyped /\ conn[c] \in State /\ Books(c) /\ Listed
      /\ conn[c].pc = "remove" /\ id \in conn[c].todo /\ subs[id].to \in Pattern
  BY DEF IInv, Typed, RemoveFromPattern
<1>1. subs[id] # NoSub /\ id[1] = c
  BY <1>0, OwnIds
<1>2. Goto(c, [pc |-> "remove", todo |-> conn[c].todo \ {id}, then |-> conn[c].then])
  <2>1. [conn[c] EXCEPT !.todo = @ \ {id}]
          = [pc |-> "remove", todo |-> conn[c].todo \ {id}, then |-> conn[c].then]
    BY <1>0 DEF State, Resting, Subscribers, Publishing
  <2> QED
    BY <2>1 DEF RemoveFromPattern, Goto
<1>3. /\ patternSubs' \in [Pattern -> SUBSET SubId]
      /\ \A p \in Pattern : patternSubs'[p] = IF p = subs[id].to THEN patternSubs[p] \ {id}
                                                                 ELSE patternSubs[p]
  BY <1>0 DEF RemoveFromPattern, TablesTyped
<1>4. \A p \in Pattern : patternSubs'[p] = patternSubs[p] \ {id}
  BY <1>0, <1>1, <1>3 DEF Listed, BelongsTo
<1>5. \A t \in Topic : id \notin raced => id \notin subscribers[t]
  BY <1>0, <1>1, NameAssumption DEF Listed, BelongsTo
<1> QED
  BY <1>0, <1>2, <1>3, <1>4, <1>5, ForgetFrame DEF RemoveFromPattern, ghosts, TablesTyped

LEMMA RemoveSubscriberStep ==
  ASSUME IInv, NEW c \in Client, RemoveSubscriber(c)
  PROVE  IInv'
<1> DEFINE id  == conn[c].id
           saw == conn[c].saw
           t   == subs[id].to
<1>0. /\ Typed /\ TablesTyped /\ conn[c] \in State /\ Books(c) /\ Listed /\ conn[c].pc = "excl"
  BY DEF IInv, Typed, RemoveSubscriber
<1>1. /\ id \in SubId /\ id[1] = c /\ subs[id] # NoSub /\ id \in conn[c].todo /\ t \in Topic
      /\ id \notin saw => id \in raced
  BY <1>0, OwnIds DEF Books, Removing
<1>2. saw \in SUBSET SubId /\ saw \ {id} \in SUBSET SubId
  BY <1>0, StateFacts
<1>3. /\ subscribers' \in [Topic -> SUBSET SubId] /\ raced' \subseteq SubId
      /\ raced \subseteq raced'
      /\ \A x \in SubId : x \notin raced' =>
           \A u \in Topic : x \in subscribers'[u] <=> x \in subscribers[u] /\ x # id
  <2>0. \A u \in Topic \ {t} : id \notin raced => id \notin subscribers[u]
    BY <1>0, <1>1 DEF Listed, BelongsTo
  <2>1. CASE id \in saw
    <3>1. SetSubscribers(t, saw, saw \ {id})
      BY <2>1 DEF RemoveSubscriber
    <3>2. /\ subscribers' \in [Topic -> SUBSET SubId] /\ raced' \subseteq SubId
          /\ raced \subseteq raced' /\ subscribers'[t] = saw \ {id}
          /\ \A u \in Topic \ {t} : subscribers'[u] = subscribers[u]
          /\ \A x \in SubId : x \notin raced' =>
               x \notin raced /\ (x \in saw <=> x \in subscribers[t])
      <4> HIDE DEF id, t, saw
      <4> QED
        BY <1>0, <1>1, <1>2, <3>1, SetSubscribersFacts
    <3> QED
      BY <2>0, <3>2
  <2>2. CASE id \notin saw
    BY <1>0, <1>1, <2>2 DEF RemoveSubscriber, TablesTyped
  <2> QED
    BY <2>1, <2>2
<1>4. patternSubs' = patternSubs /\ \A p \in Pattern : id \notin patternSubs[p]
  BY <1>0, <1>1, NameAssumption DEF RemoveSubscriber, Listed, BelongsTo
<1>5. /\ Goto(c, [pc |-> "remove", todo |-> conn[c].todo \ {id}, then |-> conn[c].then])
      /\ Forget(c, id)
      /\ UNCHANGED <<topics, sequence, lock, server, issued, events, audit>>
  BY DEF RemoveSubscriber
<1>6. \A p \in Pattern : patternSubs'[p] = patternSubs[p] \ {id}
  BY <1>4
<1>7. patternSubs' \in [Pattern -> SUBSET SubId]
  BY <1>0, <1>4 DEF TablesTyped
<1> HIDE DEF id
<1> QED
  BY <1>0, <1>1, <1>3, <1>5, <1>6, <1>7, ForgetFrame

-----------------------------------------------------------------------------
(* The invariant.                                                           *)

LEMMA InitIInv == Init => IInv
<1> SUFFICES ASSUME Init PROVE IInv
  OBVIOUS
<1>1. NoAudit \in Audit
  BY DEF NoAudit, Audit
<1>2. [pc |-> "new"] \in State
  BY States DEF Resting
<1>3. 0 \in 0 .. MaxSubs
  BY LimitAssumption
<1>4. TablesTyped
  BY <1>1, <1>3 DEF Init, TablesTyped
<1>5. LocksHeld
  BY NameAssumption DEF Init, LocksHeld, Locks, Section
<1>6. Typed
  BY <1>2, <1>4, <1>5 DEF Init, Typed
<1>7. \A c \in Client : Books(c)
  BY DEF Init, Books, Fresh, Recorded, Removing, Connected, Up, Subscribers
<1>8. \A c \in Client : Shunned(c) /\ Owed(c)
  BY DEF Init, Shunned, Owed, NoAudit, Publishing
<1>9. Listed
  BY SubIds DEF Init, Listed, BelongsTo
<1> QED
  BY <1>6, <1>7, <1>8, <1>9 DEF IInv

LEMMA UnchangedKeeps == IInv /\ UNCHANGED vars => IInv'
<1> SUFFICES ASSUME IInv, UNCHANGED vars PROVE IInv'
  OBVIOUS
<1>1. UNCHANGED <<topics, sequence, subscribers, patternSubs, subs, clientSubs, lock,
                  clients, webSockets, conn, issued, raced, audit>>
  BY DEF vars, tables, server, ghosts
<1>2. Typed'
  BY <1>1 DEF IInv, Typed, TablesTyped, LocksHeld
<1>3. \A c \in Client : Books(c)'
  BY <1>1 DEF IInv, Books, Fresh, Recorded, Removing, Connected, Up
<1>4. \A c \in Client : Shunned(c)' /\ Owed(c)'
  BY <1>1 DEF IInv, Shunned, Gone, Subscribing, Owed, Kept, Leaving
<1>5. Listed'
  BY <1>1 DEF IInv, Listed, BelongsTo
<1> QED
  BY <1>2, <1>3, <1>4, <1>5 DEF IInv

LEMMA EventStep ==
  ASSUME IInv, NEW c \in Client, Event(c)
  PROVE  IInv'
<1>1. CASE OpenEvent(c)
  BY <1>1, OpenEventStep
<1>2. CASE CloseEvent(c)
  BY <1>2, CloseEventStep
<1>3. ASSUME NEW wish \in Wishes, Subscribe(c, wish[1], wish[2]) PROVE IInv'
  <2>1. wish[1] \in Topic \cup Pattern /\ wish[2] \in BOOLEAN
    BY InputAssumption
  <2> QED
    BY <1>3, <2>1, SubscribeStep
<1>4. ASSUME NEW ids \in Choices(c), Unsubscribe(c, ids) PROVE IInv'
  BY <1>4, UnsubscribeStep
<1>5. ASSUME NEW t \in Topic, KvChange(c, t) PROVE IInv'
  BY <1>5, StartStep DEF KvChange, Kind
<1>6. ASSUME NEW t \in Topic, NEW kind \in Published, Publish(c, t, kind) PROVE IInv'
  BY <1>6, StartStep, InputAssumption DEF Publish, Kind
<1> QED
  BY <1>1, <1>2, <1>3, <1>4, <1>5, <1>6 DEF Event

LEMMA HandlerStep ==
  ASSUME IInv, NEW c \in Client, Handler(c)
  PROVE  IInv'
<1>1. CASE AddClient(c) \/ RemoveClient(c)
  BY <1>1, AddClientStep, RemoveClientStep
<1>2. CASE CheckLimit(c) \/ AddPattern(c) \/ FindTopic(c) \/ AddSubscriber(c) \/ Record(c)
  BY <1>2, CheckLimitStep, AddPatternStep, FindTopicStep, AddSubscriberStep, RecordStep
<1>3. CASE UnsubscribeAll(c) \/ RemoveSubscriber(c) \/ EndRemove(c)
  BY <1>3, UnsubscribeAllStep, RemoveSubscriberStep, EndRemoveStep
<1>4. ASSUME NEW id \in SubId, RemoveFromPattern(c, id) \/ FindSubscriber(c, id) \/ Stamp(c, id)
      PROVE  IInv'
  BY <1>4, RemoveFromPatternStep, FindSubscriberStep, StampStep
<1>5. CASE Number(c) \/ ExactIds(c) \/ ExactSubs(c) \/ PatternIds(c) \/ PatternSubs(c)
  BY <1>5, NumberStep, ExactIdsStep, ExactSubsStep, PatternIdsStep, PatternSubsStep
<1>6. CASE Send(c) \/ EndPublish(c)
  BY <1>6, SendStep, EndPublishStep
<1> QED
  BY <1>1, <1>2, <1>3, <1>4, <1>5, <1>6 DEF Handler

\* The strengthening holds in every reachable state.
THEOREM Invariance == Spec => []IInv
<1>1. IInv /\ [Next]_vars => IInv'
  BY EventStep, HandlerStep, UnchangedKeeps DEF Next
<1> QED
  BY InitIInv, <1>1, PTL DEF Spec

-----------------------------------------------------------------------------
(* Theorems.                                                                *)

\* The tables stay well formed, and a lock that is held is held by a handler inside
\* the section that takes it, whatever the handlers of other connections do.
THEOREM TypeCorrect == Spec => []TypeOK
<1>1. IInv => TypeOK
  <2> SUFFICES ASSUME IInv PROVE TypeOK
    OBVIOUS
  <2>1. Typed /\ TablesTyped /\ LocksHeld
    BY DEF IInv, Typed
  <2>2. /\ lock \in [{"topics", "subs"} -> Client \cup {Nobody}]
        /\ lock["topics"] # Nobody => conn[lock["topics"]].pc = "join"
        /\ lock["subs"] # Nobody => conn[lock["subs"]].pc \in {"remove", "excl"}
    BY <2>1 DEF LocksHeld, Locks, Section
  <2> QED
    BY <2>1, <2>2 DEF TablesTyped, TypeOK
<1> QED
  BY <1>1, Invariance, PTL

\* Between two events of a connection its record, its list and the place in the topic or
\* the pattern agree, for every subscription that no lost update of a topic has hit:
\* subscribe, unsubscribe and the end of a connection change three tables under three locks.
THEOREM TablesAlwaysAgree == Spec => []TablesAgree
<1>1. IInv => TablesAgree
  <2> SUFFICES ASSUME IInv, NEW c \in Client, AtRest(c)
               PROVE  /\ conn[c].pc = "closed" => clientSubs[c] = {}
                      /\ \A id \in SubId : id[1] = c =>
                           /\ id \in clientSubs[c] <=> subs[id] # NoSub
                           /\ subs[id] # NoSub => subs[id].client = c
                           /\ \A p \in Pattern :
                                id \in patternSubs[p] <=> subs[id] # NoSub /\ subs[id].to = p
                           /\ id \notin raced =>
                                \A t \in Topic :
                                  id \in subscribers[t] <=> subs[id] # NoSub /\ subs[id].to = t
    BY DEF TablesAgree
  <2>1. Recorded(c) /\ Removing(c) /\ Listed
    BY DEF IInv, Books
  <2>2. \A id \in SubId, name \in Topic \cup Pattern : id[1] = c =>
          (BelongsTo(id, name) <=> subs[id] # NoSub /\ subs[id].to = name)
    BY DEF BelongsTo, AtRest
  <2> QED
    BY <2>1, <2>2 DEF Recorded, Removing, Listed
<1> QED
  BY <1>1, Invariance, PTL

\* A subscription that publish found and that nobody began to remove has been sent the
\* event when publish ends: the ids are read under one lock, their records under another,
\* and the client looked up under a third.
THEOREM SubscribersAreServed == Spec => []EverySubscriberIsServed
<1>1. IInv => EverySubscriberIsServed
  <2> SUFFICES ASSUME IInv, NEW c \in Client, conn[c].pc = "stamp", conn[c].targets = {},
                      NEW id \in audit[c].due \ raced
               PROVE  id \in audit[c].sent
    BY DEF EverySubscriberIsServed
  <2>1. Kept(c, id)
    BY DEF IInv, Owed, Publishing
  <2> QED
    BY <2>1 DEF Kept
<1> QED
  BY <1>1, Invariance, PTL

\* A subscription that was removed before publish was called is sent nothing by it, even if
\* a lost update left its id in the topic: an id without a record is passed over.
THEOREM RemovedAreSparedEvents == Spec => []NothingAfterUnsubscribe
<1>1. IInv => NothingAfterUnsubscribe
  BY DEF IInv, Shunned, NothingAfterUnsubscribe
<1> QED
  BY <1>1, Invariance, PTL

=============================================================================
