--------------------------- MODULE CClient_proofs ---------------------------
(***************************************************************************)
(* Proofs about the C client, for any number of threads, barrels, calls and  *)
(* events: the lock, that a call takes its own answer, and what the calls    *)
(* report and leave behind (success, the barrel in use, the order of events).*)
(***************************************************************************)
EXTENDS CClient, SequenceTheorems, TLAPS

PC     == Holding \cup {"idle", "lock", "hs", "ping", "return"}
\* What an answer says, or none.
Status == {"ok", "not_found", "no_barrel", "barrel_exists", "barrel_not_found", "invalid",
           "error", "none"}
Result == {ResultOf(op, s, n) : op \in Asking, s \in Status, n \in 0 .. MaxAttempts}
            \cup {"ok", "null", "timeout", "connection_error", "protocol_error", "error",
                  "not_found"}

Message == [type : {"answer", "event", "handshake", "none"}, id : Nat, status : Status]
Sent ==
  [id : Nat, op : Op \cup {"ping"}, arg : Barrel \cup {NoBarrel}, status : Status]
Call    == [pc : PC, op : Op, arg : Barrel \cup {NoBarrel}, id : Nat,
            left : 0 .. MaxAttempts, msg : Message, res : Result]

Typed ==
  /\ toServer \in Seq(Sent) /\ inbox \in Seq(Message)
  /\ call \in [Thread -> Call]
  /\ \A t \in Thread : /\ Waits(t) => call[t].left > 0
                       /\ call[t].pc = "lock" => call[t].op \in Locked
                       /\ call[t].pc \in {"hs", "ping"} => call[t].op = "connect"
  /\ TypeOK

\* A call that waits for a message of its own.
Pending(t) == call[t].pc \in {"hs", "ping"} \/ (call[t].pc \in {"recv", "handle"} /\ Asked(t))

OneReceiver == \A t, u \in Thread : Receiving(t) /\ Receiving(u) => t = u

\* What is no event is what a pending call waits for; no key is missing for a delete.
Meant(m, t) ==
  /\ Pending(t)
  /\ call[t].op = "delete" => m.status # "not_found"
  /\ \/ call[t].pc = "hs" /\ m.type = "handshake"
     \/ call[t].pc # "hs" /\ m.type = "answer" /\ m.id = call[t].id

NotEvents == {i \in DOMAIN inbox : inbox[i].type # "event"}

\* There is at most one message that is no event, or one request, and the call that
\* asked for it is still there.
Awaited ==
  /\ \A i, j \in NotEvents : i = j
  /\ \A i \in NotEvents : \E t \in Thread : Meant(inbox[i], t)
  /\ toServer # <<>> =>
       /\ Len(toServer) = 1 /\ NotEvents = {}
       /\ \E t \in Thread : /\ Pending(t) /\ call[t].pc # "hs" /\ call[t].id = toServer[1].id
                            /\ IF call[t].pc = "ping" THEN toServer[1].op = "ping"
                               ELSE /\ toServer[1].op = call[t].op
                                    /\ toServer[1].arg = call[t].arg
       /\ toServer[1].op = "delete" => toServer[1].status # "not_found"

\* While a connection is set up, nothing else comes.
Fresh == \A t \in Thread : call[t].pc \in {"hs", "ping"} =>
           ~session.subs /\ NotEvents = DOMAIN inbox

Live == connected \/ \E t \in Thread : Pending(t)

Orderly == OneReceiver /\ OwnAnswer /\ (Live => Awaited) /\ Fresh

IInv == Typed /\ (InStep => Orderly)

-----------------------------------------------------------------------------
(* Sequences.                                                               *)

LEMMA TailFacts ==
  ASSUME NEW S, NEW s \in Seq(S), s # <<>>
  PROVE  /\ 1 \in DOMAIN s /\ Head(s) = s[1] /\ Head(s) \in S
         /\ Tail(s) \in Seq(S) /\ Len(s) \in Nat \ {0} /\ Len(Tail(s)) = Len(s) - 1
         /\ \A i \in DOMAIN Tail(s) : i + 1 \in DOMAIN s /\ Tail(s)[i] = s[i + 1] /\ i \in Nat \ {0}
OBVIOUS

LEMMA AppendFacts ==
  ASSUME NEW S, NEW s \in Seq(S), NEW m \in S
  PROVE  /\ Append(s, m) \in Seq(S) /\ Len(Append(s, m)) = Len(s) + 1 /\ Append(s, m) # <<>>
         /\ Len(s) \in Nat
         /\ Append(s, m)[Len(s) + 1] = m
         /\ \A i \in DOMAIN Append(s, m) :
              i = Len(s) + 1 \/ (i \in DOMAIN s /\ Append(s, m)[i] = s[i])
OBVIOUS

LEMMA ConcatFacts ==
  ASSUME NEW S, NEW s \in Seq(S), NEW m \in S
  PROVE  /\ s \o <<m>> \in Seq(S)
         /\ \A i \in DOMAIN (s \o <<m>>) :
              \/ i = Len(s) + 1 /\ (s \o <<m>>)[i] = m
              \/ i \in DOMAIN s /\ (s \o <<m>>)[i] = s[i]
BY AppendIsConcat, AppendFacts

LEMMA RemoveAtFacts ==
  ASSUME NEW S, NEW s \in Seq(S), NEW k \in 1 .. Len(s)
  PROVE  /\ RemoveAt(s, k) \in Seq(S)
         /\ \A i \in DOMAIN RemoveAt(s, k) :
              \/ i \in DOMAIN s /\ i < k /\ RemoveAt(s, k)[i] = s[i]
              \/ i \in Nat /\ i + 1 \in DOMAIN s /\ i >= k /\ RemoveAt(s, k)[i] = s[i + 1]
<1> DEFINE front == SubSeq(s, 1, k - 1)
           back  == SubSeq(s, k + 1, Len(s))
<1>1. front \in Seq(S) /\ Len(front) = k - 1 /\ \A i \in 1 .. k - 1 : front[i] = s[i]
  OBVIOUS
<1>2. /\ back \in Seq(S) /\ Len(back) = Len(s) - k
      /\ \A i \in 1 .. Len(s) - k : back[i] = s[k + i]
  OBVIOUS
<1>3. RemoveAt(s, k) = front \o back /\ Len(s) \in Nat
  BY DEF RemoveAt
<1> HIDE DEF front, back
<1>4. RemoveAt(s, k) \in Seq(S) /\ DOMAIN RemoveAt(s, k) = 1 .. Len(s) - 1
  BY <1>1, <1>2, <1>3
<1> SUFFICES ASSUME NEW i \in DOMAIN RemoveAt(s, k)
             PROVE  \/ i \in DOMAIN s /\ i < k /\ RemoveAt(s, k)[i] = s[i]
                    \/ /\ i \in Nat /\ i + 1 \in DOMAIN s /\ i >= k
                       /\ RemoveAt(s, k)[i] = s[i + 1]
  BY <1>4
<1>5. CASE i < k
  BY <1>1, <1>2, <1>3, <1>4, <1>5
<1>6. CASE i >= k
  <2>1. RemoveAt(s, k)[i] = back[i - (k - 1)]
    BY <1>1, <1>2, <1>3, <1>4, <1>6
  <2>2. /\ i \in Nat /\ i + 1 \in DOMAIN s /\ i - (k - 1) \in 1 .. Len(s) - k
        /\ k + (i - (k - 1)) = i + 1
    BY <1>3, <1>4, <1>6
  <2>3. back[i - (k - 1)] = s[k + (i - (k - 1))]
    BY <2>2, <1>2
  <2> QED
    BY <2>1, <2>2, <2>3, <1>6
<1> QED
  BY <1>4, <1>5, <1>6

-----------------------------------------------------------------------------
(* Types of what the functions and the server return.                       *)

LEMMA Results ==
  /\ {"ok", "null", "timeout", "connection_error", "protocol_error", "error"} \subseteq Result
  /\ \A op \in Op : EventAsAnswer(op) \in Result /\ HandshakeAsAnswer(op) \in Result
BY DEF Result, EventAsAnswer, HandshakeAsAnswer

LEMMA Answers ==
  ASSUME NEW op \in Asking, NEW s \in Status, NEW n \in 0 .. MaxAttempts
  PROVE  ResultOf(op, s, n) \in Result
BY DEF Result

LEMMA StatusTypes ==
  ASSUME NEW op, NEW arg, NEW s \in Statuses(op, arg)
  PROVE  s \in Status
BY DEF Statuses, DataStatuses, Status

LEMMA Sessions ==
  ASSUME NEW r \in Sent, NEW s, session \in [barrel : Barrel \cup {NoBarrel}, subs : BOOLEAN]
  PROVE  After(r.op, r.arg, s) \in [barrel : Barrel \cup {NoBarrel}, subs : BOOLEAN]
BY DEF After, Sent

LEMMA Messages ==
  /\ NoAnswer \in Message /\ Handshake \in Message
  /\ \A n \in Nat : Event(n) \in Message
  /\ \A n \in Nat, s \in Status : Answer(n, s) \in Message
BY DEF NoAnswer, Handshake, Event, Answer, Message, Status

\* The end of a call.
LEMMA EndFacts ==
  ASSUME Typed, NEW t \in Thread, NEW m \in Message, NEW r \in Result, End(t, m, r)
  PROVE  /\ call' \in [Thread -> Call]
         /\ call'[t].pc = "return" /\ call'[t].msg = m
         /\ call'[t].op = call[t].op /\ call'[t].id = call[t].id
         /\ call'[t].left = call[t].left
         /\ \A u \in Thread \ {t} : call'[u] = call[u]
         /\ lock' = IF lock = t THEN NoThread ELSE lock
<1> DEFINE c == [call[t] EXCEPT !.pc = "return", !.msg = m, !.res = r]
<1>1. call \in [Thread -> Call] /\ call[t] \in Call
  BY DEF Typed
<1>2. /\ c \in Call /\ c.pc = "return" /\ c.msg = m
      /\ c.op = call[t].op /\ c.id = call[t].id /\ c.left = call[t].left
  BY <1>1 DEF Call, PC, Holding
<1>3. call' = [call EXCEPT ![t] = c] /\ lock' = IF lock = t THEN NoThread ELSE lock
  BY <1>1 DEF End
<1> HIDE DEF c
<1> QED
  BY <1>1, <1>2, <1>3

-----------------------------------------------------------------------------
(* Types and the lock.                                                      *)

\* What the type invariant says of one thread.
CallTyped(t) ==
  /\ call[t].pc \in Holding \cup {"idle", "lock", "hs", "ping", "return"}
  /\ call[t].op \in Op /\ call[t].left \in 0 .. MaxAttempts
  /\ lock = t <=> call[t].op \in Locked /\ call[t].pc \in Holding
  /\ Waits(t) => call[t].left > 0
  /\ call[t].pc = "lock" => call[t].op \in Locked
  /\ call[t].pc \in {"hs", "ping"} => call[t].op = "connect"

\* The parts of the type invariant that only some actions touch.
Rest ==
  /\ connected \in BOOLEAN /\ up \in BOOLEAN
  /\ session \in [barrel : Barrel \cup {NoBarrel}, subs : BOOLEAN]
  /\ current \in Barrel \cup {NoBarrel} /\ kept \in BOOLEAN
  /\ callback \in BOOLEAN /\ trouble \in {"none", "threads", "other"}
  /\ calls \in 0 .. MaxCalls /\ events \in 0 .. MaxEvents

Calls == call \in [Thread -> Call] /\ lock \in Thread \cup {NoThread}
           /\ \A t \in Thread : CallTyped(t)

Queues ==
  /\ toServer \in Seq(Sent) /\ inbox \in Seq(Message)
  /\ \A i \in DOMAIN inbox : inbox[i].type # "none"

LEMMA Parts == Typed <=> Rest /\ Calls /\ Queues
<1>1. ASSUME toServer \in Seq(Sent), NEW i \in DOMAIN toServer
      PROVE  toServer[i].op \in Op \cup {"ping"}
  <2>1. toServer[i] \in Sent
    BY <1>1
  <2> QED
    BY <2>1 DEF Sent
<1>2. ASSUME inbox \in Seq(Message), NEW i \in DOMAIN inbox
      PROVE  inbox[i].type # "none" <=> inbox[i].type \in {"answer", "event", "handshake"}
  <2>1. inbox[i] \in Message
    BY <1>2
  <2> QED
    BY <2>1 DEF Message
<1> QED
  BY <1>1, <1>2 DEF Typed, TypeOK, Rest, Calls, Queues, CallTyped

LEMMA PartsNext == (Typed')<=> Rest' /\ Calls' /\ Queues'
BY Parts, PTL

LEMMA IdleTyped == Idle \in Call /\ Idle.pc = "idle" /\ Idle.msg = NoAnswer
BY Messages, Results, BoundAssumption DEF Idle, Call, PC, Op

LEMMA InitTyped == Init => Typed
<1> SUFFICES ASSUME Init PROVE Rest /\ Calls /\ Queues
  BY Parts
<1>1. Rest
  <2>1. session \in [barrel : Barrel \cup {NoBarrel}, subs : BOOLEAN]
    BY DEF Init, NewSession
  <2>2. calls \in 0 .. MaxCalls /\ events \in 0 .. MaxEvents
    BY BoundAssumption DEF Init
  <2>3. /\ connected \in BOOLEAN /\ up \in BOOLEAN /\ kept \in BOOLEAN /\ callback \in BOOLEAN
        /\ current \in Barrel \cup {NoBarrel} /\ trouble \in {"none", "threads", "other"}
    BY DEF Init
  <2> QED
    BY <2>1, <2>2, <2>3 DEF Rest
<1>2. Idle \in Call /\ Idle.pc = "idle"
  BY IdleTyped
<1>3. call \in [Thread -> Call] /\ \A t \in Thread : call[t].pc = "idle"
  BY <1>2 DEF Init
<1>4. ASSUME NEW t \in Thread PROVE CallTyped(t)
  <2>1. call[t] \in Call
    BY <1>3
  <2>2. call[t].op \in Op /\ call[t].left \in 0 .. MaxAttempts
    BY <2>1 DEF Call
  <2>3. lock # t
    BY NullAssumption DEF Init
  <2> QED
    BY <1>3, <2>2, <2>3 DEF CallTyped, Waits, Holding
<1>5. Calls
  BY <1>3, <1>4 DEF Calls, Init
<1>6. Queues
  BY DEF Init, Queues
<1> QED
  BY <1>1, <1>5, <1>6

\* One thread's call goes on, and only that thread takes or gives back the lock.
LEMMA OneCallMoves ==
  ASSUME Calls, NEW t \in Thread, call' \in [Thread -> Call],
         \A u \in Thread \ {t} : call'[u] = call[u] /\ (lock' = u <=> lock = u),
         lock' \in Thread \cup {NoThread},
         lock' = t <=> call'[t].op \in Locked /\ call'[t].pc \in Holding,
         call'[t].pc = "recv" => call'[t].left > 0,
         call'[t].pc = "lock" => call'[t].op \in Locked,
         call'[t].pc \in {"hs", "ping"} => call'[t].op = "connect"
  PROVE  Calls'
<1> SUFFICES ASSUME NEW u \in Thread PROVE CallTyped(u)'
  BY DEF Calls
<1>1. CASE u = t
  <2>1. call'[t] \in Call
    OBVIOUS
  <2>2. call'[t].pc \in PC /\ call'[t].op \in Op /\ call'[t].left \in 0 .. MaxAttempts
    BY <2>1 DEF Call
  <2> QED
    BY <1>1, <2>2 DEF CallTyped, Waits, PC
<1>2. CASE u # t
  BY <1>2 DEF Calls, CallTyped, Waits
<1> QED
  BY <1>1, <1>2

\* A call that ends gives the lock back if it holds it.
LEMMA EndTyped ==
  ASSUME Typed, NEW t \in Thread, NEW m \in Message, NEW r \in Result, End(t, m, r)
  PROVE  Calls'
<1>1. lock' \in Thread \cup {NoThread} /\ Calls
  BY Parts, EndFacts DEF Calls
<1>2. \A u \in Thread \ {t} : call'[u] = call[u] /\ (lock' = u <=> lock = u)
  BY EndFacts, NullAssumption
<1>3. lock' # t /\ call'[t].pc \notin Holding \cup {"lock", "hs", "ping"} /\ call'[t].pc # "recv"
  BY EndFacts, NullAssumption DEF Holding
<1> QED
  BY <1>1, <1>2, <1>3, EndFacts, OneCallMoves

LEMMA BlameFacts ==
  ASSUME trouble \in {"none", "threads", "other"},
         NEW happened, NEW cause \in {"threads", "other"}, Blame(happened, cause)
  PROVE  /\ trouble' \in {"none", "threads", "other"}
         /\ trouble' = "none" => trouble = "none" /\ ~happened
BY DEF Blame

LEMMA TakeHeadTyped ==
  ASSUME Queues, TakeHead
  PROVE  /\ inbox' \in Seq(Message) /\ \A i \in DOMAIN inbox' : inbox'[i].type # "none"
         /\ Head(inbox) \in Message /\ Head(inbox).type # "none"
BY TailFacts DEF Queues, TakeHead

LEMMA AppendTyped ==
  ASSUME Queues, NEW m \in Message, m.type # "none", inbox' = Append(inbox, m)
  PROVE  inbox' \in Seq(Message) /\ \A i \in DOMAIN inbox' : inbox'[i].type # "none"
BY AppendFacts DEF Queues

LEMMA TransmitTyped ==
  ASSUME Typed, NEW t \in Thread, Transmit(t)
  PROVE  toServer' \in Seq(Sent)
<1>1. call[t] \in Call /\ toServer \in Seq(Sent)
  BY DEF Typed
<1>2. Request(call[t].id, call[t].op, call[t].arg) \in Sent
  BY <1>1 DEF Call, Request, Sent, Status
<1> QED
  BY <1>1, <1>2, AppendFacts DEF Transmit

\* The actions of the server and of the transport.
\* A request is carried out where it stands.
LEMMA CarriedOut ==
  ASSUME toServer \in Seq(Sent), ServerCarriesOut
  PROVE  \E status \in Statuses(toServer[1].op, toServer[1].arg) :
           /\ session' = After(toServer[1].op, toServer[1].arg, status)
           /\ toServer[1] \in Sent /\ toServer' \in Seq(Sent)
           /\ Len(toServer') = Len(toServer) /\ toServer' # <<>>
           /\ toServer'[1].status = status
           /\ toServer'[1].id = toServer[1].id /\ toServer'[1].op = toServer[1].op
           /\ toServer'[1].arg = toServer[1].arg
<1> DEFINE r == toServer[1]
<1>1. toServer # <<>> /\ Head(toServer) = r /\ r \in Sent /\ 1 \in DOMAIN toServer
  BY TailFacts DEF ServerCarriesOut
<1> HIDE DEF r
<1>2. PICK status \in Statuses(r.op, r.arg) :
        /\ toServer' = [toServer EXCEPT ![1] = [r EXCEPT !.status = status]]
        /\ session' = After(r.op, r.arg, status)
  BY <1>1 DEF ServerCarriesOut
<1> DEFINE c == [r EXCEPT !.status = status]
<1>3. c \in Sent /\ c.status = status /\ c.id = r.id /\ c.op = r.op /\ c.arg = r.arg
  BY <1>1, StatusTypes DEF Sent
<1>4. toServer' = [toServer EXCEPT ![1] = c]
  BY <1>2
<1> HIDE DEF c
<1>5. /\ toServer' \in Seq(Sent) /\ Len(toServer') = Len(toServer) /\ toServer' # <<>>
      /\ toServer'[1] = c
  BY <1>1, <1>3, <1>4
<1> QED
  BY <1>1, <1>2, <1>3, <1>5 DEF r

LEMMA ServerTyped ==
  ASSUME Typed,
         ServerCarriesOut \/ ServerAnswers \/ ServerSendsEvent \/ ServerCloses \/ MessageLost
  PROVE  Typed'
<1> USE Parts
<1> SUFFICES Rest' /\ Calls' /\ Queues'
  BY PartsNext
<1>0. UNCHANGED <<call, lock>>
  BY DEF ServerCarriesOut, ServerAnswers, ServerSendsEvent, ServerCloses, MessageLost
<1>1. Calls'
  BY <1>0 DEF Calls, CallTyped, Waits
<1>2. CASE ServerAnswers
  <2>1. toServer # <<>> /\ toServer \in Seq(Sent)
    BY <1>2 DEF ServerAnswers, Queues
  <2>2. Head(toServer) \in Sent /\ toServer' \in Seq(Sent)
    BY <1>2, <2>1, TailFacts DEF ServerAnswers
  <2> DEFINE a == Answer(Head(toServer).id, Head(toServer).status)
  <2>3. a \in Message /\ a.type # "none" /\ inbox' = Append(inbox, a)
    <3>1. Head(toServer).id \in Nat /\ Head(toServer).status \in Status
      BY <2>2 DEF Sent
    <3> QED
      BY <1>2, <3>1, Messages DEF Answer, ServerAnswers
  <2> HIDE DEF a
  <2>4. Queues'
    BY <2>2, <2>3, AppendTyped DEF Queues
  <2>5. Rest'
    BY <1>2 DEF Rest, ServerAnswers, chosen, inbuf, counts
  <2> QED
    BY <1>1, <2>4, <2>5
<1>3. CASE ServerSendsEvent
  <2>1. events' \in 0 .. MaxEvents /\ events + 1 \in Nat
    BY <1>3, BoundAssumption DEF ServerSendsEvent, Rest
  <2>2. Event(events + 1) \in Message /\ Event(events + 1).type # "none"
    BY <2>1, Messages DEF Event
  <2>3. Queues'
    BY <1>3, <2>2, AppendTyped DEF Queues, ServerSendsEvent
  <2>4. Rest'
    BY <1>3, <2>1 DEF Rest, ServerSendsEvent, chosen, inbuf
  <2> QED
    BY <1>1, <2>3, <2>4
<1>4. CASE ServerCloses
  <2>1. Queues'
    BY <1>4 DEF ServerCloses, Queues
  <2>2. Rest'
    BY <1>4 DEF ServerCloses, Rest, NewSession, chosen, inbuf, counts
  <2> QED
    BY <1>1, <2>1, <2>2
<1>5. CASE MessageLost
  <2>1. PICK i \in 3 .. Len(inbox) :
          inbox' = RemoveAt(inbox, i) /\ Blame(inbox[i].type # "event", "other")
    BY <1>5 DEF MessageLost
  <2>2. i \in 1 .. Len(inbox) /\ inbox \in Seq(Message)
    BY DEF Queues
  <2>3. Queues'
    BY <1>5, <2>1, <2>2, RemoveAtFacts DEF Queues, MessageLost
  <2>4. trouble' \in {"none", "threads", "other"}
    BY <2>1, BlameFacts DEF Rest
  <2>5. Rest'
    BY <1>5, <2>4 DEF Rest, MessageLost, chosen, inbuf, counts
  <2> QED
    BY <1>1, <2>3, <2>5
<1>6. CASE ServerCarriesOut
  <2>1. toServer \in Seq(Sent) /\ session \in [barrel : Barrel \cup {NoBarrel}, subs : BOOLEAN]
    BY DEF Queues, Rest
  <2>2. PICK status : /\ session' = After(toServer[1].op, toServer[1].arg, status)
                      /\ toServer[1] \in Sent /\ toServer' \in Seq(Sent)
    BY <1>6, <2>1, CarriedOut
  <2>3. session' \in [barrel : Barrel \cup {NoBarrel}, subs : BOOLEAN]
    BY <2>1, <2>2, Sessions
  <2>4. Queues'
    BY <1>6, <2>2 DEF Queues, ServerCarriesOut
  <2>5. Rest'
    BY <1>6, <2>3 DEF Rest, ServerCarriesOut, chosen, inbuf, counts
  <2> QED
    BY <1>1, <2>4, <2>5
<1> QED
  BY <1>2, <1>3, <1>4, <1>5, <1>6

\* The actions that begin a call, and those without a call.
LEMMA StartsTyped ==
  ASSUME Typed, NEW t \in Thread, Starts(t)
  PROVE  Typed'
<1> USE Parts
<1> SUFFICES Rest' /\ Calls' /\ Queues'
  BY PartsNext
<1>1. ASSUME NEW op, NEW arg \in Args(op), Begin(t, op, arg) PROVE Rest' /\ Calls' /\ Queues'
  <2>1. op \in Op /\ (IF op \in Watches THEN current ELSE arg) \in Barrel \cup {NoBarrel}
    BY <1>1 DEF Begin, Args, Rest, Op
  <2>2. calls' \in 0 .. MaxCalls /\ calls + 1 \in Nat
    BY <1>1, BoundAssumption DEF Begin, Rest
  <2> DEFINE c == [Idle EXCEPT !.pc = IF op \in Locked THEN "lock" ELSE "send",
                               !.op = op, !.id = calls + 1,
                               !.arg = IF op \in Watches THEN current ELSE arg]
  <2>a. c \in Call /\ c.op = op /\ c.pc = IF op \in Locked THEN "lock" ELSE "send"
    BY <2>1, <2>2, IdleTyped DEF Call, PC, Holding
  <2>b. call' = [call EXCEPT ![t] = c]
    BY <1>1 DEF Begin
  <2> HIDE DEF c
  <2>3. /\ call' \in [Thread -> Call]
        /\ call'[t].op = op /\ call'[t].pc = IF op \in Locked THEN "lock" ELSE "send"
        /\ \A u \in Thread \ {t} : call'[u] = call[u]
    BY <2>a, <2>b DEF Calls
  <2>4. lock' = lock /\ lock # t
    BY <1>1 DEF Begin, Calls, CallTyped, Holding
  <2>5. Calls'
    BY <2>3, <2>4, OneCallMoves DEF Calls, Holding
  <2> QED
    BY <1>1, <2>2, <2>5 DEF Begin, Rest, Queues, net, chosen, inbuf
<1>2. ASSUME NEW op, BeginReader(t, op) PROVE Rest' /\ Calls' /\ Queues'
  <2>1. op \in Op /\ op \notin Locked
    BY <1>2 DEF BeginReader, Op, Readers, Locked, Requests, Singles, Choosers
  <2>2. calls' \in 0 .. MaxCalls
    BY <1>2, BoundAssumption DEF BeginReader, Rest
  <2> DEFINE n == IF op = "process" THEN 1 ELSE MaxAttempts
             c == [Idle EXCEPT !.pc = "recv", !.op = op, !.left = n]
  <2>c. n \in 0 .. MaxAttempts /\ n > 0
    BY BoundAssumption
  <2>d. call' = [call EXCEPT ![t] = c]
    BY <1>2 DEF BeginReader
  <2> HIDE DEF n
  <2>a. c \in Call /\ c.op = op /\ c.pc = "recv" /\ c.left > 0
    BY <2>1, <2>c, IdleTyped DEF Call, PC, Holding
  <2> HIDE DEF c
  <2>3. /\ call' \in [Thread -> Call]
        /\ call'[t].op = op /\ call'[t].pc = "recv" /\ call'[t].left > 0
        /\ \A u \in Thread \ {t} : call'[u] = call[u]
    BY <2>a, <2>d DEF Calls
  <2>4. lock' = lock /\ lock # t
    BY <1>2 DEF BeginReader, Calls, CallTyped, Holding
  <2>5. Calls'
    BY <2>1, <2>3, <2>4, OneCallMoves DEF Calls, Holding
  <2>6. trouble' \in {"none", "threads", "other"}
    BY <1>2, BlameFacts DEF BeginReader, Rest
  <2> QED
    BY <1>2, <2>2, <2>5, <2>6 DEF BeginReader, Rest, Queues, net, chosen, inbuf
<1>3. ASSUME NEW left \in 0 .. 2, Connect(t, left) PROVE Rest' /\ Calls' /\ Queues'
  <2>1. calls' \in 0 .. MaxCalls /\ calls + 1 \in Nat
    BY <1>3, BoundAssumption DEF Connect, Rest
  <2> DEFINE c == [Idle EXCEPT !.pc = "hs", !.op = "connect", !.id = calls + 1]
  <2>a. c \in Call /\ c.pc = "hs" /\ c.op = "connect"
    BY <2>1, IdleTyped DEF Call, PC, Op
  <2>b. call' = [call EXCEPT ![t] = c]
    BY <1>3 DEF Connect
  <2> HIDE DEF c
  <2>2. /\ call' \in [Thread -> Call]
        /\ call'[t].pc = "hs" /\ call'[t].op = "connect"
        /\ \A u \in Thread \ {t} : call'[u] = call[u]
    BY <2>a, <2>b DEF Calls
  <2>3. lock' = lock /\ lock # t
    BY <1>3 DEF Connect, Calls, CallTyped, Holding
  <2>4. Calls'
    BY <2>2, <2>3, OneCallMoves DEF Calls, Holding
  <2>5. SubSeq(inbox, 1, left) \in Seq(Message)
    BY <1>3 DEF Connect, Queues
  <2>6. inbox' = SubSeq(inbox, 1, left) \o <<Handshake>>
    BY <1>3 DEF Connect
  <2>7. \A i \in DOMAIN SubSeq(inbox, 1, left) : SubSeq(inbox, 1, left)[i].type # "none"
    BY <1>3 DEF Connect, Queues
  <2>8. inbox' \in Seq(Message) /\ \A i \in DOMAIN inbox' : inbox'[i].type # "none"
    <3> DEFINE old == SubSeq(inbox, 1, left)
    <3>1. old \in Seq(Message) /\ inbox' = old \o <<Handshake>> /\ Handshake.type # "none"
      BY <2>5, <2>6 DEF Handshake
    <3>2. \A i \in DOMAIN old : old[i].type # "none"
      BY <2>7
    <3> HIDE DEF old
    <3> QED
      BY <3>1, <3>2, Messages, ConcatFacts
  <2>12. toServer' = <<>>
    BY <1>3 DEF Connect
  <2>9. Queues'
    BY <2>8, <2>12 DEF Queues
  <2>10. trouble' \in {"none", "threads", "other"} /\ session' = NewSession
    BY <1>3 DEF Connect
  <2>11. Rest'
    BY <1>3, <2>1, <2>10 DEF Connect, Rest, NewSession, inbuf
  <2> QED
    BY <2>4, <2>9, <2>11
<1>4. CASE bb_disconnect(t)
  <2>1. Calls'
    BY <1>4 DEF bb_disconnect, Calls, CallTyped, Waits
  <2> QED
    BY <1>4, <2>1 DEF bb_disconnect, Rest, Queues, inbuf, counts
<1>5. CASE bb_poll_message(t) \/ bb_set_message_callback(t)
  <2>1. Calls'
    BY <1>5 DEF bb_poll_message, bb_set_message_callback, Calls, CallTyped, Waits
  <2> QED
    BY <1>5, <2>1
       DEF bb_poll_message, bb_set_message_callback, Rest, Queues, net, chosen, counts
<1> QED
  BY <1>1, <1>2, <1>3, <1>4, <1>5 DEF Starts

\* The steps of a call that ends with them.
LEMMA EndingsTyped ==
  ASSUME Typed, NEW t \in Thread,
         \/ SendFails(t) \/ Publish(t) \/ EventForAnswer(t) \/ TakeAnswer(t) \/ ReceiveFails(t)
         \/ WaitReturns(t) \/ HandshakeFails(t) \/ PingNotSent(t) \/ Pong(t) \/ NoPong(t)
  PROVE  Typed'
<1> USE Parts
<1> SUFFICES Rest' /\ Calls' /\ Queues'
  BY PartsNext
<1>0. call[t] \in Call /\ call[t].op \in Op /\ call[t].id \in Nat
  BY DEF Calls, Call
<1>1. CASE SendFails(t)
  <2>1. Calls'
    BY <1>1, EndTyped, Messages, Results DEF SendFails
  <2> QED
    BY <1>1, <2>1 DEF SendFails, Rest, Queues, chosen, inbuf, counts
<1>2. CASE Publish(t)
  <2>1. Calls'
    BY <1>2, EndTyped, Messages, Results DEF Publish
  <2>2. toServer' \in Seq(Sent) /\ trouble' \in {"none", "threads", "other"}
    BY <1>2, TransmitTyped, BlameFacts DEF Publish, Rest
  <2> QED
    BY <1>2, <2>1, <2>2 DEF Publish, Rest, Queues, chosen, inbuf, counts
<1>3. CASE EventForAnswer(t)
  <2>1. TakeHead /\ trouble' \in {"none", "threads", "other"}
    BY <1>3, BlameFacts DEF EventForAnswer, Rest
  <2>2. Calls'
    BY <1>0, <1>3, <2>1, TakeHeadTyped, EndTyped, Results DEF EventForAnswer
  <2> QED
    BY <1>3, <2>1, <2>2, TakeHeadTyped DEF EventForAnswer, Rest, Queues, chosen, inbuf, counts
<1>4. CASE TakeAnswer(t)
  <2>1. TakeHead /\ Head(inbox) \in Message /\ Asked(t)
    BY <1>4, TakeHeadTyped DEF TakeAnswer
  <2>2. call[t].op \in Asking /\ call[t].left - 1 \in 0 .. MaxAttempts
    BY <1>4, <2>1, BoundAssumption DEF TakeAnswer, Asked, Calls, CallTyped
  <2>3. ResultOf(call[t].op, Head(inbox).status, call[t].left - 1) \in Result
    BY <2>1, <2>2, Answers DEF Message
  <2>4. Calls'
    BY <1>0, <1>4, <2>1, <2>3, EndTyped, Results DEF TakeAnswer
  <2> QED
    BY <1>4, <2>1, <2>4, TakeHeadTyped DEF TakeAnswer, Rest, Queues, chosen, inbuf, counts
<1>5. CASE ReceiveFails(t)
  <2>1. Calls' /\ trouble' \in {"none", "threads", "other"}
    BY <1>5, EndTyped, Messages, Results, BlameFacts DEF ReceiveFails, Rest
  <2> QED
    BY <1>5, <2>1 DEF ReceiveFails, Rest, Queues, chosen, inbuf, counts
<1>6. CASE WaitReturns(t)
  <2>1. Calls' /\ TakeHead
    BY <1>6, EndTyped, Messages, Results DEF WaitReturns
  <2> QED
    BY <1>6, <2>1, TakeHeadTyped DEF WaitReturns, Rest, Queues, chosen, counts
<1>7. CASE HandshakeFails(t)
  <2>1. Calls'
    BY <1>7, EndTyped, Messages, Results DEF HandshakeFails
  <2>2. (UNCHANGED inbox) \/ TakeHead
    BY <1>7 DEF HandshakeFails
  <2> QED
    BY <1>7, <2>1, <2>2, TakeHeadTyped DEF HandshakeFails, Rest, Queues, chosen, inbuf, counts
<1>8. CASE PingNotSent(t)
  <2>1. Calls' /\ TakeHead
    BY <1>8, EndTyped, Messages, Results DEF PingNotSent
  <2> QED
    BY <1>8, <2>1, TakeHeadTyped DEF PingNotSent, Rest, Queues, chosen, inbuf, counts
<1>9. CASE Pong(t)
  <2>1. TakeHead
    BY <1>9 DEF Pong
  <2>2. Calls'
    BY <1>9, <2>1, TakeHeadTyped, EndTyped, Results DEF Pong
  <2> QED
    BY <1>9, <2>1, <2>2, TakeHeadTyped DEF Pong, Rest, Queues, chosen, inbuf, counts
<1>10. CASE NoPong(t)
  <2>1. Calls' /\ trouble' \in {"none", "threads", "other"}
    BY <1>10, EndTyped, Messages, Results, BlameFacts DEF NoPong, Rest
  <2> QED
    BY <1>10, <2>1 DEF NoPong, Rest, Queues, chosen, inbuf, counts
<1> QED
  BY <1>1, <1>2, <1>3, <1>4, <1>5, <1>6, <1>7, <1>8, <1>9, <1>10

\* What a step that is not the last one does to the calls.
GoesOn(t, pc) ==
  /\ call' \in [Thread -> Call]
  /\ call'[t].pc = pc /\ call'[t].op = call[t].op /\ call'[t].id = call[t].id
  /\ call'[t].arg = call[t].arg
  /\ pc = "recv" => call'[t].left > 0
  /\ pc \notin {"lock", "hs"} /\ (pc = "ping" => call[t].pc = "hs")
  /\ \A u \in Thread \ {t} : call'[u] = call[u]

LEMMA GoesOnTyped ==
  ASSUME Typed, NEW t \in Thread, NEW pc, GoesOn(t, pc),
         \/ lock' = lock /\ (call[t].pc \in Holding <=> pc \in Holding)
         \/ lock' = t /\ lock = NoThread /\ pc \in Holding /\ call[t].op \in Locked
  PROVE  Calls'
<1>1. lock' = t <=> call'[t].op \in Locked /\ call'[t].pc \in Holding
  BY Parts DEF GoesOn, Calls, CallTyped
<1>2. \A u \in Thread \ {t} : call'[u] = call[u] /\ (lock' = u <=> lock = u)
  BY NullAssumption DEF GoesOn
<1>3. Calls /\ lock' \in Thread \cup {NoThread}
  BY Parts DEF Calls
<1>4. call'[t].pc \in {"hs", "ping"} => call'[t].op = "connect"
  BY <1>3 DEF GoesOn, Calls, CallTyped
<1> QED
  BY <1>1, <1>2, <1>3, <1>4, OneCallMoves DEF GoesOn

\* The other steps.
LEMMA StepsTyped ==
  ASSUME Typed, NEW t \in Thread, Steps(t)
  PROVE  Typed'
<1> USE Parts
<1> SUFFICES Rest' /\ Calls' /\ Queues'
  BY PartsNext
<1>0. call \in [Thread -> Call] /\ call[t] \in Call /\ CallTyped(t)
  BY DEF Calls
<1>1. CASE Acquire(t)
  <2>1. GoesOn(t, "send")
    BY <1>0, <1>1 DEF Acquire, GoesOn, Call, PC, Holding
  <2>2. lock' = t /\ lock = NoThread /\ call[t].op \in Locked
    BY <1>0, <1>1 DEF Acquire, CallTyped
  <2>3. Calls'
    BY <2>1, <2>2, GoesOnTyped DEF Holding
  <2> QED
    BY <1>1, <2>3 DEF Acquire, Rest, Queues, net, chosen, inbuf, counts
<1>2. CASE Send(t)
  <2>0. call' = [call EXCEPT ![t].pc = "recv", ![t].left = MaxAttempts] /\ Transmit(t)
    BY <1>2 DEF Send
  <2>1. GoesOn(t, "recv")
    <3>1. MaxAttempts \in 0 .. MaxAttempts /\ MaxAttempts > 0
      BY BoundAssumption
    <3> QED
      BY <1>0, <2>0, <3>1 DEF GoesOn, Call, PC, Holding
  <2>2. lock' = lock /\ call[t].pc = "send"
    BY <1>2 DEF Send
  <2>3. Calls'
    BY <2>1, <2>2, GoesOnTyped DEF Holding
  <2>4. toServer' \in Seq(Sent) /\ trouble' \in {"none", "threads", "other"}
    BY <1>2, <2>0, TransmitTyped, BlameFacts DEF Send, Rest
  <2> QED
    BY <1>2, <2>3, <2>4 DEF Send, Rest, Queues, chosen, inbuf, counts
<1>3. CASE TakeEvent(t)
  <2>1. TakeHead /\ Head(inbox) \in Message /\ call[t].left - 1 \in 0 .. MaxAttempts
    BY <1>0, <1>3, TakeHeadTyped, BoundAssumption DEF TakeEvent, CallTyped
  <2>2. GoesOn(t, "handle")
    BY <1>0, <1>3, <2>1 DEF TakeEvent, GoesOn, Call, PC, Holding
  <2>3. lock' = lock /\ call[t].pc = "recv"
    BY <1>3 DEF TakeEvent, Waits
  <2>4. Calls'
    BY <2>2, <2>3, GoesOnTyped DEF Holding
  <2> QED
    BY <1>3, <2>1, <2>4, TakeHeadTyped DEF TakeEvent, Rest, Queues, chosen, inbuf, counts
<1>4. CASE HandleEvent(t)
  <2>1. trouble' \in {"none", "threads", "other"}
    BY <1>4, BlameFacts DEF HandleEvent, Rest
  <2>2. ASSUME End(t, NoAnswer, "ok") \/ End(t, NoAnswer, "timeout") PROVE Calls'
    BY <2>2, EndTyped, Messages, Results
  <2>3. ASSUME call[t].left > 0, lock' = lock,
               call' = [call EXCEPT ![t].pc = "recv", ![t].msg = NoAnswer]
        PROVE  Calls'
    <3>1. GoesOn(t, "recv")
      BY <1>0, <2>3, Messages DEF GoesOn, Call, PC, Holding
    <3>2. call[t].pc \in Holding /\ "recv" \in Holding
      BY <1>4 DEF HandleEvent, Holding
    <3> QED
      BY <2>3, <3>1, <3>2, GoesOnTyped
  <2>4. Calls'
    BY <1>4, <2>2, <2>3 DEF HandleEvent
  <2> QED
    BY <1>4, <2>1, <2>4 DEF HandleEvent, Rest, Queues, net, chosen, counts
<1>5. CASE SkipEvent(t)
  <2>1. TakeHead /\ trouble' \in {"none", "threads", "other"}
    BY <1>5, BlameFacts DEF SkipEvent, Rest
  <2>2. ASSUME End(t, NoAnswer, "timeout") PROVE Calls'
    BY <2>2, EndTyped, Messages, Results
  <2>3. ASSUME call[t].left > 1, call' = [call EXCEPT ![t].left = @ - 1], lock' = lock
        PROVE  Calls'
    <3>1. call[t].left - 1 \in 0 .. MaxAttempts /\ call[t].left - 1 > 0 /\ call[t].pc = "recv"
      BY <1>0, <1>5, <2>3, BoundAssumption DEF SkipEvent, Waits, CallTyped
    <3>2. GoesOn(t, "recv")
      BY <1>0, <2>3, <3>1 DEF GoesOn, Call
    <3> QED
      BY <2>3, <3>1, <3>2, GoesOnTyped
  <2>4. Calls'
    BY <1>5, <2>2, <2>3 DEF SkipEvent
  <2> QED
    BY <1>5, <2>1, <2>4, TakeHeadTyped DEF SkipEvent, Rest, Queues, chosen, inbuf, counts
<1>6. CASE EmptyRound(t)
  <2>1. ASSUME End(t, NoAnswer, "null") PROVE Calls'
    BY <2>1, EndTyped, Messages, Results
  <2>2. ASSUME call[t].left > 1, call' = [call EXCEPT ![t].left = @ - 1], lock' = lock
        PROVE  Calls'
    <3>1. call[t].left - 1 \in 0 .. MaxAttempts /\ call[t].left - 1 > 0 /\ call[t].pc = "recv"
      BY <1>0, <1>6, <2>2, BoundAssumption DEF EmptyRound, Waits, CallTyped
    <3>2. GoesOn(t, "recv")
      BY <1>0, <2>2, <3>1 DEF GoesOn, Call
    <3> QED
      BY <2>2, <3>1, <3>2, GoesOnTyped
  <2>3. Calls'
    BY <1>6, <2>1, <2>2 DEF EmptyRound
  <2>4. (UNCHANGED inbox) \/ TakeHead
    BY <1>6 DEF EmptyRound
  <2> QED
    BY <1>6, <2>3, <2>4, TakeHeadTyped DEF EmptyRound, Rest, Queues, chosen, inbuf, counts
<1>7. CASE HandshakeTaken(t)
  <2>1. TakeHead /\ call[t].pc = "hs" /\ lock' = lock
    BY <1>7 DEF HandshakeTaken
  <2>2. GoesOn(t, "ping")
    BY <1>0, <1>7 DEF HandshakeTaken, GoesOn, Call, PC
  <2>3. Calls'
    BY <2>1, <2>2, GoesOnTyped DEF Holding
  <2>4. Request(call[t].id, "ping", NoBarrel) \in Sent
    BY <1>0 DEF Call, Request, Sent, Status
  <2>5. toServer' \in Seq(Sent)
    BY <1>7, <2>4, AppendFacts DEF HandshakeTaken, Queues
  <2> QED
    BY <1>7, <2>1, <2>3, <2>5, TakeHeadTyped
       DEF HandshakeTaken, Rest, Queues, chosen, inbuf, counts
<1>8. CASE Return(t)
  <2>1. call'[t] = Idle /\ \A u \in Thread \ {t} : call'[u] = call[u]
    BY <1>0, <1>8 DEF Return
  <2>2. lock' = lock /\ lock # t /\ call' \in [Thread -> Call]
    BY <1>0, <1>8, IdleTyped DEF Return, CallTyped, Holding
  <2>3. Calls'
    BY <2>1, <2>2, IdleTyped, OneCallMoves DEF Calls, Holding
  <2>4. current' \in Barrel \cup {NoBarrel} /\ kept' \in BOOLEAN
    BY <1>0, <1>8 DEF Return, Rest, Call, chosen
  <2> QED
    BY <1>8, <2>3, <2>4 DEF Return, Rest, Queues, net, inbuf, counts
<1> QED
  BY <1>1, <1>2, <1>3, <1>4, <1>5, <1>6, <1>7, <1>8, EndingsTyped, PartsNext DEF Steps

LEMMA NextTyped == Typed /\ [Next]_vars => Typed'
<1> SUFFICES ASSUME Typed, [Next]_vars PROVE Typed'
  OBVIOUS
<1>1. CASE Next
  BY <1>1, ServerTyped, StartsTyped, StepsTyped DEF Next
<1>2. CASE UNCHANGED vars
  BY <1>2 DEF vars, Typed, TypeOK, Waits
<1> QED
  BY <1>1, <1>2

\* request_lock has at most one holder, and it is held by just the calls that are between
\* taking and giving it back, on every way through send_request and the range and batch
\* calls.
THEOREM TypeCorrect == Spec => []TypeOK
<1>1. Typed => TypeOK
  BY DEF Typed
<1> QED
  BY <1>1, InitTyped, NextTyped, PTL DEF Spec

-----------------------------------------------------------------------------
(* Answers.  The lemmas are about kinds of steps; the actions follow.       *)

\* A call waits for a message of its own only while it receives.
LEMMA PendingReceives == \A t \in Thread : Pending(t) => Receiving(t)
BY DEF Pending, Receiving

\* The head of the inbox is taken, or nothing is.
Shorter == (inbox' = inbox) \/ TakeHead

LEMMA ShorterFacts ==
  ASSUME inbox \in Seq(Message), Shorter
  PROVE  /\ \A i \in NotEvents' : \E j \in NotEvents :
              /\ inbox'[i] = inbox[j]
              /\ TakeHead => j = i + 1 /\ i \in Nat \ {0}
         /\ \A i, j \in NotEvents' : (\A k, l \in NotEvents : k = l) => i = j
         /\ NotEvents = DOMAIN inbox => NotEvents' = DOMAIN inbox'
<1>1. CASE inbox' = inbox /\ ~TakeHead
  BY <1>1 DEF NotEvents
<1>2. CASE TakeHead
  <2>1. \A i \in DOMAIN inbox' : i + 1 \in DOMAIN inbox /\ inbox'[i] = inbox[i + 1] /\ i \in Nat \ {0}
    BY <1>2, TailFacts DEF TakeHead
  <2>2. ASSUME NEW i \in NotEvents'
        PROVE  i + 1 \in NotEvents /\ inbox'[i] = inbox[i + 1] /\ i \in Nat \ {0}
    BY <2>1, <2>2 DEF NotEvents
  <2>3. ASSUME NotEvents = DOMAIN inbox PROVE NotEvents' = DOMAIN inbox'
    BY <2>1, <2>3 DEF NotEvents
  <2>4. ASSUME NEW i \in NotEvents', NEW j \in NotEvents', \A k, l \in NotEvents : k = l
        PROVE  i = j
    <3>1. i + 1 = j + 1
      BY <2>2, <2>4
    <3> QED
      BY <2>2, <3>1
  <2> QED
    BY <2>2, <2>3, <2>4
<1> QED
  BY <1>1, <1>2 DEF Shorter

\* The call of t does not receive any more, or has not begun to.
LEMMA Stops ==
  ASSUME IInv, InStep, NEW t \in Thread, Shorter,
         toServer' = toServer, session' = session, connected' => connected,
         \A u \in Thread \ {t} : call'[u] = call[u],
         call'[t].pc \notin {"recv", "handle", "hs", "ping"},
         call'[t].pc = "return" /\ call'[t].msg.type # "none" =>
           call'[t].msg.type = "answer" /\ call'[t].msg.id = call'[t].id,
         Pending(t) /\ connected' => TakeHead /\ Head(inbox).type # "event"
  PROVE  Orderly'
<1>0. Orderly /\ inbox \in Seq(Message)
  BY DEF IInv, Typed
<1>1. \A u \in Thread : u # t => call'[u] = call[u]
  OBVIOUS
<1>2. ~Receiving(t)' /\ ~Pending(t)'
  BY DEF Receiving, Pending
<1>3. \A u \in Thread : u # t => /\ Receiving(u)' <=> Receiving(u)
                                 /\ Pending(u)' <=> Pending(u)
  BY <1>1 DEF Receiving, Pending, Asked
<1>4. OneReceiver'
  BY <1>0, <1>2, <1>3 DEF Orderly, OneReceiver
<1>5. OwnAnswer'
  BY <1>0, <1>1 DEF Orderly, OwnAnswer
<1>6. Fresh'
  <2> SUFFICES ASSUME NEW u \in Thread, call'[u].pc \in {"hs", "ping"}
               PROVE  ~session'.subs /\ NotEvents' = DOMAIN inbox'
    BY DEF Fresh
  <2>1. u # t /\ call[u].pc \in {"hs", "ping"}
    BY <1>1
  <2> QED
    BY <1>0, <2>1, ShorterFacts DEF Orderly, Fresh
<1>7. ASSUME Live' PROVE Awaited'
  <2>1. Awaited
    BY <1>0, <1>2, <1>3, <1>7 DEF Orderly, Live
  <2>2. CASE Pending(t)
    <3>1. \A u \in Thread : ~Pending(u)'
      BY <1>0, <1>2, <1>3, <2>2, PendingReceives DEF Orderly, OneReceiver
    <3>2. TakeHead /\ Head(inbox).type # "event"
      BY <1>7, <2>2, <3>1 DEF Live
    <3>3. 1 \in NotEvents
      BY <1>0, <3>2, TailFacts DEF NotEvents, TakeHead
    <3>4. NotEvents' = {}
      BY <1>0, <2>1, <3>2, <3>3, ShorterFacts DEF Awaited
    <3>5. toServer' = <<>>
      BY <2>1, <3>3 DEF Awaited
    <3> QED
      BY <3>4, <3>5 DEF Awaited
  <2>3. CASE ~Pending(t)
    <3>1. ASSUME NEW u \in Thread, Pending(u) PROVE u # t /\ Pending(u)' /\ call'[u] = call[u]
      BY <1>1, <1>3, <2>3, <3>1
    <3>2. ASSUME NEW i \in NotEvents' PROVE \E u \in Thread : Meant(inbox[i], u)'
      <4>1. PICK j \in NotEvents : inbox'[i] = inbox[j]
        BY <1>0, ShorterFacts
      <4>2. PICK u \in Thread : Meant(inbox[j], u)
        BY <2>1 DEF Awaited
      <4> QED
        BY <3>1, <4>1, <4>2 DEF Meant
    <3>3. \A i, j \in NotEvents' : i = j
      BY <1>0, <2>1, ShorterFacts DEF Awaited
    <3>4. toServer # <<>> => NotEvents' = {}
      BY <1>0, <2>1, ShorterFacts DEF Awaited
    <3> QED
      BY <2>1, <3>1, <3>2, <3>3, <3>4 DEF Awaited
  <2> QED
    BY <2>2, <2>3
<1> QED
  BY <1>4, <1>5, <1>6, <1>7 DEF Orderly

\* The call of t goes on receiving.
LEMMA KeepsReceiving ==
  ASSUME IInv, InStep, NEW t \in Thread, Shorter,
         toServer' = toServer, session' = session, connected' => connected,
         NEW pc \in {"recv", "handle"}, GoesOn(t, pc), call[t].pc \in {"recv", "handle"}
  PROVE  Orderly'
<1>0. Orderly /\ inbox \in Seq(Message)
  BY DEF IInv, Typed
<1>1. \A u \in Thread : /\ call'[u].id = call[u].id
                        /\ call'[u].pc = call[u].pc \/ {call[u].pc, call'[u].pc} \subseteq {"recv", "handle"}
                        /\ call'[u].pc # call[u].pc => u = t
                        /\ u # t => call'[u] = call[u]
                        /\ call'[u].op = call[u].op /\ call'[u].arg = call[u].arg
  BY DEF GoesOn
<1>2. \A u \in Thread : /\ Receiving(u)' <=> Receiving(u)
                        /\ Pending(u)' <=> Pending(u)
  BY <1>1 DEF Receiving, Pending, Asked
<1>3. OneReceiver'
  BY <1>0, <1>2 DEF Orderly, OneReceiver
<1>4. OwnAnswer'
  BY <1>0, <1>1 DEF Orderly, OwnAnswer, GoesOn
<1>5. Fresh'
  <2> SUFFICES ASSUME NEW u \in Thread, call'[u].pc \in {"hs", "ping"}
               PROVE  ~session'.subs /\ NotEvents' = DOMAIN inbox'
    BY DEF Fresh
  <2>1. call[u].pc \in {"hs", "ping"}
    BY <1>1
  <2> QED
    BY <1>0, <2>1, ShorterFacts DEF Orderly, Fresh
<1>6. ASSUME Live' PROVE Awaited'
  <2>1. Awaited
    BY <1>0, <1>2, <1>6 DEF Orderly, Live
  <2>2. ASSUME NEW u \in Thread, Pending(u)
        PROVE  /\ Pending(u)' /\ call'[u].id = call[u].id
               /\ call'[u].op = call[u].op /\ call'[u].arg = call[u].arg
               /\ call'[u].pc = "hs" <=> call[u].pc = "hs"
               /\ call'[u].pc = "ping" <=> call[u].pc = "ping"
    BY <1>1, <1>2, <2>2
  <2>3. ASSUME NEW i \in NotEvents' PROVE \E u \in Thread : Meant(inbox[i], u)'
    <3>1. PICK j \in NotEvents : inbox'[i] = inbox[j]
      BY <1>0, ShorterFacts
    <3>2. PICK u \in Thread : Meant(inbox[j], u)
      BY <2>1 DEF Awaited
    <3> QED
      BY <2>2, <3>1, <3>2 DEF Meant
  <2>4. \A i, j \in NotEvents' : i = j
    BY <1>0, <2>1, ShorterFacts DEF Awaited
  <2>5. toServer # <<>> => NotEvents' = {}
    BY <1>0, <2>1, ShorterFacts DEF Awaited
  <2> QED
    BY <2>1, <2>2, <2>3, <2>4, <2>5 DEF Awaited
<1> QED
  BY <1>3, <1>4, <1>5, <1>6 DEF Orderly

\* Nothing that the other calls see changes, but for the connection, which may end.
LEMMA NothingMoves ==
  ASSUME IInv, InStep, inbox' = inbox, toServer' = toServer, session' = session, call' = call,
         connected' => connected
  PROVE  Orderly'
<1>1. Orderly
  BY DEF IInv
<1>2. \A t \in Thread : Receiving(t)' = Receiving(t) /\ Pending(t)' = Pending(t)
  BY DEF Receiving, Pending, Asked
<1>3. Live' => Live
  BY <1>2 DEF Live
<1>4. Awaited => Awaited'
  BY <1>2 DEF Awaited, NotEvents, Meant
<1>5. OneReceiver' /\ OwnAnswer' /\ Fresh'
  BY <1>1, <1>2 DEF Orderly, OneReceiver, OwnAnswer, Fresh, NotEvents
<1> QED
  BY <1>1, <1>3, <1>4, <1>5 DEF Orderly

\* The messages a pending call may find: events, or its own answer.
LEMMA HeadIsMeant ==
  ASSUME IInv, InStep, NEW t \in Thread, Pending(t), TakeHead
  PROVE  /\ Head(inbox).type # "event" => Meant(Head(inbox), t)
         /\ call[t].pc \in {"hs", "ping"} => Head(inbox).type # "event"
<1>1. Orderly /\ inbox \in Seq(Message) /\ inbox # <<>>
  BY DEF IInv, Typed, TakeHead
<1>2. Head(inbox) = inbox[1] /\ 1 \in DOMAIN inbox
  BY <1>1, TailFacts
<1>3. Awaited
  BY <1>1 DEF Orderly, Live
<1>4. Head(inbox).type # "event" => \E u \in Thread : Meant(Head(inbox), u)
  BY <1>2, <1>3 DEF Awaited, NotEvents
<1>5. \A u \in Thread : Meant(Head(inbox), u) => u = t
  BY <1>1, PendingReceives DEF Orderly, OneReceiver, Meant
<1>6. call[t].pc \in {"hs", "ping"} => Head(inbox).type # "event"
  BY <1>1, <1>2 DEF Orderly, Fresh, NotEvents
<1> QED
  BY <1>4, <1>5, <1>6

LEMMA EndingsOrderly ==
  ASSUME IInv, InStep, InStep', NEW t \in Thread,
         \/ SendFails(t) \/ Publish(t) \/ EventForAnswer(t) \/ TakeAnswer(t) \/ ReceiveFails(t)
         \/ WaitReturns(t) \/ HandshakeFails(t) \/ PingNotSent(t) \/ Pong(t) \/ NoPong(t)
  PROVE  Orderly'
<1>0. Typed /\ trouble \in {"none", "threads", "other"}
  BY DEF IInv, Typed, TypeOK
<1>1. CASE Publish(t) \/ EventForAnswer(t) \/ ReceiveFails(t) \/ NoPong(t)
  <2>1. Blame(TRUE, "other")
    BY <1>1 DEF Publish, EventForAnswer, ReceiveFails, NoPong
  <2> QED
    BY <1>0, <2>1, BlameFacts DEF InStep
<1>2. CASE SendFails(t)
  <2>1. /\ call'[t].pc = "return" /\ call'[t].msg = NoAnswer
        /\ \A u \in Thread \ {t} : call'[u] = call[u]
    BY <1>0, <1>2, EndFacts, Messages, Results DEF SendFails
  <2>2. ~Pending(t)
    BY <1>2 DEF SendFails, Pending
  <2> QED
    BY <1>2, <2>1, <2>2, Stops DEF SendFails, Shorter, NoAnswer
<1>3. CASE TakeAnswer(t)
  <2>1. Pending(t) /\ TakeHead /\ Head(inbox).type # "event" /\ call[t].pc # "hs"
    BY <1>3 DEF TakeAnswer, Pending, Waits, HeadIsEvent, TakeHead
  <2>2. Head(inbox).type = "answer" /\ Head(inbox).id = call[t].id
    BY <2>1, HeadIsMeant DEF Meant
  <2>3. Head(inbox) \in Message /\ call[t].op \in Asking /\ call[t].left - 1 \in 0 .. MaxAttempts
    BY <1>0, <1>3, <2>1, Parts, TakeHeadTyped, BoundAssumption
       DEF TakeAnswer, Asked, Calls, CallTyped
  <2>4. ResultOf(call[t].op, Head(inbox).status, call[t].left - 1) \in Result
    BY <2>3, Answers DEF Message
  <2>5. /\ call'[t].pc = "return" /\ call'[t].msg = Head(inbox) /\ call'[t].id = call[t].id
        /\ \A u \in Thread \ {t} : call'[u] = call[u]
    BY <1>0, <1>3, <2>2, <2>3, <2>4, EndFacts DEF TakeAnswer
  <2> QED
    BY <1>3, <2>1, <2>2, <2>5, Stops DEF TakeAnswer, Shorter
<1>4. CASE WaitReturns(t)
  <2>1. /\ call'[t].pc = "return" /\ call'[t].msg = NoAnswer
        /\ \A u \in Thread \ {t} : call'[u] = call[u]
    BY <1>0, <1>4, EndFacts, Messages, Results DEF WaitReturns
  <2>2. ~Pending(t)
    BY <1>4 DEF WaitReturns, Pending, Waits, Asked, Asking, Locked, Requests, Choosers, Singles,
                Plain, Watches
  <2> QED
    BY <1>4, <2>1, <2>2, Stops DEF WaitReturns, Shorter, NoAnswer
<1>5. CASE HandshakeFails(t)
  <2>1. /\ call'[t].pc = "return" /\ call'[t].msg = NoAnswer
        /\ \A u \in Thread \ {t} : call'[u] = call[u]
    BY <1>0, <1>5, EndFacts, Messages, Results DEF HandshakeFails
  <2> QED
    BY <1>5, <2>1, Stops DEF HandshakeFails, Shorter, NoAnswer
<1>6. CASE PingNotSent(t)
  <2>1. /\ call'[t].pc = "return" /\ call'[t].msg = NoAnswer
        /\ \A u \in Thread \ {t} : call'[u] = call[u]
    BY <1>0, <1>6, EndFacts, Messages, Results DEF PingNotSent
  <2> QED
    BY <1>6, <2>1, Stops DEF PingNotSent, Shorter, NoAnswer
<1>7. CASE Pong(t)
  <2>1. Pending(t) /\ TakeHead /\ call[t].pc = "ping"
    BY <1>7 DEF Pong, Pending
  <2>2. /\ Head(inbox).type = "answer" /\ Head(inbox).id = call[t].id
        /\ Head(inbox) \in Message
    BY <1>0, <2>1, HeadIsMeant, Parts, TakeHeadTyped DEF Meant
  <2>3. /\ call'[t].pc = "return" /\ call'[t].msg = Head(inbox) /\ call'[t].id = call[t].id
        /\ \A u \in Thread \ {t} : call'[u] = call[u]
    BY <1>0, <1>7, <2>2, EndFacts, Results DEF Pong
  <2> QED
    BY <1>7, <2>1, <2>2, <2>3, Stops DEF Pong, Shorter
<1> QED
  BY <1>1, <1>2, <1>3, <1>4, <1>5, <1>6, <1>7

\* A request is sent: nobody receives, so nothing but events is on the way.
LEMMA SendAlone ==
  ASSUME IInv, InStep, InStep', NEW t \in Thread, Send(t)
  PROVE  toServer = <<>> /\ NotEvents = {} /\ \A u \in Thread : ~Receiving(u)
<1>0. Typed /\ Calls /\ Orderly /\ connected /\ Asked(t) /\ call[t].pc = "send"
  BY Parts DEF IInv, Send
<1>1. ~Overlaps(t)
  BY BlameFacts DEF Send, IInv, Typed, TypeOK, InStep
<1>2. \A u \in Thread : ~Receiving(u)
  <2> SUFFICES ASSUME NEW u \in Thread, Receiving(u) PROVE FALSE
    OBVIOUS
  <2>1. u # t
    BY <1>0 DEF Receiving
  <2>2. call[t].op \in Locked /\ call[u].op \in Locked
    BY <1>1, <2>1 DEF Overlaps
  <2>3. lock = t
    BY <1>0, <2>2 DEF Calls, CallTyped, Holding
  <2>4. call[u].pc \in {"recv", "handle"}
    BY <1>0, <2>2 DEF Receiving, Calls, CallTyped, Locked, Requests, Choosers, Singles
  <2>5. lock = u
    BY <1>0, <2>2, <2>4 DEF Calls, CallTyped, Holding
  <2> QED
    BY <2>1, <2>3, <2>5
<1>3. Awaited /\ \A u \in Thread : ~Pending(u)
  BY <1>0, <1>2, PendingReceives DEF Orderly, Live
<1> QED
  BY <1>2, <1>3 DEF Awaited, Meant

LEMMA SendOrderly ==
  ASSUME IInv, InStep, InStep', NEW t \in Thread, Send(t)
  PROVE  Orderly'
<1>0. Typed /\ Calls /\ Orderly /\ connected /\ Asked(t) /\ call[t].pc = "send"
  BY Parts DEF IInv, Send
<1>2. \A u \in Thread : ~Receiving(u)
  BY SendAlone
<1>3. toServer = <<>> /\ NotEvents = {}
  BY SendAlone
<1>4. /\ call'[t].pc = "recv" /\ call'[t].op = call[t].op /\ call'[t].id = call[t].id
      /\ call'[t].arg = call[t].arg
      /\ \A u \in Thread : u # t => call'[u] = call[u]
  BY <1>0 DEF Send, Calls, Call
<1>5. Pending(t)' /\ \A u \in Thread : Receiving(u)' => u = t
  BY <1>0, <1>2, <1>4 DEF Pending, Asked, Receiving
<1>6. OneReceiver'
  BY <1>5 DEF OneReceiver
<1>7. OwnAnswer'
  BY <1>0, <1>4 DEF Orderly, OwnAnswer
<1>8. Fresh'
  BY <1>2, <1>4 DEF Fresh, Receiving
<1>9. Awaited'
  <2>1. inbox' = inbox
    BY DEF Send
  <2>2. NotEvents' = {}
    BY <1>3, <2>1 DEF NotEvents
  <2>3. CASE toServer' = <<>>
    BY <2>2, <2>3 DEF Awaited
  <2>4. CASE toServer' # <<>>
    <3> DEFINE r == Request(call[t].id, call[t].op, call[t].arg)
    <3>1. /\ toServer' = Append(<<>>, r) /\ r.status = "none"
          /\ r.id = call[t].id /\ r.op = call[t].op /\ r.arg = call[t].arg
      BY <1>3, <2>4 DEF Send, Transmit, Request
    <3> HIDE DEF r
    <3>2. Len(toServer') = 1 /\ toServer'[1] = r
      BY <3>1
    <3> QED
      BY <1>4, <1>5, <2>2, <3>1, <3>2 DEF Awaited
  <2> QED
    BY <2>3, <2>4
<1> QED
  BY <1>6, <1>7, <1>8, <1>9 DEF Orderly

\* The handshake of the server has come, and the PING is on its way.
LEMMA HandshakeOrderly ==
  ASSUME IInv, InStep, NEW t \in Thread, HandshakeTaken(t)
  PROVE  Orderly'
<1>0. Typed /\ Orderly /\ TakeHead /\ call[t].pc = "hs" /\ inbox \in Seq(Message) /\ call[t] \in Call
  BY DEF IInv, Typed, HandshakeTaken
<1>1. /\ call'[t].pc = "ping" /\ call'[t].id = call[t].id
      /\ \A u \in Thread : u # t => call'[u] = call[u]
  BY DEF HandshakeTaken, IInv, Typed, Call
<1>2. Pending(t) /\ Pending(t)' /\ Head(inbox).type # "event"
  BY <1>0, <1>1, HeadIsMeant DEF Pending
<1>3. \A u \in Thread : Receiving(u)' => u = t
  BY <1>0, <1>1 DEF Orderly, OneReceiver, Receiving
<1>4. Awaited
  BY <1>0, <1>2 DEF Orderly, Live
<1>5. 1 \in NotEvents
  BY <1>0, <1>2, TailFacts DEF TakeHead, NotEvents
<1>6. NotEvents' = {}
  BY <1>0, <1>4, <1>5, ShorterFacts DEF Awaited, Shorter
<1>7. toServer = <<>>
  BY <1>4, <1>5 DEF Awaited
<1>8. OneReceiver' /\ OwnAnswer'
  BY <1>0, <1>1, <1>3 DEF Orderly, OneReceiver, OwnAnswer
<1>9. Fresh'
  <2>1. ~session'.subs /\ NotEvents' = DOMAIN inbox'
    BY <1>0, ShorterFacts DEF Orderly, Fresh, Shorter, HandshakeTaken
  <2> QED
    BY <2>1 DEF Fresh
<1>10. Awaited'
  <2>1. CASE toServer' = <<>>
    BY <1>6, <2>1 DEF Awaited
  <2>2. CASE toServer' # <<>>
    <3> DEFINE r == Request(call[t].id, "ping", NoBarrel)
    <3>1. toServer' = Append(<<>>, r) /\ r.id = call[t].id /\ r.op = "ping"
      BY <1>7, <2>2 DEF HandshakeTaken, Request
    <3> HIDE DEF r
    <3>2. Len(toServer') = 1 /\ toServer'[1] = r
      BY <3>1
    <3> QED
      BY <1>1, <1>2, <1>6, <3>1, <3>2 DEF Awaited
  <2> QED
    BY <2>1, <2>2
<1> QED
  BY <1>8, <1>9, <1>10 DEF Orderly

LEMMA StepsOrderly ==
  ASSUME IInv, InStep, InStep', NEW t \in Thread, Steps(t)
  PROVE  Orderly'
<1>0. Typed /\ call \in [Thread -> Call] /\ call[t] \in Call /\ CallTyped(t)
  BY Parts DEF IInv, Calls
<1>1. CASE Acquire(t)
  <2>1. call'[t].pc = "send" /\ \A u \in Thread \ {t} : call'[u] = call[u]
    BY <1>0, <1>1 DEF Acquire, Call
  <2>2. ~Pending(t)
    BY <1>1 DEF Acquire, Pending
  <2> QED
    BY <1>1, <2>1, <2>2, Stops DEF Acquire, net, Shorter
<1>2. CASE TakeEvent(t)
  <2>1. TakeHead /\ Head(inbox) \in Message /\ call[t].left - 1 \in 0 .. MaxAttempts
    BY <1>0, <1>2, Parts, TakeHeadTyped, BoundAssumption DEF TakeEvent, CallTyped
  <2>2. GoesOn(t, "handle") /\ call[t].pc = "recv"
    BY <1>0, <1>2, <2>1 DEF TakeEvent, GoesOn, Call, PC, Holding, Waits
  <2> QED
    BY <1>2, <2>1, <2>2, KeepsReceiving DEF TakeEvent, Shorter
<1>3. CASE HandleEvent(t)
  <2>1. inbox' = inbox /\ toServer' = toServer /\ session' = session /\ connected' = connected
    BY <1>3 DEF HandleEvent, net
  <2>2. CASE call[t].op = "process" /\ End(t, NoAnswer, "ok")
    <3>1. /\ call'[t].pc = "return" /\ call'[t].msg = NoAnswer
          /\ \A u \in Thread \ {t} : call'[u] = call[u]
      BY <1>0, <2>2, EndFacts, Messages, Results
    <3>2. ~Pending(t)
      BY <1>3, <2>2 DEF HandleEvent, Pending, Asked, Asking, Locked, Requests, Choosers, Singles,
                        Plain, Watches
    <3> QED
      BY <2>1, <3>1, <3>2, Stops DEF Shorter, NoAnswer
  <2>3. CASE /\ call[t].left > 0
             /\ call' = [call EXCEPT ![t].pc = "recv", ![t].msg = NoAnswer]
    <3>1. GoesOn(t, "recv") /\ call[t].pc = "handle"
      BY <1>0, <1>3, <2>3, Messages DEF HandleEvent, GoesOn, Call, PC, Holding
    <3> QED
      BY <2>1, <3>1, KeepsReceiving DEF Shorter
  <2>4. CASE Blame(TRUE, "other")
    BY <1>0, <2>4, BlameFacts DEF Typed, TypeOK, InStep
  <2> QED
    BY <1>3, <2>2, <2>3, <2>4 DEF HandleEvent
<1>4. CASE SkipEvent(t)
  <2>1. CASE Blame(TRUE, "other")
    BY <1>0, <2>1, BlameFacts DEF Typed, TypeOK, InStep
  <2>2. CASE call[t].left > 1 /\ call' = [call EXCEPT ![t].left = @ - 1]
    <3>1. call[t].left - 1 \in 0 .. MaxAttempts /\ call[t].left - 1 > 0 /\ call[t].pc = "recv"
      BY <1>0, <1>4, <2>2, BoundAssumption DEF SkipEvent, Waits, CallTyped
    <3>2. GoesOn(t, "recv")
      BY <1>0, <2>2, <3>1 DEF GoesOn, Call
    <3> QED
      BY <1>4, <3>1, <3>2, KeepsReceiving DEF SkipEvent, Shorter
  <2> QED
    BY <1>4, <2>1, <2>2 DEF SkipEvent
<1>5. CASE EmptyRound(t)
  <2>1. Shorter /\ toServer' = toServer /\ session' = session /\ (connected' => connected)
    BY <1>5 DEF EmptyRound, Shorter
  <2>2. ~Pending(t)
    BY <1>5 DEF EmptyRound, Waits, Readers, Pending, Asked, Asking, Locked, Requests, Choosers,
                Singles, Plain, Watches
  <2>3. CASE End(t, NoAnswer, "null")
    <3>1. /\ call'[t].pc = "return" /\ call'[t].msg = NoAnswer
          /\ \A u \in Thread \ {t} : call'[u] = call[u]
      BY <1>0, <2>3, EndFacts, Messages, Results
    <3> QED
      BY <2>1, <2>2, <3>1, Stops DEF NoAnswer
  <2>4. CASE call[t].left > 1 /\ call' = [call EXCEPT ![t].left = @ - 1]
    <3>1. call[t].left - 1 \in 0 .. MaxAttempts /\ call[t].left - 1 > 0 /\ call[t].pc = "recv"
      BY <1>0, <1>5, <2>4, BoundAssumption DEF EmptyRound, Waits, CallTyped
    <3>2. GoesOn(t, "recv")
      BY <1>0, <2>4, <3>1 DEF GoesOn, Call
    <3> QED
      BY <2>1, <3>1, <3>2, KeepsReceiving
  <2> QED
    BY <1>5, <2>3, <2>4 DEF EmptyRound
<1>6. CASE Return(t)
  <2>1. call'[t] = Idle /\ \A u \in Thread \ {t} : call'[u] = call[u]
    BY <1>0, <1>6 DEF Return
  <2>2. ~Pending(t)
    BY <1>6 DEF Return, Pending
  <2> QED
    BY <1>6, <2>1, <2>2, IdleTyped, Stops DEF Return, net, Shorter
<1> QED
  BY <1>1, <1>2, <1>3, <1>4, <1>5, <1>6, EndingsOrderly, SendOrderly, HandshakeOrderly DEF Steps

\* A new connection, on which nothing is left of the old one and no call is halfway.
LEMMA ConnectOrderly ==
  ASSUME IInv, InStep', NEW t \in Thread, NEW left \in 0 .. 2, Connect(t, left)
  PROVE  Orderly'
<1>0. Typed /\ call \in [Thread -> Call] /\ inbox \in Seq(Message)
  BY DEF IInv, Typed
<1>1. left = 0 /\ \A u \in Thread \ {t} : ~Halfway(u)
  BY DEF Connect, InStep
<1>2. call'[t].pc = "hs" /\ \A u \in Thread : u # t => call'[u] = call[u]
  BY <1>0 DEF Connect, Idle
<1>3. \A i \in DOMAIN inbox' : i = 1 /\ inbox'[i] = Handshake
  <2> DEFINE old == SubSeq(inbox, 1, left)
  <2>1. old \in Seq(Message) /\ Len(old) = 0 /\ inbox' = old \o <<Handshake>>
    BY <1>0, <1>1 DEF Connect
  <2> HIDE DEF old
  <2>2. \A i \in DOMAIN old : FALSE
    BY <2>1
  <2> QED
    BY <2>1, <2>2, Messages, ConcatFacts
<1>4. NotEvents' = DOMAIN inbox'
  BY <1>3 DEF NotEvents, Handshake
<1>5. \A u \in Thread : u # t => ~Receiving(u)' /\ call'[u].pc # "return"
  BY <1>1, <1>2 DEF Halfway, Receiving
<1>6. OneReceiver' /\ OwnAnswer'
  BY <1>2, <1>5 DEF OneReceiver, OwnAnswer
<1>7. Fresh'
  BY <1>4 DEF Connect, NewSession, Fresh
<1>8. Awaited'
  <2>1. Meant(Handshake, t)'
    BY <1>2 DEF Meant, Pending, Handshake
  <2>2. \A i \in NotEvents' : inbox'[i] = Handshake /\ i = 1
    BY <1>3, <1>4
  <2>3. \A i \in NotEvents' : Meant(inbox[i], t)'
    BY <2>1, <2>2 DEF Meant
  <2> QED
    BY <2>2, <2>3 DEF Awaited, Connect
<1> QED
  BY <1>6, <1>7, <1>8 DEF Orderly

LEMMA StartsOrderly ==
  ASSUME IInv, InStep', NEW t \in Thread, Starts(t)
  PROVE  Orderly'
<1>0. Typed /\ call \in [Thread -> Call] /\ trouble \in {"none", "threads", "other"}
  BY DEF IInv, Typed, TypeOK
<1>1. ASSUME NEW op, NEW arg \in Args(op), Begin(t, op, arg) PROVE Orderly'
  <2>1. /\ call'[t].pc = IF op \in Locked THEN "lock" ELSE "send"
        /\ \A u \in Thread \ {t} : call'[u] = call[u]
    BY <1>0, <1>1 DEF Begin, Idle
  <2>2. ~Pending(t) /\ InStep
    BY <1>1 DEF Begin, Pending, InStep
  <2> QED
    BY <1>1, <2>1, <2>2, Stops DEF Begin, net, Shorter
<1>2. ASSUME NEW op, BeginReader(t, op) PROVE Orderly'
  <2>1. InStep /\ ~ \E u \in Thread \ {t} : Receiving(u)
    BY <1>0, <1>2, BlameFacts DEF BeginReader, InStep
  <2>2. /\ call'[t].pc = "recv" /\ call'[t].op = op
        /\ \A u \in Thread : u # t => call'[u] = call[u]
    BY <1>0, <1>2 DEF BeginReader, Idle
  <2>3. \A u \in Thread : /\ Pending(u)' => FALSE
                          /\ Pending(u) => FALSE
    <3>1. ~Pending(t)'
      BY <1>2, <2>2 DEF BeginReader, Readers, Pending, Asked, Asking, Locked, Requests, Choosers,
                        Singles, Plain, Watches
    <3>2. ~Pending(t)
      BY <1>2 DEF BeginReader, Pending
    <3>3. \A u \in Thread : u # t => (Pending(u)' <=> Pending(u))
      BY <2>2 DEF Pending, Asked
    <3> QED
      BY <2>1, <3>1, <3>2, <3>3, PendingReceives
  <2>4. Orderly /\ inbox' = inbox /\ toServer' = toServer /\ session' = session /\ connected' = connected
    BY <1>2, <2>1 DEF IInv, BeginReader, net
  <2>5. OneReceiver'
    BY <2>1, <2>2 DEF OneReceiver, Receiving
  <2>6. OwnAnswer' /\ Fresh'
    BY <2>1, <2>2, <2>4 DEF Orderly, OwnAnswer, Fresh, NotEvents
  <2>7. Live' => Awaited'
    <3>1. Live' => Live
      BY <2>3, <2>4 DEF Live
    <3>2. NotEvents' = NotEvents
      BY <2>4 DEF NotEvents
    <3>3. Live => NotEvents = {} /\ toServer = <<>>
      BY <2>3, <2>4 DEF Orderly, Awaited, Meant
    <3> QED
      BY <2>4, <3>1, <3>2, <3>3 DEF Awaited
  <2> QED
    BY <2>5, <2>6, <2>7 DEF Orderly
<1>3. CASE bb_disconnect(t)
  BY <1>3, NothingMoves DEF bb_disconnect, InStep
<1>4. CASE bb_poll_message(t) \/ bb_set_message_callback(t)
  BY <1>4, NothingMoves DEF bb_poll_message, bb_set_message_callback, InStep, net
<1> QED
  BY <1>1, <1>2, <1>3, <1>4, ConnectOrderly DEF Starts

\* The calls do not move, and the connection is as it was for them.
LEMMA CallsStay ==
  ASSUME IInv, InStep, call' = call, connected' = connected
  PROVE  /\ OneReceiver' /\ OwnAnswer'
         /\ Live' <=> Live
         /\ \A t \in Thread : Pending(t)' <=> Pending(t)
<1>1. Orderly
  BY DEF IInv
<1>2. \A t \in Thread : Receiving(t)' = Receiving(t) /\ Pending(t)' = Pending(t)
  BY DEF Receiving, Pending, Asked
<1> QED
  BY <1>1, <1>2 DEF Orderly, OneReceiver, OwnAnswer, Live

LEMMA CarryingOutOrderly ==
  ASSUME IInv, InStep, ServerCarriesOut
  PROVE  Orderly'
<1>0. /\ Typed /\ Orderly /\ toServer # <<>> /\ toServer \in Seq(Sent)
      /\ inbox' = inbox /\ call' = call /\ connected' = connected
  BY DEF IInv, Typed, ServerCarriesOut
<1> DEFINE r == toServer[1]
           s == toServer'[1]
<1>1. PICK status \in Statuses(r.op, r.arg) :
        /\ session' = After(r.op, r.arg, status)
        /\ Len(toServer') = Len(toServer) /\ s.status = status
        /\ s.id = r.id /\ s.op = r.op /\ s.arg = r.arg
  BY <1>0, CarriedOut
<1> HIDE DEF r
<1>2. OneReceiver' /\ OwnAnswer'
  BY <1>0, CallsStay
<1>3. Fresh'
  <2> SUFFICES ASSUME NEW t \in Thread, call[t].pc \in {"hs", "ping"}
               PROVE  ~session'.subs /\ NotEvents' = DOMAIN inbox'
    BY <1>0 DEF Fresh
  <2>1. Pending(t) /\ Awaited /\ ~session.subs /\ NotEvents = DOMAIN inbox
    BY <1>0 DEF Pending, Orderly, Live, Fresh
  <2>2. r.op = "ping"
    BY <1>0, <2>1, PendingReceives DEF Awaited, Orderly, OneReceiver, r
  <2>3. session' = session
    BY <1>1, <2>2 DEF After
  <2> QED
    BY <1>0, <2>1, <2>3 DEF NotEvents
<1>4. ASSUME Live' PROVE Awaited'
  <2>1. Awaited /\ NotEvents' = NotEvents
    BY <1>0, <1>4, CallsStay DEF Orderly, NotEvents
  <2>2. PICK t \in Thread : /\ Pending(t) /\ call[t].pc # "hs" /\ call[t].id = r.id
                            /\ IF call[t].pc = "ping" THEN r.op = "ping"
                               ELSE r.op = call[t].op /\ r.arg = call[t].arg
    BY <1>0, <2>1 DEF Awaited, r
  <2>3. Pending(t)' /\ call'[t] = call[t]
    BY <1>0, <2>2, CallsStay
  <2>4. s.op = "delete" => s.status # "not_found"
    BY <1>1 DEF Statuses, DataStatuses, Requests, Choosers, Singles
  <2>5. Len(toServer') = 1 /\ NotEvents' = {}
    BY <1>0, <1>1, <2>1 DEF Awaited
  <2> QED
    BY <1>0, <1>1, <2>2, <2>3, <2>4, <2>5 DEF Awaited
<1> QED
  BY <1>2, <1>3, <1>4 DEF Orderly

LEMMA AnswerOrderly ==
  ASSUME IInv, InStep, ServerAnswers
  PROVE  Orderly'
<1> DEFINE r == Head(toServer)
<1>0. /\ Typed /\ Orderly /\ toServer # <<>> /\ toServer \in Seq(Sent) /\ inbox \in Seq(Message)
      /\ toServer' = Tail(toServer) /\ call' = call /\ connected' = connected
      /\ session' = session
  BY DEF IInv, Typed, ServerAnswers
<1>1. r = toServer[1] /\ r \in Sent
  BY <1>0, TailFacts
<1> DEFINE a == Answer(r.id, r.status)
<1>4. inbox' = Append(inbox, a)
  BY DEF ServerAnswers
<1> HIDE DEF r
<1>3. a \in Message /\ a.type = "answer" /\ a.id = r.id /\ a.status = r.status
  <2>1. r.id \in Nat /\ r.status \in Status
    BY <1>1 DEF Sent
  <2> QED
    BY <2>1, Messages DEF Answer
<1> HIDE DEF a
<1>5. \A i \in DOMAIN inbox' : \/ i = Len(inbox) + 1 /\ inbox'[i] = a
                               \/ i \in DOMAIN inbox /\ inbox'[i] = inbox[i]
  BY <1>0, <1>3, <1>4, AppendFacts
<1>6. OneReceiver' /\ OwnAnswer'
  BY <1>0, CallsStay
<1>7. Fresh'
  <2> SUFFICES ASSUME NEW t \in Thread, call[t].pc \in {"hs", "ping"}
               PROVE  ~session.subs /\ NotEvents' = DOMAIN inbox'
    BY <1>0 DEF Fresh
  <2>1. ~session.subs /\ NotEvents = DOMAIN inbox
    BY <1>0 DEF Orderly, Fresh
  <2> QED
    BY <1>3, <1>5, <2>1 DEF NotEvents
<1>8. ASSUME Live' PROVE Awaited'
  <2>1. Awaited
    BY <1>0, <1>8, CallsStay DEF Orderly
  <2>2. PICK t \in Thread : /\ Pending(t) /\ call[t].pc # "hs" /\ call[t].id = r.id
                            /\ call[t].pc # "ping" => call[t].op = r.op
    BY <1>0, <1>1, <2>1 DEF Awaited
  <2>3. toServer' = <<>>
    BY <1>0, <2>1, TailFacts DEF Awaited
  <2>4. \A i \in NotEvents' : i = Len(inbox) + 1 /\ inbox'[i] = a
    BY <1>0, <1>5, <2>1 DEF Awaited, NotEvents
  <2>5. Pending(t)' /\ call'[t] = call[t]
    BY <1>0, <2>2, CallsStay
  <2>6. call[t].op = "delete" => a.status # "not_found"
    <3>1. call[t].op = "delete" => r.op = "delete"
      BY <1>0, <2>2 DEF Typed
    <3> QED
      BY <1>0, <1>1, <1>3, <2>1, <3>1 DEF Awaited
  <2>7. \A i \in NotEvents' : Meant(inbox[i], t)'
    BY <1>3, <2>2, <2>4, <2>5, <2>6 DEF Meant
  <2> QED
    BY <2>3, <2>4, <2>7 DEF Awaited
<1> QED
  BY <1>6, <1>7, <1>8 DEF Orderly

LEMMA EventOrderly ==
  ASSUME IInv, InStep, ServerSendsEvent
  PROVE  Orderly'
<1>0. /\ Orderly /\ session.subs /\ inbox \in Seq(Message) /\ events + 1 \in Nat
      /\ inbox' = Append(inbox, Event(events + 1)) /\ toServer' = toServer
      /\ call' = call /\ connected' = connected
  BY BoundAssumption DEF IInv, Typed, TypeOK, ServerSendsEvent
<1>1. /\ \A i \in DOMAIN inbox' : \/ i = Len(inbox) + 1 /\ inbox'[i] = Event(events + 1)
                                  \/ i \in DOMAIN inbox /\ inbox'[i] = inbox[i]
  BY <1>0, Messages, AppendFacts
<1>2. \A i \in NotEvents' : i \in NotEvents /\ inbox'[i] = inbox[i]
  BY <1>1 DEF NotEvents, Event
<1>3. OneReceiver' /\ OwnAnswer'
  BY <1>0, CallsStay
<1>4. Fresh'
  BY <1>0 DEF Orderly, Fresh
<1>5. ASSUME Live' PROVE Awaited'
  <2>1. Awaited
    BY <1>0, <1>5, CallsStay DEF Orderly
  <2>2. ASSUME NEW i \in NotEvents' PROVE \E t \in Thread : Meant(inbox[i], t)'
    <3>1. PICK t \in Thread : Meant(inbox[i], t)
      BY <1>2, <2>1 DEF Awaited
    <3> QED
      BY <1>0, <1>2, <3>1, CallsStay DEF Meant
  <2> QED
    BY <1>0, <1>2, <2>1, <2>2, CallsStay DEF Awaited
<1> QED
  BY <1>3, <1>4, <1>5 DEF Orderly

LEMMA LossOrderly ==
  ASSUME IInv, InStep, InStep', MessageLost
  PROVE  Orderly'
<1>0. /\ Orderly /\ inbox \in Seq(Message) /\ toServer' = toServer /\ session' = session
      /\ call' = call /\ connected' = connected /\ trouble \in {"none", "threads", "other"}
  BY DEF IInv, Typed, TypeOK, MessageLost
<1>1. PICK k \in 3 .. Len(inbox) :
        inbox' = RemoveAt(inbox, k) /\ Blame(inbox[k].type # "event", "other")
  BY DEF MessageLost
<1>2. k \in 1 .. Len(inbox) /\ k \in DOMAIN inbox /\ inbox[k].type = "event"
  <2>1. k \in 1 .. Len(inbox) /\ k \in DOMAIN inbox
    BY <1>0
  <2>2. ~(inbox[k].type # "event")
    BY <1>0, <1>1, BlameFacts DEF InStep
  <2> QED
    BY <2>1, <2>2
<1>3. \A i \in DOMAIN inbox' :
        \/ i \in DOMAIN inbox /\ i < k /\ inbox'[i] = inbox[i]
        \/ i \in Nat /\ i + 1 \in DOMAIN inbox /\ i >= k /\ inbox'[i] = inbox[i + 1]
  BY <1>0, <1>1, <1>2, RemoveAtFacts
<1>4. \A i \in NotEvents' :
        \/ i \in NotEvents /\ i \in Nat /\ i < k /\ inbox'[i] = inbox[i]
        \/ i \in Nat /\ i + 1 \in NotEvents /\ i >= k /\ inbox'[i] = inbox[i + 1]
  BY <1>0, <1>3 DEF NotEvents
<1>5. OneReceiver' /\ OwnAnswer'
  BY <1>0, CallsStay
<1>6. Fresh'
  BY <1>0, <1>2 DEF Orderly, Fresh, NotEvents
<1>7. ASSUME Live' PROVE Awaited'
  <2>1. Awaited
    BY <1>0, <1>7, CallsStay DEF Orderly
  <2>2. ASSUME NEW i \in NotEvents' PROVE \E t \in Thread : Meant(inbox[i], t)'
    <3>1. PICK j \in NotEvents : inbox'[i] = inbox[j]
      BY <1>4
    <3>2. PICK t \in Thread : Meant(inbox[j], t)
      BY <2>1 DEF Awaited
    <3> QED
      BY <1>0, <3>1, <3>2, CallsStay DEF Meant
  <2>3. ASSUME NEW i \in NotEvents', NEW j \in NotEvents' PROVE i = j
    <3>1. \A m, n \in NotEvents : m = n
      BY <2>1 DEF Awaited
    <3> QED
      BY <1>4, <3>1
  <2>4. toServer # <<>> => NotEvents' = {}
    BY <1>4, <2>1 DEF Awaited
  <2> QED
    BY <1>0, <2>1, <2>2, <2>3, <2>4, CallsStay DEF Awaited
<1> QED
  BY <1>5, <1>6, <1>7 DEF Orderly

LEMMA CloseOrderly ==
  ASSUME IInv, InStep, ServerCloses
  PROVE  Orderly'
<1>0. /\ Orderly /\ inbox' = inbox /\ toServer' = <<>> /\ ~session'.subs
      /\ call' = call /\ connected' = connected
  BY DEF IInv, ServerCloses, NewSession
<1>1. OneReceiver' /\ OwnAnswer'
  BY <1>0, CallsStay
<1>2. Fresh'
  BY <1>0 DEF Orderly, Fresh, NotEvents
<1>3. ASSUME Live' PROVE Awaited'
  <2>1. Awaited /\ NotEvents' = NotEvents
    BY <1>0, <1>3, CallsStay DEF Orderly, NotEvents
  <2> QED
    BY <1>0, <2>1, CallsStay DEF Awaited, Meant
<1> QED
  BY <1>1, <1>2, <1>3 DEF Orderly

-----------------------------------------------------------------------------
(* The theorems.                                                            *)

LEMMA InitIInv == Init => IInv
<1> SUFFICES ASSUME Init PROVE Orderly
  BY InitTyped DEF IInv
<1>1. \A t \in Thread : call[t].pc = "idle"
  BY IdleTyped DEF Init
<1> QED
  BY <1>1 DEF Init, Orderly, OneReceiver, OwnAnswer, Live, Fresh, Receiving, Pending

\* A step of a call, or of the server or the transport, never mends the order.
LEMMA StepsKeepInStep ==
  ASSUME Typed, InStep',
         \/ \E t \in Thread : Steps(t)
         \/ ServerCarriesOut \/ ServerAnswers \/ ServerSendsEvent \/ ServerCloses \/ MessageLost
  PROVE  InStep
<1>0. trouble \in {"none", "threads", "other"}
  BY DEF Typed, TypeOK
<1>1. CASE ServerCarriesOut \/ ServerAnswers \/ ServerSendsEvent \/ ServerCloses \/ MessageLost
  BY <1>0, <1>1, BlameFacts
     DEF ServerCarriesOut, ServerAnswers, ServerSendsEvent, ServerCloses, MessageLost, InStep
<1>2. ASSUME NEW t \in Thread, Steps(t) PROVE InStep
  <2>1. trouble' = trouble \/ \E happened \in BOOLEAN, cause \in {"threads", "other"} :
                                Blame(happened, cause)
    BY <1>2 DEF Steps, Acquire, SendFails, Send, Publish, TakeEvent, HandleEvent, SkipEvent,
                EventForAnswer, TakeAnswer, ReceiveFails, Return, EmptyRound, WaitReturns,
                HandshakeFails, HandshakeTaken, PingNotSent, Pong, NoPong, Overlaps
  <2> QED
    BY <1>0, <2>1, BlameFacts DEF InStep
<1> QED
  BY <1>1, <1>2

\* Trouble ends only with a new connection.
LEMMA TroubleStays ==
  ASSUME Typed, Next, InStep', ~InStep
  PROVE  \E t \in Thread : Starts(t)
BY StepsKeepInStep DEF Next

LEMMA NextIInv == IInv /\ [Next]_vars => IInv'
<1> SUFFICES ASSUME IInv, [Next]_vars, InStep' PROVE Orderly'
  BY NextTyped DEF IInv
<1>1. CASE UNCHANGED vars
  BY <1>1, NothingMoves DEF vars, InStep
<1>2. CASE Next /\ InStep
  BY <1>2, CarryingOutOrderly, AnswerOrderly, EventOrderly, LossOrderly, CloseOrderly, StartsOrderly, StepsOrderly
     DEF Next
<1>3. CASE Next /\ ~InStep
  BY <1>3, TroubleStays, StartsOrderly DEF IInv
<1> QED
  BY <1>1, <1>2, <1>3

\* Every call takes its own answer, whatever other threads, events, batches, reconnects
\* and closed connections do, until one of the named causes (send_request, bb_connect).
THEOREM CallsTakeTheirAnswer == Spec => []OwnAnswer
<1>1. IInv => OwnAnswer
  BY DEF IInv, Orderly, OwnAnswer
<1> QED
  BY <1>1, InitIInv, NextIInv, PTL DEF Spec

\* Between calls, only events are on their way (send_request).
THEOREM NothingIsLeftBehind == Spec => []NoAnswerLeftBehind
<1>1. IInv => NoAnswerLeftBehind
  <2> SUFFICES ASSUME IInv, AllIdle, connected, up, InStep
               PROVE  toServer = <<>> /\ NotEvents = {}
    BY DEF NoAnswerLeftBehind, NotEvents
  <2>1. Awaited /\ \A t \in Thread : ~Pending(t)
    BY DEF IInv, Orderly, Live, AllIdle, Pending
  <2> QED
    BY <2>1 DEF Awaited, Meant
<1> QED
  BY <1>1, InitIInv, NextIInv, PTL DEF Spec

\* No operation returns success for an answer that reports a failure (bb_create_barrel and
\* the other public functions); a key that is not there to delete is no failure.
LEMMA NoOperationHidesAFailure ==
  ASSUME NEW op \in Asking, NEW s \in Status, NEW left \in 0 .. MaxAttempts,
         s # "ok", ResultOf(op, s, left) = "ok"
  PROVE  op = "delete" /\ s = "not_found"
<1>1. /\ Translate(s) # "ok" /\ Named(s) # "ok"
      /\ OkOrError(s) # "ok" /\ OkOrNothing(s) # "ok"
  BY DEF Translate, Named, OkOrError, OkOrNothing, Status
<1>2. CASE op \in Requests
  BY <1>1, <1>2
     DEF Requests, Choosers, ResultOf, bb_create_barrel, bb_open_barrel, bb_use_barrel,
         bb_close_barrel, bb_list_barrels, bb_drop_barrel, bb_set, bb_get, bb_delete,
         bb_exists, bb_count, bb_list_keys
<1>3. CASE op \in Singles
  BY <1>1, <1>3
     DEF Singles, ResultOf, bb_batch, bb_items_in_range, bb_items_with_prefix, Status
<1>4. CASE op \in Plain \cup Watches
  BY <1>1, <1>4
     DEF Plain, Watches, ResultOf, bb_subscribe, bb_unsubscribe, bb_list_subscribers,
         bb_list_topics, bb_get_history, bb_get_presence, bb_watch_key, bb_unwatch_key
<1> QED
  BY <1>2, <1>3, <1>4 DEF Asking, Locked
-----------------------------------------------------------------------------
(* What the calls report and leave behind.                                   *)

\* The request on its way is carried out with ok, or the answer on its way says so.
Granted ==
  \/ \E i \in NotEvents : inbox[i].status = "ok"
  \/ toServer # <<>> /\ toServer[1].status = "ok"

\* A call that chooses a barrel, once the server has carried it out.
Answered(t) ==
  /\ call[t].op \in Choosers
  /\ \/ call[t].pc \in {"recv", "handle"} /\ Granted
     \/ call[t].pc = "return" /\ call[t].res = "ok"

\* The session's barrel before it, and after it.
Base == IF kept THEN NoBarrel ELSE current
Applied(op, arg, barrel) ==
  IF op = "use" THEN arg
  ELSE IF op = "close" \/ (op = "drop" /\ barrel = arg) THEN NoBarrel ELSE barrel

Agreed ==
  InStep /\ connected /\ up =>
    /\ \A t \in Thread : Answered(t) =>
         session.barrel = Applied(call[t].op, call[t].arg, Base)
    /\ (\A t \in Thread : ~Answered(t)) => session.barrel = Base

\* A thread makes the calls it may make; only one may choose barrels.
Chooser(t) == OpsOf[t] \cap Choosers # {}
OwnOps == \A t \in Thread : call[t].op \in Choosers => Chooser(t)
OneChooser == \A t, u \in Thread : Chooser(t) /\ Chooser(u) => t = u

AInv == IInv /\ OwnOps /\ Agreed

\* The server has numbered every event there is.
Numbered ==
  /\ handled \in Seq(Nat) /\ \A h \in DOMAIN handled : handled[h] <= events
  /\ \A i \in DOMAIN inbox : inbox[i].type = "event" => inbox[i].id <= events
  /\ \A t \in Thread : call[t].pc = "handle" => call[t].msg.id <= events

\* The events on their way are in order, behind the one in hand, behind those handed over.
Upcoming == {i \in DOMAIN inbox : inbox[i].type = "event"}
Ascending ==
  /\ \A i, j \in Upcoming : i < j => inbox[i].id < inbox[j].id
  /\ \A i \in Upcoming :
       /\ \A h \in DOMAIN handled : handled[h] < inbox[i].id
       /\ \A t \in Thread : call[t].pc = "handle" => call[t].msg.id < inbox[i].id
  /\ \A t \in Thread : call[t].pc = "handle" =>
       \A h \in DOMAIN handled : handled[h] < call[t].msg.id

EInv == IInv /\ Numbered /\ (InStep => Ascending)

-----------------------------------------------------------------------------
(* What the steps have in common.                                           *)

\* What the end of a call sets.
LEMMA EndSets ==
  ASSUME Typed, NEW t \in Thread, NEW m, NEW r, End(t, m, r)
  PROVE  /\ call'[t].pc = "return" /\ call'[t].msg = m /\ call'[t].res = r
         /\ call'[t].op = call[t].op /\ call'[t].arg = call[t].arg /\ call'[t].id = call[t].id
         /\ \A u \in Thread : u # t => call'[u] = call[u]
<1>1. call \in [Thread -> Call] /\ call[t] \in Call
  BY DEF Typed
<1> QED
  BY <1>1 DEF End, Call

\* A step of a call moves that call alone.
LEMMA OthersStay ==
  ASSUME Typed, NEW t \in Thread, Steps(t)
  PROVE  /\ \A u \in Thread : u # t => call'[u] = call[u]
         /\ UNCHANGED <<session, up, events>> /\ (connected' => connected)
         /\ Return(t) \/ UNCHANGED chosen
<1> USE DEF chosen, inbuf, counts, net
<1>0. call \in [Thread -> Call]
  BY DEF Typed
<1>1. \A u \in Thread : u # t => call'[u] = call[u]
  <2>1. CASE \E m, r : End(t, m, r)
    BY <2>1, EndSets
  <2>2. CASE Acquire(t) \/ Send(t) \/ TakeEvent(t) \/ Return(t) \/ HandshakeTaken(t)
    BY <1>0, <2>2 DEF Acquire, Send, TakeEvent, Return, HandshakeTaken
  <2>3. CASE SkipEvent(t)
    BY <1>0, <2>1, <2>3 DEF SkipEvent
  <2>4. CASE EmptyRound(t)
    BY <1>0, <2>1, <2>4 DEF EmptyRound
  <2>5. CASE HandleEvent(t)
    BY <1>0, <2>1, <2>5 DEF HandleEvent
  <2>6. CASE \/ SendFails(t) \/ Publish(t) \/ EventForAnswer(t) \/ TakeAnswer(t) \/ ReceiveFails(t)
             \/ WaitReturns(t) \/ HandshakeFails(t) \/ PingNotSent(t) \/ Pong(t) \/ NoPong(t)
    <3>1. \E m, r : End(t, m, r)
      BY <2>6 DEF SendFails, Publish, EventForAnswer, TakeAnswer, ReceiveFails, WaitReturns,
                  HandshakeFails, PingNotSent, Pong, NoPong
    <3> QED
      BY <2>1, <3>1
  <2> QED
    BY <2>2, <2>3, <2>4, <2>5, <2>6 DEF Steps
<1>2. CASE Acquire(t)
  BY <1>1, <1>2 DEF Acquire
<1>3. CASE SendFails(t)
  BY <1>1, <1>3 DEF SendFails
<1>4. CASE Send(t)
  BY <1>1, <1>4 DEF Send
<1>5. CASE Publish(t)
  BY <1>1, <1>5 DEF Publish
<1>6. CASE TakeEvent(t)
  BY <1>1, <1>6 DEF TakeEvent
<1>7. CASE HandleEvent(t)
  BY <1>1, <1>7 DEF HandleEvent
<1>8. CASE SkipEvent(t)
  BY <1>1, <1>8 DEF SkipEvent
<1>9. CASE EventForAnswer(t)
  BY <1>1, <1>9 DEF EventForAnswer
<1>10. CASE TakeAnswer(t)
  BY <1>1, <1>10 DEF TakeAnswer
<1>11. CASE ReceiveFails(t)
  BY <1>1, <1>11 DEF ReceiveFails
<1>12. CASE EmptyRound(t)
  BY <1>1, <1>12 DEF EmptyRound
<1>13. CASE WaitReturns(t)
  BY <1>1, <1>13 DEF WaitReturns
<1>14. CASE Return(t)
  BY <1>1, <1>14 DEF Return
<1>15. CASE HandshakeFails(t)
  BY <1>1, <1>15 DEF HandshakeFails
<1>16. CASE HandshakeTaken(t)
  BY <1>1, <1>16 DEF HandshakeTaken
<1>17. CASE PingNotSent(t)
  BY <1>1, <1>17 DEF PingNotSent
<1>18. CASE Pong(t)
  BY <1>1, <1>18 DEF Pong
<1>19. CASE NoPong(t)
  BY <1>1, <1>19 DEF NoPong
<1> QED
  BY <1>2, <1>3, <1>4, <1>5, <1>6, <1>7, <1>8, <1>9, <1>10, <1>11, <1>12, <1>13,
     <1>14, <1>15, <1>16, <1>17, <1>18, <1>19 DEF Steps

\* What a thread that is idle can do, as far as the other calls are concerned.
Quiet(t) ==
  /\ call' = call
  /\ UNCHANGED <<inbox, toServer, session, up, handled, events>>
  /\ connected' = FALSE \/ UNCHANGED <<connected, chosen>>
Begins(t) ==
  /\ call[t].pc = "idle" /\ call'[t].pc \in {"lock", "send", "recv"}
  /\ call'[t].op \in OpsOf[t] /\ (call'[t].pc = "recv" => call'[t].op \in Readers)
  /\ \A u \in Thread : u # t => call'[u] = call[u]
  /\ UNCHANGED <<connected, inbox, toServer, session, up, chosen, handled, events>>

LEMMA StartFacts ==
  ASSUME IInv, InStep', NEW t \in Thread, Starts(t)
  PROVE  \/ InStep /\ (Quiet(t) \/ Begins(t))
         \/ \E left \in 0 .. 2 : Connect(t, left)
<1>0. call \in [Thread -> Call] /\ trouble \in {"none", "threads", "other"}
  BY DEF IInv, Typed, TypeOK
<1>1. ASSUME NEW op \in OpsOf[t], NEW arg \in Args(op), Begin(t, op, arg)
      PROVE  InStep /\ Begins(t)
  <2>1. /\ call'[t].pc \in {"lock", "send"} /\ call'[t].op = op
        /\ \A u \in Thread : u # t => call'[u] = call[u]
    BY <1>0, <1>1 DEF Begin, Idle
  <2> QED
    BY <1>1, <2>1 DEF Begin, Begins, InStep, net, inbuf
<1>2. ASSUME NEW op \in OpsOf[t], BeginReader(t, op) PROVE InStep /\ Begins(t)
  <2>1. /\ call'[t].pc = "recv" /\ call'[t].op = op
        /\ \A u \in Thread : u # t => call'[u] = call[u]
    BY <1>0, <1>2 DEF BeginReader, Idle
  <2>2. InStep
    BY <1>0, <1>2, BlameFacts DEF BeginReader, InStep
  <2> QED
    BY <1>2, <2>1, <2>2 DEF BeginReader, Begins, net, inbuf
<1>3. CASE bb_disconnect(t)
  BY <1>3 DEF bb_disconnect, Quiet, InStep, inbuf, counts
<1>4. CASE bb_poll_message(t) \/ bb_set_message_callback(t)
  BY <1>4 DEF bb_poll_message, bb_set_message_callback, Quiet, InStep, net, counts
<1> QED
  BY <1>1, <1>2, <1>3, <1>4 DEF Starts

\* A new connection is trusted when no call is halfway and nothing is left of the old one.
LEMMA ConnectFacts ==
  ASSUME IInv, InStep', NEW t \in Thread, NEW left \in 0 .. 2, Connect(t, left)
  PROVE  /\ left = 0 /\ call'[t].pc = "hs" /\ call'[t].op = "connect"
         /\ \A u \in Thread : u # t => call'[u] = call[u] /\ ~Halfway(u)
         /\ \A i \in DOMAIN inbox' : inbox'[i] = Handshake
         /\ session' = NewSession /\ kept' = (current # NoBarrel) /\ current' = current
         /\ UNCHANGED <<handled, events>>
<1>0. Typed /\ call \in [Thread -> Call] /\ inbox \in Seq(Message)
  BY DEF IInv, Typed
<1>1. left = 0 /\ \A u \in Thread \ {t} : ~Halfway(u)
  BY DEF Connect, InStep
<1>2. /\ call'[t].pc = "hs" /\ call'[t].op = "connect"
      /\ \A u \in Thread : u # t => call'[u] = call[u]
  BY <1>0 DEF Connect, Idle
<1>3. \A i \in DOMAIN inbox' : inbox'[i] = Handshake
  <2> DEFINE old == SubSeq(inbox, 1, left)
  <2>1. old \in Seq(Message) /\ Len(old) = 0 /\ inbox' = old \o <<Handshake>>
    BY <1>0, <1>1 DEF Connect
  <2> HIDE DEF old
  <2>2. \A i \in DOMAIN old : FALSE
    BY <2>1
  <2> QED
    BY <2>1, <2>2, Messages, ConcatFacts
<1> QED
  BY <1>1, <1>2, <1>3 DEF Connect, inbuf

\* What a lost message leaves.
LEMMA RemoveAtKeeps ==
  ASSUME NEW S, NEW s \in Seq(S), NEW k \in 1 .. Len(s), NEW i \in DOMAIN s, i # k
  PROVE  /\ i < k => i \in DOMAIN RemoveAt(s, k) /\ RemoveAt(s, k)[i] = s[i]
         /\ i > k => i - 1 \in DOMAIN RemoveAt(s, k) /\ RemoveAt(s, k)[i - 1] = s[i]
         /\ \E j \in DOMAIN RemoveAt(s, k) : RemoveAt(s, k)[j] = s[i]
<1> DEFINE front == SubSeq(s, 1, k - 1)
           back  == SubSeq(s, k + 1, Len(s))
<1>1. front \in Seq(S) /\ Len(front) = k - 1 /\ \A j \in 1 .. k - 1 : front[j] = s[j]
  OBVIOUS
<1>2. /\ back \in Seq(S) /\ Len(back) = Len(s) - k
      /\ \A j \in 1 .. Len(s) - k : back[j] = s[k + j]
  OBVIOUS
<1>3. RemoveAt(s, k) = front \o back /\ Len(s) \in Nat
  BY DEF RemoveAt
<1> HIDE DEF front, back
<1>4. DOMAIN RemoveAt(s, k) = 1 .. Len(s) - 1 /\ i \in 1 .. Len(s)
  <2>1. front \o back \in Seq(S) /\ Len(front \o back) = Len(front) + Len(back)
    BY <1>1, <1>2, ConcatProperties
  <2>2. Len(RemoveAt(s, k)) = Len(s) - 1 /\ RemoveAt(s, k) \in Seq(S)
    BY <1>1, <1>2, <1>3, <2>1
  <2>3. DOMAIN RemoveAt(s, k) = 1 .. Len(RemoveAt(s, k))
    BY <2>2
  <2> QED
    BY <2>2, <2>3
<1>5. CASE i < k
  BY <1>1, <1>2, <1>3, <1>4, <1>5
<1>6. CASE i > k
  <2>1. i - k \in 1 .. Len(s) - k /\ k + (i - k) = i /\ i - 1 \in 1 .. Len(s) - 1
    BY <1>3, <1>4, <1>6
  <2>a. \A j \in 1 .. Len(s) - 1 : j > k - 1 => (front \o back)[j] = back[j - (k - 1)]
    BY <1>1, <1>2, <1>3, ConcatProperties
  <2>b. k \in Nat /\ i - 1 > k - 1 /\ (i - 1) - (k - 1) = i - k
    BY <1>4, <1>6
  <2>2. RemoveAt(s, k)[i - 1] = back[(i - 1) - (k - 1)] /\ (i - 1) - (k - 1) = i - k
    BY <1>3, <2>1, <2>a, <2>b
  <2>3. back[i - k] = s[i]
    BY <1>2, <2>1
  <2> QED
    BY <1>4, <1>6, <2>1, <2>2, <2>3
<1> QED
  BY <1>4, <1>5, <1>6

\* A call does what it was called for, until it returns.
LEMMA OpsStay ==
  ASSUME Typed, NEW t \in Thread, Steps(t)
  PROVE  IF Return(t) THEN call'[t].op = "poll" /\ call'[t].pc = "idle"
         ELSE call'[t].op = call[t].op /\ call'[t].arg = call[t].arg
<1>0. call \in [Thread -> Call] /\ call[t] \in Call
  BY DEF Typed
<1>1. CASE \E m, r : End(t, m, r)
  <2>1. call'[t].pc = "return"
    BY <1>1, EndSets
  <2>2. Return(t) => call'[t].pc = "idle"
    BY <1>0 DEF Return, Idle
  <2> QED
    BY <1>1, <2>1, <2>2, EndSets
<1>2. CASE \/ SendFails(t) \/ Publish(t) \/ EventForAnswer(t) \/ TakeAnswer(t) \/ ReceiveFails(t)
           \/ WaitReturns(t) \/ HandshakeFails(t) \/ PingNotSent(t) \/ Pong(t) \/ NoPong(t)
  <2>1. \E m, r : End(t, m, r)
    BY <1>2 DEF SendFails, Publish, EventForAnswer, TakeAnswer, ReceiveFails, WaitReturns,
                HandshakeFails, PingNotSent, Pong, NoPong
  <2> QED
    BY <1>1, <2>1
<1>3. CASE Return(t)
  BY <1>0, <1>3 DEF Return, Idle
<1>4. CASE ~Return(t) /\ (Acquire(t) \/ Send(t) \/ TakeEvent(t) \/ HandshakeTaken(t))
  BY <1>0, <1>4 DEF Acquire, Send, TakeEvent, HandshakeTaken, Call
<1>5. CASE ~Return(t) /\ SkipEvent(t)
  BY <1>0, <1>1, <1>5 DEF SkipEvent, Call
<1>6. CASE ~Return(t) /\ EmptyRound(t)
  BY <1>0, <1>1, <1>6 DEF EmptyRound, Call
<1>7. CASE ~Return(t) /\ HandleEvent(t)
  BY <1>0, <1>1, <1>7 DEF HandleEvent, Call
<1> QED
  BY <1>2, <1>3, <1>4, <1>5, <1>6, <1>7 DEF Steps

-----------------------------------------------------------------------------
(* Success.                                                                 *)

\* A call that ends with a message has taken an answer, or the pong of a new connection.
LEMMA Endings ==
  ASSUME IInv, InStep', NEW t \in Thread, Steps(t), call'[t].pc = "return"
  PROVE  call'[t].msg = NoAnswer \/ TakeAnswer(t) \/ Pong(t)
<1>0. /\ Typed /\ call \in [Thread -> Call] /\ call[t] \in Call
      /\ trouble \in {"none", "threads", "other"}
  BY DEF IInv, Typed, TypeOK
<1>1. CASE \E r : End(t, NoAnswer, r)
  BY <1>0, <1>1, EndSets
<1>2. CASE \/ SendFails(t) \/ Publish(t) \/ ReceiveFails(t) \/ WaitReturns(t)
           \/ PingNotSent(t) \/ NoPong(t) \/ HandshakeFails(t)
  <2>1. \E r : End(t, NoAnswer, r)
    BY <1>2 DEF SendFails, Publish, ReceiveFails, WaitReturns, PingNotSent, NoPong, HandshakeFails
  <2> QED
    BY <1>1, <2>1
<1>3. CASE EventForAnswer(t)
  BY <1>0, <1>3, BlameFacts DEF EventForAnswer, InStep
<1>4. CASE Acquire(t)
  BY <1>0, <1>4 DEF Acquire, Call
<1>5. CASE Send(t)
  BY <1>0, <1>5 DEF Send, Call
<1>6. CASE TakeEvent(t)
  BY <1>0, <1>6 DEF TakeEvent, Call
<1>7. CASE HandshakeTaken(t)
  BY <1>0, <1>7 DEF HandshakeTaken, Call
<1>8. CASE Return(t)
  BY <1>0, <1>8 DEF Return, Idle
<1>9. CASE SkipEvent(t)
  BY <1>0, <1>1, <1>9 DEF SkipEvent, Call, Waits
<1>10. CASE EmptyRound(t)
  BY <1>0, <1>1, <1>10 DEF EmptyRound, Call, Waits
<1>11. CASE HandleEvent(t)
  BY <1>0, <1>1, <1>11 DEF HandleEvent, Call
<1> QED
  BY <1>2, <1>3, <1>4, <1>5, <1>6, <1>7, <1>8, <1>9, <1>10, <1>11 DEF Steps

\* What a call makes of the answer it takes.
LEMMA TakenFacts ==
  ASSUME IInv, InStep, NEW t \in Thread, TakeAnswer(t)
  PROVE  /\ inbox # <<>> /\ inbox' = Tail(inbox) /\ Meant(Head(inbox), t)
         /\ Head(inbox).type = "answer"
         /\ call'[t].pc = "return" /\ call'[t].msg = Head(inbox)
         /\ call'[t].op = call[t].op /\ call'[t].arg = call[t].arg
         /\ call'[t].res = "ok" => Head(inbox).status = "ok"
         /\ call[t].op \in Choosers /\ Head(inbox).status = "ok" => call'[t].res = "ok"
<1>0. Typed /\ Waits(t) /\ Asked(t) /\ TakeHead /\ inbox # <<>> /\ inbox' = Tail(inbox)
  BY DEF IInv, TakeAnswer, TakeHead
<1>1. Pending(t) /\ call[t].pc = "recv" /\ Head(inbox).type # "event"
  BY <1>0 DEF Pending, Waits, TakeAnswer, HeadIsEvent
<1>2. Meant(Head(inbox), t) /\ Head(inbox).type = "answer"
  BY <1>0, <1>1, HeadIsMeant DEF Meant
<1> DEFINE s == Head(inbox).status
           n == call[t].left - 1
<1>3. s \in Status /\ n \in 0 .. MaxAttempts /\ call[t].op \in Asking
  <2>1. Head(inbox) \in Message
    BY <1>0, Parts, TakeHeadTyped
  <2>2. call[t].left \in 0 .. MaxAttempts /\ call[t].left > 0
    BY <1>0 DEF Typed, TypeOK
  <2> QED
    BY <1>0, <2>1, <2>2, BoundAssumption DEF Message, Asked
<1>4. End(t, Head(inbox), ResultOf(call[t].op, s, n))
  BY <1>2 DEF TakeAnswer
<1>5. ResultOf(call[t].op, s, n) = "ok" => s = "ok"
  BY <1>2, <1>3, NoOperationHidesAFailure DEF Meant
<1>6. call[t].op \in Choosers /\ s = "ok" => ResultOf(call[t].op, s, n) = "ok"
  BY DEF Choosers, ResultOf, bb_use_barrel, bb_close_barrel, bb_drop_barrel, Named, Translate
<1> QED
  BY <1>0, <1>2, <1>4, <1>5, <1>6, EndSets

\* What a call may call a success.
Earned(m, op) ==
  m.type = "answer" /\ (m.status = "ok" \/ (op = "delete" /\ m.status = "not_found"))
Succeeds(t) ==
  call[t].pc = "return" /\ call[t].res = "ok" /\ (Asked(t) \/ call[t].op = "connect")

\* Whatever is out of step, no way out of a call reports success without an answer: not the
\* failed receive or send, and not the event or the handshake taken for an answer.
LEMMA OnlyAnswersSucceed ==
  ASSUME Typed, NEW t \in Thread, Steps(t), Succeeds(t)'
  PROVE  Earned(call'[t].msg, call'[t].op)
<1>0. /\ call \in [Thread -> Call] /\ call[t] \in Call
      /\ call'[t].pc = "return" /\ call'[t].res = "ok"
      /\ call'[t].op \in Asking \/ call'[t].op = "connect"
  BY DEF Typed, Succeeds, Asked
<1>1. ASSUME NEW m, NEW x, End(t, m, x)
      PROVE  /\ call'[t].msg = m /\ x = "ok" /\ call'[t].op = call[t].op
             /\ call[t].op \in Asking \/ call[t].op = "connect"
  BY <1>0, <1>1, EndSets
<1>2. CASE SendFails(t) \/ PingNotSent(t) \/ NoPong(t) \/ HandshakeFails(t) \/ ReceiveFails(t)
  <2>1. \/ End(t, NoAnswer, "connection_error") \/ End(t, NoAnswer, "timeout")
        \/ End(t, NoAnswer, "protocol_error")
    <3>1. CASE SendFails(t) \/ PingNotSent(t) \/ NoPong(t)
      BY <3>1 DEF SendFails, PingNotSent, NoPong
    <3>2. CASE HandshakeFails(t)
      BY <3>2 DEF HandshakeFails
    <3>3. CASE ReceiveFails(t) /\ call[t].op \in Requests
      BY <3>3 DEF ReceiveFails
    <3>4. CASE ReceiveFails(t) /\ call[t].op \notin Requests
      BY <3>4 DEF ReceiveFails
    <3> QED
      BY <1>2, <3>1, <3>2, <3>3, <3>4
  <2> QED
    BY <1>1, <2>1
<1>3. CASE Publish(t) \/ WaitReturns(t)
  <2>1. End(t, NoAnswer, "ok") /\ call[t].op \in {"publish", "wait"}
    BY <1>3 DEF Publish, WaitReturns
  <2> QED
    BY <1>1, <2>1 DEF Asking, Locked, Requests, Choosers, Singles, Plain, Watches
<1>4. CASE EventForAnswer(t)
  BY <1>1, <1>4 DEF EventForAnswer, EventAsAnswer
<1>5. CASE TakeAnswer(t)
  <2> DEFINE m == Head(inbox)
             n == call[t].left - 1
  <2>1. m \in Message /\ n \in 0 .. MaxAttempts /\ call[t].op \in Asking
    <3>1. Waits(t) /\ TakeHead /\ call[t].op \in Asking
      BY <1>5 DEF TakeAnswer, Asked
    <3>2. call[t].left \in 0 .. MaxAttempts /\ call[t].left > 0
      BY <3>1 DEF Typed, TypeOK
    <3> QED
      BY <3>1, <3>2, Parts, TakeHeadTyped, BoundAssumption
  <2>2. End(t, m, IF m.type = "answer" THEN ResultOf(call[t].op, m.status, n)
                  ELSE HandshakeAsAnswer(call[t].op))
    BY <1>5 DEF TakeAnswer
  <2>3. m.status \in Status
    BY <2>1 DEF Message
  <2> HIDE DEF m, n
  <2>4. HandshakeAsAnswer(call[t].op) # "ok"
    BY DEF HandshakeAsAnswer
  <2>5. /\ call'[t].msg = m /\ call'[t].op = call[t].op
        /\ m.type = "answer" /\ ResultOf(call[t].op, m.status, n) = "ok"
    BY <1>1, <2>2, <2>4
  <2>6. m.status = "ok" \/ (call[t].op = "delete" /\ m.status = "not_found")
    BY <2>1, <2>3, <2>5, NoOperationHidesAFailure
  <2> QED
    BY <2>5, <2>6 DEF Earned
<1>6. CASE Pong(t)
  <2>1. CASE Head(inbox).type = "answer" /\ Head(inbox).status = "ok" /\ End(t, Head(inbox), "ok")
    BY <1>1, <2>1 DEF Earned
  <2>2. CASE End(t, Head(inbox), "protocol_error")
    BY <1>1, <2>2
  <2> QED
    BY <1>6, <2>1, <2>2 DEF Pong
<1>7. CASE Acquire(t) \/ Send(t) \/ TakeEvent(t) \/ HandshakeTaken(t) \/ Return(t)
  <2>1. call'[t].pc # "return"
    BY <1>0, <1>7 DEF Acquire, Send, TakeEvent, HandshakeTaken, Return, Idle, Call
  <2> QED
    BY <1>0, <2>1
<1>8. CASE SkipEvent(t)
  <2>1. End(t, NoAnswer, "timeout")
    BY <1>0, <1>8 DEF SkipEvent, Call, Waits
  <2> QED
    BY <1>1, <2>1
<1>9. CASE EmptyRound(t)
  <2>1. End(t, NoAnswer, "null")
    BY <1>0, <1>9 DEF EmptyRound, Call, Waits
  <2> QED
    BY <1>1, <2>1
<1>10. CASE HandleEvent(t)
  <2>1. (call[t].op = "process" /\ End(t, NoAnswer, "ok")) \/ End(t, NoAnswer, "timeout")
    BY <1>0, <1>10 DEF HandleEvent, Call
  <2> QED
    BY <1>1, <2>1 DEF Asking, Locked, Requests, Choosers, Singles, Plain, Watches
<1> QED
  BY <1>2, <1>3, <1>4, <1>5, <1>6, <1>7, <1>8, <1>9, <1>10 DEF Steps

\* While calls and answers are in step, the answer is the caller's own, and no key is
\* missing for a delete.
LEMMA InStepSuccess ==
  ASSUME IInv, InStep, InStep', NEW t \in Thread, Steps(t), Succeeds(t)'
  PROVE  call'[t].msg.id = call'[t].id /\ call'[t].msg.status = "ok"
<1>0. Typed /\ IInv'
  BY NextIInv DEF IInv, Next
<1>1. Earned(call'[t].msg, call'[t].op) /\ call'[t].pc = "return" /\ call'[t].res = "ok"
  BY <1>0, OnlyAnswersSucceed DEF Succeeds
<1>2. OwnAnswer'
  BY <1>0 DEF IInv, Orderly
<1>3. call'[t].msg.id = call'[t].id
  BY <1>1, <1>2 DEF OwnAnswer, Earned
<1>4. call'[t].msg = NoAnswer \/ TakeAnswer(t) \/ Pong(t)
  BY <1>1, Endings
<1>5. CASE call'[t].msg = NoAnswer
  BY <1>1, <1>5 DEF Earned, NoAnswer
<1>6. CASE TakeAnswer(t)
  BY <1>1, <1>3, <1>6, TakenFacts
<1>7. CASE Pong(t)
  <2>1. call'[t].op = call[t].op /\ call[t].op = "connect"
    BY <1>0, <1>7, EndSets DEF Pong, Typed
  <2> QED
    BY <1>1, <1>3, <2>1 DEF Earned
<1> QED
  BY <1>4, <1>5, <1>6, <1>7

LEMMA SuccessParts ==
  SuccessIsEarned <=>
    \A t \in Thread : Succeeds(t) =>
      /\ Earned(call[t].msg, call[t].op)
      /\ InStep => call[t].msg.id = call[t].id /\ call[t].msg.status = "ok"
BY DEF SuccessIsEarned, Succeeds, Earned

LEMMA SuccessPartsNext ==
  (SuccessIsEarned') <=>
    \A t \in Thread : Succeeds(t)' =>
      /\ Earned(call'[t].msg, call'[t].op)
      /\ InStep' => call'[t].msg.id = call'[t].id /\ call'[t].msg.status = "ok"
BY DEF SuccessIsEarned, Succeeds, Earned, Asked

LEMMA EarnedNext == IInv /\ SuccessIsEarned /\ [Next]_vars => SuccessIsEarned'
<1> SUFFICES ASSUME IInv, SuccessIsEarned, [Next]_vars, NEW t \in Thread, Succeeds(t)'
             PROVE  /\ Earned(call'[t].msg, call'[t].op)
                    /\ InStep' => call'[t].msg.id = call'[t].id /\ call'[t].msg.status = "ok"
  BY SuccessPartsNext
<1>0. Typed /\ call \in [Thread -> Call] /\ call'[t].pc = "return"
  BY DEF IInv, Typed, Succeeds
<1> DEFINE Goal == /\ Earned(call'[t].msg, call'[t].op)
                   /\ InStep' => /\ call'[t].msg.id = call'[t].id
                                 /\ call'[t].msg.status = "ok"
<1> SUFFICES Goal
  OBVIOUS
\* A call that has ended stays as it is until it returns.
<1>1. ASSUME call'[t] = call[t], InStep' => InStep PROVE Goal
  <2>1. Succeeds(t)
    BY <1>1 DEF Succeeds, Asked
  <2> QED
    BY <1>1, <2>1, SuccessParts
<1> HIDE DEF Goal
<1>2. CASE UNCHANGED vars
  BY <1>1, <1>2 DEF vars, InStep
<1>3. CASE ServerCarriesOut \/ ServerAnswers \/ ServerSendsEvent \/ ServerCloses \/ MessageLost
  <2>1. InStep' => InStep
    BY <1>0, <1>3, StepsKeepInStep
  <2>2. call' = call
    BY <1>3 DEF ServerCarriesOut, ServerAnswers, ServerSendsEvent, ServerCloses, MessageLost
  <2> QED
    BY <1>1, <2>1, <2>2
<1>4. ASSUME NEW u \in Thread, Starts(u) PROVE Goal
  <2>1. call'[t] = call[t]
    <3>1. ASSUME NEW op, NEW arg, Begin(u, op, arg) PROVE call'[t] = call[t]
      BY <1>0, <3>1 DEF Begin, Idle
    <3>2. ASSUME NEW op, BeginReader(u, op) PROVE call'[t] = call[t]
      BY <1>0, <3>2 DEF BeginReader, Idle
    <3>3. ASSUME NEW left, Connect(u, left) PROVE call'[t] = call[t]
      BY <1>0, <3>3 DEF Connect, Idle
    <3>4. CASE bb_disconnect(u) \/ bb_poll_message(u) \/ bb_set_message_callback(u)
      BY <3>4 DEF bb_disconnect, bb_poll_message, bb_set_message_callback
    <3> QED
      BY <1>4, <3>1, <3>2, <3>3, <3>4, Zenon DEF Starts
  <2>2. InStep' => InStep
    <3> SUFFICES ASSUME InStep' PROVE InStep
      OBVIOUS
    <3>1. ASSUME NEW left \in 0 .. 2, Connect(u, left) PROVE FALSE
      <4>1. u # t => ~Halfway(t) /\ call'[t] = call[t]
        BY <3>1, ConnectFacts
      <4>2. call'[u].pc = "hs"
        BY <3>1, ConnectFacts
      <4> QED
        BY <1>0, <4>1, <4>2 DEF Halfway
    <3> QED
      BY <1>4, <3>1, StartFacts
  <2> QED
    BY <1>1, <2>1, <2>2
<1>5. ASSUME NEW u \in Thread, Steps(u) PROVE Goal
  <2>0. InStep' => InStep
    BY <1>0, <1>5, StepsKeepInStep
  <2>1. CASE u # t
    <3>1. call'[t] = call[t]
      BY <1>0, <1>5, <2>1, OthersStay
    <3> QED
      BY <1>1, <2>0, <3>1
  <2>2. CASE u = t
    <3>1. Earned(call'[t].msg, call'[t].op)
      BY <1>0, <1>5, <2>2, OnlyAnswersSucceed
    <3>2. InStep' => call'[t].msg.id = call'[t].id /\ call'[t].msg.status = "ok"
      BY <1>5, <2>0, <2>2, InStepSuccess
    <3> QED
      BY <3>1, <3>2 DEF Goal
  <2> QED
    BY <2>1, <2>2
<1> QED
  BY <1>2, <1>3, <1>4, <1>5 DEF Next

\* Whatever goes wrong on the connection, a call that asks the server reports success only
\* with an answer in hand that says so, for every public function (bb_create_barrel and the
\* others), and as long as calls and answers are in step it is the ok of this very request.
THEOREM SuccessIsAlwaysEarned == Spec => []SuccessIsEarned
<1>1. Init => SuccessIsEarned
  BY IdleTyped DEF Init, SuccessIsEarned
<1> QED
  BY <1>1, EarnedNext, InitIInv, NextIInv, PTL DEF Spec

-----------------------------------------------------------------------------
(* The barrel in use.                                                       *)

\* Threads keep to the calls that are theirs.
LEMMA OwnOpsNext == Typed /\ OwnOps /\ [Next]_vars => OwnOps'
<1> SUFFICES ASSUME Typed, OwnOps, [Next]_vars, NEW t \in Thread, call'[t].op \in Choosers
             PROVE  Chooser(t)
  BY DEF OwnOps, Chooser
<1>0. call \in [Thread -> Call] /\ call[t] \in Call
  BY DEF Typed
<1>1. ASSUME call'[t].op = call[t].op PROVE Chooser(t)
  BY <1>1 DEF OwnOps
<1>2. ASSUME call'[t].op \in OpsOf[t] PROVE Chooser(t)
  BY <1>2 DEF Chooser
<1>3. CASE UNCHANGED vars
  BY <1>1, <1>3 DEF vars
<1>4. CASE ServerCarriesOut \/ ServerAnswers \/ ServerSendsEvent \/ ServerCloses \/ MessageLost
  BY <1>1, <1>4 DEF ServerCarriesOut, ServerAnswers, ServerSendsEvent, ServerCloses, MessageLost
<1>5. ASSUME NEW u \in Thread, Starts(u) PROVE Chooser(t)
  <2>1. ASSUME NEW op \in OpsOf[u], NEW arg, Begin(u, op, arg) PROVE Chooser(t)
    BY <1>0, <1>1, <1>2, <2>1 DEF Begin, Idle
  <2>2. ASSUME NEW op \in OpsOf[u], BeginReader(u, op) PROVE Chooser(t)
    BY <1>0, <1>1, <1>2, <2>2 DEF BeginReader, Idle
  <2>3. ASSUME NEW left, Connect(u, left) PROVE Chooser(t)
    BY <1>0, <1>1, <2>3 DEF Connect, Idle, Choosers
  <2>4. CASE bb_disconnect(u)
    BY <1>1, <2>4 DEF bb_disconnect
  <2>5. CASE bb_poll_message(u) \/ bb_set_message_callback(u)
    BY <1>1, <2>5 DEF bb_poll_message, bb_set_message_callback
  <2> QED
    BY <1>5, <2>1, <2>2, <2>3, <2>4, <2>5 DEF Starts
<1>6. ASSUME NEW u \in Thread, Steps(u) PROVE Chooser(t)
  <2>1. CASE u # t
    BY <1>1, <1>6, <2>1, OthersStay
  <2>2. CASE u = t
    BY <1>1, <1>6, <2>2, OpsStay DEF Choosers
  <2> QED
    BY <2>1, <2>2
<1> QED
  BY <1>3, <1>4, <1>5, <1>6 DEF Next

\* Nothing that matters to the barrel in use has changed.
LEMMA Unmoved ==
  ASSUME Agreed, InStep, connected' /\ up' => connected /\ up,
         session'.barrel = session.barrel, Base' = Base,
         \A t \in Thread : /\ Answered(t)' <=> Answered(t)
                           /\ Answered(t) => /\ call'[t].op = call[t].op
                                             /\ call'[t].arg = call[t].arg
  PROVE  Agreed'
BY DEF Agreed, Applied

\* The answer on its way comes and goes with the messages that are no events.
LEMMA EventsGrantNothing ==
  ASSUME IInv, toServer' = toServer,
         \/ TakeHead /\ Head(inbox).type = "event"
         \/ inbox' = Append(inbox, Event(events + 1))
         \/ \E k \in 1 .. Len(inbox) : inbox' = RemoveAt(inbox, k) /\ inbox[k].type = "event"
  PROVE  Granted' <=> Granted
<1>0. inbox \in Seq(Message) /\ events + 1 \in Nat /\ Event(events + 1) \in Message
  <2>1. events \in Nat
    BY BoundAssumption DEF IInv, Typed, TypeOK
  <2> QED
    BY <2>1, Messages DEF IInv, Typed
<1>1. CASE TakeHead /\ Head(inbox).type = "event"
  <2>1. /\ \A i \in DOMAIN inbox' : i + 1 \in DOMAIN inbox /\ inbox'[i] = inbox[i + 1]
        /\ \A i \in DOMAIN inbox : i = 1 \/ (i - 1 \in DOMAIN inbox' /\ inbox'[i - 1] = inbox[i])
        /\ inbox[1].type = "event"
    BY <1>0, <1>1 DEF TakeHead
  <2> QED
    BY <2>1 DEF Granted, NotEvents
<1>2. CASE inbox' = Append(inbox, Event(events + 1))
  <2> DEFINE e == Event(events + 1)
  <2>1. e \in Message /\ e.type = "event" /\ inbox' = Append(inbox, e)
    BY <1>0, <1>2 DEF Event
  <2> HIDE DEF e
  <2>2. /\ \A i \in DOMAIN inbox' : i = Len(inbox) + 1 \/ (i \in DOMAIN inbox /\ inbox'[i] = inbox[i])
        /\ \A i \in DOMAIN inbox : i \in DOMAIN inbox' /\ inbox'[i] = inbox[i]
        /\ inbox'[Len(inbox) + 1].type = "event"
    BY <1>0, <2>1
  <2> QED
    BY <2>2 DEF Granted, NotEvents
<1>3. ASSUME NEW k \in 1 .. Len(inbox), inbox' = RemoveAt(inbox, k), inbox[k].type = "event"
      PROVE  Granted' <=> Granted
  <2>1. \A i \in DOMAIN inbox' : \E j \in DOMAIN inbox : inbox'[i] = inbox[j]
    BY <1>0, <1>3, RemoveAtFacts
  <2>2. \A i \in DOMAIN inbox : i # k => \E j \in DOMAIN inbox' : inbox'[j] = inbox[i]
    BY <1>0, <1>3, RemoveAtKeeps
  <2> QED
    BY <1>3, <2>1, <2>2 DEF Granted, NotEvents
<1> QED
  BY <1>1, <1>2, <1>3

\* On a new connection there is no barrel, and what the client believes in is kept.
LEMMA ConnectAgrees ==
  ASSUME IInv, InStep', NEW t \in Thread, NEW left \in 0 .. 2, Connect(t, left)
  PROVE  Agreed'
<1>0. /\ call'[t].op = "connect"
      /\ \A u \in Thread : u # t => call'[u] = call[u] /\ ~Halfway(u)
  BY ConnectFacts
<1>1. \A u \in Thread : ~Answered(u)'
  <2>1. ~Answered(t)'
    BY <1>0 DEF Answered, Choosers
  <2>2. ASSUME NEW u \in Thread, u # t PROVE ~Answered(u)'
    BY <1>0, <2>2 DEF Answered, Halfway, Receiving
  <2> QED
    BY <2>1, <2>2
<1>2. session'.barrel = NoBarrel /\ Base' = NoBarrel
  <2>1. session'.barrel = NoBarrel /\ kept' = (current # NoBarrel) /\ current' = current
    BY ConnectFacts DEF NewSession
  <2>2. kept' = TRUE \/ current' = NoBarrel
    BY <2>1
  <2> QED
    BY <2>1, <2>2 DEF Base
<1> QED
  BY <1>1, <1>2 DEF Agreed

\* Calls that begin, and those that only change the client.
LEMMA StartsAgree ==
  ASSUME IInv, Agreed, InStep', NEW t \in Thread, Starts(t)
  PROVE  Agreed'
<1>1. CASE InStep /\ Quiet(t)
  <2>1. CASE connected' = FALSE
    BY <2>1 DEF Agreed
  <2>2. CASE UNCHANGED <<connected, chosen>>
    <3>1. Base' = Base /\ \A u \in Thread : Answered(u)' <=> Answered(u)
      BY <1>1, <2>2 DEF Quiet, chosen, Base, Answered, Granted, NotEvents
    <3> QED
      BY <1>1, <2>2, <3>1, Unmoved DEF Quiet
  <2> QED
    BY <1>1, <2>1, <2>2 DEF Quiet
<1>2. CASE InStep /\ Begins(t)
  <2>1. Base' = Base /\ (Granted' <=> Granted)
    BY <1>2 DEF Begins, chosen, Base, Granted, NotEvents
  <2>2. ~Answered(t) /\ ~Answered(t)'
    BY <1>2 DEF Begins, Answered, Readers, Choosers
  <2>3. \A u \in Thread : Answered(u)' <=> Answered(u)
    BY <1>2, <2>1, <2>2 DEF Begins, Answered
  <2> QED
    BY <1>2, <2>1, <2>2, <2>3, Unmoved DEF Begins
<1> QED
  BY <1>1, <1>2, StartFacts, ConnectAgrees

\* The server carries a request out.
LEMMA CarryingOutAgrees ==
  ASSUME OneChooser, AInv, InStep, ServerCarriesOut
  PROVE  Agreed'
<1> SUFFICES ASSUME connected, up PROVE Agreed'
  BY DEF ServerCarriesOut, Agreed
<1> DEFINE r == toServer[1]
<1>0. /\ Typed /\ Orderly /\ toServer # <<>> /\ toServer \in Seq(Sent) /\ inbox' = inbox
      /\ call' = call /\ OwnOps /\ Agreed /\ Base' = Base
      /\ Head(toServer).status = "none"
  BY DEF AInv, IInv, Typed, ServerCarriesOut, Base, chosen
<1>1. PICK status \in Statuses(r.op, r.arg) :
        /\ session' = After(r.op, r.arg, status) /\ toServer' # <<>>
        /\ toServer'[1].status = status
  BY <1>0, CarriedOut
<1>2. r.status = "none"
  BY <1>0, TailFacts
<1>3. Awaited
  BY <1>0 DEF Orderly, Live
<1>4. PICK t \in Thread : /\ Pending(t) /\ call[t].pc # "hs"
                          /\ IF call[t].pc = "ping" THEN r.op = "ping"
                             ELSE r.op = call[t].op /\ r.arg = call[t].arg
  BY <1>0, <1>3 DEF Awaited
<1>5. ~Granted /\ (Granted' <=> status = "ok")
  <2>1. NotEvents = {} /\ NotEvents' = {}
    BY <1>0, <1>3 DEF Awaited, NotEvents
  <2> QED
    BY <1>0, <1>1, <1>2, <2>1 DEF Granted
<1> HIDE DEF r
<1>6. \A u \in Thread : call[u].op \in Choosers /\ call[u].pc \in {"recv", "handle"} => u = t
  BY <1>0, <1>4, PendingReceives
     DEF Orderly, OneReceiver, Receiving, Pending, Asked, Asking, Locked, Requests
<1>7. CASE call[t].op \in Choosers
  <2>1. call[t].pc \in {"recv", "handle"} /\ r.op = call[t].op /\ r.arg = call[t].arg
    BY <1>0, <1>4, <1>7 DEF Pending, Typed, Choosers
  <2>2. \A u \in Thread : call[u].op \in Choosers => u = t
    BY <1>0, <1>7 DEF OwnOps, OneChooser
  <2>3. \A u \in Thread : ~Answered(u)
    BY <1>5, <2>1, <2>2 DEF Answered
  <2>4. session.barrel = Base
    BY <1>0, <2>3 DEF Agreed
  <2>5. \A u \in Thread : Answered(u)' <=> u = t /\ status = "ok"
    BY <1>0, <1>5, <1>7, <2>1, <2>2 DEF Answered
  <2>6. session \in [barrel : Barrel \cup {NoBarrel}, subs : BOOLEAN]
    BY <1>0 DEF Typed, TypeOK
  <2>7. status = "ok" => session'.barrel = Applied(r.op, r.arg, session.barrel)
    <3>1. r.op \in {"use", "close", "drop"} /\ session' = After(r.op, r.arg, status)
      BY <1>1, <1>7, <2>1 DEF Choosers
    <3>2. CASE r.op = "use"
      BY <2>6, <3>1, <3>2 DEF After, Applied
    <3>3. CASE r.op = "close"
      BY <2>6, <3>1, <3>3 DEF After, Applied
    <3>4. CASE r.op = "drop"
      BY <2>6, <3>1, <3>4 DEF After, Applied
    <3> QED
      BY <3>1, <3>2, <3>3, <3>4
  <2>8. status # "ok" => session' = session
    BY <1>1 DEF After
  <2>9. call'[t].op = r.op /\ call'[t].arg = r.arg
    BY <1>0, <2>1
  <2> QED
    BY <1>0, <2>4, <2>5, <2>7, <2>8, <2>9 DEF Agreed
<1>8. CASE call[t].op \notin Choosers
  <2>1. r.op \notin Choosers
    BY <1>4, <1>8 DEF Choosers
  <2>2. session'.barrel = session.barrel
    BY <1>0, <1>1, <2>1 DEF After, Choosers, Typed, TypeOK
  <2>3. \A u \in Thread : Answered(u)' <=> Answered(u)
    BY <1>0, <1>6, <1>8 DEF Answered
  <2>4. UNCHANGED <<connected, up>>
    BY DEF ServerCarriesOut
  <2> QED
    BY <1>0, <2>2, <2>3, <2>4, Unmoved
<1> QED
  BY <1>7, <1>8

\* Its answer only takes the request's place.
LEMMA AnswerAgrees ==
  ASSUME AInv, InStep, ServerAnswers
  PROVE  Agreed'
<1> SUFFICES ASSUME connected, up PROVE Agreed'
  BY DEF ServerAnswers, Agreed
<1> DEFINE r == Head(toServer)
           a == Answer(r.id, r.status)
<1>0. /\ Orderly /\ toServer # <<>> /\ toServer \in Seq(Sent) /\ inbox \in Seq(Message)
      /\ call' = call /\ Agreed /\ Base' = Base /\ session' = session
      /\ toServer' = Tail(toServer) /\ UNCHANGED <<connected, up>>
  BY DEF AInv, IInv, Typed, ServerAnswers, Base, chosen
<1>1. r = toServer[1] /\ r \in Sent
  BY <1>0, TailFacts
<1>2. inbox' = Append(inbox, a)
  BY DEF ServerAnswers
<1> HIDE DEF r
<1>3. a \in Message /\ a.type = "answer" /\ a.status = r.status
  <2>1. r.id \in Nat /\ r.status \in Status
    BY <1>1 DEF Sent
  <2> QED
    BY <2>1, Messages DEF Answer
<1> HIDE DEF a
<1>4. Awaited
  BY <1>0 DEF Orderly, Live
<1>5. toServer' = <<>> /\ NotEvents = {}
  BY <1>0, <1>4, TailFacts DEF Awaited
<1>6. /\ Len(inbox) + 1 \in DOMAIN inbox' /\ inbox'[Len(inbox) + 1] = a
      /\ \A i \in DOMAIN inbox' : i = Len(inbox) + 1 \/ (i \in DOMAIN inbox /\ inbox'[i] = inbox[i])
  BY <1>0, <1>2, <1>3
<1>7. Granted' <=> a.status = "ok"
  BY <1>3, <1>5, <1>6 DEF Granted, NotEvents
<1>8. Granted <=> r.status = "ok"
  BY <1>0, <1>1, <1>5 DEF Granted
<1>9. \A u \in Thread : Answered(u)' <=> Answered(u)
  BY <1>0, <1>3, <1>7, <1>8 DEF Answered
<1> QED
  BY <1>0, <1>9, Unmoved

LEMMA TransportAgrees ==
  ASSUME IInv, Agreed, InStep, InStep', ServerSendsEvent \/ ServerCloses \/ MessageLost
  PROVE  Agreed'
<1>1. CASE ServerCloses
  BY <1>1 DEF ServerCloses, Agreed
<1>2. CASE ServerSendsEvent
  <2>1. Granted' <=> Granted
    BY <1>2, EventsGrantNothing DEF ServerSendsEvent
  <2> QED
    BY <1>2, <2>1, Unmoved DEF ServerSendsEvent, Answered, Base, chosen
<1>3. CASE MessageLost
  <2>1. PICK k \in 3 .. Len(inbox) :
          inbox' = RemoveAt(inbox, k) /\ Blame(inbox[k].type # "event", "other")
    BY <1>3 DEF MessageLost
  <2>2. k \in 1 .. Len(inbox) /\ inbox[k].type = "event"
    <3>1. ~(inbox[k].type # "event")
      BY <2>1, BlameFacts DEF InStep, IInv, Typed, TypeOK
    <3> QED
      BY <3>1 DEF IInv, Typed
  <2>3. Granted' <=> Granted
    BY <1>3, <2>1, <2>2, EventsGrantNothing DEF MessageLost
  <2> QED
    BY <1>3, <2>3, Unmoved DEF MessageLost, Answered, Base, chosen
<1> QED
  BY <1>1, <1>2, <1>3

\* The steps of a call.
LEMMA StepsAgree ==
  ASSUME OneChooser, AInv, InStep, InStep', NEW t \in Thread, Steps(t), ~Return(t)
  PROVE  Agreed'
<1> SUFFICES ASSUME connected', up' PROVE Agreed'
  BY DEF Agreed
<1>0. /\ Typed /\ IInv /\ Orderly /\ OwnOps /\ Agreed /\ inbox \in Seq(Message) /\ call[t] \in Call
      /\ trouble \in {"none", "threads", "other"}
  BY DEF AInv, IInv, Typed, TypeOK
<1>1. /\ \A u \in Thread : u # t => call'[u] = call[u]
      /\ session' = session /\ up' = up /\ connected /\ Base' = Base
  <2>1. /\ \A u \in Thread : u # t => call'[u] = call[u]
        /\ session' = session /\ up' = up /\ connected /\ UNCHANGED chosen
    BY <1>0, OthersStay
  <2> QED
    BY <2>1 DEF Base, chosen
<1>2. call'[t].op = call[t].op /\ call'[t].arg = call[t].arg
  BY <1>0, OpsStay
<1>3. UNCHANGED <<inbox, toServer>> \/ Receiving(t) \/ Send(t)
  <2>1. ~Publish(t)
    BY <1>0, BlameFacts DEF Publish, InStep
  <2> QED
    BY <2>1 DEF Steps, Acquire, SendFails, TakeEvent, HandleEvent, SkipEvent,
         EventForAnswer, TakeAnswer, ReceiveFails, Return, EmptyRound, WaitReturns,
         HandshakeFails, HandshakeTaken, PingNotSent, Pong, NoPong, Waits, Receiving, net
<1>4. ASSUME NEW u \in Thread, u # t PROVE Answered(u)' <=> Answered(u)
  <2>1. CASE UNCHANGED <<inbox, toServer>>
    BY <1>1, <1>4, <2>1 DEF Answered, Granted, NotEvents
  <2>2. CASE Receiving(t)
    <3>1. call[u].pc \notin {"recv", "handle"}
      BY <1>0, <1>4, <2>2 DEF Orderly, OneReceiver, Receiving
    <3> QED
      BY <1>1, <1>4, <3>1 DEF Answered
  <2>3. CASE Send(t)
    <3>1. call[u].pc \notin {"recv", "handle"}
      BY <1>0, <2>3, SendAlone DEF Receiving
    <3> QED
      BY <1>1, <1>4, <3>1 DEF Answered
  <2> QED
    BY <1>3, <2>1, <2>2, <2>3
<1>5. Answered(t)' <=> Answered(t)
  <2>1. CASE call[t].op \notin Choosers
    BY <1>2, <2>1 DEF Answered
  <2> SUFFICES ASSUME call[t].op \in Choosers PROVE Answered(t)' <=> Answered(t)
    BY <2>1
  <2>2. CASE Acquire(t)
    BY <1>0, <2>2 DEF Acquire, Answered, Typed, Call
  <2>3. CASE SendFails(t)
    BY <2>3 DEF SendFails
  <2>4. CASE Send(t)
    <3>1. NotEvents = {} /\ inbox' = inbox /\ toServer = <<>> /\ Transmit(t)
      BY <1>0, <2>4, SendAlone DEF Send
    <3>2. ~Granted'
      <4> DEFINE r == Request(call[t].id, call[t].op, call[t].arg)
      <4>1. r.status = "none" /\ (toServer' = <<>> \/ toServer' = Append(<<>>, r))
        BY <3>1 DEF Transmit, Request
      <4> HIDE DEF r
      <4>2. toServer' # <<>> => toServer'[1] = r
        BY <4>1
      <4> QED
        BY <3>1, <4>1, <4>2 DEF Granted, NotEvents
    <3>3. call[t].pc = "send" /\ call'[t].pc = "recv"
      BY <1>0, <2>4 DEF Send, Typed, Call
    <3> QED
      BY <3>2, <3>3 DEF Answered
  <2>5. CASE TakeEvent(t)
    <3>1. Granted' <=> Granted
      BY <1>0, <2>5, EventsGrantNothing DEF TakeEvent, HeadIsEvent
    <3>2. call[t].pc = "recv" /\ call'[t].pc = "handle"
      BY <1>0, <2>5 DEF TakeEvent, Waits, Typed, Call
    <3> QED
      BY <1>2, <3>1, <3>2 DEF Answered
  <2>6. CASE HandleEvent(t)
    <3>1. Granted' <=> Granted
      BY <2>6 DEF HandleEvent, net, Granted, NotEvents
    <3>2. call[t].pc = "handle" /\ call'[t].pc = "recv"
      <4>1. call[t].op # "process"
        BY DEF Choosers
      <4>2. ~Blame(TRUE, "other")
        BY <1>0, BlameFacts DEF InStep
      <4> QED
        BY <1>0, <2>6, <4>1, <4>2 DEF HandleEvent, Typed, Call
    <3> QED
      BY <1>2, <3>1, <3>2 DEF Answered
  <2>7. CASE TakeAnswer(t)
    <3>1. inbox # <<>> /\ Head(inbox).type = "answer" /\ call[t].pc = "recv"
      BY <1>0, <2>7, TakenFacts DEF TakeAnswer, Waits
    <3>2. Awaited
      BY <1>0, <1>1 DEF Orderly, Live
    <3>3. 1 \in NotEvents /\ Head(inbox) = inbox[1]
      BY <1>0, <3>1, TailFacts DEF NotEvents
    <3>4. Granted <=> Head(inbox).status = "ok"
      BY <3>2, <3>3 DEF Granted, Awaited
    <3> QED
      BY <1>0, <1>2, <2>7, <3>1, <3>4, TakenFacts DEF Answered
  <2>8. CASE Publish(t) \/ SkipEvent(t) \/ EventForAnswer(t) \/ EmptyRound(t) \/ WaitReturns(t)
    BY <2>8 DEF Publish, SkipEvent, EventForAnswer, EmptyRound, WaitReturns,
                Choosers, Watches, Singles, Plain, Readers
  <2>9. CASE HandshakeFails(t) \/ HandshakeTaken(t) \/ PingNotSent(t) \/ Pong(t) \/ NoPong(t)
    <3>1. call[t].pc \in {"hs", "ping"}
      BY <2>9 DEF HandshakeFails, HandshakeTaken, PingNotSent, Pong, NoPong
    <3> QED
      BY <1>0, <3>1 DEF Typed, Choosers
  <2>10. CASE ReceiveFails(t)
    BY <1>0, <2>10, BlameFacts DEF ReceiveFails, InStep
  <2> QED
    BY <2>2, <2>3, <2>4, <2>5, <2>6, <2>7, <2>8, <2>9, <2>10 DEF Steps
<1>6. ASSUME NEW u \in Thread, Answered(u)
      PROVE  call'[u].op = call[u].op /\ call'[u].arg = call[u].arg
  BY <1>1, <1>2
<1> QED
  BY <1>0, <1>1, <1>4, <1>5, <1>6, Unmoved

\* The client follows the server when the call returns.
LEMMA ReturnAgrees ==
  ASSUME OneChooser, AInv, InStep, NEW t \in Thread, Return(t)
  PROVE  Agreed'
<1> SUFFICES ASSUME connected', up' PROVE Agreed'
  BY DEF Agreed
<1>0. /\ Typed /\ OwnOps /\ Agreed /\ call \in [Thread -> Call] /\ call[t].pc = "return"
      /\ UNCHANGED <<inbox, toServer, session>> /\ connected /\ up
  BY DEF AInv, IInv, Typed, Return, net
<1>1. ~Answered(t)' /\ \A u \in Thread : u # t => call'[u] = call[u]
  <2>1. call'[t].pc = "idle" /\ \A u \in Thread : u # t => call'[u] = call[u]
    BY <1>0 DEF Return, Idle
  <2> QED
    BY <2>1 DEF Answered
<1>2. \A u \in Thread : u # t => (Answered(u)' <=> Answered(u))
  BY <1>0, <1>1 DEF Answered, Granted, NotEvents
<1>3. CASE ~Answered(t)
  <2>1. ~Chooses(t) /\ UNCHANGED chosen
    BY <1>0, <1>3 DEF Return, Chooses, Answered
  <2>2. \A u \in Thread : Answered(u)' <=> Answered(u)
    BY <1>1, <1>2, <1>3
  <2>3. ASSUME NEW u \in Thread, Answered(u)
        PROVE  call'[u].op = call[u].op /\ call'[u].arg = call[u].arg
    BY <1>1, <1>3, <2>3
  <2> QED
    BY <1>0, <2>1, <2>2, <2>3, Unmoved DEF chosen, Base
<1>4. CASE Answered(t)
  <2>1. call[t].op \in Choosers /\ call[t].res = "ok"
    BY <1>0, <1>4 DEF Answered
  <2>2. \A u \in Thread : ~Answered(u)'
    <3>1. \A u \in Thread : u # t => ~Answered(u)
      BY <1>0, <1>4 DEF Answered, OwnOps, OneChooser
    <3> QED
      BY <1>1, <1>2, <3>1
  <2>3. session.barrel = Applied(call[t].op, call[t].arg, Base)
    BY <1>0, <1>4 DEF Agreed
  <2>4. session'.barrel = Base'
    <3>1. CASE Chooses(t)
      <4>1. /\ current' = IF call[t].op = "use" THEN call[t].arg ELSE NoBarrel
            /\ kept' = FALSE /\ (call[t].op = "drop" => call[t].arg = current)
        BY <3>1 DEF Return, Chooses
      <4>2. call[t].op = "use" \/ call[t].op = "close" \/ call[t].op = "drop"
        BY <2>1 DEF Choosers
      <4> QED
        BY <1>0, <2>3, <4>1, <4>2 DEF Applied, Base
    <3>2. CASE ~Chooses(t)
      <4>1. Base' = Base
        BY <3>2 DEF Return, chosen, Base
      <4>2. call[t].op = "drop" /\ call[t].arg # current
        BY <2>1, <3>2 DEF Chooses
      <4> QED
        BY <1>0, <2>3, <4>1, <4>2 DEF Applied, Base
    <3> QED
      BY <3>1, <3>2
  <2> QED
    BY <2>2, <2>4 DEF Agreed
<1> QED
  BY <1>3, <1>4

LEMMA NextAInv == OneChooser /\ AInv /\ [Next]_vars => AInv'
<1> SUFFICES ASSUME OneChooser, AInv, [Next]_vars, InStep' PROVE Agreed'
  BY NextIInv, OwnOpsNext DEF AInv, IInv, Agreed
<1>0. IInv /\ Typed /\ Agreed
  BY DEF AInv, IInv
<1>1. CASE UNCHANGED vars
  BY <1>0, <1>1, Unmoved DEF vars, Base, Answered, Granted, NotEvents, InStep
<1>2. CASE ServerCarriesOut \/ ServerAnswers \/ ServerSendsEvent \/ ServerCloses \/ MessageLost
  BY <1>0, <1>2, StepsKeepInStep, CarryingOutAgrees, AnswerAgrees, TransportAgrees
<1>3. ASSUME NEW t \in Thread, Starts(t) PROVE Agreed'
  BY <1>0, <1>3, StartsAgree
<1>4. ASSUME NEW t \in Thread, Steps(t) PROVE Agreed'
  BY <1>0, <1>4, StepsKeepInStep, StepsAgree, ReturnAgrees
<1> QED
  BY <1>1, <1>2, <1>3, <1>4 DEF Next

\* As long as one thread chooses the barrel, the barrel the client believes in is that of
\* the server's session whenever no call is under way, and none is kept from an earlier
\* connection (bb_use_barrel, bb_close_barrel, bb_drop_barrel, bb_disconnect, bb_connect).
THEOREM TheBarrelAgrees == ASSUME OneChooser PROVE Spec => []BarrelAgrees
<1>1. Init => AInv
  <2> SUFFICES ASSUME Init PROVE AInv
    OBVIOUS
  <2>1. OwnOps
    BY DEF Init, Idle, OwnOps, Choosers
  <2>2. Agreed
    BY DEF Init, Agreed
  <2> QED
    BY <2>1, <2>2, InitIInv DEF AInv
<1>2. AInv /\ [Next]_vars => AInv'
  BY NextAInv
<1>3. AInv => BarrelAgrees
  <2> SUFFICES ASSUME AInv, AllIdle, connected, up, InStep, ~kept
               PROVE  session.barrel = current
    BY DEF BarrelAgrees
  <2>1. \A t \in Thread : ~Answered(t)
    BY DEF AllIdle, Answered
  <2> QED
    BY <2>1 DEF AInv, Agreed, Base
<1> QED
  BY <1>1, <1>2, <1>3, PTL DEF Spec

-----------------------------------------------------------------------------
(* Events.                                                                  *)

\* What a step of a call does with events.
LEMMA EventSteps ==
  ASSUME Typed, NEW t \in Thread, Steps(t)
  PROVE  /\ inbox' = inbox \/ TakeHead
         /\ call'[t].pc = "handle" => TakeEvent(t)
         /\ handled' = handled \/ HandleEvent(t) \/ WaitReturns(t)
<1>0. call \in [Thread -> Call] /\ call[t] \in Call
  BY DEF Typed
<1>1. inbox' = inbox \/ TakeHead
  BY DEF Steps, Acquire, SendFails, Send, Publish, TakeEvent, HandleEvent, SkipEvent,
         EventForAnswer, TakeAnswer, ReceiveFails, Return, EmptyRound, WaitReturns,
         HandshakeFails, HandshakeTaken, PingNotSent, Pong, NoPong, net
<1>2. handled' = handled \/ HandleEvent(t) \/ WaitReturns(t)
  BY DEF Steps, Acquire, SendFails, Send, Publish, TakeEvent, SkipEvent,
         EventForAnswer, TakeAnswer, ReceiveFails, Return, EmptyRound,
         HandshakeFails, HandshakeTaken, PingNotSent, Pong, NoPong, inbuf
<1>3. ASSUME call'[t].pc = "handle" PROVE TakeEvent(t)
  <2>1. ~ \E m, r : End(t, m, r)
    BY <1>3, EndSets
  <2>2. CASE \/ SendFails(t) \/ Publish(t) \/ EventForAnswer(t) \/ TakeAnswer(t)
             \/ ReceiveFails(t) \/ WaitReturns(t) \/ HandshakeFails(t) \/ PingNotSent(t)
             \/ Pong(t) \/ NoPong(t)
    BY <2>1, <2>2 DEF SendFails, Publish, EventForAnswer, TakeAnswer, ReceiveFails, WaitReturns,
                      HandshakeFails, PingNotSent, Pong, NoPong
  <2>3. CASE Acquire(t) \/ Send(t) \/ HandshakeTaken(t)
    BY <1>0, <1>3, <2>3 DEF Acquire, Send, HandshakeTaken, Call
  <2>4. CASE Return(t)
    BY <1>0, <1>3, <2>4 DEF Return, Idle
  <2>5. CASE SkipEvent(t)
    BY <1>0, <1>3, <2>1, <2>5 DEF SkipEvent, Waits, Call
  <2>6. CASE EmptyRound(t)
    BY <1>0, <1>3, <2>1, <2>6 DEF EmptyRound, Waits, Call
  <2>7. CASE HandleEvent(t)
    BY <1>0, <1>3, <2>1, <2>7 DEF HandleEvent, Call
  <2> QED
    BY <2>2, <2>3, <2>4, <2>5, <2>6, <2>7 DEF Steps
<1> QED
  BY <1>1, <1>2, <1>3

\* An event that is taken in hand.
LEMMA TakeEventSets ==
  ASSUME Typed, NEW t \in Thread, TakeEvent(t)
  PROVE  /\ TakeHead /\ Head(inbox).type = "event" /\ call[t].pc = "recv"
         /\ call'[t].pc = "handle" /\ call'[t].msg = Head(inbox) /\ handled' = handled
BY DEF TakeEvent, Typed, Call, HeadIsEvent, Waits, inbuf

\* The events on their way are those that were, without some.
Thinned ==
  \E f \in [Upcoming' -> Upcoming] :
    /\ \A i \in Upcoming' : inbox'[i] = inbox[f[i]]
    /\ \A i, j \in Upcoming' : i < j => f[i] < f[j]

\* The inbox as it was, without its head, with an answer, and without a lost message.
LEMMA StaysThinned ==
  ASSUME inbox \in Seq(Message), inbox' = inbox
  PROVE  Thinned
<1> DEFINE f == [i \in Upcoming' |-> i]
<1>1. f \in [Upcoming' -> Upcoming]
  BY DEF Upcoming
<1> QED
  BY <1>1 DEF Thinned, Upcoming

LEMMA TakesThinned ==
  ASSUME inbox \in Seq(Message), TakeHead
  PROVE  /\ Thinned
         /\ \A i \in Upcoming' : i + 1 \in Upcoming /\ inbox'[i] = inbox[i + 1] /\ i \in Nat \ {0}
<1> DEFINE f == [i \in Upcoming' |-> i + 1]
<1>1. \A i \in Upcoming' : i + 1 \in Upcoming /\ inbox'[i] = inbox[i + 1] /\ i \in Nat \ {0}
  <2>1. \A i \in DOMAIN inbox' : i + 1 \in DOMAIN inbox /\ inbox'[i] = inbox[i + 1] /\ i \in Nat \ {0}
    BY TailFacts DEF TakeHead
  <2> QED
    BY <2>1 DEF Upcoming
<1>2. f \in [Upcoming' -> Upcoming]
  BY <1>1
<1>3. \A i, j \in Upcoming' : i < j => f[i] < f[j]
  BY <1>1
<1> QED
  BY <1>1, <1>2, <1>3 DEF Thinned

LEMMA AppendThinned ==
  ASSUME inbox \in Seq(Message), NEW m \in Message, m.type # "event", inbox' = Append(inbox, m)
  PROVE  Thinned
<1> DEFINE f == [i \in Upcoming' |-> i]
<1>1. \A i \in Upcoming' : i \in Upcoming /\ inbox'[i] = inbox[i]
  BY AppendFacts DEF Upcoming
<1>2. f \in [Upcoming' -> Upcoming]
  BY <1>1
<1> QED
  BY <1>1, <1>2 DEF Thinned

LEMMA LossThinned ==
  ASSUME inbox \in Seq(Message), NEW k \in 3 .. Len(inbox), inbox' = RemoveAt(inbox, k)
  PROVE  Thinned
<1> DEFINE f == [i \in Upcoming' |-> IF i < k THEN i ELSE i + 1]
<1>0. k \in 1 .. Len(inbox) /\ Len(inbox) \in Nat
  OBVIOUS
<1>1. \A i \in DOMAIN inbox' :
        \/ i \in DOMAIN inbox /\ i < k /\ inbox'[i] = inbox[i]
        \/ i \in Nat /\ i + 1 \in DOMAIN inbox /\ i >= k /\ inbox'[i] = inbox[i + 1]
  BY <1>0, RemoveAtFacts
<1>2. \A i \in Upcoming' :
        \/ i \in Upcoming /\ i \in Nat /\ i < k /\ inbox'[i] = inbox[i]
        \/ i \in Nat /\ i + 1 \in Upcoming /\ ~(i < k) /\ inbox'[i] = inbox[i + 1]
  BY <1>0, <1>1 DEF Upcoming
<1>3. f \in [Upcoming' -> Upcoming]
  BY <1>2
<1>4. \A i \in Upcoming' : inbox'[i] = inbox[f[i]]
  BY <1>2
<1>5. \A i, j \in Upcoming' : i < j => f[i] < f[j]
  BY <1>0, <1>2
<1> QED
  BY <1>3, <1>4, <1>5 DEF Thinned

\* No event is handed over or taken in hand.
LEMMA ThinnedAscends ==
  ASSUME Ascending, Thinned, handled' = handled,
         \A t \in Thread : call'[t].pc = "handle" =>
           call[t].pc = "handle" /\ call'[t].msg = call[t].msg
  PROVE  Ascending'
BY DEF Ascending, Thinned

\* An event is taken in hand or handed over; nobody else receives meanwhile.
LEMMA HandoversAscend ==
  ASSUME IInv, Numbered, InStep, Ascending, NEW t \in Thread, Steps(t),
         HandleEvent(t) \/ WaitReturns(t) \/ TakeEvent(t)
  PROVE  Ascending'
<1>0. /\ Typed /\ inbox \in Seq(Message) /\ call \in [Thread -> Call] /\ handled \in Seq(Nat)
      /\ \A u, v \in Thread : Receiving(u) /\ Receiving(v) => u = v
  BY DEF IInv, Typed, Numbered, Orderly, OneReceiver
<1>1. \A u \in Thread : u # t => call'[u].pc # "handle"
  <2>1. Receiving(t)
    BY DEF HandleEvent, WaitReturns, TakeEvent, Waits, Receiving
  <2> QED
    BY <1>0, <2>1, OthersStay DEF Receiving
<1>2. CASE HandleEvent(t)
  <2>1. /\ handled' = Append(handled, call[t].msg.id) /\ call[t].pc = "handle"
        /\ inbox' = inbox
    BY <1>2 DEF HandleEvent, net
  <2>2. call'[t].pc # "handle"
    <3>1. ~TakeEvent(t)
      BY <2>1 DEF TakeEvent, Waits
    <3> QED
      BY <1>0, <3>1, EventSteps
  <2>3. Upcoming' = Upcoming
    BY <2>1 DEF Upcoming
  <2>4. call[t].msg.id \in Nat
    BY <1>0 DEF Call, Message
  <2>5. \A h \in DOMAIN handled' : handled'[h] = call[t].msg.id
                                     \/ (h \in DOMAIN handled /\ handled'[h] = handled[h])
    BY <1>0, <2>1, <2>4, AppendFacts
  <2> QED
    BY <1>1, <2>1, <2>2, <2>3, <2>5 DEF Ascending
<1>3. CASE WaitReturns(t)
  <2>1. /\ handled' = Append(handled, Head(inbox).id) /\ TakeHead /\ Head(inbox).type = "event"
        /\ call[t].op = "wait"
    BY <1>3 DEF WaitReturns, HeadIsEvent
  <2>2. call'[t].pc # "handle"
    BY <1>0, <1>3, EndSets DEF WaitReturns
  <2>3. 1 \in Upcoming /\ Head(inbox) = inbox[1] /\ Head(inbox).id \in Nat
    <3>1. Head(inbox) \in Message /\ 1 \in DOMAIN inbox /\ Head(inbox) = inbox[1]
      BY <1>0, <2>1, TailFacts DEF TakeHead
    <3> QED
      BY <2>1, <3>1 DEF Upcoming, Message
  <2>4. \A h \in DOMAIN handled' : handled'[h] = inbox[1].id
                                     \/ (h \in DOMAIN handled /\ handled'[h] = handled[h])
    BY <1>0, <2>1, <2>3, AppendFacts
  <2>5. \A i \in Upcoming' : i + 1 \in Upcoming /\ inbox'[i] = inbox[i + 1] /\ i \in Nat \ {0}
    BY <1>0, <2>1, TakesThinned
  <2>6. /\ \A i \in Upcoming' : 1 < i + 1
        /\ \A i, j \in Upcoming' : i < j => i + 1 < j + 1
    BY <2>5
  <2> QED
    BY <1>1, <2>2, <2>3, <2>4, <2>5, <2>6 DEF Ascending
<1>4. CASE TakeEvent(t)
  <2>1. /\ handled' = handled /\ TakeHead /\ Head(inbox).type = "event"
        /\ call'[t].msg = Head(inbox)
    BY <1>0, <1>4, TakeEventSets
  <2>2. 1 \in Upcoming /\ Head(inbox) = inbox[1]
    BY <1>0, <2>1, TailFacts DEF Upcoming, TakeHead
  <2>3. \A i \in Upcoming' : i + 1 \in Upcoming /\ inbox'[i] = inbox[i + 1] /\ i \in Nat \ {0}
    BY <1>0, <2>1, TakesThinned
  <2>4. /\ \A i \in Upcoming' : 1 < i + 1
        /\ \A i, j \in Upcoming' : i < j => i + 1 < j + 1
    BY <2>3
  <2> QED
    BY <1>1, <2>1, <2>2, <2>3, <2>4 DEF Ascending
<1> QED
  BY <1>2, <1>3, <1>4

\* No event is ahead of the server's count.
LEMMA NumberedNext == IInv /\ Numbered /\ [Next]_vars => Numbered'
<1> SUFFICES ASSUME IInv, Numbered, [Next]_vars PROVE Numbered'
  OBVIOUS
<1>0. /\ Typed /\ inbox \in Seq(Message) /\ call \in [Thread -> Call] /\ events \in Nat
      /\ handled \in Seq(Nat)
  BY BoundAssumption DEF IInv, Typed, TypeOK, Numbered
\* Most steps add no event anywhere.
<1>1. ASSUME handled' = handled, events' = events,
             \A i \in DOMAIN inbox' : inbox'[i].type = "event" =>
               \E j \in DOMAIN inbox : inbox'[i] = inbox[j],
             \A t \in Thread : call'[t].pc = "handle" =>
               call[t].pc = "handle" /\ call'[t].msg = call[t].msg
      PROVE  Numbered'
  BY <1>1 DEF Numbered
<1>2. CASE UNCHANGED vars
  BY <1>1, <1>2 DEF vars
<1>3. CASE ServerAnswers
  <2>1. Head(toServer).id \in Nat /\ Head(toServer).status \in Status
    <3>1. toServer # <<>> /\ toServer \in Seq(Sent)
      BY <1>0, <1>3 DEF ServerAnswers, Typed
    <3>2. Head(toServer) \in Sent
      BY <3>1, TailFacts
    <3> QED
      BY <3>2 DEF Sent
  <2> DEFINE a == Answer(Head(toServer).id, Head(toServer).status)
  <2>3. a \in Message /\ a.type = "answer" /\ inbox' = Append(inbox, a)
    BY <1>3, <2>1, Messages DEF Answer, ServerAnswers
  <2> HIDE DEF a
  <2>4. \A i \in DOMAIN inbox' : inbox'[i].type = "event" =>
          \E j \in DOMAIN inbox : inbox'[i] = inbox[j]
    BY <1>0, <2>3, AppendFacts
  <2> QED
    BY <1>1, <1>3, <2>4 DEF ServerAnswers, inbuf, counts
<1>4. CASE ServerSendsEvent
  <2> DEFINE e == Event(events + 1)
  <2>1. e \in Message /\ e.id = events + 1 /\ inbox' = Append(inbox, e)
    BY <1>0, <1>4, Messages DEF ServerSendsEvent, Event
  <2> HIDE DEF e
  <2>2. \A i \in DOMAIN inbox' : inbox'[i] = e \/ \E j \in DOMAIN inbox : inbox'[i] = inbox[j]
    BY <1>0, <2>1, AppendFacts
  <2>3. events' = events + 1 /\ handled' = handled /\ call' = call
    BY <1>4 DEF ServerSendsEvent, inbuf
  <2>4. \A i \in DOMAIN inbox : inbox[i].id \in Nat
    <3>1. \A i \in DOMAIN inbox : inbox[i] \in Message
      BY <1>0
    <3> QED
      BY <3>1 DEF Message
  <2>5. \A t \in Thread : call[t].msg.id \in Nat
    BY <1>0 DEF Call, Message
  <2>6. \A h \in DOMAIN handled : handled[h] \in Nat
    BY <1>0
  <2>7. \A i \in DOMAIN inbox' : inbox'[i].type = "event" => inbox'[i].id <= events + 1
    BY <1>0, <2>1, <2>2, <2>4 DEF Numbered
  <2> QED
    BY <1>0, <2>3, <2>5, <2>6, <2>7 DEF Numbered
<1>5. CASE ServerCloses
  BY <1>1, <1>5 DEF ServerCloses, inbuf, counts
<1>6. CASE MessageLost
  <2>1. PICK k \in 3 .. Len(inbox) : inbox' = RemoveAt(inbox, k)
    BY <1>6 DEF MessageLost
  <2>2. k \in 1 .. Len(inbox)
    BY <1>0
  <2>3. \A i \in DOMAIN inbox' : \E j \in DOMAIN inbox : inbox'[i] = inbox[j]
    BY <1>0, <2>1, <2>2, RemoveAtFacts
  <2> QED
    BY <1>1, <1>6, <2>3 DEF MessageLost, inbuf, counts
<1>7. ASSUME NEW t \in Thread, Starts(t) PROVE Numbered'
  <2>1. ASSUME NEW op, NEW arg, Begin(t, op, arg) PROVE Numbered'
    <3>1. /\ call'[t].pc # "handle" /\ \A u \in Thread : u # t => call'[u] = call[u]
      BY <1>0, <2>1 DEF Begin, Idle
    <3> QED
      BY <1>1, <2>1, <3>1 DEF Begin, net, inbuf
  <2>2. ASSUME NEW op, BeginReader(t, op) PROVE Numbered'
    <3>1. /\ call'[t].pc # "handle" /\ \A u \in Thread : u # t => call'[u] = call[u]
      BY <1>0, <2>2 DEF BeginReader, Idle
    <3> QED
      BY <1>1, <2>2, <3>1 DEF BeginReader, net, inbuf
  <2>3. ASSUME NEW left \in 0 .. 2, Connect(t, left) PROVE Numbered'
    <3>1. /\ call'[t].pc # "handle" /\ \A u \in Thread : u # t => call'[u] = call[u]
      BY <1>0, <2>3 DEF Connect, Idle
    <3> DEFINE old == SubSeq(inbox, 1, left)
    <3>a. left \in Nat /\ left <= Len(inbox) /\ inbox' = old \o <<Handshake>>
          /\ handled' = handled /\ events' = events
      BY <2>3 DEF Connect, inbuf
    <3>2. /\ old \in Seq(Message)
          /\ \A i \in DOMAIN old : i \in DOMAIN inbox /\ old[i] = inbox[i]
      BY <1>0, <3>a
    <3> HIDE DEF old
    <3>3. \A i \in DOMAIN inbox' : inbox'[i] = Handshake \/ (i \in DOMAIN inbox /\ inbox'[i] = inbox[i])
      BY <3>a, <3>2, Messages, ConcatFacts
    <3>4. \A i \in DOMAIN inbox' : inbox'[i].type = "event" =>
            \E j \in DOMAIN inbox : inbox'[i] = inbox[j]
      BY <3>3 DEF Handshake
    <3>5. \A u \in Thread : call'[u].pc = "handle" =>
            call[u].pc = "handle" /\ call'[u].msg = call[u].msg
      BY <3>1
    <3> QED
      BY <1>1, <3>a, <3>4, <3>5
  <2>4. CASE bb_disconnect(t) \/ bb_poll_message(t) \/ bb_set_message_callback(t)
    BY <1>1, <2>4 DEF bb_disconnect, bb_poll_message, bb_set_message_callback, net, inbuf, counts
  <2> QED
    BY <1>7, <2>1, <2>2, <2>3, <2>4 DEF Starts
<1>8. ASSUME NEW t \in Thread, Steps(t) PROVE Numbered'
  <2>1. /\ events' = events /\ \A u \in Thread : u # t => call'[u] = call[u]
    BY <1>0, <1>8, OthersStay
  <2>2. \A i \in DOMAIN inbox' : \E j \in DOMAIN inbox : inbox'[i] = inbox[j]
    <3>1. CASE inbox' = inbox
      BY <3>1
    <3>2. CASE TakeHead
      BY <1>0, <3>2, TailFacts DEF TakeHead
    <3> QED
      BY <1>0, <1>8, <3>1, <3>2, EventSteps
  <2>3. TakeHead => 1 \in DOMAIN inbox /\ Head(inbox) = inbox[1] /\ Head(inbox).id \in Nat
    <3>1. TakeHead => 1 \in DOMAIN inbox /\ Head(inbox) = inbox[1] /\ Head(inbox) \in Message
      BY <1>0, TailFacts DEF TakeHead
    <3> QED
      BY <3>1 DEF Message
  <2>4. call'[t].pc = "handle" => call'[t].msg.id <= events
    BY <1>0, <1>8, <2>3, EventSteps, TakeEventSets DEF Numbered
  <2>5. handled' \in Seq(Nat) /\ \A h \in DOMAIN handled' : handled'[h] <= events
    <3>1. ASSUME NEW n \in Nat, n <= events, handled' = Append(handled, n)
          PROVE  handled' \in Seq(Nat) /\ \A h \in DOMAIN handled' : handled'[h] <= events
      BY <1>0, <3>1, AppendFacts DEF Numbered
    <3>2. CASE handled' = handled
      BY <3>2 DEF Numbered
    <3>3. CASE HandleEvent(t)
      <4>1. handled' = Append(handled, call[t].msg.id) /\ call[t].msg.id <= events
        BY <3>3 DEF HandleEvent, Numbered
      <4>2. call[t].msg.id \in Nat
        BY <1>0 DEF Call, Message
      <4> QED
        BY <3>1, <4>1, <4>2
    <3>4. CASE WaitReturns(t)
      <4>1. handled' = Append(handled, Head(inbox).id) /\ Head(inbox).id \in Nat
            /\ Head(inbox).id <= events
        BY <2>3, <3>4 DEF WaitReturns, HeadIsEvent, Numbered
      <4> QED
        BY <3>1, <4>1
    <3> QED
      BY <1>0, <1>8, <3>2, <3>3, <3>4, EventSteps
  <2> QED
    BY <2>1, <2>2, <2>4, <2>5 DEF Numbered
<1>9. CASE ServerCarriesOut
  BY <1>1, <1>9 DEF ServerCarriesOut, inbuf, counts
<1> QED
  BY <1>2, <1>3, <1>4, <1>5, <1>6, <1>7, <1>8, <1>9 DEF Next

\* The server's next event comes last, a new connection begins with none.
LEMMA NextEInv == EInv /\ [Next]_vars => EInv'
<1> SUFFICES ASSUME IInv, Numbered, InStep => Ascending, [Next]_vars, InStep' PROVE Ascending'
  BY NextIInv, NumberedNext DEF EInv
<1>0. Typed /\ inbox \in Seq(Message)
  BY DEF IInv, Typed
<1>1. CASE UNCHANGED vars
  BY <1>0, <1>1, StaysThinned, ThinnedAscends DEF vars, InStep
<1>2. CASE ServerAnswers
  <2>1. InStep /\ call' = call /\ handled' = handled
    BY <1>0, <1>2, StepsKeepInStep DEF ServerAnswers, inbuf
  <2>3. Head(toServer).id \in Nat /\ Head(toServer).status \in Status
    <3>1. toServer # <<>> /\ toServer \in Seq(Sent)
      BY <1>0, <1>2 DEF ServerAnswers, Typed
    <3>2. Head(toServer) \in Sent
      BY <3>1, TailFacts
    <3> QED
      BY <3>2 DEF Sent
  <2> DEFINE a == Answer(Head(toServer).id, Head(toServer).status)
  <2>4. a \in Message /\ a.type # "event" /\ inbox' = Append(inbox, a)
    BY <1>2, <2>3, Messages DEF Answer, ServerAnswers
  <2> HIDE DEF a
  <2> QED
    BY <1>0, <2>1, <2>4, AppendThinned, ThinnedAscends
<1>3. CASE ServerSendsEvent
  <2> DEFINE e == Event(events + 1)
             n == Len(inbox) + 1
  <2>1. events \in Nat
    BY <1>0, BoundAssumption DEF Typed, TypeOK
  <2>2. e \in Message /\ e.id = events + 1 /\ inbox' = Append(inbox, e)
    BY <1>3, <2>1, Messages DEF ServerSendsEvent, Event
  <2>3. InStep /\ Ascending /\ call' = call /\ handled' = handled
    BY <1>0, <1>3, StepsKeepInStep DEF ServerSendsEvent, inbuf
  <2> HIDE DEF e
  <2>4. /\ \A i \in Upcoming' : \/ i = n /\ inbox'[i].id = events + 1
                                \/ i \in Upcoming /\ i \in Nat /\ i < n /\ inbox'[i] = inbox[i]
        /\ n \in Nat
    <3>1. \A i \in DOMAIN inbox' : i = n \/ (i \in DOMAIN inbox /\ inbox'[i] = inbox[i])
      BY <1>0, <2>2, AppendFacts
    <3>2. inbox'[n] = e /\ \A i \in DOMAIN inbox : i \in Nat /\ i < n
      BY <1>0, <2>2, AppendFacts
    <3> QED
      BY <1>0, <2>2, <3>1, <3>2 DEF Upcoming
  <2>5. \A i \in Upcoming : inbox[i].id \in Nat /\ inbox[i].id <= events
    <3>1. \A i \in Upcoming : inbox[i] \in Message
      BY <1>0 DEF Upcoming
    <3> QED
      BY <3>1 DEF Message, Upcoming, Numbered
  <2>6. /\ \A h \in DOMAIN handled : handled[h] \in Nat /\ handled[h] <= events
        /\ \A t \in Thread : call[t].msg.id \in Nat
        /\ \A t \in Thread : call[t].pc = "handle" => call[t].msg.id <= events
    <3>1. \A h \in DOMAIN handled : handled[h] \in Nat /\ handled[h] <= events
      BY DEF Numbered
    <3>2. \A t \in Thread : call[t].msg.id \in Nat
      BY <1>0 DEF Typed, Call, Message
    <3>3. \A t \in Thread : call[t].pc = "handle" => call[t].msg.id <= events
      BY DEF Numbered
    <3> QED
      BY <3>1, <3>2, <3>3
  <2>7. \A i, j \in Upcoming' : i < j => inbox'[i].id < inbox'[j].id
    <3> SUFFICES ASSUME NEW i \in Upcoming', NEW j \in Upcoming', i < j
                 PROVE  inbox'[i].id < inbox'[j].id
      OBVIOUS
    <3>1. i \in Upcoming /\ inbox'[i] = inbox[i]
      BY <2>4
    <3>2. CASE j = n /\ inbox'[j].id = events + 1
      BY <2>1, <2>5, <3>1, <3>2
    <3>3. CASE j \in Upcoming /\ inbox'[j] = inbox[j]
      BY <2>3, <3>1, <3>3 DEF Ascending
    <3> QED
      BY <2>4, <3>2, <3>3
  <2>8. \A i \in Upcoming' :
          /\ \A h \in DOMAIN handled : handled[h] < inbox'[i].id
          /\ \A t \in Thread : call[t].pc = "handle" => call[t].msg.id < inbox'[i].id
    BY <2>1, <2>3, <2>4, <2>6 DEF Ascending
  <2> QED
    BY <2>3, <2>7, <2>8 DEF Ascending
<1>4. CASE ServerCloses \/ ServerCarriesOut
  BY <1>0, <1>4, StaysThinned, ThinnedAscends, StepsKeepInStep
     DEF ServerCloses, ServerCarriesOut, inbuf
<1>5. CASE MessageLost
  <2>1. InStep /\ call' = call /\ handled' = handled
    BY <1>0, <1>5, StepsKeepInStep DEF MessageLost, inbuf
  <2>2. PICK k \in 3 .. Len(inbox) : inbox' = RemoveAt(inbox, k)
    BY <1>5 DEF MessageLost
  <2> QED
    BY <1>0, <2>1, <2>2, LossThinned, ThinnedAscends
<1>6. ASSUME NEW t \in Thread, Starts(t) PROVE Ascending'
  <2>1. CASE InStep /\ Quiet(t)
    BY <1>0, <2>1, StaysThinned, ThinnedAscends DEF Quiet
  <2>2. CASE InStep /\ Begins(t)
    <3>1. \A u \in Thread : call'[u].pc = "handle" =>
            call[u].pc = "handle" /\ call'[u].msg = call[u].msg
      BY <2>2 DEF Begins
    <3> QED
      BY <1>0, <2>2, <3>1, StaysThinned, ThinnedAscends DEF Begins
  <2>3. ASSUME NEW left \in 0 .. 2, Connect(t, left) PROVE Ascending'
    <3>1. Upcoming' = {}
      BY <2>3, ConnectFacts DEF Upcoming, Handshake
    <3>2. \A u \in Thread : call'[u].pc # "handle"
      BY <2>3, ConnectFacts DEF Halfway, Receiving
    <3> QED
      BY <3>1, <3>2 DEF Ascending
  <2> QED
    BY <1>6, <2>1, <2>2, <2>3, StartFacts
<1>7. ASSUME NEW t \in Thread, Steps(t) PROVE Ascending'
  <2>1. InStep
    BY <1>0, <1>7, StepsKeepInStep
  <2>2. CASE HandleEvent(t) \/ WaitReturns(t) \/ TakeEvent(t)
    BY <1>7, <2>1, <2>2, HandoversAscend
  <2>3. CASE ~(HandleEvent(t) \/ WaitReturns(t) \/ TakeEvent(t))
    <3>1. /\ inbox' = inbox \/ TakeHead
          /\ call'[t].pc # "handle" /\ handled' = handled
      BY <1>0, <1>7, <2>3, EventSteps
    <3>2. \A u \in Thread : u # t => call'[u] = call[u]
      BY <1>0, <1>7, OthersStay
    <3>3. \A u \in Thread : call'[u].pc = "handle" =>
            call[u].pc = "handle" /\ call'[u].msg = call[u].msg
      BY <3>1, <3>2
    <3>4. Thinned
      BY <1>0, <3>1, StaysThinned, TakesThinned
    <3> QED
      BY <2>1, <3>1, <3>3, <3>4, ThinnedAscends
  <2> QED
    BY <2>2, <2>3
<1> QED
  BY <1>1, <1>2, <1>3, <1>4, <1>5, <1>6, <1>7 DEF Next

\* The step that hands an event over.
LEMMA HandedOverInOrder ==
  ASSUME EInv, [Next]_vars, InStep, handled' # handled, NEW i \in DOMAIN handled
  PROVE  handled[i] < Last(handled')
<1>0. /\ Typed /\ inbox \in Seq(Message) /\ call \in [Thread -> Call]
      /\ handled \in Seq(Nat) /\ Ascending
  BY DEF EInv, IInv, Typed, Numbered
<1>1. \A n \in Nat : Last(Append(handled, n)) = n
  <2> SUFFICES ASSUME NEW n \in Nat PROVE Last(Append(handled, n)) = n
    OBVIOUS
  <2>1. Len(Append(handled, n)) = Len(handled) + 1 /\ Append(handled, n)[Len(handled) + 1] = n
    BY <1>0, AppendFacts
  <2> QED
    BY <2>1 DEF Last
<1>2. PICK t \in Thread : HandleEvent(t) \/ WaitReturns(t)
  <2>1. ~UNCHANGED vars /\ ~(ServerCarriesOut \/ ServerAnswers \/ ServerSendsEvent \/ ServerCloses \/ MessageLost)
    BY DEF vars, ServerCarriesOut, ServerAnswers, ServerSendsEvent, ServerCloses, MessageLost, inbuf
  <2>2. ASSUME NEW t \in Thread, Starts(t) PROVE FALSE
    BY <2>2 DEF Starts, Begin, BeginReader, Connect, bb_disconnect, bb_poll_message,
                bb_set_message_callback, inbuf
  <2> QED
    BY <1>0, <2>1, <2>2, EventSteps DEF Next
<1>3. CASE HandleEvent(t)
  <2>1. handled' = Append(handled, call[t].msg.id) /\ call[t].pc = "handle"
    BY <1>3 DEF HandleEvent
  <2>2. call[t].msg.id \in Nat
    BY <1>0 DEF Call, Message
  <2> QED
    BY <1>0, <1>1, <2>1, <2>2 DEF Ascending
<1>4. CASE WaitReturns(t)
  <2>1. /\ handled' = Append(handled, Head(inbox).id) /\ inbox # <<>>
        /\ Head(inbox).type = "event"
    BY <1>4 DEF WaitReturns, HeadIsEvent
  <2>2. Head(inbox) \in Message /\ 1 \in DOMAIN inbox /\ Head(inbox) = inbox[1]
    BY <1>0, <2>1, TailFacts
  <2>3. Head(inbox).id \in Nat /\ 1 \in Upcoming
    BY <2>1, <2>2 DEF Message, Upcoming
  <2> QED
    BY <1>0, <1>1, <2>1, <2>2, <2>3 DEF Ascending
<1> QED
  BY <1>2, <1>3, <1>4

\* Events are handed over in the order the server sent them, from whatever call takes them
\* in, though the callback runs after the receive (send_request, process_pubsub_event,
\* bb_wait_message).
THEOREM EventsAreInOrder == Spec => EventsInOrder
<1>1. Init => EInv
  <2> SUFFICES ASSUME Init PROVE Numbered /\ Ascending
    BY InitIInv DEF EInv
  <2>1. /\ inbox = <<>> /\ handled = <<>> /\ handled \in Seq(Nat)
        /\ \A t \in Thread : call[t].pc = "idle"
    BY IdleTyped DEF Init
  <2> QED
    BY <2>1 DEF Numbered, Ascending, Upcoming
<1>2. EInv /\ [Next]_vars =>
        [InStep /\ handled' # handled => \A i \in DOMAIN handled : handled[i] < Last(handled')]_vars
  BY HandedOverInOrder
<1> QED
  BY <1>1, <1>2, NextEInv, PTL DEF Spec, EventsInOrder

=============================================================================
