------------------------------ MODULE CClient ------------------------------
(***************************************************************************)
(* The C client library: threads of an application call the bb_ functions   *)
(* of one BBClient, which shares one WebSocket connection.  The server      *)
(* answers the requests of a connection in order and sends events between   *)
(* the answers.  Nothing in the client compares the sequence number of an   *)
(* answer, so a call relies on taking exactly the message that is meant for *)
(* it.                                                                     *)
(*                                                                         *)
(* The transport is a lossy channel (module LossyChannel): what arrives is  *)
(* in order and whole, and behind two waiting messages it may be thrown     *)
(* away.  A request is told apart by the number of its call, for the         *)
(* sequence number of the code is taken outside the lock.                   *)
(***************************************************************************)
EXTENDS Naturals, Sequences, SequencesExt

CONSTANTS
  Thread,
  Barrel,
  NoBarrel,
  NoThread,
  OpsOf,         \* [Thread -> set of operations]
  MaxAttempts,   \* messages a call takes in before it gives up: 10 in the code
  MaxCalls,      \* bound on the calls of all threads
  MaxEvents      \* bound on the events the server sends

ASSUME NullAssumption == NoBarrel \notin Barrel /\ NoThread \notin Thread
ASSUME BoundAssumption ==
  MaxAttempts \in Nat \ {0} /\ MaxCalls \in Nat /\ MaxEvents \in Nat

-----------------------------------------------------------------------------
(* The operations, by the way they wait for their answer.                   *)

\* Those that tell the server, and then the client, which barrel is in use.
Choosers == {"use", "close", "drop"}

\* send_request: under request_lock, events before the answer are handled.
Requests == Choosers \cup {"create", "open", "listBarrels", "set", "get", "delete",
                           "exists", "count", "listKeys"}
\* Under request_lock, but the first message that comes is taken for the answer.
Singles == {"batch", "range", "prefix"}
\* The same without the lock.
Plain == {"subscribe", "unsubscribe", "listSubscribers", "listTopics", "history",
          "presence"}
\* Without the lock; events before the answer are thrown away.
Watches == {"watch", "unwatch"}
\* They send nothing and throw away what is not an event.
Readers == {"process", "wait"}

Locked == Requests \cup Singles
Asking == Locked \cup Plain \cup Watches
Op == Asking \cup Readers \cup {"publish", "poll", "setCallback", "connect", "disconnect"}

ASSUME OpsAssumption == OpsOf \in [Thread -> SUBSET Op]

Args(op) == IF op \in {"create", "open", "use", "drop"} THEN Barrel ELSE {NoBarrel}

Answer(id, status) == [type |-> "answer", id |-> id, status |-> status]
Event(n)  == [type |-> "event", id |-> n, status |-> "none"]
Handshake == [type |-> "handshake", id |-> 0, status |-> "none"]
NoAnswer  == [type |-> "none", id |-> 0, status |-> "none"]

\* A request; the status is set when the server has carried it out.
Request(id, op, arg) == [id |-> id, op |-> op, arg |-> arg, status |-> "none"]

Idle == [pc |-> "idle", op |-> "poll", arg |-> NoBarrel, id |-> 0, left |-> 0,
         msg |-> NoAnswer, res |-> "ok"]

VARIABLES
  connected,   \* ws->connected
  up,          \* the server has the connection open
  toServer,    \* requests on their way, or at the server and not answered
  inbox,       \* messages on their way, or arrived and not taken
  session,     \* the server's session of this connection: barrel and subscriptions
  lock,        \* request_lock
  call,        \* [Thread -> the call the thread is in]
  current,     \* client->current_barrel
  kept,        \* current_barrel was set on an earlier connection
  callback,    \* whether message_callback is set
  mqueue,      \* g_message_queue
  handled,     \* the events that reached the callback, the queue or bb_wait_message
  trouble,     \* what has put calls and answers out of step on this connection
  calls, events

vars == <<connected, up, toServer, inbox, session, lock, call, current, kept, callback,
          mqueue, handled, trouble, calls, events>>

net    == <<connected, up, toServer, inbox, session>>
chosen == <<current, kept>>
inbuf  == <<callback, mqueue, handled>>
counts == <<calls, events>>

NewSession == [barrel |-> NoBarrel, subs |-> FALSE]

Holding == {"send", "recv", "handle"}

TypeOK ==
  /\ connected \in BOOLEAN /\ up \in BOOLEAN
  /\ \A i \in DOMAIN toServer : toServer[i].op \in Op \cup {"ping"}
  /\ \A i \in DOMAIN inbox : inbox[i].type \in {"answer", "event", "handshake"}
  /\ session \in [barrel : Barrel \cup {NoBarrel}, subs : BOOLEAN]
  /\ lock \in Thread \cup {NoThread}
  /\ \A t \in Thread :
       /\ call[t].pc \in Holding \cup {"idle", "lock", "hs", "ping", "return"}
       /\ call[t].op \in Op /\ call[t].left \in 0 .. MaxAttempts
       /\ lock = t <=> call[t].op \in Locked /\ call[t].pc \in Holding
  /\ current \in Barrel \cup {NoBarrel} /\ kept \in BOOLEAN
  /\ callback \in BOOLEAN /\ trouble \in {"none", "threads", "other"}
  /\ calls \in 0 .. MaxCalls /\ events \in 0 .. MaxEvents

\* bb_client_create
Init ==
  /\ connected = FALSE /\ up = FALSE
  /\ toServer = <<>> /\ inbox = <<>>
  /\ session = NewSession
  /\ lock = NoThread
  /\ call = [t \in Thread |-> Idle]
  /\ current = NoBarrel /\ kept = FALSE
  /\ callback = FALSE /\ mqueue = <<>> /\ handled = <<>>
  /\ trouble = "none"
  /\ calls = 0 /\ events = 0

-----------------------------------------------------------------------------
(* What each function makes of the status of the answer it has taken.       *)

\* Mutant: What is not listed is no error.
TranslateRest(s) ==
  CASE s \in {"not_found", "no_barrel", "barrel_exists"} -> s
    [] s = "invalid" -> "invalid_request"
    [] s = "error"   -> "error"
    [] OTHER         -> "ok"

Translate(s) ==
  CASE s \in {"ok", "not_found", "no_barrel", "barrel_exists"} -> s
    [] s = "invalid" -> "invalid_request"
    [] OTHER         -> "error"

Named(s) == IF s = "barrel_not_found" THEN "no_barrel" ELSE Translate(s)
OkOrError(s) == IF s = "ok" THEN "ok" ELSE "error"
OkOrNothing(s) == IF s = "ok" THEN "ok" ELSE "null"

bb_create_barrel(s)     == Translate(s)
bb_open_barrel(s)       == Named(s)
bb_use_barrel(s)        == Named(s)
bb_close_barrel(s)      == Translate(s)
bb_list_barrels(s)      == Translate(s)
bb_drop_barrel(s)       == Named(s)
bb_set(s)               == Translate(s)
bb_get(s)               == OkOrNothing(s)
bb_delete(s)            == IF s = "not_found" THEN "ok" ELSE Translate(s)
bb_exists(s)            == OkOrNothing(s)
bb_count(s)             == Translate(s)
bb_list_keys(s)         == Translate(s)
bb_batch(s)             == Translate(s)
bb_items_in_range(s)    == IF s \in {"ok", "no_barrel"} THEN s ELSE "error"
bb_items_with_prefix(s) == IF s \in {"ok", "no_barrel"} THEN s ELSE "error"
bb_subscribe(s)         == IF s \in {"ok", "error"} THEN s ELSE "protocol_error"
bb_unsubscribe(s)       == OkOrError(s)
bb_list_subscribers(s)  == OkOrError(s)
bb_list_topics(s)       == OkOrError(s)
bb_get_history(s)       == OkOrError(s)
bb_get_presence(s)      == OkOrError(s)
bb_watch_key(s)         == OkOrError(s)
\* The answer that comes as the last message allowed is thrown away.
bb_unwatch_key(s, left) == IF left = 0 THEN "timeout" ELSE OkOrError(s)

ResultOf(op, s, left) ==
  CASE op = "create"          -> bb_create_barrel(s)
    [] op = "open"            -> bb_open_barrel(s)
    [] op = "use"             -> bb_use_barrel(s)
    [] op = "close"           -> bb_close_barrel(s)
    [] op = "listBarrels"     -> bb_list_barrels(s)
    [] op = "drop"            -> bb_drop_barrel(s)
    [] op = "set"             -> bb_set(s)
    [] op = "get"             -> bb_get(s)
    [] op = "delete"          -> bb_delete(s)
    [] op = "exists"          -> bb_exists(s)
    [] op = "count"           -> bb_count(s)
    [] op = "listKeys"        -> bb_list_keys(s)
    [] op = "batch"           -> bb_batch(s)
    [] op = "range"           -> bb_items_in_range(s)
    [] op = "prefix"          -> bb_items_with_prefix(s)
    [] op = "subscribe"       -> bb_subscribe(s)
    [] op = "unsubscribe"     -> bb_unsubscribe(s)
    [] op = "listSubscribers" -> bb_list_subscribers(s)
    [] op = "listTopics"      -> bb_list_topics(s)
    [] op = "history"         -> bb_get_history(s)
    [] op = "presence"        -> bb_get_presence(s)
    [] op = "watch"           -> bb_watch_key(s)
    [] op = "unwatch"         -> bb_unwatch_key(s, left)

\* An event where an answer is expected does not decode; the batch operations
\* look at its first byte only, and so does bb_subscribe.
EventAsAnswer(op) == IF op = "batch" THEN "error" ELSE "protocol_error"

\* Nor does a late handshake; its first byte, the version, is the status 1.
HandshakeAsAnswer(op) ==
  CASE op = "batch" -> "not_found" [] op \in Watches -> "error" [] OTHER -> "protocol_error"

-----------------------------------------------------------------------------
(* The server: one request after the other; other clients may have opened,  *)
(* closed or dropped any barrel meanwhile.                                  *)

\* A data request without a barrel in the session fails; with one, the barrel may be
\* gone.
DataStatuses(op) ==
  IF session.barrel = NoBarrel THEN {"no_barrel"}
  ELSE {"ok", "barrel_not_found"}
         \cup (CASE op = "get" -> {"not_found"}
                 [] op \in {"delete", "range", "prefix"} -> {"error"}
                 [] OTHER -> {})

\* A batch request of this client, and its publications, do not decode.
Statuses(op, arg) ==
  CASE op \in {"ping", "listBarrels"}   -> {"ok"}
    [] op = "create"                    -> {"ok", "barrel_exists", "error"}
    [] op \in {"open", "use", "drop"}   -> {"ok", "barrel_not_found"}
    [] op = "close"                     -> {"barrel_not_found"} \cup
                                             (IF session.barrel = NoBarrel THEN {} ELSE {"ok"})
    [] op = "batch"                     -> {"invalid"}
    [] op \in {"set", "get", "delete", "exists", "count", "listKeys", "range", "prefix"}
                                        -> DataStatuses(op)
    [] op = "publish"                   -> {"error"}
    [] op = "watch"                     -> IF arg = NoBarrel /\ session.barrel = NoBarrel
                                           THEN {"no_barrel"} ELSE {"ok", "error"}
    [] op \in {"unsubscribe", "unwatch"} -> {"ok", "invalid"}
    [] OTHER                            -> {"ok", "error"}

After(op, arg, status) ==
  CASE status = "ok" /\ op = "use" -> [session EXCEPT !.barrel = arg]
    [] status = "ok" /\ (op = "close" \/ (op = "drop" /\ session.barrel = arg))
                                   -> [session EXCEPT !.barrel = NoBarrel]
    [] status = "ok" /\ op \in {"subscribe", "watch"} -> [session EXCEPT !.subs = TRUE]
    [] OTHER -> session

\* A command is carried out before its answer is sent: a subscription is registered, and
\* its first event may come before the answer.
ServerCarriesOut ==
  /\ up /\ toServer # <<>> /\ Head(toServer).status = "none"
  /\ LET r == Head(toServer)
     IN \E status \in Statuses(r.op, r.arg) :
          /\ toServer' = [toServer EXCEPT ![1] = [r EXCEPT !.status = status]]
          /\ session' = After(r.op, r.arg, status)
  /\ UNCHANGED <<connected, up, inbox, lock, call, chosen, inbuf, trouble, counts>>

ServerAnswers ==
  /\ up /\ toServer # <<>> /\ Head(toServer).status # "none"
  /\ inbox' = Append(inbox, Answer(Head(toServer).id, Head(toServer).status))
  /\ toServer' = Tail(toServer)
  /\ UNCHANGED <<connected, up, session, lock, call, chosen, inbuf, trouble, counts>>

\* A publication or a changed key; events are sent from threads of their own.
ServerSendsEvent ==
  /\ up /\ session.subs /\ events < MaxEvents
  /\ events' = events + 1
  /\ inbox' = Append(inbox, Event(events + 1))
  /\ UNCHANGED <<connected, up, toServer, session, lock, call, chosen, inbuf, trouble, calls>>

ServerCloses ==
  /\ up
  /\ up' = FALSE /\ toServer' = <<>> /\ session' = NewSession
  /\ UNCHANGED <<connected, inbox, lock, call, chosen, inbuf, trouble, counts>>

-----------------------------------------------------------------------------
(* The calls.                                                               *)

Receiving(u) == call[u].pc \in {"recv", "handle", "hs", "ping"}

\* A call that has used the connection and not returned.
Halfway(u) == Receiving(u) \/ call[u].pc = "return"

\* Two calls take messages at the same time, one of them at least without the lock.
Overlaps(t) ==
  \E u \in Thread \ {t} : Receiving(u) /\ ~({call[t].op, call[u].op} \subseteq Locked)

Asked(t) == call[t].op \in Asking

Blame(happened, cause) ==
  trouble' = IF happened /\ trouble # "other" THEN cause ELSE trouble

\* The end of a call: what its message was, what it returns, and the lock released.
End(t, msg, res) ==
  /\ call' = [call EXCEPT ![t].pc = "return", ![t].msg = msg, ![t].res = res]
  /\ lock' = IF lock = t THEN NoThread ELSE lock

\* The transport has no room for a third message while it reads for someone.
MessageLost ==
  /\ \E t \in Thread : Receiving(t)
  /\ \E i \in 3 .. Len(inbox) :
       /\ inbox' = RemoveAt(inbox, i)
       /\ Blame(inbox[i].type # "event", "other")
  /\ UNCHANGED <<connected, up, toServer, session, lock, call, chosen, inbuf, counts>>

\* Every function that sends or receives.  bb_watch_key and bb_unwatch_key read
\* current_barrel now.
Begin(t, op, arg) ==
  /\ call[t].pc = "idle" /\ calls < MaxCalls
  /\ op \in Asking \cup {"publish"}
  /\ calls' = calls + 1
  /\ call' = [call EXCEPT ![t] =
       [Idle EXCEPT !.pc = IF op \in Locked THEN "lock" ELSE "send",
                    !.op = op, !.id = calls + 1,
                    !.arg = IF op \in Watches THEN current ELSE arg]]
  /\ UNCHANGED <<net, lock, chosen, inbuf, trouble, events>>

Acquire(t) ==
  /\ call[t].pc = "lock" /\ lock = NoThread
  /\ lock' = t
  /\ call' = [call EXCEPT ![t].pc = "send"]
  /\ UNCHANGED <<net, chosen, inbuf, trouble, counts>>

\* ws_send_binary fails: without a connection, or when it finds it gone.
SendFails(t) ==
  /\ call[t].pc = "send"
  /\ ~connected \/ ~up
  /\ connected' = FALSE
  /\ End(t, NoAnswer, "connection_error")
  /\ UNCHANGED <<up, toServer, inbox, session, chosen, inbuf, trouble, counts>>

\* The request is on its way, unless the server is gone unnoticed.
Transmit(t) ==
  toServer' = IF up THEN Append(toServer, Request(call[t].id, call[t].op, call[t].arg))
              ELSE toServer

\* Mutant: The lock covers the sending only, not the wait for the answer.
SendUnlocks(t) ==
  /\ call[t].pc = "send" /\ connected /\ Asked(t)
  /\ Transmit(t)
  /\ call' = [call EXCEPT ![t].pc = "recv", ![t].left = MaxAttempts]
  /\ lock' = IF lock = t THEN NoThread ELSE lock
  /\ Blame(Overlaps(t), "threads")
  /\ UNCHANGED <<connected, up, inbox, session, chosen, inbuf, counts>>

Send(t) ==
  /\ call[t].pc = "send" /\ connected /\ Asked(t)
  /\ Transmit(t)
  /\ call' = [call EXCEPT ![t].pc = "recv", ![t].left = MaxAttempts]
  /\ Blame(Overlaps(t), "threads")
  /\ UNCHANGED <<connected, up, inbox, session, lock, chosen, inbuf, counts>>

\* bb_publish does not wait: the answer of the server is the next call's.
Publish(t) ==
  /\ call[t].pc = "send" /\ connected /\ call[t].op = "publish"
  /\ Transmit(t)
  /\ End(t, NoAnswer, "ok")
  /\ Blame(TRUE, "other")
  /\ UNCHANGED <<connected, up, inbox, session, chosen, inbuf, counts>>

Waits(t) == call[t].pc = "recv"
TakeHead == inbox # <<>> /\ inbox' = Tail(inbox)
HeadIsEvent == inbox # <<>> /\ Head(inbox).type = "event"

\* Mutant: A request takes an event for its answer.
EventIsTheAnswer(t) ==
  /\ Waits(t) /\ call[t].op \in Requests \cup {"process"}
  /\ HeadIsEvent /\ TakeHead
  /\ End(t, Head(inbox), "protocol_error")
  /\ UNCHANGED <<connected, up, toServer, session, chosen, inbuf, trouble, counts>>

\* Mutant: The lock is given back before the event is handled.
TakeEventUnlocks(t) ==
  /\ Waits(t) /\ call[t].op \in Requests \cup {"process"}
  /\ HeadIsEvent /\ TakeHead
  /\ call' = [call EXCEPT ![t].pc = "handle", ![t].left = @ - 1, ![t].msg = Head(inbox)]
  /\ lock' = IF lock = t THEN NoThread ELSE lock
  /\ UNCHANGED <<connected, up, toServer, session, chosen, inbuf, trouble, counts>>

\* send_request and bb_process_messages hand an event to process_pubsub_event.
TakeEvent(t) ==
  /\ Waits(t) /\ call[t].op \in Requests \cup {"process"}
  /\ HeadIsEvent /\ TakeHead
  /\ call' = [call EXCEPT ![t].pc = "handle", ![t].left = @ - 1, ![t].msg = Head(inbox)]
  /\ UNCHANGED <<connected, up, toServer, session, lock, chosen, inbuf, trouble, counts>>

\* process_pubsub_event under callback_lock; too many events end the request, and its
\* answer is still to come.
HandleEvent(t) ==
  LET n == call[t].msg.id
  IN /\ call[t].pc = "handle"
     /\ handled' = Append(handled, n)
     /\ mqueue' = IF callback THEN mqueue ELSE Append(mqueue, n)
     /\ \/ /\ call[t].op = "process"
           /\ End(t, NoAnswer, "ok")
           /\ UNCHANGED trouble
        \/ /\ call[t].op \in Requests /\ call[t].left > 0
           /\ call' = [call EXCEPT ![t].pc = "recv", ![t].msg = NoAnswer]
           /\ UNCHANGED <<lock, trouble>>
        \/ /\ call[t].op \in Requests /\ call[t].left = 0
           /\ End(t, NoAnswer, "timeout")
           /\ Blame(TRUE, "other")
     /\ UNCHANGED <<net, chosen, callback, counts>>

\* bb_watch_key and bb_unwatch_key free the event.
SkipEvent(t) ==
  /\ Waits(t) /\ call[t].op \in Watches
  /\ HeadIsEvent /\ TakeHead
  /\ \/ /\ call[t].left > 1
        /\ call' = [call EXCEPT ![t].left = @ - 1]
        /\ UNCHANGED <<lock, trouble>>
     \/ /\ call[t].left = 1
        /\ End(t, NoAnswer, "timeout")
        /\ Blame(TRUE, "other")
  /\ UNCHANGED <<connected, up, toServer, session, chosen, inbuf, counts>>

\* The others take it for their answer.
EventForAnswer(t) ==
  /\ Waits(t) /\ call[t].op \in Singles \cup Plain
  /\ HeadIsEvent /\ TakeHead
  /\ End(t, Head(inbox), EventAsAnswer(call[t].op))
  /\ Blame(TRUE, "other")
  /\ UNCHANGED <<connected, up, toServer, session, chosen, inbuf, counts>>

\* decode_response; nothing compares resp->seq.
TakeAnswer(t) ==
  /\ Waits(t) /\ Asked(t)
  /\ ~HeadIsEvent /\ TakeHead
  /\ LET m == Head(inbox)
     IN End(t, m, IF m.type = "answer"
                  THEN ResultOf(call[t].op, m.status, call[t].left - 1)
                  ELSE HandshakeAsAnswer(call[t].op))
  /\ UNCHANGED <<connected, up, toServer, session, chosen, inbuf, trouble, counts>>

\* Mutant: The error path of a receive returns without the unlock.
ReceiveFailsLocked(t) ==
  /\ Waits(t) /\ Asked(t)
  /\ \/ UNCHANGED connected
     \/ ~up /\ connected' = FALSE
  /\ call' = [call EXCEPT ![t].pc = "return", ![t].res = "timeout"]
  /\ Blame(TRUE, "other")
  /\ UNCHANGED <<up, toServer, inbox, session, lock, chosen, inbuf, counts>>

\* ws_recv_binary returns without a message: the time is over, or the connection is
\* gone.
ReceiveFails(t) ==
  /\ Waits(t) /\ Asked(t)
  /\ \/ UNCHANGED connected
     \/ ~up /\ connected' = FALSE
  /\ End(t, NoAnswer, IF call[t].op \in Requests THEN "connection_error" ELSE "timeout")
  /\ Blame(TRUE, "other")
  /\ UNCHANGED <<up, toServer, inbox, session, chosen, inbuf, counts>>

\* Mutant: Dropping any barrel clears it.
ChoosesAny(t) == call[t].op \in Choosers /\ call[t].res = "ok"

\* The client's idea of the barrel in use follows the answer, after the unlock.
Chooses(t) ==
  /\ call[t].op \in Choosers /\ call[t].res = "ok"
  /\ call[t].op = "drop" => call[t].arg = current

Return(t) ==
  /\ call[t].pc = "return"
  /\ call' = [call EXCEPT ![t] = Idle]
  /\ \/ /\ Chooses(t)
        /\ current' = IF call[t].op = "use" THEN call[t].arg ELSE NoBarrel
        /\ kept' = FALSE
     \/ /\ ~Chooses(t)
        /\ UNCHANGED chosen
  /\ UNCHANGED <<net, lock, inbuf, trouble, counts>>

-----------------------------------------------------------------------------
(* Messages.                                                                *)

\* bb_process_messages receives once, bb_wait_message again and again.
BeginReader(t, op) ==
  /\ op \in Readers
  /\ call[t].pc = "idle" /\ calls < MaxCalls
  /\ calls' = calls + 1
  /\ call' = [call EXCEPT ![t] = [Idle EXCEPT !.pc = "recv", !.op = op,
                                    !.left = IF op = "process" THEN 1 ELSE MaxAttempts]]
  /\ Blame(\E u \in Thread \ {t} : Receiving(u), "threads")
  /\ UNCHANGED <<net, lock, chosen, inbuf, events>>

\* A round without an event: nothing came, or something else was thrown away.
EmptyRound(t) ==
  /\ Waits(t) /\ call[t].op \in Readers
  /\ \/ UNCHANGED <<connected, inbox>>
     \/ ~up /\ connected' = FALSE /\ UNCHANGED inbox
     \/ ~HeadIsEvent /\ TakeHead /\ UNCHANGED connected
  /\ \/ /\ call[t].left > 1
        /\ call' = [call EXCEPT ![t].left = @ - 1]
        /\ UNCHANGED lock
     \/ /\ call[t].left = 1
        /\ End(t, NoAnswer, "null")
  /\ UNCHANGED <<up, toServer, session, chosen, inbuf, trouble, counts>>

\* bb_wait_message returns the event itself, past those that are queued.
WaitReturns(t) ==
  /\ Waits(t) /\ call[t].op = "wait"
  /\ HeadIsEvent /\ TakeHead
  /\ handled' = Append(handled, Head(inbox).id)
  /\ End(t, NoAnswer, "ok")
  /\ UNCHANGED <<connected, up, toServer, session, chosen, callback, mqueue, trouble, counts>>

bb_poll_message(t) ==
  /\ call[t].pc = "idle" /\ mqueue # <<>>
  /\ mqueue' = Tail(mqueue)
  /\ UNCHANGED <<net, lock, call, chosen, callback, handled, trouble, counts>>

bb_set_message_callback(t) ==
  /\ call[t].pc = "idle"
  /\ callback' = ~callback
  /\ UNCHANGED <<net, lock, call, chosen, mqueue, handled, trouble, counts>>

-----------------------------------------------------------------------------
(* The connection.                                                          *)

\* Mutant: A new connection is trusted whatever the old one left behind.
ConnectClears(t, left) ==
  /\ call[t].pc = "idle" /\ calls < MaxCalls /\ ~connected
  /\ left \in 0 .. 2 /\ left <= Len(inbox)
  /\ calls' = calls + 1
  /\ call' = [call EXCEPT ![t] = [Idle EXCEPT !.pc = "hs", !.op = "connect",
                                              !.id = calls + 1]]
  /\ connected' = TRUE /\ up' = TRUE
  /\ inbox' = SubSeq(inbox, 1, left) \o <<Handshake>>
  /\ toServer' = <<>> /\ session' = NewSession
  /\ kept' = (current # NoBarrel)
  /\ trouble' = IF \E u \in Thread \ {t} : Halfway(u) THEN "threads" ELSE "none"
  /\ UNCHANGED <<lock, current, inbuf, events>>

\* bb_connect: ws_connect succeeds, and the server begins with its handshake.  Messages
\* of the old connection that were complete in the buffers are still there.
Connect(t, left) ==
  /\ call[t].pc = "idle" /\ calls < MaxCalls /\ ~connected
  /\ left \in 0 .. 2 /\ left <= Len(inbox)
  /\ calls' = calls + 1
  /\ call' = [call EXCEPT ![t] = [Idle EXCEPT !.pc = "hs", !.op = "connect",
                                              !.id = calls + 1]]
  /\ connected' = TRUE /\ up' = TRUE
  /\ inbox' = SubSeq(inbox, 1, left) \o <<Handshake>>
  /\ toServer' = <<>> /\ session' = NewSession
  /\ kept' = (current # NoBarrel)
  /\ trouble' = IF left > 0 THEN "other"
                ELSE IF \E u \in Thread \ {t} : Halfway(u) THEN "threads" ELSE "none"
  /\ UNCHANGED <<lock, current, inbuf, events>>

\* No handshake, or one that does not parse: ws_disconnect.
HandshakeFails(t) ==
  /\ call[t].pc = "hs"
  /\ \/ UNCHANGED inbox /\ End(t, NoAnswer, "connection_error")
     \/ /\ TakeHead /\ Head(inbox).type # "handshake"
        /\ End(t, NoAnswer, "protocol_error")
  /\ connected' = FALSE
  /\ UNCHANGED <<up, toServer, session, chosen, inbuf, trouble, counts>>

\* parse_handshake takes any bytes it can read as one; then the PING is sent,
HandshakeTaken(t) ==
  /\ call[t].pc = "hs" /\ connected /\ TakeHead
  /\ toServer' = IF up THEN Append(toServer, Request(call[t].id, "ping", NoBarrel))
                 ELSE toServer
  /\ call' = [call EXCEPT ![t].pc = "ping"]
  /\ UNCHANGED <<connected, up, session, lock, chosen, inbuf, trouble, counts>>

\* which may fail,
PingNotSent(t) ==
  /\ call[t].pc = "hs" /\ ~up /\ TakeHead
  /\ connected' = FALSE
  /\ End(t, NoAnswer, "connection_error")
  /\ UNCHANGED <<up, toServer, session, chosen, inbuf, trouble, counts>>

\* and must be answered with a pong; an older answer may be one, too.
Pong(t) ==
  /\ call[t].pc = "ping" /\ TakeHead
  /\ \/ /\ Head(inbox).type = "answer" /\ Head(inbox).status = "ok"
        /\ End(t, Head(inbox), "ok")
     \/ /\ Head(inbox) # Answer(call[t].id, "ok")
        /\ End(t, Head(inbox), "protocol_error")
  /\ UNCHANGED <<connected, up, toServer, session, chosen, inbuf, trouble, counts>>

\* Without one bb_connect fails, and the client stays connected.
NoPong(t) ==
  /\ call[t].pc = "ping"
  /\ \/ UNCHANGED connected
     \/ ~up /\ connected' = FALSE
  /\ End(t, NoAnswer, "connection_error")
  /\ Blame(TRUE, "other")
  /\ UNCHANGED <<up, toServer, inbox, session, chosen, inbuf, counts>>

\* The barrel is forgotten even when the connection is already down.
bb_disconnect(t) ==
  /\ call[t].pc = "idle"
  /\ connected' = FALSE
  /\ current' = NoBarrel /\ kept' = FALSE
  /\ UNCHANGED <<up, toServer, inbox, session, lock, call, inbuf, trouble, counts>>

-----------------------------------------------------------------------------
\* What thread t begins, and the steps of the call it is in.
Starts(t) ==
  \/ \E op \in OpsOf[t] : BeginReader(t, op) \/ \E arg \in Args(op) : Begin(t, op, arg)
  \/ "connect" \in OpsOf[t] /\ \E left \in 0 .. 2 : Connect(t, left)
  \/ "disconnect" \in OpsOf[t] /\ bb_disconnect(t)
  \/ "poll" \in OpsOf[t] /\ bb_poll_message(t)
  \/ "setCallback" \in OpsOf[t] /\ bb_set_message_callback(t)

Steps(t) ==
  \/ Acquire(t) \/ SendFails(t) \/ Send(t) \/ Publish(t)
  \/ TakeEvent(t) \/ HandleEvent(t) \/ SkipEvent(t) \/ EventForAnswer(t)
  \/ TakeAnswer(t) \/ ReceiveFails(t) \/ Return(t)
  \/ EmptyRound(t) \/ WaitReturns(t)
  \/ HandshakeFails(t) \/ HandshakeTaken(t) \/ PingNotSent(t) \/ Pong(t) \/ NoPong(t)

Next ==
  \/ ServerCarriesOut \/ ServerAnswers \/ ServerSendsEvent \/ ServerCloses \/ MessageLost
  \/ \E t \in Thread : Starts(t) \/ Steps(t)

Spec == Init /\ [][Next]_vars /\ \A t \in Thread : WF_vars(Steps(t))

-----------------------------------------------------------------------------
InStep == trouble = "none"
AllIdle == \A t \in Thread : call[t].pc = "idle"

\* A call that has taken an answer has taken its own, over events, batches, time-outs,
\* reconnects and the calls of other threads, until one of the following happens on the
\* connection: a receive that fails, too many events, an event taken for an answer, an
\* unread answer of bb_publish, a message lost, a call that receives without the lock
\* beside another, a leftover of the connection before (send_request, bb_connect).
OwnAnswer ==
  \A t \in Thread :
    InStep /\ call[t].pc = "return" /\ call[t].msg.type # "none"
      => call[t].msg.type = "answer" /\ call[t].msg.id = call[t].id

\* Then no answer is left over for the next call either.
NoAnswerLeftBehind ==
  AllIdle /\ connected /\ up /\ InStep
    => toServer = <<>> /\ \A i \in DOMAIN inbox : inbox[i].type = "event"

\* current_barrel is the barrel of the server's session as long as one thread chooses
\* the barrel, unless it is kept from an earlier connection (bb_use_barrel,
\* bb_close_barrel, bb_drop_barrel, bb_disconnect, bb_connect).
BarrelAgrees ==
  AllIdle /\ connected /\ up /\ InStep /\ ~kept => session.barrel = current

\* A call that asks the server and reports success has an answer in hand that says so,
\* never an event, a handshake or nothing, whatever went wrong on the connection; a key
\* that was not there counts as deleted.  As long as calls and answers are in step it is
\* the ok of this very request (the status functions above, the error paths of the
\* receives).
SuccessIsEarned ==
  \A t \in Thread :
    call[t].pc = "return" /\ call[t].res = "ok" /\ (Asked(t) \/ call[t].op = "connect") =>
      /\ call[t].msg.type = "answer"
      /\ \/ call[t].msg.status = "ok"
         \/ call[t].op = "delete" /\ call[t].msg.status = "not_found"
      /\ InStep => call[t].msg.id = call[t].id /\ call[t].msg.status = "ok"

\* Events are handed over in the order the server sent them, though the callback runs
\* after the receive (send_request, process_pubsub_event).
EventsInOrder ==
  [][InStep /\ handled' # handled =>
       \A i \in DOMAIN handled : handled[i] < Last(handled')]_vars

\* Every call returns, whatever the server and the other threads do (send_request).
CallsEnd == \A t \in Thread : call[t].pc # "idle" ~> call[t].pc = "idle"

=============================================================================
