---------------------------- MODULE WebSocketLws ----------------------------
(***************************************************************************)
(* The libwebsockets transport of the C client (the first half of           *)
(* websocket.c).  libwebsockets hands over what the server sent in pieces,   *)
(* by callbacks that run only inside lws_service, and lws_service runs only  *)
(* in the loops of ws_connect and ws_recv_binary.  One call of lws_service   *)
(* may run several callbacks, so a piece may arrive behind a message that is *)
(* already complete: it goes to a second slot, and when that one is complete *)
(* as well it is thrown away.                                               *)
(*                                                                         *)
(* Pieces are numbered in the order of sending; the bytes of a slot are the *)
(* set of its pieces, for they are only ever appended in that order.         *)
(***************************************************************************)
EXTENDS Naturals

CONSTANTS
  MaxPieces,   \* bound on the pieces the server sends
  MaxConnects  \* bound on the calls of ws_connect

ASSUME BoundAssumption == MaxPieces \in Nat /\ MaxConnects \in Nat

Piece == 1 .. MaxPieces
Slot  == [data : SUBSET Piece, complete : BOOLEAN]
Empty == [data |-> {}, complete |-> FALSE]

VARIABLES
  sent,        \* pieces 1 .. sent have left the server
  ends,        \* the pieces that end a message
  next,        \* the next piece to arrive; next .. sent are on their way
  wsi,         \* the connection libwebsockets works on
  connected,   \* ws->connected, what the client believes
  recv,        \* recv_buffer, recv_len, recv_complete
  queue,       \* queue_buffer, queue_len, queue_complete
  pc,          \* the call the application is in
  connects,
  arrived,     \* every piece a callback was called with
  taken,       \* every piece the caller was given
  given,       \* the number of messages the caller was given
  out          \* the pieces of the last message the caller was given

vars == <<sent, ends, next, wsi, connected, recv, queue, pc, connects,
          arrived, taken, given, out>>

server == <<sent, ends>>
record == <<arrived, taken, given, out>>

\* Types; an attempt to connect lasts as long as the call of ws_connect that made it, and
\* the client takes itself for connected only while libwebsockets has the connection.
TypeOK ==
  /\ sent \in 0 .. MaxPieces
  /\ ends \subseteq Piece
  /\ next \in 1 .. MaxPieces + 1
  /\ wsi \in {"none", "opening", "open", "dead"}
  /\ connected \in BOOLEAN
  /\ recv \in Slot /\ queue \in Slot
  /\ pc \in {"idle", "connecting", "waiting"}
  /\ connects \in 0 .. MaxConnects
  /\ arrived \subseteq Piece /\ taken \subseteq Piece /\ out \subseteq Piece
  /\ given \in Nat
  /\ wsi = "opening" => pc = "connecting"
  /\ connected => wsi = "open"

Init ==
  /\ sent = 0 /\ ends = {} /\ next = 1
  /\ wsi = "none" /\ connected = FALSE
  /\ recv = Empty /\ queue = Empty
  /\ pc = "idle" /\ connects = 0
  /\ arrived = {} /\ taken = {} /\ given = 0 /\ out = {}

-----------------------------------------------------------------------------
\* The server sends a whole message, an answer or an event; a large one is many
\* pieces for the client.
Send ==
  /\ wsi = "open" /\ pc # "connecting"
  /\ \E last \in sent + 1 .. MaxPieces :
       /\ sent' = last
       /\ ends' = ends \cup {last}
  /\ UNCHANGED <<next, wsi, connected, recv, queue, pc, connects, record>>

\* LWS_CALLBACK_CLIENT_ESTABLISHED
Established ==
  /\ pc = "connecting" /\ wsi = "opening"
  /\ wsi' = "open" /\ connected' = TRUE
  /\ UNCHANGED <<server, next, recv, queue, pc, connects, record>>

Add(slot, p) == [data |-> slot.data \cup {p}, complete |-> p \in ends]

\* Mutant: Only one slot: what arrives behind a complete message is thrown away.
ReceivePieceOneSlot ==
  /\ pc # "idle" /\ wsi = "open"
  /\ next <= sent
  /\ next' = next + 1
  /\ arrived' = arrived \cup {next}
  /\ recv' = IF recv.complete THEN recv ELSE Add(recv, next)
  /\ UNCHANGED <<server, wsi, connected, queue, pc, connects, taken, given, out>>

\* LWS_CALLBACK_CLIENT_RECEIVE with the next piece: to the current buffer, to the
\* queued one, or to neither.
ReceivePiece ==
  /\ pc # "idle" /\ wsi = "open"
  /\ next <= sent
  /\ next' = next + 1
  /\ arrived' = arrived \cup {next}
  /\ \/ /\ ~recv.complete /\ ~queue.complete
        /\ recv' = Add(recv, next)
        /\ UNCHANGED queue
     \/ /\ recv.complete /\ ~queue.complete
        /\ queue' = Add(queue, next)
        /\ UNCHANGED recv
     \/ /\ queue.complete
        /\ UNCHANGED <<recv, queue>>
  /\ UNCHANGED <<server, wsi, connected, pc, connects, taken, given, out>>

\* LWS_CALLBACK_CLIENT_CLOSED, LWS_CALLBACK_WSI_DESTROY
Closed ==
  /\ pc # "idle" /\ wsi \in {"opening", "open"}
  /\ wsi' = "dead" /\ connected' = FALSE
  /\ recv' = [recv EXCEPT !.complete = TRUE]
  /\ UNCHANGED <<server, next, queue, pc, connects, record>>

-----------------------------------------------------------------------------
\* ws_connect: a new context and connection take the place of the old ones, of
\* which nothing arrives any more.  The buffers stay as they are.  The first message
\* of the server is its handshake, one piece, sent as soon as it has upgraded.
Connect ==
  /\ pc = "idle" /\ ~connected
  /\ connects < MaxConnects /\ sent < MaxPieces
  /\ connects' = connects + 1
  /\ pc' = "connecting" /\ wsi' = "opening"
  /\ next' = sent + 1
  /\ sent' = sent + 1
  /\ ends' = ends \cup {sent + 1}
  /\ UNCHANGED <<connected, recv, queue, record>>

\* The loop of ws_connect looks at the flag after each lws_service ...
ConnectReturns ==
  /\ pc = "connecting" /\ connected
  /\ pc' = "idle"
  /\ UNCHANGED <<server, next, wsi, connected, recv, queue, connects, record>>

\* Mutant: The attempt goes on after the time is over.
ConnectGivesUp ==
  /\ pc = "connecting" /\ ~connected
  /\ pc' = "idle"
  /\ UNCHANGED <<server, next, wsi, connected, recv, queue, connects, record>>

\* ... and at the time: lws_context_destroy ends the attempt, with its callback.
ConnectTimesOut ==
  /\ pc = "connecting" /\ ~connected
  /\ pc' = "idle" /\ wsi' = "dead"
  /\ recv' = [recv EXCEPT !.complete = TRUE]
  /\ UNCHANGED <<server, next, connected, queue, connects, record>>

\* ws_disconnect, and a send that fails: only the flag changes.
Disconnect ==
  /\ pc = "idle" /\ connected
  /\ connected' = FALSE
  /\ UNCHANGED <<server, next, wsi, recv, queue, pc, connects, record>>

SendFails ==
  /\ pc = "idle" /\ connected
  /\ connected' = FALSE
  /\ UNCHANGED <<server, next, wsi, recv, queue, pc, connects, record>>

\* Mutant: The message in the queue stays there.
HandOverOnly ==
  /\ out' = recv.data
  /\ taken' = taken \cup recv.data
  /\ given' = given + 1
  /\ recv' = Empty
  /\ UNCHANGED queue

\* Mutant: The queue is copied and not emptied.
HandOverCopy ==
  /\ out' = recv.data
  /\ taken' = taken \cup recv.data
  /\ given' = given + 1
  /\ recv' = IF queue.complete THEN queue ELSE Empty
  /\ UNCHANGED queue

\* The caller is given the current buffer; a complete message in the queued one
\* moves up, an incomplete one stays.
HandOver ==
  /\ out' = recv.data
  /\ taken' = taken \cup recv.data
  /\ given' = given + 1
  /\ \/ /\ queue.complete
        /\ recv' = queue
        /\ queue' = Empty
     \/ /\ ~queue.complete
        /\ recv' = Empty
        /\ UNCHANGED queue

\* ws_recv_binary finds a complete message waiting ...
RecvAtOnce ==
  /\ pc = "idle" /\ connected
  /\ recv.complete /\ recv.data # {}
  /\ HandOver
  /\ UNCHANGED <<server, next, wsi, connected, pc, connects, arrived>>

\* ... or empties the buffers and waits for one,
RecvBegins ==
  /\ pc = "idle" /\ connected
  /\ ~(recv.complete /\ recv.data # {})
  /\ queue' = IF recv.complete THEN Empty ELSE queue
  /\ recv' = Empty
  /\ pc' = "waiting"
  /\ UNCHANGED <<server, next, wsi, connected, connects, record>>

\* which ends with a message,
RecvReturns ==
  /\ pc = "waiting" /\ connected
  /\ recv.complete /\ recv.data # {}
  /\ HandOver
  /\ pc' = "idle"
  /\ UNCHANGED <<server, next, wsi, connected, connects, arrived>>

\* or without one: the connection is gone, or the time is over.
RecvFails ==
  /\ pc = "waiting"
  /\ \/ ~connected
     \/ ~recv.complete
  /\ pc' = "idle"
  /\ UNCHANGED <<server, next, wsi, connected, recv, queue, connects, record>>

Next ==
  \/ Send \/ Established \/ ReceivePiece \/ Closed
  \/ Connect \/ ConnectReturns \/ ConnectTimesOut \/ Disconnect \/ SendFails
  \/ RecvAtOnce \/ RecvBegins \/ RecvReturns \/ RecvFails

Spec == Init /\ [][Next]_vars

-----------------------------------------------------------------------------
OnePieceMessages == ends = 1 .. sent
Held == recv.data \cup queue.data
Lost == arrived \ (taken \cup Held)

\* All pieces of one message.
Whole(S) ==
  \E b \in ends : \E a \in 1 .. b :
    /\ S = a .. b
    /\ \A e \in ends : e < a \/ e >= b
    /\ a = 1 \/ a - 1 \in ends

\* A caller that waits is never deaf: with the current buffer empty and the queued
\* one complete, ws_event_callback would ignore everything that arrives.
NeverDeaf == queue.complete => recv.complete

\* As long as every message is one piece, an arrived message is lost only when two
\* earlier ones are waiting to be received, or behind the mark that the end of an
\* earlier connection leaves (ws_event_callback, ws_recv_binary, ws_connect).
NoLossWhileThereIsRoom ==
  [][OnePieceMessages' =>
       \A p \in Lost' \ Lost :
         \/ \E q, r \in Held' : q < r /\ r < p
         \/ recv.complete /\ recv.data = {}]_vars

\* The two buffers behave as a lossy channel: nothing is received twice and, with
\* messages of one piece, nothing together with or before what was sent earlier,
\* over any number of connections, bursts, time-outs and failed sends.
Channel == INSTANCE LossyChannel
ImplementsLossyChannel == Channel!Spec

\* ws_recv_binary returns complete messages (websocket.c:358): false, for the first
\* pieces of a message may stay in the second slot while the others go to the first.
MessagesAreWhole == out = {} \/ Whole(out)

=============================================================================
