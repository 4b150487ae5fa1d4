------------------------- MODULE WebSocketLws_proofs -------------------------
(***************************************************************************)
(* Proofs about the receive buffers of the libwebsockets transport, for any  *)
(* number of pieces and connections.                                        *)
(***************************************************************************)
EXTENDS WebSocketLws, TLAPS

\* Where the pieces are: everything held or taken has arrived, nothing is in two
\* places, and what arrives next is new.
Places ==
  /\ next <= sent + 1
  /\ ends \subseteq 1 .. sent
  /\ arrived \subseteq 1 .. next - 1
  /\ taken \subseteq arrived /\ recv.data \subseteq arrived /\ queue.data \subseteq arrived
  /\ recv.data \cap queue.data = {}
  /\ taken \cap recv.data = {} /\ taken \cap queue.data = {}
  /\ queue.complete => queue.data # {}

\* Messages of one piece are complete at once and in the order of sending.
InOrder ==
  /\ \A t \in taken : (\A r \in recv.data : t < r) /\ (\A q \in queue.data : t < q)
  /\ \A r \in recv.data, q \in queue.data : r < q
  /\ \A r, s \in recv.data : r = s
  /\ \A q, s \in queue.data : q = s
  /\ recv.data # {} => recv.complete
  /\ queue.data # {} => queue.complete

IInv == TypeOK /\ Places /\ NeverDeaf /\ (OnePieceMessages => InOrder)

-----------------------------------------------------------------------------
(* The invariant is inductive.                                              *)

LEMMA EmptySlot == Empty \in Slot
BY DEF Empty, Slot

LEMMA RecvData == recv \in Slot => recv.data \subseteq Piece
BY DEF Slot

(* Only a message of one piece keeps every message at one piece.             *)
LEMMA AddLast ==
  ASSUME NEW n \in Nat, NEW last \in Nat, last > n, NEW E, E \subseteq 1 .. n,
         E \cup {last} = 1 .. last
  PROVE  E = 1 .. n
<1>1. ASSUME NEW x \in 1 .. n PROVE x \in E
  <2>1. x \in 1 .. last /\ x # last
    OBVIOUS
  <2> QED
    BY <2>1
<1> QED
  BY <1>1

LEMMA InitIInv == Init => IInv
<1> SUFFICES ASSUME Init PROVE IInv
  OBVIOUS
<1>1. recv.data = {} /\ queue.data = {} /\ ~recv.complete /\ ~queue.complete
  BY DEF Init, Empty
<1>2. TypeOK
  <2>1. recv \in Slot /\ queue \in Slot
    BY EmptySlot DEF Init
  <2>2. given \in Nat
    BY DEF Init
  <2>3. sent \in 0 .. MaxPieces /\ next \in 1 .. MaxPieces + 1 /\ connects \in 0 .. MaxConnects
    BY BoundAssumption DEF Init
  <2>4. ends \subseteq Piece /\ arrived \subseteq Piece /\ taken \subseteq Piece /\ out \subseteq Piece
    BY DEF Init
  <2> QED
    BY <2>1, <2>2, <2>3, <2>4 DEF Init, TypeOK
<1>3. Places /\ NeverDeaf
  BY <1>1 DEF Init, Places, NeverDeaf
<1>4. InOrder
  BY <1>1 DEF Init, InOrder
<1> QED
  BY <1>2, <1>3, <1>4 DEF IInv

(* One lemma per action that moves pieces; the others change only flags.     *)
LEMMA SendStep == IInv /\ Send => IInv'
<1> SUFFICES ASSUME IInv, Send PROVE IInv'
  OBVIOUS
<1> USE BoundAssumption DEF Piece
<1>1. PICK last \in sent + 1 .. MaxPieces :
        sent' = last /\ ends' = ends \cup {last}
  BY DEF Send
<1>2. UNCHANGED <<next, wsi, connected, recv, queue, pc, connects, arrived, taken, given, out>>
  BY DEF Send, record
<1>3. TypeOK'
  BY <1>1, <1>2 DEF IInv, TypeOK, Slot
<1>4. Places' /\ NeverDeaf'
  BY <1>1, <1>2 DEF IInv, TypeOK, Places, NeverDeaf
<1>5. (OnePieceMessages => InOrder)'
  <2> SUFFICES ASSUME OnePieceMessages' PROVE InOrder'
    OBVIOUS
  <2>1. ends \cup {last} = 1 .. last
    BY <1>1 DEF OnePieceMessages
  <2>2. ends = 1 .. sent
    <3>1. last \in Nat /\ last > sent /\ sent \in Nat /\ ends \subseteq 1 .. sent
      BY <1>1 DEF IInv, TypeOK, Places
    <3> QED
      BY <2>1, <3>1, AddLast
  <2> QED
    BY <1>2, <2>2 DEF IInv, OnePieceMessages, InOrder
<1> QED
  BY <1>3, <1>4, <1>5 DEF IInv

LEMMA ConnectStep == IInv /\ Connect => IInv'
<1> SUFFICES ASSUME IInv, Connect PROVE IInv'
  OBVIOUS
<1> USE BoundAssumption DEF Piece
<1>1. /\ connects' = connects + 1 /\ connects < MaxConnects /\ sent < MaxPieces
      /\ pc' = "connecting" /\ wsi' = "opening" /\ ~connected
      /\ sent' = sent + 1 /\ next' = sent + 1 /\ ends' = ends \cup {sent + 1}
      /\ UNCHANGED <<connected, recv, queue, arrived, taken, given, out>>
  BY DEF Connect, record
<1>2. TypeOK'
  BY <1>1 DEF IInv, TypeOK, Slot
<1>3. Places' /\ NeverDeaf'
  BY <1>1 DEF IInv, TypeOK, Places, NeverDeaf
<1>4. OnePieceMessages' => OnePieceMessages
  <2>1. sent \in Nat /\ ends \subseteq 1 .. sent
    BY DEF IInv, TypeOK, Places
  <2>2. sent + 1 \in Nat /\ sent + 1 > sent
    BY <2>1
  <2>3. OnePieceMessages' => ends \cup {sent + 1} = 1 .. sent + 1
    BY <1>1 DEF OnePieceMessages
  <2> QED
    BY <2>1, <2>2, <2>3, AddLast DEF OnePieceMessages
<1>5. (OnePieceMessages => InOrder)'
  BY <1>1, <1>4 DEF IInv, InOrder
<1> QED
  BY <1>2, <1>3, <1>5 DEF IInv

LEMMA ReceiveStep == IInv /\ ReceivePiece => IInv'
<1> SUFFICES ASSUME IInv, ReceivePiece PROVE IInv'
  OBVIOUS
<1> USE BoundAssumption DEF Piece
<1>1. /\ next \in 1 .. sent /\ next' = next + 1 /\ arrived' = arrived \cup {next}
      /\ UNCHANGED <<sent, ends, wsi, connected, pc, connects, taken, given, out>>
  BY DEF ReceivePiece, server, IInv, TypeOK
<1>2. next \notin arrived /\ \A p \in arrived : p < next
  BY <1>1 DEF IInv, TypeOK, Places
<1>3. OnePieceMessages' => OnePieceMessages /\ next \in ends
  BY <1>1 DEF OnePieceMessages
<1>4. CASE ~recv.complete /\ ~queue.complete /\ recv' = Add(recv, next) /\ queue' = queue
  <2>1. /\ recv' = [data |-> recv.data \cup {next}, complete |-> next \in ends]
        /\ recv'.data = recv.data \cup {next} /\ recv'.complete = (next \in ends)
    BY <1>4 DEF Add
  <2>2. TypeOK'
    BY <1>1, <1>4, <2>1 DEF IInv, TypeOK, Slot
  <2>3. Places' /\ NeverDeaf'
    BY <1>1, <1>2, <1>4, <2>1 DEF IInv, TypeOK, Slot, Places, NeverDeaf
  <2>4. (OnePieceMessages => InOrder)'
    BY <1>1, <1>2, <1>3, <1>4, <2>1 DEF IInv, InOrder, Places
  <2> QED
    BY <2>2, <2>3, <2>4 DEF IInv
<1>5. CASE recv.complete /\ ~queue.complete /\ queue' = Add(queue, next) /\ recv' = recv
  <2>1. /\ queue' = [data |-> queue.data \cup {next}, complete |-> next \in ends]
        /\ queue'.data = queue.data \cup {next} /\ queue'.complete = (next \in ends)
    BY <1>5 DEF Add
  <2>2. TypeOK'
    BY <1>1, <1>5, <2>1 DEF IInv, TypeOK, Slot
  <2>3. Places' /\ NeverDeaf'
    BY <1>1, <1>2, <1>5, <2>1 DEF IInv, TypeOK, Slot, Places, NeverDeaf
  <2>4. (OnePieceMessages => InOrder)'
    <3> SUFFICES ASSUME OnePieceMessages'
                 PROVE  InOrder'
      OBVIOUS
    <3>1. InOrder /\ Places
      BY <1>3 DEF IInv
    <3>2. queue.data = {}
      BY <1>5, <3>1 DEF InOrder
    <3>3. queue'.data = {next} /\ queue'.complete
      BY <1>3, <2>1, <3>2
    <3>4. \A p \in taken \cup recv.data : p < next
      BY <1>2, <3>1 DEF Places
    <3>5. recv' = recv /\ taken' = taken
      BY <1>1, <1>5
    <3> QED
      BY <3>1, <3>3, <3>4, <3>5 DEF InOrder
  <2> QED
    BY <2>2, <2>3, <2>4 DEF IInv
<1>6. CASE queue.complete /\ UNCHANGED <<recv, queue>>
  <2>1. TypeOK'
    BY <1>1, <1>6 DEF IInv, TypeOK, Slot
  <2>2. Places' /\ NeverDeaf'
    BY <1>1, <1>2, <1>6 DEF IInv, TypeOK, Slot, Places, NeverDeaf
  <2>3. (OnePieceMessages => InOrder)'
    BY <1>1, <1>3, <1>6 DEF IInv, InOrder
  <2> QED
    BY <2>1, <2>2, <2>3 DEF IInv
<1> QED
  BY <1>4, <1>5, <1>6 DEF ReceivePiece

(* RecvAtOnce and RecvReturns hand the current buffer over.                  *)
LEMMA HandOverStep ==
  ASSUME IInv, HandOver, recv.complete, recv.data # {},
         UNCHANGED <<sent, ends, next, wsi, connected, connects, arrived>>,
         pc # "connecting", pc' \in {"idle", "waiting"}
  PROVE  IInv'
<1> USE BoundAssumption DEF Piece
<1>1. /\ out' = recv.data /\ taken' = taken \cup recv.data /\ given' = given + 1
      /\ OnePieceMessages' => OnePieceMessages
  BY DEF HandOver, OnePieceMessages
<1>0. out' \subseteq Piece /\ taken' \subseteq Piece /\ given' \in Nat
  <2>1. recv.data \subseteq Piece /\ taken \subseteq Piece /\ given \in Nat
    BY RecvData DEF IInv, TypeOK
  <2>2. out' \subseteq Piece /\ taken' \subseteq Piece
    BY <1>1, <2>1
  <2>3. given' \in Nat
    BY <1>1, <2>1
  <2> QED
    BY <2>2, <2>3
<1>2. CASE queue.complete /\ recv' = queue /\ queue' = Empty
  <2>1. queue'.data = {} /\ queue'.complete = FALSE
    BY <1>2 DEF Empty
  <2>2. TypeOK'
    BY <1>0, <1>2, EmptySlot DEF IInv, TypeOK
  <2>3. Places' /\ NeverDeaf'
    BY <1>1, <1>2, <2>1 DEF IInv, TypeOK, Slot, Places, NeverDeaf
  <2>4. (OnePieceMessages => InOrder)'
    BY <1>1, <1>2, <2>1 DEF IInv, InOrder
  <2> QED
    BY <2>2, <2>3, <2>4 DEF IInv
<1>3. CASE ~queue.complete /\ recv' = Empty /\ UNCHANGED queue
  <2>1. recv'.data = {} /\ recv'.complete = FALSE
    BY <1>3 DEF Empty
  <2>2. TypeOK'
    BY <1>0, <1>3, EmptySlot DEF IInv, TypeOK
  <2>3. Places' /\ NeverDeaf'
    BY <1>1, <1>3, <2>1 DEF IInv, TypeOK, Slot, Places, NeverDeaf
  <2>4. (OnePieceMessages => InOrder)'
    BY <1>1, <1>3, <2>1 DEF IInv, InOrder
  <2> QED
    BY <2>2, <2>3, <2>4 DEF IInv
<1> QED
  BY <1>2, <1>3 DEF HandOver

LEMMA RecvBeginsStep == IInv /\ RecvBegins => IInv'
<1> SUFFICES ASSUME IInv, RecvBegins PROVE IInv'
  OBVIOUS
<1> USE BoundAssumption DEF Piece
<1>1. /\ recv' = Empty /\ recv'.data = {} /\ recv'.complete = FALSE
      /\ pc = "idle" /\ pc' = "waiting"
      /\ UNCHANGED <<sent, ends, next, wsi, connected, connects, arrived, taken, given, out>>
  BY DEF RecvBegins, server, record, Empty
<1>2. \/ recv.complete /\ queue' = Empty /\ queue'.data = {} /\ queue'.complete = FALSE
      \/ ~recv.complete /\ queue' = queue
  BY DEF RecvBegins, Empty
<1>3. TypeOK'
  BY <1>1, <1>2 DEF IInv, TypeOK, Slot, Empty
<1>4. Places' /\ NeverDeaf'
  BY <1>1, <1>2 DEF IInv, TypeOK, Slot, Places, NeverDeaf
<1>5. (OnePieceMessages => InOrder)'
  BY <1>1, <1>2 DEF IInv, InOrder, OnePieceMessages
<1> QED
  BY <1>3, <1>4, <1>5 DEF IInv

(* Closed and ConnectTimesOut mark the current buffer complete.              *)
LEMMA MarkStep ==
  ASSUME IInv, recv' = [recv EXCEPT !.complete = TRUE],
         UNCHANGED <<sent, ends, next, queue, connects, arrived, taken, given, out>>,
         wsi' = "dead", connected' = FALSE, pc' \in {"idle", "connecting", "waiting"}
  PROVE  IInv'
<1> USE BoundAssumption DEF Piece
<1>1. recv' \in Slot /\ recv'.data = recv.data /\ recv'.complete = TRUE
  BY DEF IInv, TypeOK, Slot
<1>2. TypeOK'
  BY <1>1 DEF IInv, TypeOK
<1>3. Places' /\ NeverDeaf'
  BY <1>1 DEF IInv, TypeOK, Places, NeverDeaf
<1>4. (OnePieceMessages => InOrder)'
  BY <1>1 DEF IInv, InOrder, OnePieceMessages
<1> QED
  BY <1>2, <1>3, <1>4 DEF IInv

(* The other actions, and stuttering, leave the pieces where they are.       *)
LEMMA FlagStep ==
  ASSUME IInv,
         UNCHANGED <<sent, ends, next, recv, queue, connects, arrived, taken, given, out>>,
         wsi' \in {"none", "opening", "open", "dead"}, connected' \in BOOLEAN,
         pc' \in {"idle", "connecting", "waiting"},
         wsi' = "opening" => pc' = "connecting", connected' => wsi' = "open"
  PROVE  IInv'
<1>1. TypeOK'
  BY DEF IInv, TypeOK
<1>2. Places' /\ NeverDeaf'
  BY DEF IInv, Places, NeverDeaf
<1>3. (OnePieceMessages => InOrder)'
  BY DEF IInv, InOrder, OnePieceMessages
<1> QED
  BY <1>1, <1>2, <1>3 DEF IInv

LEMMA NextIInv == IInv /\ [Next]_vars => IInv'
<1> SUFFICES ASSUME IInv, [Next]_vars PROVE IInv'
  OBVIOUS
<1>0. /\ wsi \in {"none", "opening", "open", "dead"} /\ connected \in BOOLEAN
      /\ pc \in {"idle", "connecting", "waiting"}
      /\ wsi = "opening" => pc = "connecting"
      /\ connected => wsi = "open"
  BY DEF IInv, TypeOK
<1>1. CASE Send
  BY <1>1, SendStep
<1>2. CASE Established
  BY <1>0, <1>2, FlagStep DEF Established, server, record
<1>3. CASE ReceivePiece
  BY <1>3, ReceiveStep
<1>4. CASE Closed
  BY <1>0, <1>4, MarkStep DEF Closed, server, record
<1>5. CASE Connect
  BY <1>5, ConnectStep
<1>6. CASE ConnectReturns
  BY <1>0, <1>6, FlagStep DEF ConnectReturns, server, record
<1>7. CASE ConnectTimesOut
  BY <1>0, <1>7, MarkStep DEF ConnectTimesOut, server, record
<1>8. CASE Disconnect
  BY <1>0, <1>8, FlagStep DEF Disconnect, server, record
<1>9. CASE SendFails
  BY <1>0, <1>9, FlagStep DEF SendFails, server, record
<1>10. CASE RecvAtOnce
  BY <1>10, HandOverStep DEF RecvAtOnce, server
<1>11. CASE RecvBegins
  BY <1>11, RecvBeginsStep
<1>12. CASE RecvReturns
  BY <1>12, HandOverStep DEF RecvReturns, server
<1>13. CASE RecvFails
  BY <1>0, <1>13, FlagStep DEF RecvFails, server, record
<1>14. CASE UNCHANGED vars
  BY <1>0, <1>14, FlagStep DEF vars
<1> QED
  BY <1>1, <1>2, <1>3, <1>4, <1>5, <1>6, <1>7, <1>8, <1>9, <1>10, <1>11, <1>12, <1>13,
     <1>14 DEF Next

LEMMA AlwaysIInv == Spec => []IInv
BY InitIInv, NextIInv, PTL DEF Spec

-----------------------------------------------------------------------------
(* The type invariant of the transport holds for every bound.                *)
THEOREM TypeCorrect == Spec => []TypeOK
BY AlwaysIInv, PTL DEF IInv

(* At no time is a complete message in the queued slot behind an incomplete   *)
(* one, where ws_event_callback would store nothing any more.                *)
THEOREM CallerIsNeverDeaf == Spec => []NeverDeaf
BY AlwaysIInv, PTL DEF IInv

-----------------------------------------------------------------------------
(* Only three steps can lose a piece, and with messages of one piece each of *)
(* them needs two waiting messages or the mark of a closed connection.       *)
LEMMA LossStep ==
  ASSUME IInv, [Next]_vars, OnePieceMessages', NEW p \in Lost', p \notin Lost
  PROVE  \/ \E q, r \in Held' : q < r /\ r < p
         \/ recv.complete /\ recv.data = {}
<1>1. p \in arrived' /\ p \notin taken' /\ p \notin recv'.data /\ p \notin queue'.data
  BY DEF Lost, Held
<1>2. p \in arrived => p \in taken \cup recv.data \cup queue.data
  BY DEF Lost, Held
<1>3. CASE ReceivePiece
  <2>1. OnePieceMessages /\ InOrder
    BY <1>3 DEF IInv, ReceivePiece, server, OnePieceMessages
  <2>2. p = next
    <3>1. taken' = taken /\ recv.data \subseteq recv'.data /\ queue.data \subseteq queue'.data
          /\ arrived' = arrived \cup {next}
      BY <1>3 DEF ReceivePiece, Add
    <3> QED
      BY <1>1, <1>2, <3>1
  <2>3. queue.complete /\ UNCHANGED <<recv, queue>>
    <3>1. recv' # Add(recv, next) /\ queue' # Add(queue, next)
      BY <1>1, <2>2 DEF Add
    <3> QED
      BY <1>3, <3>1 DEF ReceivePiece
  <2>4. recv.complete /\ queue.data # {}
    BY <2>3 DEF IInv, NeverDeaf, Places
  <2>5. CASE recv.data = {}
    BY <2>4, <2>5
  <2>6. CASE recv.data # {}
    <3>1. PICK q \in recv.data, r \in queue.data : q < r
      BY <2>1, <2>4, <2>6 DEF InOrder
    <3>2. r \in 1 .. next - 1 /\ next \in Nat
      <4>1. queue.data \subseteq 1 .. next - 1
        BY DEF IInv, Places
      <4>2. next \in 1 .. MaxPieces + 1
        BY DEF IInv, TypeOK
      <4> QED
        BY <3>1, <4>1, <4>2
    <3>3. r < p
      BY <2>2, <3>2
    <3> QED
      BY <2>3, <3>1, <3>3 DEF Held
  <2> QED
    BY <2>5, <2>6
<1>4. CASE RecvBegins
  <2>1. OnePieceMessages /\ InOrder
    BY <1>4 DEF IInv, RecvBegins, server, OnePieceMessages
  <2>2. recv.data = {}
    BY <1>4, <2>1 DEF RecvBegins, InOrder
  <2>3. p \in queue.data
    BY <1>1, <1>2, <1>4, <2>2 DEF RecvBegins, record
  <2>4. recv.complete
    BY <1>1, <1>4, <2>3 DEF RecvBegins
  <2> QED
    BY <2>2, <2>4
<1>5. CASE RecvAtOnce \/ RecvReturns
  <2>1. HandOver /\ arrived' = arrived
    BY <1>5 DEF RecvAtOnce, RecvReturns
  <2>2. taken \cup recv.data \cup queue.data \subseteq taken' \cup recv'.data \cup queue'.data
    BY <2>1 DEF HandOver
  <2> QED
    BY <1>1, <1>2, <2>1, <2>2
<1>6. CASE Closed \/ ConnectTimesOut
  <2>1. recv' = [recv EXCEPT !.complete = TRUE] /\ UNCHANGED <<queue, arrived, taken>>
    BY <1>6 DEF Closed, ConnectTimesOut, record
  <2>2. recv'.data = recv.data
    BY <2>1 DEF IInv, TypeOK, Slot
  <2> QED
    BY <1>1, <1>2, <2>1, <2>2
<1>7. CASE UNCHANGED <<recv, queue, arrived, taken>>
  BY <1>1, <1>2, <1>7
<1> QED
  BY <1>3, <1>4, <1>5, <1>6, <1>7
     DEF Next, vars, Send, Established, Connect, ConnectReturns, Disconnect, SendFails,
         RecvFails, record

(* As long as every message is one piece, what has arrived is lost only when  *)
(* both buffers are full or the mark of a closed connection empties them.    *)
THEOREM LossOnlyWithoutRoom == Spec => NoLossWhileThereIsRoom
<1>1. IInv /\ [Next]_vars =>
        [OnePieceMessages' =>
           \A p \in Lost' \ Lost :
             \/ \E q, r \in Held' : q < r /\ r < p
             \/ recv.complete /\ recv.data = {}]_vars
  BY LossStep
<1> QED
  BY <1>1, AlwaysIInv, PTL DEF Spec, NoLossWhileThereIsRoom

-----------------------------------------------------------------------------
(* The refinement.                                                          *)

LEMMA HandOverTakes ==
  ASSUME IInv, HandOver, recv.data # {}, UNCHANGED <<sent, ends>>
  PROVE  Channel!Take
<1>1. taken' = taken \cup recv.data /\ given' = given + 1
  BY DEF HandOver
<1>2. taken \subseteq taken' /\ taken' \subseteq 1 .. sent /\ taken' # taken
  <2>1. arrived \subseteq 1 .. next - 1 /\ next <= sent + 1 /\ sent \in Nat /\ next \in Nat
    BY DEF IInv, Places, TypeOK
  <2>2. arrived \subseteq 1 .. sent
    BY <2>1
  <2> QED
    BY <1>1, <2>2 DEF IInv, Places
<1>3. Channel!OnePieceMessages =>
        \E m \in taken' \ taken : taken' = taken \cup {m} /\ \A t \in taken : t < m
  <2> SUFFICES ASSUME ends = 1 .. sent
               PROVE  \E m \in taken' \ taken :
                        taken' = taken \cup {m} /\ \A t \in taken : t < m
    BY DEF Channel!OnePieceMessages
  <2>1. InOrder
    BY DEF IInv, OnePieceMessages
  <2>2. PICK m \in recv.data : TRUE
    OBVIOUS
  <2>3. recv.data = {m}
    BY <2>1, <2>2 DEF InOrder
  <2>4. m \notin taken
    BY DEF IInv, Places
  <2> QED
    BY <1>1, <2>1, <2>3, <2>4 DEF InOrder
<1> QED
  BY <1>1, <1>2, <1>3 DEF Channel!Take

(* Whatever the order of callbacks, calls, time-outs and new connections, the *)
(* transport gives nothing twice and keeps the order of one-piece messages.  *)
THEOREM Refinement == Spec => ImplementsLossyChannel
<1>1. Init => Channel!Init
  BY DEF Init, Channel!Init
<1>2. IInv /\ [Next]_vars => [Channel!Next]_Channel!vars
  <2> SUFFICES ASSUME IInv, [Next]_vars PROVE [Channel!Next]_Channel!vars
    OBVIOUS
  <2>1. CASE Send \/ Connect
    <3>1. sent' \in Nat /\ sent' > sent /\ ends' = ends \cup {sent'}
          /\ UNCHANGED <<taken, given>>
      BY <2>1, BoundAssumption DEF Send, Connect, record, IInv, TypeOK
    <3> QED
      BY <3>1 DEF Channel!Next, Channel!Send
  <2>2. CASE RecvAtOnce \/ RecvReturns
    <3>1. Channel!Take
      BY <2>2, HandOverTakes DEF RecvAtOnce, RecvReturns, server
    <3> QED
      BY <3>1 DEF Channel!Next
  <2>3. CASE UNCHANGED <<sent, ends, taken, given>>
    BY <2>3 DEF Channel!vars
  <2> QED
    BY <2>1, <2>2, <2>3
       DEF Next, vars, Established, ReceivePiece, Closed, ConnectReturns, ConnectTimesOut,
           Disconnect, SendFails, RecvBegins, RecvFails, server, record
<1> QED
  BY <1>1, <1>2, AlwaysIInv, PTL DEF Spec, ImplementsLossyChannel, Channel!Spec
=============================================================================
