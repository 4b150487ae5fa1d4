---------------------------- MODULE LossyChannel ----------------------------
(***************************************************************************)
(* What a caller of the WebSocket layer may rely on, stated without its     *)
(* buffers: the server sends messages in pieces, the caller takes some of   *)
(* what was sent, never a piece twice and, as long as every message is one   *)
(* piece, one message at a time and in the order of sending.  Messages may  *)
(* be lost.                                                                 *)
(***************************************************************************)
EXTENDS Naturals

VARIABLES
  sent,    \* pieces 1 .. sent have left the server
  ends,    \* the pieces that end a message
  taken,   \* the pieces the caller was given
  given    \* the number of messages the caller was given

vars == <<sent, ends, taken, given>>

OnePieceMessages == ends = 1 .. sent

Init ==
  /\ sent = 0
  /\ ends = {}
  /\ taken = {}
  /\ given = 0

\* The server sends one whole message.
Send ==
  /\ sent' \in Nat /\ sent' > sent
  /\ ends' = ends \cup {sent'}
  /\ UNCHANGED <<taken, given>>

\* The caller is given one message, of pieces it did not have.
Take ==
  /\ given' = given + 1
  /\ taken' # taken
  /\ taken \subseteq taken' /\ taken' \subseteq 1 .. sent
  /\ OnePieceMessages =>
       \E m \in taken' \ taken : taken' = taken \cup {m} /\ \A t \in taken : t < m
  /\ UNCHANGED <<sent, ends>>

Next == Send \/ Take

Spec == Init /\ [][Next]_vars
=============================================================================
