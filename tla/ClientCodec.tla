----------------------------- MODULE ClientCodec -----------------------------
(***************************************************************************)
(* The messages of the C client, byte by byte: what its encoders write and  *)
(* the server reads, and what the server writes and its parsers read.  A    *)
(* message may lose its tail on the way, as WebSocketLws shows it can.      *)
(*                                                                         *)
(* A byte has Base values (256 in the code) and a length field 2 or 4 of     *)
(* them; reading a byte behind the end of a message is an error of the       *)
(* evaluation.  The strings are those of C: without the byte 0.  The client  *)
(* writes a request into a buffer of 64 KB on its stack and does not check    *)
(* that it fits; what a longer one does is undefined and left out.           *)
(***************************************************************************)
EXTENDS Integers, Sequences, SequencesExt

CONSTANTS
  Base,       \* values of a byte
  String,     \* the strings of the application: sequences of bytes without 0
  Payload,    \* the values of answers and the payloads of events, which may be longer
  Seqs,       \* the sequence numbers a request may carry
  Refused     \* what a reader returns that does not understand

\* The values of 2 and of 4 bytes.
Short == Base * Base
Long  == Short * Short

ASSUME BaseAssumption == Base \in Nat /\ Base > 9

\* Nothing checks the strings of the application: they may be longer than the two bytes of
\* a length can say.  The server refuses values above 32 MB.
ASSUME StringAssumption == \A s \in String : s \in Seq(1 .. Base - 1) /\ Len(s) < Long
ASSUME PayloadAssumption == \A s \in Payload : s \in Seq(1 .. Base - 1) /\ Len(s) < Long

ASSUME SeqsAssumption == Seqs \subseteq 0 .. Long - 1

\* It is not to be taken for what a reader returns that does.
ASSUME RefusedAssumption ==
  /\ Refused \notin Seq(Nat \cup Seq(Nat))
  /\ Refused \notin [at : Nat, values : Seq(Nat \cup Seq(Nat))]
  /\ Refused \notin [status : Nat, value : Seq(Nat)]

Byte == 0 .. Base - 1
Event0xFF == Base - 1
Comma == 9

\* The strings whose length two bytes can say.
Countable == {s \in String : Len(s) < Short}

\* What a name or key may be to be listed with others.
Listable == {s \in Countable : s # <<>> /\ ~Contains(s, Comma)}

-----------------------------------------------------------------------------
(* Fields: a number of 1, 2, 4 or 8 bytes, or a string behind its length.   *)

Width(f) == CASE f = "1" -> 1 [] f \in {"2", "s2"} -> 2 [] f \in {"4", "s4"} -> 4
              [] f = "8" -> 8

\* What a byte counts that has i others behind it.
Weight(i) == CASE i = 0 -> 1 [] i = 1 -> Base [] i = 2 -> Short [] i = 3 -> Short * Base

\* Mutant: the bytes are shifted and not masked.
BigEndianUnmasked(n, w) ==
  [i \in 1 .. w |-> IF w - i > 3 THEN 0 ELSE n \div Weight(w - i)]

\* htobe16 and its kin; no number here needs more than four bytes.
BigEndian(n, w) ==
  [i \in 1 .. w |-> IF w - i > 3 THEN 0 ELSE (n \div Weight(w - i)) % Base]

Number(d, at, w) ==
  LET value[i \in 0 .. w] == IF i = 0 THEN 0 ELSE value[i - 1] * Base + d[at + i]
  IN value[w]

Bytes(d, at, n) == SubSeq(d, at + 1, at + n)

Write(f, v) == IF f \in {"s2", "s4"} THEN BigEndian(Len(v), Width(f)) \o v
               ELSE BigEndian(v, Width(f))

\* uint16_t len = strlen(s), and no more than len bytes are copied.
Cut(s) == SubSeq(s, 1, Len(s) % Short)

Encode(fs, vs) == FlattenSeq([i \in DOMAIN fs |-> Write(fs[i], vs[i])])

\* readByte, readUint16BE, readUint32BE, readUint64BE and readString of the server, one
\* after the other: they raise at the end of the data, and leave what is behind.
Read(fs, d) ==
  LET after[i \in 0 .. Len(fs)] ==
        IF i = 0 THEN [at |-> 0, values |-> <<>>]
        ELSE LET before == after[i - 1]
                 w == Width(fs[i])
                 n == Number(d, before.at, w)
             IN IF before = Refused \/ before.at + w > Len(d) THEN Refused
                ELSE IF fs[i] \notin {"s2", "s4"}
                THEN [at |-> before.at + w, values |-> Append(before.values, n)]
                ELSE IF before.at + w + n > Len(d) THEN Refused
                ELSE [at |-> before.at + w + n,
                      values |-> Append(before.values, Bytes(d, before.at + w, n))]
  IN IF after[Len(fs)] = Refused THEN Refused ELSE after[Len(fs)].values

-----------------------------------------------------------------------------
(* Requests.  The commands are small numbers here.                          *)

Command == [set |-> 1, range |-> 2, prefix |-> 3, subscribe |-> 4, publish |-> 5,
            history |-> 6, presence |-> 7, watch |-> 8, batch |-> 9]
Commands == {Command[name] : name \in DOMAIN Command}

BufferSize == Short

\* Mutant: the request of protocol 1.0, without flags.
encode_request_v10(cmd, seq, key, value) ==
  Encode(<<"1", "4", "s2", "s4">>, <<cmd, seq, Cut(key), value>>)

\* With the ttl -1 that send_request passes whatever the call is given, and so without flags.
encode_request(cmd, seq, key, value) ==
  Encode(<<"1", "4", "1", "s2", "s4">>, <<cmd, seq, 0, Cut(key), value>>)

encode_range_request(start, end, limit, cursor) ==
  Encode(<<"s2", "s2", "4", "s2">>, <<Cut(start), Cut(end), limit, Cut(cursor)>>)

encode_prefix_request(prefix, limit, cursor) ==
  Encode(<<"s2", "4", "s2">>, <<Cut(prefix), limit, Cut(cursor)>>)

encode_history_request(topic, limit, since) ==
  Encode(<<"s2", "4", "8">>, <<Cut(topic), limit, since>>)

encode_presence_request(operation) == Encode(<<"1">>, <<operation>>)

encode_publish_request(topic, data) == topic \o <<0>> \o data

\* The payloads that bb_subscribe and bb_watch_key write themselves.
subscribe_payload(topic) == Encode(<<"1", "s2", "s2">>, <<0, topic, <<>>>>)
watch_payload(barrel, pattern) == Encode(<<"s2", "s2", "1">>, <<barrel, pattern, 0>>)

\* bb_publish encodes the request into the buffer its value is in: strlen finds the
\* command and the sequence number that have just been written there.
publish_request(seq, topic, data) ==
  LET buffer == <<Command.publish>> \o BigEndian(seq, 4) \o <<0>>
                  \o encode_publish_request(topic, data)
      strlen == SelectInSeq(buffer, LAMBDA b : b = 0) - 1
  IN encode_request(Command.publish, seq, <<>>, SubSeq(buffer, 1, strlen))

\* The batch operations have no flags, no key and no value length.
bb_batch_set(seq, pairs) ==
  Encode(<<"1", "4", "4">>, <<Command.batch, seq, Len(pairs)>>)
    \o FlattenSeq([i \in DOMAIN pairs |-> Encode(<<"s2", "s4">>, <<Cut(pairs[i][1]), pairs[i][2]>>)])
bb_batch_get(seq, keys) ==
  Encode(<<"1", "4", "4">>, <<Command.batch, seq, Len(keys)>>)
    \o FlattenSeq([i \in DOMAIN keys |-> Encode(<<"s2">>, <<Cut(keys[i])>>)])
bb_batch_delete(seq, keys) ==
  Encode(<<"1", "4", "4">>, <<Command.batch, seq, Len(keys)>>)
    \o FlattenSeq([i \in DOMAIN keys |-> Encode(<<"s2">>, <<Cut(keys[i])>>)])

-----------------------------------------------------------------------------
(* The server's readers.                                                    *)

\* Mutant: a value that is cut short is taken as it is.
decodeRequestLeniently(d) ==
  LET head == Read(<<"1", "4", "1", "s2", "4">>, d)
      at == 12 + Len(head[4])
  IN IF Len(d) < 12 \/ head = Refused THEN Refused
     ELSE SubSeq(head, 1, 4) \o <<SubSeq(d, at + 1, Len(d))>>

\* The limits of 32 MB for a value and of 64 KB for a key are left out: no request that fits
\* into the buffer of the client comes near them.
decodeRequest(d) ==
  LET head == Read(<<"1", "4", "1", "s2", "s4">>, d)
  IN IF Len(d) < 12 \/ head = Refused THEN Refused
     ELSE IF head[1] \notin Commands THEN Refused
     ELSE IF head[3] % 2 = 0 THEN head
     ELSE Read(<<"1", "4", "1", "s2", "s4", "4">>, d)

decodePayload(cmd, value) ==
  CASE cmd = Command.range     -> Read(<<"s2", "s2", "4", "s2">>, value)
    [] cmd = Command.prefix    -> Read(<<"s2", "4", "s2">>, value)
    [] cmd = Command.subscribe -> Read(<<"1", "s2", "s2">>, value)
    [] cmd = Command.publish   -> Read(<<"s2", "1", "s4", "s4">>, value)
    [] cmd = Command.history   -> Read(<<"s2", "4", "8">>, value)
    [] cmd = Command.presence  -> Read(<<"1">>, value)
    [] cmd = Command.watch     -> Read(<<"s2", "s2", "1">>, value)
    [] cmd = Command.batch     -> Read(<<"4", "s2">>, value)
    [] OTHER                   -> <<value>>

\* What the server makes of a message: command, key, the fields of the value and, if it
\* carries one, the time to live.
Understood(d) ==
  LET r == decodeRequest(d)
  IN IF r = Refused THEN Refused
     ELSE LET fields == decodePayload(r[1], r[5])
          IN IF fields = Refused THEN Refused ELSE <<r[1], r[4], fields>> \o SubSeq(r, 6, Len(r))

-----------------------------------------------------------------------------
(* Answers, events and the handshake, written by the server.                *)

encodeResponse(status, seq, value) ==
  Encode(<<"1", "4", "s4">>, <<status, seq, value>>)

encodeRangeResponse(items, more, cursor) ==
  BigEndian(Len(items), 4)
    \o FlattenSeq([i \in DOMAIN items |-> Encode(<<"s2", "s4">>, items[i])])
    \o Encode(<<"1", "s2">>, <<IF more THEN 1 ELSE 0, cursor>>)

\* The barrels of the server, and the keys of a barrel.
joined(names) ==
  FlattenSeq([i \in DOMAIN names |-> IF i = 1 THEN names[i] ELSE <<Comma>> \o names[i]])

encodeHandshake(id, plugins) ==
  Encode(<<"1", "1", "s2", "1">>, <<1, 1, id, Len(plugins)>>)
    \o FlattenSeq([i \in DOMAIN plugins |-> Encode(<<"s2">>, <<plugins[i]>>)])

encodePubSubEvent(topic, headers, payload) ==
  Encode(<<"1", "4", "s2", "1", "8", "8", "s4", "s4">>,
         <<Event0xFF, 0, topic, 1, 1, 1, headers, payload>>)

-----------------------------------------------------------------------------
(* The client's parsers.                                                    *)

\* Mutant: the value ends with the message.
decode_response_unchecked(d) ==
  IF Len(d) < 9 THEN Refused
  ELSE [status |-> d[1], value |-> SubSeq(d, 10, Len(d))]

decode_response(d) ==
  IF Len(d) < 9 \/ Len(d) < 9 + Number(d, 5, 4) THEN Refused
  ELSE [status |-> d[1], value |-> Bytes(d, 9, Number(d, 5, 4))]

decode_range_response_binary(d) ==
  IF Len(d) < 9 \/ Len(d) < 9 + Number(d, 5, 4) THEN Refused
  ELSE [status |-> d[1], value |-> Bytes(d, 9, Number(d, 5, 4))]

\* The items are read as far as they go.
RangeItems(d, count) ==
  LET item[i \in 0 .. count] ==
        IF i = 0 THEN [at |-> 4, items |-> <<>>, end |-> FALSE]
        ELSE LET p == item[i - 1]
                 rest == SubSeq(d, p.at + 1, Len(d))
                 kv == Read(<<"s2", "s4">>, rest)
             IN IF p.end \/ kv = Refused THEN [p EXCEPT !.end = TRUE]
                ELSE [at |-> p.at + 6 + Len(kv[1]) + Len(kv[2]),
                      items |-> Append(p.items, kv), end |-> FALSE]
  IN item[count]

\* Mutant: the cursor is read in the place of has_more.
parse_range_response_shifted(d) ==
  IF Len(d) < 4 THEN Refused
  ELSE LET p == RangeItems(d, Number(d, 0, 4))
           n == IF p.at + 2 <= Len(d) THEN Number(d, p.at, 2) ELSE 0
       IN [items |-> p.items, more |-> p.at < Len(d) /\ d[p.at + 1] # 0,
           cursor |-> IF p.at + 2 + n <= Len(d) THEN Bytes(d, p.at + 2, n) ELSE <<>>]

parse_range_response(d) ==
  IF Len(d) < 4 THEN Refused
  ELSE LET p  == RangeItems(d, Number(d, 0, 4))
           at == p.at + 1
           n  == IF at + 2 <= Len(d) THEN Number(d, at, 2) ELSE 0
       IN [items  |-> p.items,
           more   |-> p.at < Len(d) /\ d[p.at + 1] # 0,
           cursor |-> IF at + 2 + n <= Len(d) THEN Bytes(d, at + 2, n) ELSE <<>>]

parse_handshake(d) ==
  LET head == Read(<<"1", "1", "s2", "1">>, d)
      plugins == Read(<<"1", "1", "s2", "1">> \o [i \in 1 .. head[4] |-> "s2"], d)
  IN IF head = Refused \/ plugins = Refused THEN Refused
     ELSE [id |-> head[3], plugins |-> SubSeq(plugins, 5, Len(plugins))]

\* strtok: a byte that is no comma begins a name, behind another one goes on with it.
tokens(d) ==
  LET names[i \in 0 .. Len(d)] ==
        IF i = 0 THEN <<>>
        ELSE LET before == names[i - 1]
             IN IF d[i] = Comma THEN before
                ELSE IF i = 1 \/ d[i - 1] = Comma THEN Append(before, <<d[i]>>)
                ELSE [before EXCEPT ![Len(before)] = Append(@, d[i])]
  IN names[Len(d)]

\* The payload may be missing; everything before it may not.
process_pubsub_event(d) ==
  LET head == Read(<<"1", "4", "s2", "1", "8", "8", "s4", "4">>, d)
      at == 5 + 2 + Len(head[3]) + 17 + 4 + Len(head[7]) + 4
  IN IF head = Refused THEN Refused
     ELSE [topic |-> head[3],
           data  |-> IF at + head[8] <= Len(d) THEN Bytes(d, at, head[8]) ELSE <<>>]

\* What the call that waits for the message makes of it.
Taken(kind, d) ==
  LET range == decode_range_response_binary(d)
      names == decode_response(d)
  IN CASE kind = "answer"    -> decode_response(d)
       [] kind = "names"     -> IF names = Refused THEN Refused ELSE tokens(names.value)
       [] kind = "items"     -> IF range = Refused THEN Refused
                                ELSE parse_range_response(range.value)
       [] kind = "handshake" -> parse_handshake(d)
       [] kind = "event"     -> process_pubsub_event(d)

-----------------------------------------------------------------------------
VARIABLES
  phase,   \* "idle", "sent" or "read"
  kind,    \* the kind of message
  meant,   \* what the writer meant
  wire,    \* its bytes
  cut,     \* whether the tail is lost
  got      \* what the reader understood

vars == <<phase, kind, meant, wire, cut, got>>

TypeOK ==
  /\ phase \in {"idle", "sent", "read"}
  /\ \A i \in DOMAIN wire : wire[i] \in Byte
  /\ cut \in BOOLEAN

Init ==
  /\ phase = "idle" /\ kind = "none" /\ meant = <<>> /\ wire = <<>>
  /\ cut = FALSE /\ got = Refused

Sends(k, what, bytes) ==
  /\ phase = "idle" /\ phase' = "sent"
  /\ kind' = k /\ meant' = what /\ wire' = bytes
  /\ UNCHANGED <<cut, got>>

\* The message, in the buffer, for what is meant.
Asks(k, what, bytes) == Len(bytes) <= BufferSize /\ Sends(k, what, bytes)

Ask ==
  \E seq \in Seqs, a, b, c \in Countable : \E limit \in {0, Base} :
    LET With(cmd, key, fields, payload) ==
          Asks("request", <<cmd, key, fields>>, encode_request(cmd, seq, key, payload))
    IN \/ With(Command.set, a, <<b>>, b)
       \/ With(Command.range, <<>>, <<a, b, limit, c>>, encode_range_request(a, b, limit, c))
       \/ With(Command.prefix, <<>>, <<a, limit, c>>, encode_prefix_request(a, limit, c))
       \/ With(Command.subscribe, <<>>, <<0, a, <<>>>>, subscribe_payload(a))
       \/ With(Command.history, <<>>, <<a, limit, limit>>, encode_history_request(a, limit, limit))
       \/ With(Command.presence, a, <<0>>, encode_presence_request(0))
       \/ With(Command.watch, <<>>, <<a, b, 0>>, watch_payload(a, b))

\* bb_set with a key that is longer than two bytes can say, and with a time to live.
AskTooMuch ==
  \E seq \in Seqs, a \in String, b \in Countable :
    LET bytes == encode_request(Command.set, seq, a, b)
    IN \/ a \notin Countable /\ Asks("overlong", <<Command.set, a, <<b>>>>, bytes)
       \/ a \in Countable /\ Asks("expiring", <<Command.set, a, <<b>>, Base>>, bytes)

\* Requests that the server does not understand: publications, and batches of one or two.
\* Batches have a buffer of their own size.
AskInVain ==
  \E seq \in Seqs, a, b, c \in Countable :
    \/ Sends("vain", <<"publish", a, b>>, publish_request(seq, a, b))
    \/ Sends("vain", <<"set", a, b>>, bb_batch_set(seq, << <<a, b>>, <<b, c>> >>))
    \/ Sends("vain", <<"get", a, b>>, bb_batch_get(seq, <<a, b>>))
    \/ Sends("vain", <<"delete", a>>, bb_batch_delete(seq, <<a>>))

ServerSends ==
  \/ \E seq \in Seqs, status \in 0 .. 6, p \in Payload :
       Sends("answer", [status |-> status, value |-> p], encodeResponse(status, seq, p))
  \/ \E seq \in Seqs, m \in 0 .. 2 : \E names \in [1 .. m -> Listable] :
       Sends("names", names, encodeResponse(0, seq, joined(names)))
  \/ \E seq \in Seqs, more \in BOOLEAN, a, b, c \in Countable :
       \E items \in {<<>>, << <<a, b>> >>, << <<b, c>>, <<a, b>> >>} :
         Sends("items", [items |-> items, more |-> more, cursor |-> c],
               encodeResponse(0, seq, encodeRangeResponse(items, more, c)))
  \/ \E id, a, b \in Countable : \E plugins \in {<<>>, <<a>>, <<a, b>>} :
       Sends("handshake", [id |-> id, plugins |-> plugins], encodeHandshake(id, plugins))
  \/ \E topic \in Countable \ {<<>>}, headers \in Countable, p \in Payload :
       Sends("event", [topic |-> topic, data |-> p], encodePubSubEvent(topic, headers, p))

\* The transport hands over the head of a message.
Tear ==
  /\ phase = "sent" /\ ~cut
  /\ \E n \in 1 .. Len(wire) - 1 : wire' = SubSeq(wire, 1, n)
  /\ cut' = TRUE
  /\ UNCHANGED <<phase, kind, meant, got>>

Receive ==
  /\ phase = "sent" /\ phase' = "read"
  /\ got' = IF kind \in {"request", "overlong", "expiring", "vain"} THEN Understood(wire) ELSE Taken(kind, wire)
  /\ UNCHANGED <<kind, meant, wire, cut>>

Next == Ask \/ AskTooMuch \/ AskInVain \/ ServerSends \/ Tear \/ Receive

Spec == Init /\ [][Next]_vars

-----------------------------------------------------------------------------
Arrived(kinds) == phase = "read" /\ kind \in kinds

\* What is left of a request on the way: the time to live of bb_set is not sent
\* (send_request), and of a key two bytes cannot say the length of, only the bytes that the
\* remainder counts.
Carried(k, what) == IF k = "request" THEN what ELSE <<what[1], Cut(what[2]), what[3]>>

\* What the server acts on is what the caller of the bb_ function gave it (the encoders
\* against the decoders of protocol.nim) if the request fits into the buffer, but for a time
\* to live and the rest of an overlong key: nothing else is lost, and nothing is mixed up.
RequestsArrive ==
  Arrived({"request", "overlong", "expiring"}) /\ ~cut => got = Carried(kind, meant)

\* A request that is torn, and every publication and batch of one or two, is refused as a
\* whole: no part of it is carried out, and no other request in its place.
NothingElseArrives ==
  Arrived({"vain"}) \/ (Arrived({"request", "overlong", "expiring"}) /\ cut) => got = Refused

\* What the client returns is what the server wrote: values, items with their cursor and
\* mark for more, names and keys without a comma, the server's name and plugins, topics
\* and payloads.
AnswersArrive == Arrived({"answer", "names", "items", "handshake", "event"}) /\ ~cut => got = meant

\* A torn answer or handshake is never taken for a shorter one; of a torn event at most
\* the payload is missing.
TornAnswersAreRefused ==
  /\ Arrived({"answer", "names", "items", "handshake"}) /\ cut => got = Refused
  /\ Arrived({"event"}) /\ cut => got \in {Refused, [topic |-> meant.topic, data |-> <<>>]}

\* A call that takes an event where it waits for its answer notices, however the event
\* is torn: the bytes at the place of the length say more than there is, or, of an event of
\* more than 64 KB, the first one is no status that counts as success.
EventIsNoAnswer ==
  phase = "sent" /\ kind = "event" =>
    \A r \in {decode_response(wire), decode_range_response_binary(wire)} :
      r = Refused \/ (Len(wire) > Short + 8 /\ r.status = Event0xFF)

=============================================================================
