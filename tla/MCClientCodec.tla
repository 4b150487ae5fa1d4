--------------------------- MODULE MCClientCodec ---------------------------
EXTENDS ClientCodec

\* Of three lengths, so that mixed-up strings and lengths show, and one that is longer by two
\* than a length of two bytes can say.
MCString == {<<>>, <<1>>, <<2, 1>>, [i \in 1 .. 122 |-> 2]}

\* Also one that makes an event longer than a length of two bytes can say.
MCPayload == {<<>>, <<2, 1>>, [i \in 1 .. 110 |-> 1]}

\* With and without bytes that are 0.
MCSeqs == {5, 4369}
=============================================================================
