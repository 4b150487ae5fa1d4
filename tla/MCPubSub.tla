------------------------------ MODULE MCPubSub ------------------------------
(***************************************************************************)
(* PubSub with two topics, one of which the only pattern matches.  The      *)
(* subscriptions to topics are those of SUBSCRIBE with its default options, *)
(* the subscription to the pattern is that of WATCH_KEY.                    *)
(***************************************************************************)
EXTENDS PubSub

CONSTANTS chat, user, all

MCTopic    == {chat, user}
MCMatching == {<<chat, all>>}
MCWishes   == {<<chat, FALSE>>, <<user, FALSE>>, <<all, TRUE>>}

(* The same with a single topic and no pattern.                             *)
MCChatOnly == {<<chat, FALSE>>}

=============================================================================
