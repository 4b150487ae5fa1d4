----------------------------- MODULE MCCClient -----------------------------
(* Two threads of an application on one client. *)
EXTENDS CClient, TLC

CONSTANTS t1, t2

\* The first thread chooses the barrel and looks after the connection.
AnswerOps ==
  t1 :> {"connect", "disconnect", "use", "close", "drop"}
    @@ t2 :> {"subscribe", "get", "batch", "unwatch", "publish", "wait"}

\* Both threads take events in.
EventOps ==
  t1 :> {"connect", "get", "setCallback"}
    @@ t2 :> {"subscribe", "delete", "process", "poll"}
=============================================================================
