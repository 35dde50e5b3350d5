------------------------------ MODULE MCMqttSn ------------------------------
(* Small instances of MqttSn. *)
EXTENDS MqttSn, TLC

CONSTANTS c1, c2, f1

Use(calls, ids, room) == [calls |-> calls, ids |-> ids, room |-> room]

\* two clients, the first one publishes and the second one subscribes; or one client that
\* does everything
FewUses ==
  {(c1 :> Use({"connect", "publish", "disconnect"}, 1, 1))
     @@ (c2 :> Use({"connect", "subscribe", "receive"}, 1, 1)),
   (c1 :> Use({"connect", "publish"}, 1, 1))
     @@ (c2 :> Use({"connect", "subscribe", "receive", "ping"}, 1, 1)),
   (c1 :> Use({"connect", "publish"}, 1, 1))
     @@ (c2 :> Use({"connect", "subscribe", "disconnect", "receive"}, 1, 1)),
   (c1 :> Use(DOMAIN Request \cup {"receive", "ping"}, 2, 2))
     @@ (c2 :> Use({}, 0, 1))}
=============================================================================
