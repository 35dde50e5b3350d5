---------------------------- MODULE MqttSnBroker ----------------------------
(***************************************************************************)
(* The broker for the clients (node/src/MqttSnBroker.cpp): RECEIVE_COUNT   *)
(* coroutines answer what comes, FORWARD_COUNT coroutines forward the      *)
(* published messages to the other connections, each with its own retries. *)
(* Connection 0, to a gateway, is not connected here.                      *)
(*                                                                         *)
(* There is one topic, which was registered before; its id is the same for *)
(* all clients.  Subscriptions ask for QOS 1, publishers publish with it.   *)
(* A receive() coroutine changes nothing between its co_await of           *)
(* Network::send and the next message but what a later message would find  *)
(* in the same order, so that a step answers one message.                  *)
(***************************************************************************)
EXTENDS MqttSnNetwork, FiniteSets

CONSTANTS
  Slots,          (* connections for clients: 1..31                        *)
  Forwards,       (* the coroutines forward(): 8                           *)
  FORWARD_RETRY,  (* MAX_RETRY of the broker                               *)
  NoClient

ASSUME BrokerAssumption ==
  /\ Slots \subseteq Nat \ {0}
  /\ IsFiniteSet(Slots)
  /\ FORWARD_RETRY \in Nat
  /\ NoClient \notin Clients

VARIABLES
  endpoint,     (* of each connection, NoClient when it is not connected   *)
  subscribed,   (* connections whose qos for the topic is QOS, not 3       *)
  last,         (* connection and id of the last message of the topic      *)
  forward,      (* of each coroutine: connection it sends to (0 when it    *)
                (*   waits), source connection, message id, retries        *)
  brokerMsgId,
  taken         (* history: <<client, id>> of the messages that were no    *)
                (*   duplicate, in their order                             *)

brokerVars == <<endpoint, subscribed, last, forward, brokerMsgId, taken>>

Idle == [to |-> 0, from |-> 0, id |-> 0, retry |-> 0]

SlotsOf(c) == {i \in Slots : endpoint[i] = c}

Least(S) == CHOOSE i \in S : \A j \in S : i <= j

Reply(c, type, id) == down' = Sent(down, c, Message(type, id))
-----------------------------------------------------------------------------
(* receive() *)

\* mutant of SlotFor: always an unused connection
SlotForUnused(c) == {i \in Slots : endpoint[i] = NoClient}

\* mutant of SlotFor: the first connection, used or not
SlotForFirst(c) == IF SlotsOf(c) # {} THEN SlotsOf(c) ELSE {Least(Slots)}

\* a client that connects again keeps its connection
SlotFor(c) ==
  IF SlotsOf(c) # {} THEN SlotsOf(c) ELSE {i \in Slots : endpoint[i] = NoClient}

\* CONNACK, with a return code other than ACCEPTED when all connections are used
AnswerConnect(c) ==
  /\ IF SlotFor(c) = {}
     THEN /\ Reply(c, "REJECTED", 0)
          /\ UNCHANGED <<endpoint, subscribed>>
     ELSE LET i == Least(SlotFor(c)) IN
          /\ endpoint' = [endpoint EXCEPT ![i] = c]
          /\ subscribed' = subscribed \ {i}
          /\ Reply(c, "CONNACK", 0)
  /\ UNCHANGED <<last, forward, brokerMsgId, taken>>

\* who is not connected has to connect first
AnswerUnknown(c) ==
  /\ Reply(c, "DISCONNECT", 0)
  /\ UNCHANGED brokerVars

AnswerDisconnect(i) ==
  /\ endpoint' = [endpoint EXCEPT ![i] = NoClient]
  /\ subscribed' = subscribed \ {i}
  /\ UNCHANGED <<down, last, forward, brokerMsgId, taken>>

AnswerSubscribe(c, i, m) ==
  /\ subscribed' = IF m.type = "SUBSCRIBE" THEN subscribed \cup {i} ELSE subscribed \ {i}
  /\ Reply(c, IF m.type = "SUBSCRIBE" THEN "SUBACK" ELSE "UNSUBACK", m.id)
  /\ UNCHANGED <<endpoint, last, forward, brokerMsgId, taken>>

AnswerOther(c, m) ==
  /\ Reply(c, IF m.type = "REGISTER" THEN "REGACK" ELSE "PINGRESP", m.id)
  /\ UNCHANGED brokerVars
-----------------------------------------------------------------------------
(* forward() *)

\* connections after i to which a message from connection source goes
Targets(source, i) == {j \in subscribed : j > i /\ j # source /\ endpoint[j] # NoClient}

\* on to the next connection, if there is one
ForwardTo(f, source, i, way) ==
  IF Targets(source, i) = {}
  THEN /\ forward' = [forward EXCEPT ![f] = Idle]
       /\ down' = way
       /\ UNCHANGED brokerMsgId
  ELSE LET j == Least(Targets(source, i)) IN
       /\ brokerMsgId' = brokerMsgId + 1
       /\ forward' = [forward EXCEPT ![f] =
                        [to |-> j, from |-> source, id |-> brokerMsgId + 1, retry |-> 0]]
       /\ down' = Sent(way, endpoint[j], Message("PUBLISH", brokerMsgId + 1))

\* mutant of ForwardAgain: starts to count again
ForwardAgainUncounted(f) ==
  LET job == forward[f] IN
  IF endpoint[job.to] = NoClient
  THEN ForwardTo(f, job.from, job.to, down)
  ELSE /\ forward' = [forward EXCEPT ![f].retry = 0]
       /\ down' = Sent(down, endpoint[job.to], Message("PUBLISH", job.id))
       /\ UNCHANGED brokerMsgId

\* the time is over, or the acknowledge came: `!r.atEnd()' is false at the end of the
\* acknowledge, so that it is never taken for a success and the message is sent again.
\* Meanwhile the connection may be gone, or be the one of another client.
ForwardAgain(f) ==
  LET job == forward[f] IN
  IF endpoint[job.to] = NoClient \/ job.retry = FORWARD_RETRY
  THEN ForwardTo(f, job.from, job.to, down)
  ELSE /\ forward' = [forward EXCEPT ![f].retry = @ + 1]
       /\ down' = Sent(down, endpoint[job.to], Message("PUBLISH", job.id))
       /\ UNCHANGED brokerMsgId

ForwardTimeout(f) ==
  /\ forward[f] # Idle
  /\ ForwardAgain(f)
  /\ UNCHANGED <<endpoint, subscribed, last, taken, use, up>>

\* receive() resumes the forward() that waits for this acknowledge
AnswerPuback(i, m) ==
  LET waiting == {f \in Forwards : forward[f].to = i /\ forward[f].id = m.id} IN
  /\ IF waiting = {}
     THEN UNCHANGED <<forward, down, brokerMsgId>>
     ELSE \E f \in waiting : ForwardAgain(f)
  /\ UNCHANGED <<endpoint, subscribed, last, taken>>

\* mutant of IsDuplicate: a message is never a duplicate
IsDuplicateNever(i, m) == FALSE

IsDuplicate(i, m) == last = [slot |-> i, id |-> m.id]

\* acknowledge, suppress a duplicate, hand over to a forward() that waits, if there is one
AnswerPublish(c, i, m) ==
  LET acknowledged == Sent(down, c, Message("PUBACK", m.id))
      waiting == {f \in Forwards : forward[f] = Idle}
  IN
  /\ IF IsDuplicate(i, m)
     THEN down' = acknowledged /\ UNCHANGED <<last, forward, brokerMsgId, taken>>
     ELSE /\ last' = [slot |-> i, id |-> m.id]
          /\ taken' = Append(taken, <<c, m.id>>)
          /\ IF waiting = {}
             THEN down' = acknowledged /\ UNCHANGED <<forward, brokerMsgId>>
             ELSE ForwardTo(CHOOSE f \in waiting : TRUE, i, 0, acknowledged)
  /\ UNCHANGED <<endpoint, subscribed>>

\* a datagram of client c has come
BrokerReceive(c) ==
  /\ up[c] # << >>
  /\ up' = Taken(up, c)
  /\ UNCHANGED use
  /\ LET m == Head(up[c])
         i == Least(SlotsOf(c))
     IN
     CASE m.type = "CONNECT" -> AnswerConnect(c)
       [] m.type # "CONNECT" /\ SlotsOf(c) = {} -> AnswerUnknown(c)
       [] m.type = "DISCONNECT" /\ SlotsOf(c) # {} -> AnswerDisconnect(i)
       [] m.type \in {"SUBSCRIBE", "UNSUBSCRIBE"} /\ SlotsOf(c) # {} -> AnswerSubscribe(c, i, m)
       [] m.type = "PUBLISH" /\ SlotsOf(c) # {} -> AnswerPublish(c, i, m)
       [] m.type = "PUBACK" /\ SlotsOf(c) # {} -> AnswerPuback(i, m)
       [] m.type \in {"REGISTER", "PINGREQ"} /\ SlotsOf(c) # {} -> AnswerOther(c, m)

BrokerInit ==
  /\ endpoint = [i \in Slots |-> NoClient]
  /\ subscribed = {}
  /\ last = [slot |-> 0, id |-> 0]
  /\ forward = [f \in Forwards |-> Idle]
  /\ brokerMsgId = 0
  /\ taken = << >>
=============================================================================
