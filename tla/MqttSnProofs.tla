---------------------------- MODULE MqttSnProofs ----------------------------
(***************************************************************************)
(* Proofs about MqttSn, for every number of clients, connections, forward  *)
(* coroutines and retries, and for every use of the clients.               *)
(***************************************************************************)
EXTENDS MqttSn, SequenceTheorems, WellFoundedInduction, FiniteSetTheorems, TLAPS

UpTypes == {"CONNECT", "DISCONNECT", "REGISTER", "SUBSCRIBE", "UNSUBSCRIBE", "PUBLISH",
            "PUBACK", "PINGREQ"}

DownTypes == {"CONNACK", "REJECTED", "DISCONNECT", "REGACK", "SUBACK", "UNSUBACK",
              "PUBLISH", "PUBACK", "PINGRESP"}

UpMessages == [type : UpTypes, id : Nat]

\* what the broker publishes has an id it has taken
DownMessages(n) ==
  {m \in [type : DownTypes, id : Nat] : m.type = "PUBLISH" => m.id <= n}

Holds(way, S) ==
  /\ way \in [Clients -> Seq(S)]
  /\ \A c \in Clients : Len(way[c]) <= use[c].room

WaysInv ==
  /\ use \in Uses
  /\ Holds(up, UpMessages)
  /\ Holds(down, DownMessages(brokerMsgId))

ClientInv ==
  /\ state \in [Clients -> {"disconnected", "connected", "crashed"}]
  /\ DOMAIN call = Clients /\ call = [c \in Clients |-> call[c]]
  /\ \A c \in Clients : call[c] \in Calls(c)
  /\ ping \in [Clients -> Sleeps .. PING_RETRY]
  /\ DOMAIN nextMsgId = Clients /\ nextMsgId = [c \in Clients |-> nextMsgId[c]]
  /\ \A c \in Clients : nextMsgId[c] \in 0 .. use[c].ids
  /\ granted \in [Clients -> {"yes", "no", "unknown"}]
  /\ acked \subseteq Clients \X Nat

ReceiverInv ==
  /\ receiver \in [Clients -> Away .. brokerMsgId]
  /\ ReceiverWakes

Jobs(n) ==
  {Idle} \cup [to : Slots, from : Slots, id : 0 .. n, retry : 0 .. FORWARD_RETRY]

\* no two connections are of one client
Injective ==
  \A i, j \in Slots : endpoint[i] = endpoint[j] /\ endpoint[i] # NoClient => i = j

BrokerInv ==
  /\ endpoint \in [Slots -> Clients \cup {NoClient}]
  /\ Injective
  /\ subscribed \subseteq Slots
  /\ last \in [slot : Slots \cup {0}, id : Nat]
  /\ brokerMsgId \in Nat
  /\ forward \in [Forwards -> Jobs(brokerMsgId)]
  /\ taken \in Seq(Clients \X Nat)

IInv == WaysInv /\ ClientInv /\ ReceiverInv /\ BrokerInv
-----------------------------------------------------------------------------
LEMMA LeastIn ==
  ASSUME NEW S, S \subseteq Nat, S # {}
  PROVE  Least(S) \in S
<1>1. PICK i \in S : \A j \in S : <<j, i>> \notin OpToRel(<, Nat)
  BY WFMin, NatLessThanWellFounded, Zenon
<1>2. ASSUME NEW j \in S
      PROVE  i <= j
  <2>1. j < i => <<j, i>> \in OpToRel(<, Nat)
    BY Zenon DEF OpToRel
  <2>2. ~(j < i)
    BY <1>1, <2>1
  <2> QED
    BY <2>2
<1> QED
  BY <1>2 DEF Least

LEMMA UseOf ==
  ASSUME use \in Uses, NEW c \in Clients
  PROVE  use[c].ids \in Nat /\ use[c].room \in Nat \ {0}
  BY NetworkAssumption

LEMMA SentHolds ==
  ASSUME use \in Uses, NEW S, NEW way, Holds(way, S), NEW c \in Clients, NEW m \in S
  PROVE  Holds(Sent(way, c, m), S)
<1>1. use[c].room \in Nat
  BY UseOf
<1> QED
  BY <1>1 DEF Holds, Sent

LEMMA TakenHolds ==
  ASSUME use \in Uses, NEW S, NEW way, Holds(way, S), NEW c \in Clients, way[c] # << >>
  PROVE  /\ Holds(Taken(way, c), S)
         /\ Head(way[c]) \in S
<1>1. use[c].room \in Nat
  BY UseOf
<1>2. way[c] \in Seq(S)
  BY DEF Holds
<1>3. Tail(way[c]) \in Seq(S) /\ Len(Tail(way[c])) = Len(way[c]) - 1
  BY <1>2
<1> QED
  BY <1>1, <1>2, <1>3 DEF Holds, Taken

\* a greater brokerMsgId keeps what was typed with a smaller one
LEMMA HoldsGrows ==
  ASSUME NEW n \in Nat, NEW k \in Nat, n <= k, NEW way, Holds(way, DownMessages(n))
  PROVE  Holds(way, DownMessages(k))
<1>1. \A m \in DownMessages(n) : m \in DownMessages(k)
  BY DEF DownMessages
<1>2. ASSUME NEW c \in Clients
      PROVE  way[c] \in Seq(DownMessages(k))
  <2>1. way[c] \in Seq(DownMessages(n))
    BY DEF Holds
  <2> QED
    BY <1>1, <2>1
<1> QED
  BY <1>2 DEF Holds

LEMMA JobsGrow ==
  ASSUME NEW n \in Nat, NEW k \in Nat, n <= k
  PROVE  Jobs(n) \subseteq Jobs(k)
  BY DEF Jobs
-----------------------------------------------------------------------------
(* Steps of the clients *)

LEMMA ClientTypes ==
  ASSUME IInv, NEW c \in Clients
  PROVE  /\ use \in Uses /\ Holds(up, UpMessages) /\ Holds(down, DownMessages(brokerMsgId))
         /\ brokerMsgId \in Nat /\ use[c].ids \in Nat
         /\ state[c] \in {"disconnected", "connected", "crashed"}
         /\ call[c].op \in DOMAIN Request \cup {"none"}
         /\ call[c].retry \in 0 .. MAX_RETRY
         /\ call[c].id \in 0 .. use[c].ids
         /\ receiver[c] \in Away .. brokerMsgId
  BY UseOf DEF IInv, WaysInv, ClientInv, ReceiverInv, BrokerInv, Calls

LEMMA RequestType ==
  ASSUME NEW op \in DOMAIN Request, NEW id \in Nat
  PROVE  Message(Request[op], id) \in UpMessages
  BY DEF Request, Message, UpMessages, UpTypes

\* the user is done with its call
LEMMA NoCallType ==
  ASSUME NEW c \in Clients, use[c].ids \in Nat
  PROVE  NoCall \in Calls(c)
  BY ClientAssumption DEF NoCall, Calls

LEMMA CallChange ==
  ASSUME ClientInv, UNCHANGED use, NEW c \in Clients, NEW new \in Calls(c),
         call' = [call EXCEPT ![c] = new]
  PROVE  /\ DOMAIN call' = Clients /\ call' = [d \in Clients |-> call'[d]]
         /\ \A d \in Clients : call'[d] \in Calls(d)'
  BY DEF ClientInv, Calls

\* a step that sends at most one request and takes nothing
LEMMA WaysKeep ==
  ASSUME IInv, UNCHANGED <<use, down, brokerMsgId>>, NEW c \in Clients,
         up' = up \/ \E m \in UpMessages : up' = Sent(up, c, m)
  PROVE  WaysInv'
<1>1. Holds(up', UpMessages)
  BY SentHolds DEF IInv, WaysInv
<1> QED
  BY <1>1 DEF IInv, WaysInv, Holds

LEMMA BeginKeeps ==
  ASSUME IInv, UNCHANGED brokerVars, NEW c \in Clients, NEW op \in DOMAIN Request,
         Begin(c, op)
  PROVE  WaysInv' /\ ClientInv' /\ ReceiverInv'
<1> DEFINE id == IF op \in Exchanges THEN nextMsgId[c] + 1 ELSE 0
<1>1. nextMsgId[c] \in Nat /\ use[c].ids \in Nat
  BY ClientTypes DEF IInv, ClientInv
<1>2. id \in 0 .. use[c].ids
  BY <1>1 DEF Begin
<1>3. WaysInv'
  <2>1. Message(Request[op], id) \in UpMessages
    BY <1>1, <1>2, RequestType
  <2>2. up' = Sent(up, c, Message(Request[op], id)) /\ UNCHANGED <<use, down, brokerMsgId>>
    BY DEF Begin, brokerVars
  <2> HIDE DEF id
  <2> QED
    BY <2>1, <2>2, WaysKeep
<1>4. ClientInv'
  <2>1. [op |-> op, retry |-> 0, id |-> id] \in Calls(c)
    BY <1>2, ClientAssumption DEF Calls
  <2>2. /\ call' = [call EXCEPT ![c] = [op |-> op, retry |-> 0, id |-> id]]
        /\ nextMsgId' = [nextMsgId EXCEPT ![c] = IF op \in Exchanges THEN id ELSE @]
        /\ granted' = [granted EXCEPT ![c] =
                         IF op \in {"register", "publish"} THEN @ ELSE "unknown"]
        /\ UNCHANGED <<use, state, ping, acked>>
    BY DEF Begin
  <2> HIDE DEF id
  <2>3. /\ DOMAIN call' = Clients /\ call' = [d \in Clients |-> call'[d]]
        /\ \A d \in Clients : call'[d] \in Calls(d)'
    BY <2>1, <2>2, CallChange DEF IInv
  <2>4. /\ DOMAIN nextMsgId' = Clients /\ nextMsgId' = [d \in Clients |-> nextMsgId'[d]]
        /\ \A d \in Clients : nextMsgId'[d] \in 0 .. use'[d].ids
    BY <1>1, <1>2, <2>2 DEF IInv, ClientInv
  <2>5. granted' \in [Clients -> {"yes", "no", "unknown"}]
    BY <2>2 DEF IInv, ClientInv
  <2> QED
    BY <2>2, <2>3, <2>4, <2>5 DEF IInv, ClientInv
<1>5. ReceiverInv'
  BY DEF Begin, brokerVars, IInv, ReceiverInv, ReceiverWakes
<1> QED
  BY <1>3, <1>4, <1>5

LEMMA NoticedKeeps ==
  ASSUME IInv, UNCHANGED <<use, brokerMsgId, nextMsgId, granted, acked>>, NEW c \in Clients,
         Disconnected(c) \/ Noticed(c)
  PROVE  ClientInv' /\ ReceiverInv'
<1>1. /\ \E new \in {"disconnected", "crashed"} : state' = [state EXCEPT ![c] = new]
      /\ ping' = [ping EXCEPT ![c] = Sleeps]
      /\ call' = [call EXCEPT ![c] = NoCall]
      /\ \/ receiver' = [receiver EXCEPT ![c] = IF @ = Waits THEN Away ELSE @]
         \/ receiver' = [receiver EXCEPT ![c] = Away]
  BY DEF Disconnected, Noticed
<1>2. /\ DOMAIN call' = Clients /\ call' = [d \in Clients |-> call'[d]]
      /\ \A d \in Clients : call'[d] \in Calls(d)'
  BY <1>1, CallChange, NoCallType, ClientTypes DEF IInv
<1>3. ping' \in [Clients -> Sleeps .. PING_RETRY]
  BY <1>1, ClientAssumption DEF IInv, ClientInv, Sleeps
<1>4. state' \in [Clients -> {"disconnected", "connected", "crashed"}]
  BY <1>1 DEF IInv, ClientInv
<1>5. ClientInv'
  BY <1>2, <1>3, <1>4 DEF IInv, ClientInv
<1>6. ReceiverInv'
  <2>1. brokerMsgId \in Nat /\ receiver \in [Clients -> Away .. brokerMsgId]
    BY DEF IInv, BrokerInv, ReceiverInv
  <2>2. receiver' \in [Clients -> Away .. brokerMsgId]
    BY <1>1, <2>1 DEF Away
  <2>3. receiver'[c] # Waits
    BY <1>1, <2>1 DEF Away, Waits
  <2>4. \A d \in Clients \ {c} : receiver'[d] = receiver[d] /\ state'[d] = state[d]
    BY <1>1, <2>1 DEF IInv, ClientInv
  <2> QED
    BY <2>2, <2>3, <2>4 DEF IInv, ReceiverInv, ReceiverWakes
<1> QED
  BY <1>5, <1>6

LEMMA RetryKeeps ==
  ASSUME IInv, UNCHANGED brokerVars, NEW c \in Clients, Retry(c)
  PROVE  WaysInv' /\ ClientInv' /\ ReceiverInv'
<1>1. /\ call[c].op \in DOMAIN Request /\ call[c].id \in Nat
      /\ UNCHANGED <<nextMsgId, use, granted, acked, down, brokerMsgId>>
  BY ClientTypes DEF Retry, brokerVars
<1>2. CASE call[c].retry < MAX_RETRY
  <2>1. /\ call' = [call EXCEPT ![c].retry = @ + 1]
        /\ up' = Sent(up, c, Message(Request[call[c].op], call[c].id))
        /\ UNCHANGED <<state, ping, receiver>>
    BY <1>2 DEF Retry
  <2>2. WaysInv'
    BY <1>1, <2>1, RequestType, WaysKeep
  <2>3. [call[c] EXCEPT !.retry = @ + 1] \in Calls(c)
    <3>1. call[c] \in Calls(c)
      BY DEF IInv, ClientInv
    <3>2. call[c].retry + 1 \in 0 .. MAX_RETRY
      BY <1>2, <3>1, ClientAssumption DEF Calls
    <3> QED
      BY <3>1, <3>2 DEF Calls
  <2>4. call' = [call EXCEPT ![c] = [call[c] EXCEPT !.retry = @ + 1]]
    BY <2>1
  <2>5. /\ DOMAIN call' = Clients /\ call' = [d \in Clients |-> call'[d]]
        /\ \A d \in Clients : call'[d] \in Calls(d)'
    BY <1>1, <2>3, <2>4, CallChange DEF IInv
  <2>6. ClientInv'
    BY <1>1, <2>1, <2>5 DEF IInv, ClientInv
  <2>7. ReceiverInv'
    BY <1>1, <2>1 DEF IInv, ReceiverInv, ReceiverWakes
  <2> QED
    BY <2>2, <2>6, <2>7
<1>3. CASE ~(call[c].retry < MAX_RETRY)
  <2>1. /\ up' = up
        /\ \/ Disconnected(c)
           \/ call' = [call EXCEPT ![c] = NoCall] /\ UNCHANGED <<state, ping, receiver>>
    BY <1>3 DEF Retry
  <2>2. WaysInv'
    BY <1>1, <2>1, WaysKeep
  <2>3. CASE Disconnected(c)
    BY <1>1, <2>2, <2>3, NoticedKeeps
  <2>4. CASE call' = [call EXCEPT ![c] = NoCall] /\ UNCHANGED <<state, ping, receiver>>
    <3>1. /\ DOMAIN call' = Clients /\ call' = [d \in Clients |-> call'[d]]
          /\ \A d \in Clients : call'[d] \in Calls(d)'
      BY <1>1, <2>4, CallChange, NoCallType, ClientTypes DEF IInv
    <3>2. ClientInv'
      BY <1>1, <2>4, <3>1 DEF IInv, ClientInv
    <3>3. ReceiverInv'
      BY <1>1, <2>4 DEF IInv, ReceiverInv, ReceiverWakes
    <3> QED
      BY <2>2, <3>2, <3>3
  <2> QED
    BY <2>1, <2>3, <2>4
<1> QED
  BY <1>2, <1>3

LEMMA PingKeeps ==
  ASSUME IInv, UNCHANGED brokerVars, NEW c \in Clients, Ping(c)
  PROVE  WaysInv' /\ ClientInv' /\ ReceiverInv'
<1>1. UNCHANGED <<nextMsgId, use, granted, acked, down, brokerMsgId>>
  BY DEF Ping, brokerVars
<1>2. CASE ping[c] < PING_RETRY
  <2>1. /\ ping' = [ping EXCEPT ![c] = @ + 1]
        /\ up' = Sent(up, c, Message("PINGREQ", 0))
        /\ UNCHANGED <<state, call, receiver>>
    BY <1>2 DEF Ping
  <2>2. Message("PINGREQ", 0) \in UpMessages
    BY DEF Message, UpMessages, UpTypes
  <2>3. WaysInv'
    BY <1>1, <2>1, <2>2, WaysKeep
  <2>4. ping' \in [Clients -> Sleeps .. PING_RETRY]
    BY <1>2, <2>1, ClientAssumption DEF IInv, ClientInv, Sleeps
  <2>5. \A d \in Clients : Calls(d)' = Calls(d)
    BY <1>1 DEF Calls
  <2>6. ClientInv'
    BY <1>1, <2>1, <2>4, <2>5 DEF IInv, ClientInv
  <2>7. ReceiverInv'
    BY <1>1, <2>1 DEF IInv, ReceiverInv, ReceiverWakes
  <2> QED
    BY <2>3, <2>6, <2>7
<1>3. CASE ~(ping[c] < PING_RETRY)
  <2>1. Noticed(c) /\ up' = up
    BY <1>3 DEF Ping
  <2> QED
    BY <1>1, <2>1, NoticedKeeps, WaysKeep
<1> QED
  BY <1>2, <1>3

LEMMA AwaitMessageKeeps ==
  ASSUME IInv, UNCHANGED brokerVars, NEW c \in Clients, AwaitMessage(c)
  PROVE  WaysInv' /\ ClientInv' /\ ReceiverInv'
<1>1. /\ state[c] = "connected"
      /\ receiver' = [receiver EXCEPT ![c] = Waits]
      /\ UNCHANGED <<state, call, ping, nextMsgId, granted, acked, use, up, down, brokerMsgId>>
  BY DEF AwaitMessage, networkVars, brokerVars
<1>2. WaysInv'
  BY <1>1, WaysKeep
<1>3. ClientInv'
  BY <1>1 DEF IInv, ClientInv, Calls
<1>4. ReceiverInv'
  <2>1. brokerMsgId \in Nat /\ receiver \in [Clients -> Away .. brokerMsgId]
    BY DEF IInv, BrokerInv, ReceiverInv
  <2> QED
    BY <1>1, <2>1 DEF IInv, ReceiverInv, ReceiverWakes, Away, Waits
<1> QED
  BY <1>2, <1>3, <1>4

LEMMA AckReceiveKeeps ==
  ASSUME IInv, UNCHANGED brokerVars, NEW c \in Clients, AckReceive(c)
  PROVE  WaysInv' /\ ClientInv' /\ ReceiverInv'
<1>1. /\ receiver[c] > 0
      /\ up' = Sent(up, c, Message("PUBACK", receiver[c]))
      /\ receiver' = [receiver EXCEPT ![c] = Away]
      /\ UNCHANGED <<state, call, ping, nextMsgId, use, granted, acked, down, brokerMsgId>>
  BY DEF AckReceive, brokerVars
<1>2. brokerMsgId \in Nat /\ receiver \in [Clients -> Away .. brokerMsgId]
  BY DEF IInv, BrokerInv, ReceiverInv
<1>3. Message("PUBACK", receiver[c]) \in UpMessages
  BY <1>1, <1>2 DEF Message, UpMessages, UpTypes, Away
<1>4. WaysInv'
  BY <1>1, <1>3, WaysKeep
<1>5. ClientInv'
  BY <1>1 DEF IInv, ClientInv, Calls
<1>6. ReceiverInv'
  BY <1>1, <1>2 DEF IInv, ReceiverInv, ReceiverWakes, Away, Waits
<1> QED
  BY <1>4, <1>5, <1>6

LEMMA AcknowledgedKeeps ==
  ASSUME IInv, UNCHANGED <<use, brokerMsgId, nextMsgId>>, NEW c \in Clients, NEW m,
         Acknowledged(c, m)
  PROVE  ClientInv' /\ ReceiverInv' /\ up' = up
<1>1. /\ call' = call \/ call' = [call EXCEPT ![c] = NoCall]
      /\ \/ granted' = granted
         \/ \E new \in {"yes", "no"} : granted' = [granted EXCEPT ![c] = new]
         \/ granted' = [granted EXCEPT ![c] = @]
      /\ acked' = acked \/ acked' = acked \cup {<<c, call[c].id>>}
      /\ ping' = [ping EXCEPT ![c] = IF m.type = "PINGRESP" THEN Sleeps ELSE @]
      /\ UNCHANGED <<state, receiver, up>>
  <2>1. CASE Awaited(c, m)
    <3>1. granted' = [granted EXCEPT ![c] = CASE m.type = "SUBACK" -> "yes"
                                              [] m.type = "UNSUBACK" -> "no"
                                              [] OTHER -> @]
      BY <2>1 DEF Acknowledged
    <3>2. CASE m.type = "SUBACK"
      BY <2>1, <3>1, <3>2 DEF Acknowledged
    <3>3. CASE m.type = "UNSUBACK"
      BY <2>1, <3>1, <3>3 DEF Acknowledged
    <3>4. CASE m.type \notin {"SUBACK", "UNSUBACK"}
      BY <2>1, <3>1, <3>4 DEF Acknowledged
    <3> QED
      BY <3>2, <3>3, <3>4
  <2>2. CASE ~Awaited(c, m)
    BY <2>2 DEF Acknowledged
  <2> QED
    BY <2>1, <2>2
<1>2. /\ DOMAIN call' = Clients /\ call' = [d \in Clients |-> call'[d]]
      /\ \A d \in Clients : call'[d] \in Calls(d)'
  <2>1. CASE call' = call
    BY <2>1 DEF IInv, ClientInv, Calls
  <2>2. CASE call' = [call EXCEPT ![c] = NoCall]
    BY <2>2, CallChange, NoCallType, ClientTypes DEF IInv
  <2> QED
    BY <1>1, <2>1, <2>2
<1>3. ping' \in [Clients -> Sleeps .. PING_RETRY]
  BY <1>1, ClientAssumption DEF IInv, ClientInv, Sleeps
<1>4. granted' \in [Clients -> {"yes", "no", "unknown"}]
  BY <1>1 DEF IInv, ClientInv
<1>5. acked' \subseteq Clients \X Nat
  <2>1. call[c].id \in Nat
    BY ClientTypes
  <2> QED
    BY <1>1, <2>1 DEF IInv, ClientInv
<1>6. ClientInv'
  BY <1>1, <1>2, <1>3, <1>4, <1>5 DEF IInv, ClientInv
<1>7. ReceiverInv'
  BY <1>1 DEF IInv, ReceiverInv, ReceiverWakes
<1> QED
  BY <1>1, <1>6, <1>7

LEMMA PublishedKeeps ==
  ASSUME IInv, UNCHANGED <<use, brokerMsgId, nextMsgId>>, NEW c \in Clients,
         NEW m \in DownMessages(brokerMsgId), m.type = "PUBLISH", Published(c, m)
  PROVE  ClientInv' /\ ReceiverInv' /\ up' = up
<1>1. /\ receiver' = [receiver EXCEPT ![c] = IF @ = Waits THEN m.id ELSE @]
      /\ UNCHANGED <<state, call, ping, granted, acked, up>>
  BY DEF Published
<1>2. brokerMsgId \in Nat /\ receiver \in [Clients -> Away .. brokerMsgId]
  BY DEF IInv, BrokerInv, ReceiverInv
<1>3. m.id \in 0 .. brokerMsgId
  BY <1>2 DEF DownMessages
<1>4. receiver' \in [Clients -> Away .. brokerMsgId]
  BY <1>1, <1>2, <1>3 DEF Away
<1>5. \A d \in Clients : receiver'[d] = Waits => receiver[d] = Waits
  BY <1>1, <1>2
<1> QED
  BY <1>1, <1>4, <1>5 DEF IInv, ClientInv, Calls, ReceiverInv, ReceiverWakes

LEMMA AnswerToConnectKeeps ==
  ASSUME IInv, UNCHANGED <<use, brokerMsgId, nextMsgId>>, NEW c \in Clients, NEW m,
         state[c] = "disconnected", AnswerToConnect(c, m)
  PROVE  ClientInv' /\ ReceiverInv' /\ up' = up
<1>1. /\ call' = [call EXCEPT ![c] = NoCall]
      /\ state' = [state EXCEPT ![c] = IF m.type = "CONNACK" THEN "connected" ELSE @]
      /\ UNCHANGED <<ping, receiver, granted, acked, up>>
  BY DEF AnswerToConnect
<1>2. /\ DOMAIN call' = Clients /\ call' = [d \in Clients |-> call'[d]]
      /\ \A d \in Clients : call'[d] \in Calls(d)'
  BY <1>1, CallChange, NoCallType, ClientTypes DEF IInv
<1>3. /\ state' \in [Clients -> {"disconnected", "connected", "crashed"}]
      /\ \A d \in Clients : state[d] = "connected" => state'[d] = "connected"
  BY <1>1 DEF IInv, ClientInv
<1>4. ClientInv'
  BY <1>1, <1>2, <1>3 DEF IInv, ClientInv
<1>5. ReceiverInv'
  BY <1>1, <1>3 DEF IInv, ReceiverInv, ReceiverWakes
<1> QED
  BY <1>1, <1>4, <1>5

LEMMA ClientReceiveKeeps ==
  ASSUME IInv, UNCHANGED brokerVars, NEW c \in Clients, ClientReceive(c)
  PROVE  WaysInv' /\ ClientInv' /\ ReceiverInv'
<1> DEFINE m == Head(down[c])
<1>1. down[c] # << >> /\ down' = Taken(down, c) /\ UNCHANGED <<use, nextMsgId, brokerMsgId>>
  BY DEF ClientReceive, brokerVars
<1>2. Holds(Taken(down, c), DownMessages(brokerMsgId)) /\ m \in DownMessages(brokerMsgId)
  BY <1>1, TakenHolds, ClientTypes
<1>3. ClientInv' /\ ReceiverInv' /\ up' = up
  <2>1. CASE state[c] = "disconnected"
    <3>1. AnswerToConnect(c, m)
      BY <2>1 DEF ClientReceive
    <3> HIDE DEF m
    <3> QED
      BY <1>1, <2>1, <3>1, AnswerToConnectKeeps
  <2>2. CASE state[c] # "disconnected" /\ m.type = "PUBLISH"
    <3>1. Published(c, m)
      BY <2>2 DEF ClientReceive
    <3> HIDE DEF m
    <3> QED
      BY <1>1, <1>2, <2>2, <3>1, PublishedKeeps
  <2>3. CASE state[c] # "disconnected" /\ m.type = "DISCONNECT"
    <3>1. Noticed(c) /\ UNCHANGED <<granted, acked, up>>
      BY <2>3 DEF ClientReceive
    <3> QED
      BY <1>1, <3>1, NoticedKeeps
  <2>4. CASE state[c] # "disconnected" /\ m.type \notin {"PUBLISH", "DISCONNECT"}
    <3>1. Acknowledged(c, m)
      BY <2>4 DEF ClientReceive
    <3> HIDE DEF m
    <3> QED
      BY <1>1, <3>1, AcknowledgedKeeps
  <2> QED
    BY <2>1, <2>2, <2>3, <2>4
<1>4. WaysInv'
  BY <1>1, <1>2, <1>3 DEF IInv, WaysInv, Holds
<1> QED
  BY <1>3, <1>4

LEMMA ClientStepKeeps ==
  ASSUME IInv, ClientStep
  PROVE  IInv'
<1>1. UNCHANGED brokerVars
  BY DEF ClientStep
<1>2. WaysInv' /\ ClientInv' /\ ReceiverInv'
  BY <1>1, BeginKeeps, RetryKeeps, PingKeeps, AwaitMessageKeeps, AckReceiveKeeps,
     ClientReceiveKeeps
  DEF ClientStep, ClientNext
<1>3. BrokerInv'
  BY <1>1 DEF IInv, BrokerInv, brokerVars, Injective
<1> QED
  BY <1>2, <1>3 DEF IInv
-----------------------------------------------------------------------------
(* Steps of the broker *)

BrokerWays(n) == Holds(down', DownMessages(n))

LEMMA ReplyKeeps ==
  ASSUME IInv, NEW c \in Clients, NEW type \in DownTypes \ {"PUBLISH"}, NEW id \in Nat,
         Reply(c, type, id)
  PROVE  BrokerWays(brokerMsgId)
<1>1. Message(type, id) \in DownMessages(brokerMsgId)
  BY DEF Message, DownMessages
<1>2. use \in Uses /\ Holds(down, DownMessages(brokerMsgId))
  BY DEF IInv, WaysInv
<1> QED
  BY <1>1, <1>2, SentHolds DEF Reply, BrokerWays

LEMMA SlotsOfType ==
  ASSUME BrokerInv, NEW c \in Clients
  PROVE  /\ SlotsOf(c) \subseteq Slots
         /\ SlotsOf(c) # {} => Least(SlotsOf(c)) \in Slots
  BY LeastIn, BrokerAssumption DEF SlotsOf

LEMMA AnswerConnectKeeps ==
  ASSUME IInv, NEW c \in Clients, AnswerConnect(c)
  PROVE  BrokerInv' /\ BrokerWays(brokerMsgId) /\ brokerMsgId' = brokerMsgId
<1>1. UNCHANGED <<last, forward, brokerMsgId, taken>>
  BY DEF AnswerConnect
<1>2. CASE SlotFor(c) = {}
  <2>1. Reply(c, "REJECTED", 0) /\ UNCHANGED <<endpoint, subscribed>>
    BY <1>2 DEF AnswerConnect
  <2>2. BrokerWays(brokerMsgId)
    BY <2>1, ReplyKeeps DEF DownTypes
  <2> QED
    BY <1>1, <2>1, <2>2 DEF IInv, BrokerInv, Injective
<1>3. CASE SlotFor(c) # {}
  <2> DEFINE i == Least(SlotFor(c))
  <2>1. SlotFor(c) \subseteq Slots /\ i \in SlotFor(c)
    <3>1. SlotFor(c) \subseteq Slots
      BY DEF SlotFor, SlotsOf
    <3> QED
      BY <1>3, <3>1, LeastIn, BrokerAssumption
  <2>2. /\ endpoint' = [endpoint EXCEPT ![i] = c]
        /\ subscribed' = subscribed \ {i}
        /\ Reply(c, "CONNACK", 0)
    BY <1>3 DEF AnswerConnect
  <2> HIDE DEF i
  <2>3. BrokerWays(brokerMsgId)
    BY <2>2, ReplyKeeps DEF DownTypes
  <2>4. endpoint \in [Slots -> Clients \cup {NoClient}] /\ Injective
    BY DEF IInv, BrokerInv
  <2>5. \A j \in Slots : endpoint[j] = c => j = i
    BY <2>1, <2>4, BrokerAssumption DEF SlotFor, SlotsOf, Injective
  <2>6. endpoint' \in [Slots -> Clients \cup {NoClient}] /\ Injective'
    BY <2>1, <2>2, <2>4, <2>5 DEF Injective
  <2> QED
    BY <1>1, <2>2, <2>3, <2>6 DEF IInv, BrokerInv
<1> QED
  BY <1>2, <1>3

LEMMA AnswerDisconnectKeeps ==
  ASSUME IInv, NEW i \in Slots, AnswerDisconnect(i)
  PROVE  BrokerInv' /\ BrokerWays(brokerMsgId) /\ brokerMsgId' = brokerMsgId
<1>1. /\ endpoint' = [endpoint EXCEPT ![i] = NoClient]
      /\ subscribed' = subscribed \ {i}
      /\ UNCHANGED <<down, last, forward, brokerMsgId, taken>>
  BY DEF AnswerDisconnect
<1>2. endpoint' \in [Slots -> Clients \cup {NoClient}] /\ Injective'
  BY <1>1 DEF IInv, BrokerInv, Injective
<1>3. BrokerWays(brokerMsgId)
  BY <1>1 DEF BrokerWays, IInv, WaysInv
<1> QED
  BY <1>1, <1>2, <1>3 DEF IInv, BrokerInv

LEMMA AnswerSubscribeKeeps ==
  ASSUME IInv, NEW c \in Clients, NEW i \in Slots, NEW m \in UpMessages,
         AnswerSubscribe(c, i, m)
  PROVE  BrokerInv' /\ BrokerWays(brokerMsgId) /\ brokerMsgId' = brokerMsgId
<1>1. /\ subscribed' = IF m.type = "SUBSCRIBE" THEN subscribed \cup {i} ELSE subscribed \ {i}
      /\ Reply(c, IF m.type = "SUBSCRIBE" THEN "SUBACK" ELSE "UNSUBACK", m.id)
      /\ UNCHANGED <<endpoint, last, forward, brokerMsgId, taken>>
  BY DEF AnswerSubscribe
<1>2. BrokerWays(brokerMsgId)
  BY <1>1, ReplyKeeps DEF DownTypes, UpMessages
<1> QED
  BY <1>1, <1>2 DEF IInv, BrokerInv, Injective

LEMMA AnswerUnchangedKeeps ==
  ASSUME IInv, NEW c \in Clients, NEW m \in UpMessages, AnswerUnknown(c) \/ AnswerOther(c, m)
  PROVE  BrokerInv' /\ BrokerWays(brokerMsgId) /\ brokerMsgId' = brokerMsgId
<1>1. /\ UNCHANGED brokerVars
      /\ \/ Reply(c, "DISCONNECT", 0)
         \/ Reply(c, IF m.type = "REGISTER" THEN "REGACK" ELSE "PINGRESP", m.id)
  BY DEF AnswerUnknown, AnswerOther
<1>2. BrokerWays(brokerMsgId)
  BY <1>1, ReplyKeeps DEF DownTypes, UpMessages
<1> QED
  BY <1>1, <1>2 DEF IInv, BrokerInv, Injective, brokerVars

\* a forward() goes on to the next connection
LEMMA ForwardToKeeps ==
  ASSUME IInv, NEW f \in Forwards, NEW source \in Slots, NEW i \in Nat, NEW way,
         Holds(way, DownMessages(brokerMsgId)), ForwardTo(f, source, i, way)
  PROVE  /\ brokerMsgId' \in Nat /\ brokerMsgId <= brokerMsgId'
         /\ forward' \in [Forwards -> Jobs(brokerMsgId')]
         /\ BrokerWays(brokerMsgId')
<1>1. /\ brokerMsgId \in Nat /\ forward \in [Forwards -> Jobs(brokerMsgId)]
      /\ endpoint \in [Slots -> Clients \cup {NoClient}] /\ subscribed \subseteq Slots
      /\ use \in Uses
  BY DEF IInv, BrokerInv, WaysInv
<1>2. CASE Targets(source, i) = {}
  <2>1. forward' = [forward EXCEPT ![f] = Idle] /\ down' = way /\ brokerMsgId' = brokerMsgId
    BY <1>2 DEF ForwardTo
  <2> QED
    BY <1>1, <2>1 DEF Jobs, BrokerWays
<1>3. CASE Targets(source, i) # {}
  <2> DEFINE j == Least(Targets(source, i))
             n == brokerMsgId + 1
  <2>1. j \in Slots /\ endpoint[j] \in Clients
    <3>1. Targets(source, i) \subseteq Nat
      BY <1>1, BrokerAssumption DEF Targets
    <3>2. j \in Targets(source, i)
      BY <1>3, <3>1, LeastIn
    <3> QED
      BY <1>1, <3>2 DEF Targets
  <2>2. /\ brokerMsgId' = n
        /\ forward' = [forward EXCEPT ![f] = [to |-> j, from |-> source, id |-> n, retry |-> 0]]
        /\ down' = Sent(way, endpoint[j], Message("PUBLISH", n))
    BY <1>3 DEF ForwardTo
  <2>3. n \in Nat /\ brokerMsgId <= n
    BY <1>1
  <2> HIDE DEF j, n
  <2>4. [to |-> j, from |-> source, id |-> n, retry |-> 0] \in Jobs(n)
    BY <2>1, <2>3, BrokerAssumption DEF Jobs
  <2>5. Jobs(brokerMsgId) \subseteq Jobs(n)
    BY <1>1, <2>3, JobsGrow
  <2>6. forward' \in [Forwards -> Jobs(n)]
    BY <1>1, <2>2, <2>4, <2>5
  <2>7. Holds(way, DownMessages(n))
    BY <1>1, <2>3, HoldsGrows
  <2>8. Message("PUBLISH", n) \in DownMessages(n)
    BY <2>3 DEF Message, DownMessages, DownTypes
  <2>9. BrokerWays(n)
    BY <1>1, <2>1, <2>2, <2>7, <2>8, SentHolds DEF BrokerWays
  <2> QED
    BY <2>2, <2>3, <2>6, <2>9
<1> QED
  BY <1>2, <1>3

LEMMA ForwardAgainKeeps ==
  ASSUME IInv, NEW f \in Forwards, forward[f] # Idle, ForwardAgain(f)
  PROVE  /\ brokerMsgId' \in Nat /\ brokerMsgId <= brokerMsgId'
         /\ forward' \in [Forwards -> Jobs(brokerMsgId')]
         /\ BrokerWays(brokerMsgId')
<1> DEFINE job == forward[f]
<1>1. /\ brokerMsgId \in Nat /\ forward \in [Forwards -> Jobs(brokerMsgId)]
      /\ endpoint \in [Slots -> Clients \cup {NoClient}]
      /\ use \in Uses /\ Holds(down, DownMessages(brokerMsgId))
  BY DEF IInv, BrokerInv, WaysInv
<1>2. job \in [to : Slots, from : Slots, id : 0 .. brokerMsgId, retry : 0 .. FORWARD_RETRY]
  BY <1>1 DEF Jobs
<1>3. job.to \in Slots /\ job.to \in Nat /\ job.from \in Slots
  BY <1>2, BrokerAssumption
<1>4. CASE endpoint[job.to] = NoClient \/ job.retry = FORWARD_RETRY
  <2>1. ForwardTo(f, job.from, job.to, down)
    BY <1>4 DEF ForwardAgain
  <2> HIDE DEF job
  <2> QED
    BY <1>1, <1>3, <2>1, ForwardToKeeps
<1>5. CASE ~(endpoint[job.to] = NoClient \/ job.retry = FORWARD_RETRY)
  <2>1. /\ forward' = [forward EXCEPT ![f].retry = @ + 1]
        /\ down' = Sent(down, endpoint[job.to], Message("PUBLISH", job.id))
        /\ brokerMsgId' = brokerMsgId
    BY <1>5 DEF ForwardAgain
  <2>2. Message("PUBLISH", job.id) \in DownMessages(brokerMsgId)
    BY <1>1, <1>2 DEF Message, DownMessages, DownTypes
  <2>3. BrokerWays(brokerMsgId)
    <3>1. endpoint[job.to] \in Clients
      BY <1>1, <1>3, <1>5
    <3> QED
      BY <1>1, <2>1, <2>2, <3>1, SentHolds DEF BrokerWays
  <2>4. [job EXCEPT !.retry = @ + 1] \in Jobs(brokerMsgId)
    <3> HIDE DEF job
    <3> QED
      BY <1>1, <1>2, <1>5, BrokerAssumption DEF Jobs
  <2>5. forward' = [forward EXCEPT ![f] = [job EXCEPT !.retry = @ + 1]]
    BY <2>1
  <2>6. forward' \in [Forwards -> Jobs(brokerMsgId)]
    <3> HIDE DEF job
    <3> QED
      BY <1>1, <2>4, <2>5
  <2> QED
    BY <1>1, <2>1, <2>3, <2>6
<1> QED
  BY <1>4, <1>5

\* what AnswerPuback, AnswerPublish and ForwardTimeout leave of the invariant
LEMMA ForwardChange ==
  ASSUME IInv, UNCHANGED <<endpoint, subscribed>>, brokerMsgId' \in Nat,
         forward' \in [Forwards -> Jobs(brokerMsgId')],
         last' \in [slot : Slots \cup {0}, id : Nat], taken' \in Seq(Clients \X Nat)
  PROVE  BrokerInv'
  BY DEF IInv, BrokerInv, Injective, Jobs

LEMMA AnswerPubackKeeps ==
  ASSUME IInv, NEW i \in Slots, NEW m \in UpMessages, AnswerPuback(i, m)
  PROVE  BrokerInv' /\ brokerMsgId <= brokerMsgId' /\ BrokerWays(brokerMsgId')
<1>1. /\ UNCHANGED <<endpoint, subscribed, last, taken>>
      /\ \/ UNCHANGED <<forward, down, brokerMsgId>>
         \/ \E f \in Forwards : forward[f].to = i /\ ForwardAgain(f)
  BY DEF AnswerPuback
<1>2. /\ last \in [slot : Slots \cup {0}, id : Nat] /\ taken \in Seq(Clients \X Nat)
      /\ brokerMsgId \in Nat /\ forward \in [Forwards -> Jobs(brokerMsgId)]
      /\ Holds(down, DownMessages(brokerMsgId))
  BY DEF IInv, BrokerInv, WaysInv
<1>3. /\ brokerMsgId' \in Nat /\ brokerMsgId <= brokerMsgId'
      /\ forward' \in [Forwards -> Jobs(brokerMsgId')]
      /\ BrokerWays(brokerMsgId')
  <2>1. CASE UNCHANGED <<forward, down, brokerMsgId>>
    BY <1>2, <2>1 DEF BrokerWays
  <2>2. ASSUME NEW f \in Forwards, forward[f].to = i, ForwardAgain(f)
        PROVE  /\ brokerMsgId' \in Nat /\ brokerMsgId <= brokerMsgId'
               /\ forward' \in [Forwards -> Jobs(brokerMsgId')]
               /\ BrokerWays(brokerMsgId')
    <3>1. forward[f] # Idle
      BY <2>2, BrokerAssumption DEF Idle
    <3> QED
      BY <2>2, <3>1, ForwardAgainKeeps
  <2> QED
    BY <1>1, <2>1, <2>2
<1> QED
  BY <1>1, <1>2, <1>3, ForwardChange

LEMMA AnswerPublishKeeps ==
  ASSUME IInv, NEW c \in Clients, NEW i \in Slots, NEW m \in UpMessages, AnswerPublish(c, i, m)
  PROVE  BrokerInv' /\ brokerMsgId <= brokerMsgId' /\ BrokerWays(brokerMsgId')
<1> DEFINE acknowledged == Sent(down, c, Message("PUBACK", m.id))
           waiting == {f \in Forwards : forward[f] = Idle}
<1>1. /\ last \in [slot : Slots \cup {0}, id : Nat] /\ taken \in Seq(Clients \X Nat)
      /\ brokerMsgId \in Nat /\ forward \in [Forwards -> Jobs(brokerMsgId)]
      /\ use \in Uses /\ Holds(down, DownMessages(brokerMsgId)) /\ m.id \in Nat
  BY DEF IInv, BrokerInv, WaysInv, UpMessages
<1>2. Holds(acknowledged, DownMessages(brokerMsgId))
  <2>1. Message("PUBACK", m.id) \in DownMessages(brokerMsgId)
    BY <1>1 DEF Message, DownMessages, DownTypes
  <2> QED
    BY <1>1, <2>1, SentHolds
<1>3. UNCHANGED <<endpoint, subscribed>>
  BY DEF AnswerPublish
<1>4. CASE IsDuplicate(i, m)
  <2>1. down' = acknowledged /\ UNCHANGED <<last, forward, brokerMsgId, taken>>
    BY <1>4 DEF AnswerPublish
  <2>2. BrokerWays(brokerMsgId')
    BY <1>2, <2>1 DEF BrokerWays
  <2> QED
    BY <1>1, <1>3, <2>1, <2>2, ForwardChange
<1>5. CASE ~IsDuplicate(i, m)
  <2>1. /\ last' = [slot |-> i, id |-> m.id]
        /\ taken' = Append(taken, <<c, m.id>>)
        /\ IF waiting = {}
           THEN down' = acknowledged /\ UNCHANGED <<forward, brokerMsgId>>
           ELSE ForwardTo(CHOOSE f \in waiting : TRUE, i, 0, acknowledged)
    BY <1>5 DEF AnswerPublish
  <2>2. /\ last' \in [slot : Slots \cup {0}, id : Nat]
        /\ taken' \in Seq(Clients \X Nat)
    BY <1>1, <2>1
  <2>3. CASE waiting = {}
    <3>1. down' = acknowledged /\ UNCHANGED <<forward, brokerMsgId>>
      BY <2>1, <2>3
    <3>2. BrokerWays(brokerMsgId')
      BY <1>2, <3>1 DEF BrokerWays
    <3> QED
      BY <1>1, <1>3, <2>2, <3>1, <3>2, ForwardChange
  <2>4. CASE waiting # {}
    <3> DEFINE f == CHOOSE f \in waiting : TRUE
    <3>1. f \in Forwards
      BY <2>4
    <3>2. ForwardTo(f, i, 0, acknowledged)
      BY <2>1, <2>4
    <3> HIDE DEF f, acknowledged
    <3>3. /\ brokerMsgId' \in Nat /\ brokerMsgId <= brokerMsgId'
          /\ forward' \in [Forwards -> Jobs(brokerMsgId')]
          /\ BrokerWays(brokerMsgId')
      BY <1>2, <3>1, <3>2, ForwardToKeeps
    <3> QED
      BY <1>3, <2>2, <3>3, ForwardChange
  <2> QED
    BY <2>3, <2>4
<1> QED
  BY <1>4, <1>5

\* a step of the broker is none of the clients
LEMMA BrokerStepKeeps ==
  ASSUME IInv, UNCHANGED <<clientVars, use>>, Holds(up', UpMessages),
         BrokerInv', brokerMsgId <= brokerMsgId', BrokerWays(brokerMsgId')
  PROVE  IInv'
<1>1. WaysInv'
  BY DEF IInv, WaysInv, BrokerWays, Holds
<1>2. ClientInv'
  BY DEF IInv, ClientInv, Calls, clientVars
<1>3. ReceiverInv'
  <2>1. brokerMsgId \in Nat /\ brokerMsgId' \in Nat /\ receiver' = receiver
        /\ receiver \in [Clients -> Away .. brokerMsgId]
    BY DEF IInv, BrokerInv, ReceiverInv, clientVars
  <2>2. receiver' \in [Clients -> Away .. brokerMsgId']
    BY <2>1 DEF Away
  <2> QED
    BY <2>2 DEF IInv, ReceiverInv, ReceiverWakes, clientVars
<1> QED
  BY <1>1, <1>2, <1>3 DEF IInv

LEMMA BrokerReceiveKeeps ==
  ASSUME IInv, UNCHANGED clientVars, NEW c \in Clients, BrokerReceive(c)
  PROVE  IInv'
<1> DEFINE m == Head(up[c])
           i == Least(SlotsOf(c))
<1>1. up[c] # << >> /\ up' = Taken(up, c) /\ use' = use
  BY DEF BrokerReceive
<1>2. use \in Uses /\ Holds(up, UpMessages) /\ BrokerInv /\ brokerMsgId \in Nat
  BY DEF IInv, WaysInv, BrokerInv
<1>3. Holds(up', UpMessages) /\ m \in UpMessages
  <2>1. Holds(Taken(up, c), UpMessages) /\ m \in UpMessages
    BY <1>1, <1>2, TakenHolds
  <2> HIDE DEF m
  <2> QED
    BY <1>1, <2>1 DEF Holds
<1>4. SlotsOf(c) # {} => i \in Slots
  BY <1>2, SlotsOfType
<1>5. BrokerInv' /\ brokerMsgId <= brokerMsgId' /\ BrokerWays(brokerMsgId')
  <2>1. CASE m.type = "CONNECT"
    <3>1. AnswerConnect(c)
      BY <2>1 DEF BrokerReceive
    <3> QED
      BY <1>2, <3>1, AnswerConnectKeeps
  <2>2. CASE m.type # "CONNECT" /\ SlotsOf(c) = {}
    <3>1. AnswerUnknown(c)
      BY <2>2 DEF BrokerReceive
    <3> QED
      BY <1>2, <1>3, <3>1, AnswerUnchangedKeeps
  <2>3. CASE m.type = "DISCONNECT" /\ SlotsOf(c) # {}
    <3>1. AnswerDisconnect(i)
      BY <2>3 DEF BrokerReceive
    <3> HIDE DEF i
    <3> QED
      BY <1>2, <1>4, <2>3, <3>1, AnswerDisconnectKeeps
  <2>4. CASE m.type \in {"SUBSCRIBE", "UNSUBSCRIBE"} /\ SlotsOf(c) # {}
    <3>1. AnswerSubscribe(c, i, m)
      BY <2>4 DEF BrokerReceive
    <3> HIDE DEF i, m
    <3> QED
      BY <1>2, <1>3, <1>4, <2>4, <3>1, AnswerSubscribeKeeps
  <2>5. CASE m.type = "PUBLISH" /\ SlotsOf(c) # {}
    <3>1. AnswerPublish(c, i, m)
      BY <2>5 DEF BrokerReceive
    <3> HIDE DEF i, m
    <3> QED
      BY <1>3, <1>4, <2>5, <3>1, AnswerPublishKeeps
  <2>6. CASE m.type = "PUBACK" /\ SlotsOf(c) # {}
    <3>1. AnswerPuback(i, m)
      BY <2>6 DEF BrokerReceive
    <3> HIDE DEF i, m
    <3> QED
      BY <1>3, <1>4, <2>6, <3>1, AnswerPubackKeeps
  <2>7. CASE m.type \in {"REGISTER", "PINGREQ"} /\ SlotsOf(c) # {}
    <3>1. AnswerOther(c, m)
      BY <2>7 DEF BrokerReceive
    <3> HIDE DEF m
    <3> QED
      BY <1>2, <1>3, <3>1, AnswerUnchangedKeeps
  <2>8. m.type \in UpTypes
    BY <1>3 DEF UpMessages
  <2> HIDE DEF m
  <2> QED
    BY <2>1, <2>2, <2>3, <2>4, <2>5, <2>6, <2>7, <2>8 DEF UpTypes
<1> QED
  BY <1>1, <1>3, <1>5, BrokerStepKeeps

LEMMA ForwardTimeoutKeeps ==
  ASSUME IInv, UNCHANGED clientVars, NEW f \in Forwards, ForwardTimeout(f)
  PROVE  IInv'
<1>1. /\ forward[f] # Idle /\ ForwardAgain(f)
      /\ UNCHANGED <<endpoint, subscribed, last, taken, use, up>>
  BY DEF ForwardTimeout
<1>2. /\ brokerMsgId' \in Nat /\ brokerMsgId <= brokerMsgId'
      /\ forward' \in [Forwards -> Jobs(brokerMsgId')]
      /\ BrokerWays(brokerMsgId')
  BY <1>1, ForwardAgainKeeps
<1>3. BrokerInv'
  BY <1>1, <1>2, ForwardChange DEF IInv, BrokerInv
<1>4. Holds(up', UpMessages)
  BY <1>1 DEF IInv, WaysInv, Holds
<1> QED
  BY <1>1, <1>2, <1>3, <1>4, BrokerStepKeeps

LEMMA LoseKeeps ==
  ASSUME IInv, UNCHANGED <<clientVars, brokerVars>>, NEW c \in Clients, Lose(c)
  PROVE  IInv'
<1>1. /\ use \in Uses /\ Holds(up, UpMessages) /\ Holds(down, DownMessages(brokerMsgId))
      /\ BrokerInv /\ brokerMsgId \in Nat
  BY DEF IInv, WaysInv, BrokerInv
<1>2. use' = use /\ brokerMsgId' = brokerMsgId
  BY DEF Lose, brokerVars
<1>3. Holds(up', UpMessages) /\ BrokerWays(brokerMsgId)
  <2>1. CASE up[c] # << >> /\ up' = Taken(up, c) /\ UNCHANGED <<use, down>>
    <3>1. Holds(Taken(up, c), UpMessages)
      BY <1>1, <2>1, TakenHolds
    <3> QED
      BY <1>1, <2>1, <3>1 DEF BrokerWays, Holds
  <2>2. CASE down[c] # << >> /\ down' = Taken(down, c) /\ UNCHANGED <<use, up>>
    <3>1. Holds(Taken(down, c), DownMessages(brokerMsgId))
      BY <1>1, <2>2, TakenHolds
    <3> QED
      BY <1>1, <2>2, <3>1 DEF BrokerWays, Holds
  <2> QED
    BY <2>1, <2>2 DEF Lose
<1>4. BrokerInv'
  BY <1>1 DEF BrokerInv, Injective, brokerVars
<1> QED
  BY <1>1, <1>2, <1>3, <1>4, BrokerStepKeeps
-----------------------------------------------------------------------------
LEMMA InitInv == Init => IInv
<1> SUFFICES ASSUME Init PROVE IInv
  OBVIOUS
<1>1. use \in Uses /\ \A c \in Clients : use[c].ids \in Nat /\ use[c].room \in Nat \ {0}
  BY UseOf DEF Init, NetworkInit
<1>2. WaysInv
  BY <1>1 DEF Init, NetworkInit, WaysInv, Holds
<1>3. ClientInv
  <2>1. \A c \in Clients : NoCall \in Calls(c)
    BY <1>1, NoCallType
  <2> QED
    BY <1>1, <2>1, ClientAssumption DEF Init, ClientInit, ClientInv, Sleeps
<1>4. ReceiverInv
  BY DEF Init, ClientInit, BrokerInit, ReceiverInv, ReceiverWakes, Away, Waits
<1>5. BrokerInv
  BY DEF Init, BrokerInit, BrokerInv, Injective, Jobs
<1> QED
  BY <1>2, <1>3, <1>4, <1>5 DEF IInv

LEMMA NextKeeps == IInv /\ [Next]_vars => IInv'
<1> SUFFICES ASSUME IInv, [Next]_vars PROVE IInv'
  OBVIOUS
<1>1. CASE ClientStep
  BY <1>1, ClientStepKeeps
<1>2. CASE UNCHANGED clientVars /\ \E c \in Clients : BrokerReceive(c)
  BY <1>2, BrokerReceiveKeeps
<1>3. CASE UNCHANGED clientVars /\ \E f \in Forwards : ForwardTimeout(f)
  BY <1>3, ForwardTimeoutKeeps
<1>4. CASE UNCHANGED <<clientVars, brokerVars>> /\ \E c \in Clients : Lose(c)
  BY <1>4, LoseKeeps
<1>5. CASE UNCHANGED vars
  <2>1. UNCHANGED <<clientVars, use, up, down>> /\ UNCHANGED brokerVars
    BY <1>5 DEF vars, networkVars
  <2>2. BrokerInv' /\ brokerMsgId' = brokerMsgId /\ brokerMsgId \in Nat
    BY <2>1 DEF IInv, BrokerInv, Injective, brokerVars
  <2>3. Holds(up', UpMessages) /\ BrokerWays(brokerMsgId)
    BY <2>1 DEF IInv, WaysInv, BrokerWays, Holds
  <2> QED
    BY <2>1, <2>2, <2>3, BrokerStepKeeps
<1> QED
  BY <1>1, <1>2, <1>3, <1>4, <1>5 DEF Next

LEMMA Invariant == Spec => []IInv
  BY InitInv, NextKeeps, PTL DEF Spec

\* A client never has two connections at the broker, however often it connects, whatever is
\* lost and sent again, and however many clients compete (receive, CONNECT).
THEOREM MqttOneConnection == Spec => []OneConnection
<1>1. ASSUME IInv, NEW c \in Clients
      PROVE  Cardinality(SlotsOf(c)) <= 1
  <2>1. SlotsOf(c) \subseteq Slots /\ IsFiniteSet(Slots)
    BY BrokerAssumption DEF SlotsOf
  <2>2. IsFiniteSet(SlotsOf(c))
    BY <2>1, FS_Subset
  <2>3. CASE SlotsOf(c) = {}
    BY <2>3, FS_EmptySet
  <2>4. CASE SlotsOf(c) # {}
    <3>1. PICK i : i \in SlotsOf(c)
      BY <2>4
    <3>2. c # NoClient /\ Injective
      BY <1>1, BrokerAssumption DEF IInv, BrokerInv
    <3>3. ASSUME NEW j \in SlotsOf(c)
          PROVE  j = i
      <4>1. i \in Slots /\ j \in Slots /\ endpoint[i] = c /\ endpoint[j] = c
        BY <3>1, <3>3 DEF SlotsOf
      <4> QED
        BY <3>2, <4>1 DEF Injective
    <3>4. SlotsOf(c) = {i}
      BY <3>1, <3>3
    <3> QED
      BY <2>2, <3>4, FS_Singleton
  <2> QED
    BY <2>3, <2>4
<1>2. IInv => OneConnection
  BY <1>1 DEF OneConnection
<1> QED
  BY Invariant, <1>2, PTL

\* No user waits for a message on a connection that is given up, neither by disconnect(),
\* nor by ping() or receive() (disconnectInternal).
THEOREM MqttReceiverWakes == Spec => []ReceiverWakes
<1>1. IInv => ReceiverWakes
  BY DEF IInv, ReceiverInv
<1> QED
  BY Invariant, <1>1, PTL

\* Every variable keeps its type: no request is sent more often than allowed, no message
\* that a user receives has an id the broker has not given.
THEOREM MqttTypeOK == Spec => []TypeOK
<1>1. ASSUME IInv PROVE TypeOK
  <2>1. use \in Uses
    BY <1>1 DEF IInv, WaysInv
  <2>2. ASSUME NEW way, NEW S, Holds(way, S), \A m \in S : m.type \in MessageTypes /\ m.id \in Nat
        PROVE  \A m \in MessagesOf(way) : m.type \in MessageTypes /\ m.id \in Nat
    <3>1. ASSUME NEW c \in Clients, NEW k \in DOMAIN way[c]
          PROVE  way[c][k] \in S
      BY <2>2 DEF Holds
    <3> QED
      BY <2>2, <3>1 DEF MessagesOf
  <2>3. /\ \A m \in MessagesOf(up) : m.type \in MessageTypes /\ m.id \in Nat
        /\ \A m \in MessagesOf(down) : m.type \in MessageTypes /\ m.id \in Nat
    <3>1. \A m \in UpMessages : m.type \in MessageTypes /\ m.id \in Nat
      BY DEF UpMessages, UpTypes, MessageTypes
    <3>2. \A m \in DownMessages(brokerMsgId) : m.type \in MessageTypes /\ m.id \in Nat
      BY DEF DownMessages, DownTypes, MessageTypes
    <3> QED
      BY <1>1, <2>2, <3>1, <3>2 DEF IInv, WaysInv
  <2>4. \A c \in Clients : Len(up[c]) <= use[c].room /\ Len(down[c]) <= use[c].room
    BY <1>1 DEF IInv, WaysInv, Holds
  <2>5. \A f \in Forwards :
          /\ {forward[f].to, forward[f].from} \subseteq Slots \cup {0}
          /\ forward[f].id \in 0 .. brokerMsgId
          /\ forward[f].retry \in 0 .. FORWARD_RETRY
    <3>1. brokerMsgId \in Nat /\ forward \in [Forwards -> Jobs(brokerMsgId)]
      BY <1>1 DEF IInv, BrokerInv
    <3> QED
      BY <3>1, BrokerAssumption DEF Jobs, Idle
  <2>6. Range(taken) \subseteq Clients \X Nat
    BY <1>1 DEF IInv, BrokerInv, Range
  <2>7. /\ last.slot \in Slots \cup {0} /\ last.id \in Nat /\ subscribed \subseteq Slots
        /\ endpoint \in [Slots -> Clients \cup {NoClient}]
    BY <1>1 DEF IInv, BrokerInv
  <2> QED
    BY <1>1, <2>1, <2>3, <2>4, <2>5, <2>6, <2>7
    DEF IInv, ClientInv, ReceiverInv, TypeOK
<1>2. IInv => TypeOK
  BY <1>1
<1> QED
  BY Invariant, <1>2, PTL
-----------------------------------------------------------------------------
(* What is on a way *)

LEMMA RangeAppend ==
  ASSUME NEW S, NEW s \in Seq(S), NEW m \in S
  PROVE  Range(Append(s, m)) = Range(s) \cup {m}
<1>1. /\ DOMAIN s = 1 .. Len(s) /\ Len(s) \in Nat
      /\ DOMAIN Append(s, m) = 1 .. Len(s) + 1
      /\ \A k \in 1 .. Len(s) : Append(s, m)[k] = s[k]
      /\ Append(s, m)[Len(s) + 1] = m
  BY AppendProperties
<1>2. \A k \in 1 .. Len(s) + 1 : k \in 1 .. Len(s) \/ k = Len(s) + 1
  BY <1>1
<1>3. 1 .. Len(s) \subseteq 1 .. Len(s) + 1 /\ Len(s) + 1 \in 1 .. Len(s) + 1
  BY <1>1
<1>4. Range(Append(s, m)) \subseteq Range(s) \cup {m}
  BY <1>1, <1>2, Zenon DEF Range
<1>5. Range(s) \cup {m} \subseteq Range(Append(s, m))
  BY <1>1, <1>3, Zenon DEF Range
<1> QED
  BY <1>4, <1>5

LEMMA RangeTail ==
  ASSUME NEW S, NEW s \in Seq(S), s # << >>
  PROVE  /\ Range(Tail(s)) \subseteq Range(s)
         /\ Range(s) = {Head(s)} \cup Range(Tail(s))
<1>1. /\ DOMAIN s = 1 .. Len(s) /\ Len(s) \in Nat \ {0} /\ Head(s) = s[1]
      /\ DOMAIN Tail(s) = 1 .. Len(s) - 1
      /\ \A k \in 1 .. Len(s) - 1 : Tail(s)[k] = s[k + 1]
  BY HeadTailProperties
<1>2. ASSUME NEW x \in Range(s)
      PROVE  x \in {Head(s)} \cup Range(Tail(s))
  <2>1. PICK k \in 1 .. Len(s) : x = s[k]
    BY <1>1 DEF Range
  <2>2. k = 1 \/ (k - 1 \in 1 .. Len(s) - 1 /\ Tail(s)[k - 1] = s[k])
    BY <1>1
  <2> QED
    BY <1>1, <2>1, <2>2 DEF Range
<1>3. ASSUME NEW x \in Range(Tail(s))
      PROVE  x \in Range(s)
  <2>1. PICK k \in 1 .. Len(s) - 1 : x = s[k + 1]
    BY <1>1 DEF Range
  <2>2. k + 1 \in 1 .. Len(s)
    BY <1>1
  <2> QED
    BY <1>1, <2>1, <2>2 DEF Range
<1>4. Head(s) \in Range(s)
  BY <1>1 DEF Range
<1> QED
  BY <1>2, <1>3, <1>4

LEMMA SentChange ==
  ASSUME use \in Uses, NEW S, NEW way, Holds(way, S), NEW c \in Clients, NEW m \in S
  PROVE  /\ \A d \in Clients \ {c} : Sent(way, c, m)[d] = way[d]
         /\ Sent(way, c, m)[c] \in {way[c], Append(way[c], m)}
         /\ \A d \in Clients : Range(Sent(way, c, m)[d]) \subseteq
              Range(way[d]) \cup (IF d = c THEN {m} ELSE {})
<1>1. /\ \A d \in Clients \ {c} : Sent(way, c, m)[d] = way[d]
      /\ Sent(way, c, m)[c] \in {way[c], Append(way[c], m)}
  BY DEF Holds, Sent
<1>2. way[c] \in Seq(S)
  BY DEF Holds
<1>3. Range(Append(way[c], m)) = Range(way[c]) \cup {m}
  BY <1>2, RangeAppend
<1> QED
  BY <1>1, <1>3

LEMMA TakenChange ==
  ASSUME use \in Uses, NEW S, NEW way, Holds(way, S), NEW c \in Clients, way[c] # << >>
  PROVE  /\ \A d \in Clients \ {c} : Taken(way, c)[d] = way[d]
         /\ Taken(way, c)[c] = Tail(way[c])
         /\ \A d \in Clients : Range(Taken(way, c)[d]) \subseteq Range(way[d])
         /\ Head(way[c]) \in Range(way[c])
<1>1. /\ \A d \in Clients \ {c} : Taken(way, c)[d] = way[d]
      /\ Taken(way, c)[c] = Tail(way[c])
  BY DEF Holds, Taken
<1>2. way[c] \in Seq(S)
  BY DEF Holds
<1>3. Range(Tail(way[c])) \subseteq Range(way[c]) /\ Head(way[c]) \in Range(way[c])
  BY <1>2, RangeTail
<1> QED
  BY <1>1, <1>3
-----------------------------------------------------------------------------
(* Inductive invariants of what a client was granted, of OK and of what is taken *)

\* what register, subscribe, unsubscribe and publish send, and what answers them
Requests == {Request[op] : op \in Exchanges}
Answers == {Answer[op] : op \in Exchanges}

\* a message id is new when a call takes it
IdsInv(c) ==
  /\ \A m \in Range(up[c]) : m.type \in Requests => m.id <= nextMsgId[c]
  /\ \A m \in Range(down[c]) : m.type \in Answers => m.id <= nextMsgId[c]
  /\ call[c].op \in Exchanges => call[c].id = nextMsgId[c]

Wish == [subscribe |-> "yes", unsubscribe |-> "no"]

\* requests that end what was granted
Ends == [yes |-> {"CONNECT", "DISCONNECT", "UNSUBSCRIBE"}, no |-> {"SUBSCRIBE"}]

IsSubscribed(c) == \E i \in subscribed : endpoint[i] = c

\* the broker has what g grants, and nothing that ends it is on the way
Settled(c, g) ==
  /\ g = "yes" <=> IsSubscribed(c)
  /\ \A m \in Range(up[c]) : m.type \notin Ends[g]

\* no message of the types comes after message m
NoneAfter(s, m, types) == \A p, q \in DOMAIN s : p < q /\ s[p] = m => s[q].type \notin types

\* a call that waits for SUBACK or UNSUBACK: it comes from this very request, and whatever
\* ends what it grants was sent before
AwaitsGrant(c, op) ==
  /\ granted[c] = "unknown"
  /\ Message(Answer[op], call[c].id) \in Range(down[c]) => Settled(c, Wish[op])
  /\ NoneAfter(up[c], Message(Request[op], call[c].id), Ends[Wish[op]])

GrantInv(c) ==
  /\ call[c].op \in {"connect", "disconnect"} => granted[c] = "unknown"
  /\ \A op \in DOMAIN Wish : call[c].op = op => AwaitsGrant(c, op)
  /\ \A g \in DOMAIN Ends : granted[c] = g => Settled(c, g)

\* clients send only what their users call
CallsInv(c) ==
  /\ call[c].op \in use[c].calls \cup {"none"}
  /\ \A op \in {"publish", "disconnect"} :
       (\E m \in Range(up[c]) : m.type = Request[op]) => op \in use[c].calls

\* PUBACK and OK only for what was taken; whoever published last still has its connection,
\* or it is one that disconnects
OkInv ==
  /\ \A c \in Clients : \A m \in Range(down[c]) :
       m.type = "PUBACK" => <<c, m.id>> \in Range(taken)
  /\ acked \subseteq Range(taken)
  /\ last.slot # 0 =>
       \E c \in Clients :
         /\ <<c, last.id>> \in Range(taken)
         /\ "publish" \in use[c].calls
         /\ endpoint[last.slot] = c \/ "disconnect" \in use[c].calls

\* the broker recognizes message k of client c when it comes again
Known(c, k) == last.id = k /\ last.slot \in SlotsOf(c)

\* the messages are in the order of their ids, and there is no DISCONNECT between two of
\* the same id
InOrder(s) ==
  \A p, q \in DOMAIN s :
    p < q /\ s[p].type = "PUBLISH" /\ s[q].type = "PUBLISH" =>
      /\ s[p].id <= s[q].id
      /\ s[p].id = s[q].id => \A r \in DOMAIN s : p < r /\ r < q => s[r].type # "DISCONNECT"

OrderInv(c) ==
  /\ InOrder(up[c])
  /\ call[c].op = "publish" =>
       NoneAfter(up[c], Message("PUBLISH", call[c].id), {"DISCONNECT"})

\* no message is before message k, and no DISCONNECT if it is message k again
IsAfter(s, k) ==
  \A q \in DOMAIN s : s[q].type = "PUBLISH" =>
    /\ k <= s[q].id
    /\ k = s[q].id => \A p \in DOMAIN s : p < q => s[p].type # "DISCONNECT"

\* whatever was taken and may come again is known when it comes
TakenInv(c) ==
  \A k \in Nat : <<c, k>> \in Range(taken) =>
    /\ k <= nextMsgId[c]
    /\ IsAfter(up[c], k)
    /\ Message("PUBLISH", k) \in Range(up[c]) => Known(c, k)
    /\ call[c].op = "publish" /\ call[c].id = k =>
         Known(c, k) /\ \A m \in Range(up[c]) : m.type # "DISCONNECT"

OnceInv ==
  /\ \A i, j \in DOMAIN taken : taken[i] = taken[j] => i = j
  /\ \A c \in Clients, k \in Nat : <<c, k>> \in Range(taken) => "publish" \in use[c].calls
-----------------------------------------------------------------------------
(* What a step does to one client: it goes on with its call or gives it up *)
(* (Quiet), begins a call, sends its request again, or gets the answer.    *)

SentBy(c, m) == up'[c] \in {up[c], Append(up[c], m)}

Quiet(c) ==
  /\ up'[c] = up[c] \/ \E m \in UpMessages : m.type \in {"PINGREQ", "PUBACK"} /\ SentBy(c, m)
  /\ call'[c] \in {call[c], NoCall}
  /\ Range(down'[c]) \subseteq Range(down[c])
  /\ nextMsgId'[c] = nextMsgId[c] /\ granted'[c] = granted[c]

Begun(c, op) ==
  LET id == IF op \in Exchanges THEN nextMsgId[c] + 1 ELSE 0 IN
  /\ call[c] = NoCall /\ call'[c] = [op |-> op, retry |-> 0, id |-> id]
  /\ SentBy(c, Message(Request[op], id))
  /\ Range(down'[c]) \subseteq Range(down[c])
  /\ nextMsgId'[c] = IF op \in Exchanges THEN id ELSE nextMsgId[c]
  /\ granted'[c] = IF op \in {"register", "publish"} THEN granted[c] ELSE "unknown"

Resent(c) ==
  /\ call[c].op \in DOMAIN Request
  /\ call'[c].op = call[c].op /\ call'[c].id = call[c].id
  /\ SentBy(c, Message(Request[call[c].op], call[c].id))
  /\ Range(down'[c]) \subseteq Range(down[c])
  /\ nextMsgId'[c] = nextMsgId[c] /\ granted'[c] = granted[c]

Answered(c) ==
  /\ call[c].op \in Exchanges
  /\ Message(Answer[call[c].op], call[c].id) \in Range(down[c])
  /\ call'[c] = NoCall
  /\ up'[c] = up[c] /\ Range(down'[c]) \subseteq Range(down[c])
  /\ nextMsgId'[c] = nextMsgId[c]
  /\ granted'[c] = IF call[c].op \in DOMAIN Wish THEN Wish[call[c].op] ELSE granted[c]

Effect(c) ==
  Quiet(c) \/ Resent(c) \/ Answered(c) \/ \E op \in use[c].calls \cap DOMAIN Request : Begun(c, op)

\* OK of publish is for an acknowledge that came
AckedCame ==
  \A x \in acked' : x \in acked \/ \E c \in Clients : \E m \in Range(down[c]) :
                                     m.type = "PUBACK" /\ x = <<c, m.id>>

LEMMA OthersQuiet ==
  ASSUME NEW c \in Clients, NEW d \in Clients, up'[d] = up[d], down'[d] = down[d],
         call'[d] = call[d], nextMsgId'[d] = nextMsgId[d], granted'[d] = granted[d]
  PROVE  Effect(d)
  BY DEF Effect, Quiet

LEMMA BeginEffect ==
  ASSUME IInv, NEW c \in Clients, NEW op \in use[c].calls \cap DOMAIN Request, Begin(c, op),
         NEW d \in Clients
  PROVE  Effect(d) /\ AckedCame
<1> DEFINE id == IF op \in Exchanges THEN nextMsgId[c] + 1 ELSE 0
           m == Message(Request[op], id)
<1>1. nextMsgId[c] \in Nat /\ use \in Uses /\ Holds(up, UpMessages)
  BY ClientTypes DEF IInv, ClientInv
<1>2. m \in UpMessages
  BY <1>1, RequestType
<1>3. /\ call[c] = NoCall
      /\ call' = [call EXCEPT ![c] = [op |-> op, retry |-> 0, id |-> id]]
      /\ nextMsgId' = [nextMsgId EXCEPT ![c] = IF op \in Exchanges THEN id ELSE @]
      /\ granted' = [granted EXCEPT ![c] =
                       IF op \in {"register", "publish"} THEN @ ELSE "unknown"]
      /\ up' = Sent(up, c, m)
      /\ UNCHANGED <<acked, down>>
  BY DEF Begin
<1>4. /\ DOMAIN call = Clients /\ call = [e \in Clients |-> call[e]]
      /\ DOMAIN nextMsgId = Clients /\ nextMsgId = [e \in Clients |-> nextMsgId[e]]
      /\ granted \in [Clients -> {"yes", "no", "unknown"}]
  BY DEF IInv, ClientInv
<1> HIDE DEF m
<1>5. up'[c] \in {up[c], Append(up[c], m)} /\ (d # c => up'[d] = up[d])
  BY <1>1, <1>2, <1>3, SentChange
<1> HIDE DEF id
<1>6. AckedCame
  BY <1>3 DEF AckedCame
<1>7. CASE d # c
  BY <1>3, <1>4, <1>5, <1>6, <1>7, OthersQuiet
<1>8. CASE d = c
  <2>1. /\ call'[c] = [op |-> op, retry |-> 0, id |-> id]
        /\ nextMsgId'[c] = IF op \in Exchanges THEN id ELSE nextMsgId[c]
        /\ granted'[c] = IF op \in {"register", "publish"} THEN granted[c] ELSE "unknown"
    BY <1>3, <1>4
  <2>2. Begun(c, op)
    BY <1>3, <1>5, <2>1 DEF Begun, SentBy, id, m
  <2> QED
    BY <1>6, <1>8, <2>2 DEF Effect
<1> QED
  BY <1>7, <1>8

\* the call is given up, if it is
LEMMA NoticedQuiet ==
  ASSUME IInv, NEW c \in Clients, Disconnected(c) \/ Noticed(c), NEW d \in Clients
  PROVE  call'[d] \in {call[d], NoCall}
<1>1. call' = [call EXCEPT ![c] = NoCall]
  BY DEF Disconnected, Noticed
<1> QED
  BY <1>1 DEF IInv, ClientInv

LEMMA RetryEffect ==
  ASSUME IInv, NEW c \in Clients, Retry(c), NEW d \in Clients
  PROVE  Effect(d) /\ AckedCame
<1>1. /\ call[c].op \in DOMAIN Request /\ call[c].id \in Nat /\ call = [e \in Clients |-> call[e]]
      /\ UNCHANGED <<nextMsgId, granted, acked, down>>
      /\ use \in Uses /\ Holds(up, UpMessages)
  BY ClientTypes DEF Retry, IInv, ClientInv
<1>2. AckedCame
  BY <1>1 DEF AckedCame
<1>3. CASE call[c].retry < MAX_RETRY
  <2> DEFINE m == Message(Request[call[c].op], call[c].id)
  <2>1. call' = [call EXCEPT ![c].retry = @ + 1] /\ up' = Sent(up, c, m)
    BY <1>3 DEF Retry
  <2>2. m \in UpMessages
    BY <1>1, RequestType
  <2> HIDE DEF m
  <2>3. up'[c] \in {up[c], Append(up[c], m)} /\ (d # c => up'[d] = up[d])
    BY <1>1, <2>1, <2>2, SentChange
  <2>4. CASE d # c
    <3>1. call'[d] = call[d]
      BY <1>1, <2>1, <2>4
    <3> QED
      BY <1>1, <1>2, <2>3, <2>4, <3>1, OthersQuiet
  <2>5. CASE d = c
    <3>1. call'[c] = [call[c] EXCEPT !.retry = @ + 1]
      BY <1>1, <2>1
    <3>2. call[c] \in Calls(c)
      BY DEF IInv, ClientInv
    <3>3. call'[c].op = call[c].op /\ call'[c].id = call[c].id
      BY <3>1, <3>2 DEF Calls
    <3>4. Resent(c)
      BY <1>1, <2>3, <3>3 DEF Resent, SentBy, m
    <3> QED
      BY <1>2, <2>5, <3>4 DEF Effect
  <2> QED
    BY <2>4, <2>5
<1>4. CASE ~(call[c].retry < MAX_RETRY)
  <2>1. up' = up /\ (Disconnected(c) \/ call' = [call EXCEPT ![c] = NoCall])
    BY <1>4 DEF Retry
  <2>2. call'[d] \in {call[d], NoCall}
    BY <1>1, <2>1, NoticedQuiet
  <2> QED
    BY <1>1, <1>2, <2>1, <2>2 DEF Effect, Quiet
<1> QED
  BY <1>3, <1>4

LEMMA PingEffect ==
  ASSUME IInv, NEW c \in Clients, Ping(c), NEW d \in Clients
  PROVE  Effect(d) /\ AckedCame
<1>1. /\ UNCHANGED <<nextMsgId, granted, acked, down>>
      /\ use \in Uses /\ Holds(up, UpMessages)
  BY DEF Ping, IInv, WaysInv
<1>2. AckedCame
  BY <1>1 DEF AckedCame
<1> DEFINE m == Message("PINGREQ", 0)
<1>3. m \in UpMessages /\ m.type \in {"PINGREQ", "PUBACK"}
  BY DEF Message, UpMessages, UpTypes
<1>4. CASE ping[c] < PING_RETRY
  <2>1. up' = Sent(up, c, m) /\ call' = call
    BY <1>4 DEF Ping
  <2> HIDE DEF m
  <2>2. up'[d] = up[d] \/ up'[d] = Append(up[d], m)
    BY <1>1, <1>3, <2>1, SentChange
  <2> QED
    BY <1>1, <1>2, <1>3, <2>1, <2>2 DEF Effect, Quiet, SentBy
<1>5. CASE ~(ping[c] < PING_RETRY)
  <2>1. up' = up /\ Noticed(c)
    BY <1>5 DEF Ping
  <2>2. call'[d] \in {call[d], NoCall}
    BY <2>1, NoticedQuiet
  <2> QED
    BY <1>1, <1>2, <2>1, <2>2 DEF Effect, Quiet
<1> QED
  BY <1>4, <1>5

LEMMA AckReceiveEffect ==
  ASSUME IInv, NEW c \in Clients, AckReceive(c), NEW d \in Clients
  PROVE  Effect(d) /\ AckedCame
<1> DEFINE m == Message("PUBACK", receiver[c])
<1>1. /\ UNCHANGED <<call, nextMsgId, granted, acked, down>> /\ receiver[c] > 0
      /\ up' = Sent(up, c, m)
      /\ use \in Uses /\ Holds(up, UpMessages)
  BY DEF AckReceive, IInv, WaysInv
<1>2. m \in UpMessages /\ m.type \in {"PINGREQ", "PUBACK"}
  <2>1. receiver[c] \in Int
    BY ClientTypes DEF Away
  <2> QED
    BY <1>1, <2>1 DEF Message, UpMessages, UpTypes
<1>3. AckedCame
  BY <1>1 DEF AckedCame
<1> HIDE DEF m
<1>4. up'[d] = up[d] \/ up'[d] = Append(up[d], m)
  BY <1>1, <1>2, SentChange
<1> QED
  BY <1>1, <1>2, <1>3, <1>4 DEF Effect, Quiet, SentBy

LEMMA ClientReceiveEffect ==
  ASSUME IInv, NEW c \in Clients, ClientReceive(c), NEW d \in Clients
  PROVE  Effect(d) /\ AckedCame
<1> DEFINE m == Head(down[c])
<1>1. down[c] # << >> /\ down' = Taken(down, c) /\ UNCHANGED nextMsgId
  BY DEF ClientReceive
<1>2. /\ use \in Uses /\ Holds(down, DownMessages(brokerMsgId)) /\ m \in DownMessages(brokerMsgId)
      /\ call = [e \in Clients |-> call[e]] /\ granted \in [Clients -> {"yes", "no", "unknown"}]
  BY <1>1, TakenHolds DEF IInv, WaysInv, ClientInv
<1>3. Range(down'[d]) \subseteq Range(down[d]) /\ m \in Range(down[c])
  BY <1>1, <1>2, TakenChange
<1>4. CASE /\ call'[d] \in {call[d], NoCall}
           /\ UNCHANGED <<granted, acked, up>>
  BY <1>1, <1>3, <1>4 DEF Effect, Quiet, AckedCame
<1>5. CASE state[c] = "disconnected"
  <2>1. AnswerToConnect(c, m)
    BY <1>5 DEF ClientReceive
  <2>2. call' = [call EXCEPT ![c] = NoCall] /\ UNCHANGED <<granted, acked, up>>
    BY <2>1 DEF AnswerToConnect
  <2> QED
    BY <1>2, <1>4, <2>2
<1>6. CASE state[c] # "disconnected" /\ m.type = "PUBLISH"
  <2>1. Published(c, m)
    BY <1>6 DEF ClientReceive
  <2> QED
    BY <1>4, <2>1 DEF Published
<1>7. CASE state[c] # "disconnected" /\ m.type = "DISCONNECT"
  <2>1. Noticed(c) /\ UNCHANGED <<granted, acked, up>>
    BY <1>7 DEF ClientReceive
  <2> QED
    BY <1>4, <2>1, NoticedQuiet
<1>8. CASE state[c] # "disconnected" /\ m.type \notin {"PUBLISH", "DISCONNECT"}
  <2>1. Acknowledged(c, m)
    BY <1>8 DEF ClientReceive
  <2> HIDE DEF m
  <2>2. CASE ~Awaited(c, m)
    <3>1. UNCHANGED <<call, granted, acked, up>>
      BY <2>1, <2>2 DEF Acknowledged
    <3> QED
      BY <1>4, <3>1
  <2>3. CASE Awaited(c, m)
    <3>1. /\ call' = [call EXCEPT ![c] = NoCall]
          /\ granted' = [granted EXCEPT ![c] = CASE m.type = "SUBACK" -> "yes"
                                                [] m.type = "UNSUBACK" -> "no"
                                                [] OTHER -> @]
          /\ acked' = IF m.type = "PUBACK" THEN acked \cup {<<c, call[c].id>>} ELSE acked
          /\ up' = up
      BY <2>1, <2>3 DEF Acknowledged
    <3>2. call[c].op \in Exchanges /\ m.type = Answer[call[c].op] /\ m.id = call[c].id
      BY <2>3 DEF Awaited
    <3>3. m = Message(Answer[call[c].op], call[c].id)
      BY <1>2, <3>2 DEF DownMessages, Message
    <3>4. AckedCame
      BY <1>3, <3>1, <3>2 DEF AckedCame
    <3>5. CASE d # c
      <4>1. call'[d] = call[d] /\ granted'[d] = granted[d] /\ nextMsgId'[d] = nextMsgId[d]
        BY <1>1, <1>2, <3>1, <3>5
      <4> QED
        BY <1>3, <3>1, <3>4, <4>1 DEF Effect, Quiet
    <3>6. CASE d = c
      <4>1. call'[c] = NoCall
        BY <1>2, <3>1
      <4>2. granted'[c] = IF call[c].op \in DOMAIN Wish THEN Wish[call[c].op] ELSE granted[c]
        <5>1. CASE call[c].op = "subscribe"
          BY <1>2, <3>1, <3>2, <5>1 DEF Answer, Wish
        <5>2. CASE call[c].op = "unsubscribe"
          BY <1>2, <3>1, <3>2, <5>2 DEF Answer, Wish
        <5>3. CASE call[c].op \in {"register", "publish"}
          BY <1>2, <3>1, <3>2, <5>3 DEF Answer, Wish
        <5> QED
          BY <3>2, <5>1, <5>2, <5>3 DEF Exchanges, Answer
      <4>3. Answered(c)
        BY <1>1, <1>3, <3>1, <3>2, <3>3, <3>6, <4>1, <4>2 DEF Answered
      <4> QED
        BY <3>4, <3>6, <4>3 DEF Effect
    <3> QED
      BY <3>5, <3>6
  <2> QED
    BY <2>2, <2>3
<1> HIDE DEF m
<1> QED
  BY <1>5, <1>6, <1>7, <1>8

LEMMA ClientEffect ==
  ASSUME IInv, ClientStep, NEW d \in Clients
  PROVE  Effect(d) /\ AckedCame
<1>1. ASSUME NEW c \in Clients, AwaitMessage(c)
      PROVE  Effect(d) /\ AckedCame
  <2>1. UNCHANGED <<call, nextMsgId, granted, acked, up, down>>
    BY <1>1 DEF AwaitMessage, networkVars
  <2> QED
    BY <2>1 DEF Effect, Quiet, AckedCame
<1> QED
  BY <1>1, BeginEffect, RetryEffect, PingEffect, AckReceiveEffect, ClientReceiveEffect
  DEF ClientStep, ClientNext
-----------------------------------------------------------------------------
LEMMA NoneAfterAppend ==
  ASSUME NEW S, NEW s \in Seq(S), NEW x \in S, NEW m, NEW types,
         NoneAfter(s, m, types), m \notin Range(s) \/ x.type \notin types
  PROVE  NoneAfter(Append(s, x), m, types)
<1>1. /\ DOMAIN s = 1 .. Len(s) /\ Len(s) \in Nat
      /\ DOMAIN Append(s, x) = 1 .. Len(s) + 1
      /\ \A k \in 1 .. Len(s) : Append(s, x)[k] = s[k]
      /\ Append(s, x)[Len(s) + 1] = x
  BY AppendProperties
<1>2. ASSUME NEW p \in 1 .. Len(s) + 1, NEW q \in 1 .. Len(s) + 1, p < q, Append(s, x)[p] = m
      PROVE  Append(s, x)[q].type \notin types
  <2>1. p \in 1 .. Len(s) /\ s[p] = m
    BY <1>1, <1>2
  <2>2. m \in Range(s)
    BY <1>1, <2>1 DEF Range
  <2>3. CASE q \in 1 .. Len(s)
    BY <1>1, <1>2, <2>1, <2>3 DEF NoneAfter
  <2>4. CASE q = Len(s) + 1
    BY <1>1, <2>2, <2>4
  <2> QED
    BY <1>1, <2>3, <2>4
<1> QED
  BY <1>1, <1>2 DEF NoneAfter

LEMMA NoneAfterTail ==
  ASSUME NEW S, NEW s \in Seq(S), s # << >>, NEW m, NEW types, NoneAfter(s, m, types)
  PROVE  /\ NoneAfter(Tail(s), m, types)
         /\ m = Head(s) => \A x \in Range(Tail(s)) : x.type \notin types
<1>1. /\ DOMAIN s = 1 .. Len(s) /\ Len(s) \in Nat \ {0} /\ Head(s) = s[1]
      /\ DOMAIN Tail(s) = 1 .. Len(s) - 1
      /\ \A k \in 1 .. Len(s) - 1 : Tail(s)[k] = s[k + 1]
  BY HeadTailProperties
<1>2. \A k \in 1 .. Len(s) - 1 : k + 1 \in 1 .. Len(s)
  BY <1>1
<1>3. NoneAfter(Tail(s), m, types)
  <2>1. ASSUME NEW p \in 1 .. Len(s) - 1, NEW q \in 1 .. Len(s) - 1, p < q, Tail(s)[p] = m
        PROVE  Tail(s)[q].type \notin types
    <3>1. p + 1 < q + 1
      BY <1>1, <2>1
    <3> QED
      BY <1>1, <1>2, <2>1, <3>1 DEF NoneAfter
  <2> QED
    BY <1>1, <2>1 DEF NoneAfter
<1>4. ASSUME m = Head(s), NEW k \in 1 .. Len(s) - 1
      PROVE  Tail(s)[k].type \notin types
  <2>1. 1 \in 1 .. Len(s) /\ 1 < k + 1
    BY <1>1
  <2> QED
    BY <1>1, <1>2, <1>4, <2>1 DEF NoneAfter
<1> QED
  BY <1>1, <1>3, <1>4 DEF Range

LEMMA ClientWays ==
  ASSUME IInv, NEW c \in Clients
  PROVE  /\ up[c] \in Seq(UpMessages) /\ down[c] \in Seq(DownMessages(brokerMsgId))
         /\ nextMsgId[c] \in Nat /\ call[c].id \in Nat
         /\ call[c].op \in DOMAIN Request \cup {"none"}
         /\ granted[c] \in {"yes", "no", "unknown"}
         /\ Range(up[c]) \subseteq UpMessages
         /\ Range(down[c]) \subseteq DownMessages(brokerMsgId)
<1>1. up[c] \in Seq(UpMessages) /\ down[c] \in Seq(DownMessages(brokerMsgId))
  BY DEF IInv, WaysInv, Holds
<1>2. \A S, s : s \in Seq(S) => Range(s) \subseteq S
  BY DEF Range
<1> QED
  BY <1>1, <1>2, ClientTypes DEF IInv, ClientInv

\* at most one message more
LEMMA SentByRange ==
  ASSUME IInv, NEW c \in Clients, NEW m \in UpMessages, SentBy(c, m)
  PROVE  Range(up'[c]) \subseteq Range(up[c]) \cup {m}
<1>1. up[c] \in Seq(UpMessages)
  BY ClientWays
<1>2. Range(Append(up[c], m)) = Range(up[c]) \cup {m}
  BY <1>1, RangeAppend
<1>3. up'[c] = up[c] \/ up'[c] = Append(up[c], m)
  BY DEF SentBy
<1> QED
  BY <1>2, <1>3

LEMMA SentByNoneAfter ==
  ASSUME IInv, NEW c \in Clients, NEW x \in UpMessages, SentBy(c, x), NEW m, NEW types,
         NoneAfter(up[c], m, types), m \notin Range(up[c]) \/ x.type \notin types
  PROVE  NoneAfter(up'[c], m, types)
<1>1. up[c] \in Seq(UpMessages)
  BY ClientWays
<1>2. NoneAfter(Append(up[c], x), m, types)
  BY <1>1, NoneAfterAppend
<1>3. up'[c] = up[c] \/ up'[c] = Append(up[c], x)
  BY DEF SentBy
<1> QED
  BY <1>2, <1>3

LEMMA IdsKeptByClient ==
  ASSUME IInv, NEW c \in Clients, IdsInv(c), Effect(c)
  PROVE  IdsInv(c)'
<1> USE ClientWays
<1>1. CASE Quiet(c)
  <2>1. \A m \in Range(up'[c]) : m \in Range(up[c]) \/ m.type \in {"PINGREQ", "PUBACK"}
    BY <1>1, SentByRange DEF Quiet
  <2>2. {"PINGREQ", "PUBACK"} \cap Requests = {}
    BY DEF Requests, Request, Exchanges, Answer
  <2>3. NoCall.op \notin Exchanges
    BY DEF NoCall, Exchanges, Answer
  <2> QED
    BY <1>1, <2>1, <2>2, <2>3 DEF Quiet, IdsInv
<1>2. ASSUME NEW op \in use[c].calls \cap DOMAIN Request, Begun(c, op)
      PROVE  IdsInv(c)'
  <2> DEFINE id == IF op \in Exchanges THEN nextMsgId[c] + 1 ELSE 0
             m == Message(Request[op], id)
  <2>1. id \in Nat /\ m \in UpMessages /\ m.type = Request[op] /\ m.id = id
    BY RequestType DEF Message
  <2>2. /\ SentBy(c, m) /\ call'[c].op = op /\ call'[c].id = id
        /\ Range(down'[c]) \subseteq Range(down[c])
        /\ nextMsgId'[c] = IF op \in Exchanges THEN id ELSE nextMsgId[c]
    BY <1>2 DEF Begun
  <2> HIDE DEF m
  <2>3. Range(up'[c]) \subseteq Range(up[c]) \cup {m}
    BY <2>1, <2>2, SentByRange
  <2>4. nextMsgId[c] <= nextMsgId'[c]
    BY <2>2
  <2>5. Request[op] \in Requests => op \in Exchanges
    BY DEF Requests, Request, Exchanges, Answer
  <2> HIDE DEF id
  <2>6. \A x \in Range(up'[c]) : x.type \in Requests => x.id <= nextMsgId'[c]
    <3>1. m.type \in Requests => m.id <= nextMsgId'[c]
      BY <2>1, <2>2, <2>5
    <3>2. nextMsgId'[c] \in Nat
      BY <2>1, <2>2
    <3> QED
      BY <2>3, <2>4, <3>1, <3>2 DEF IdsInv, UpMessages
  <2>7. \A x \in Range(down'[c]) : x.type \in Answers => x.id <= nextMsgId'[c]
    <3>1. \A x \in Range(down[c]) : x.id \in Nat
      BY DEF DownMessages
    <3>2. nextMsgId'[c] \in Nat
      BY <2>1, <2>2
    <3> QED
      BY <2>2, <2>4, <3>1, <3>2 DEF IdsInv
  <2> QED
    BY <2>2, <2>6, <2>7 DEF IdsInv
<1>3. CASE Resent(c)
  <2> DEFINE m == Message(Request[call[c].op], call[c].id)
  <2>1. m \in UpMessages /\ m.type = Request[call[c].op] /\ m.id = call[c].id
    BY <1>3, RequestType DEF Message, Resent
  <2>2. /\ SentBy(c, m) /\ call'[c].op = call[c].op /\ call'[c].id = call[c].id
        /\ Range(down'[c]) \subseteq Range(down[c]) /\ nextMsgId'[c] = nextMsgId[c]
    BY <1>3 DEF Resent
  <2> HIDE DEF m
  <2>3. Range(up'[c]) \subseteq Range(up[c]) \cup {m}
    BY <2>1, <2>2, SentByRange
  <2>4. Request[call[c].op] \in Requests => call[c].op \in Exchanges
    BY <1>3 DEF Resent, Requests, Request, Exchanges, Answer
  <2> QED
    BY <2>1, <2>2, <2>3, <2>4 DEF IdsInv
<1>4. CASE Answered(c)
  <2>1. NoCall.op \notin Exchanges
    BY DEF NoCall, Exchanges, Answer
  <2> QED
    BY <1>4, <2>1 DEF Answered, IdsInv
<1> QED
  BY <1>1, <1>2, <1>3, <1>4 DEF Effect

\* nothing is granted without a call that asks for it
LEMMA GrantKeptByClient ==
  ASSUME IInv, UNCHANGED brokerVars, NEW c \in Clients, IdsInv(c), GrantInv(c), Effect(c)
  PROVE  GrantInv(c)'
<1> USE ClientWays
<1>0. IsSubscribed(c)' = IsSubscribed(c)
  BY DEF brokerVars, IsSubscribed
<1>1. ASSUME NEW g \in DOMAIN Ends, Settled(c, g), NEW m \in UpMessages, SentBy(c, m),
             m.type \notin Ends[g]
      PROVE  Settled(c, g)'
  <2>1. Range(up'[c]) \subseteq Range(up[c]) \cup {m}
    BY <1>1, SentByRange
  <2> QED
    BY <1>0, <1>1, <2>1 DEF Settled
<1>2. ASSUME NEW g \in DOMAIN Ends, Settled(c, g), up'[c] = up[c]
      PROVE  Settled(c, g)'
  BY <1>0, <1>2 DEF Settled
<1>3. \A op \in DOMAIN Wish : Wish[op] \in DOMAIN Ends
  BY DEF Wish, Ends
<1>4. NoCall.op = "none" /\ "none" \notin DOMAIN Wish \cup {"connect", "disconnect"}
  BY DEF NoCall, Wish
<1>5. CASE Quiet(c)
  <2>1. \A g \in DOMAIN Ends : Settled(c, g) => Settled(c, g)'
    <3>1. \A g \in DOMAIN Ends : Ends[g] \cap {"PINGREQ", "PUBACK"} = {}
      BY DEF Ends
    <3> QED
      BY <1>1, <1>2, <1>5, <3>1 DEF Quiet
  <2>2. CASE call'[c] = NoCall
    BY <1>4, <1>5, <2>1, <2>2 DEF Quiet, GrantInv
  <2>3. CASE call'[c] = call[c]
    <3>1. ASSUME NEW op \in DOMAIN Wish, AwaitsGrant(c, op)
          PROVE  AwaitsGrant(c, op)'
      <4>1. NoneAfter(up'[c], Message(Request[op], call[c].id), Ends[Wish[op]])
        <5>1. Ends[Wish[op]] \cap {"PINGREQ", "PUBACK"} = {}
          BY DEF Ends, Wish
        <5> QED
          BY <1>5, <3>1, <5>1, SentByNoneAfter DEF Quiet, AwaitsGrant
      <4> QED
        BY <1>3, <1>5, <2>1, <2>3, <3>1, <4>1 DEF Quiet, AwaitsGrant
    <3> QED
      BY <1>5, <2>1, <2>3, <3>1 DEF Quiet, GrantInv
  <2> QED
    BY <1>5, <2>2, <2>3 DEF Quiet
<1>6. ASSUME NEW op \in use[c].calls \cap DOMAIN Request, Begun(c, op)
      PROVE  GrantInv(c)'
  <2> DEFINE id == IF op \in Exchanges THEN nextMsgId[c] + 1 ELSE 0
             m == Message(Request[op], id)
  <2>1. m \in UpMessages /\ m.type = Request[op] /\ m.id = id /\ id \in Nat
    BY RequestType DEF Message
  <2>2. /\ SentBy(c, m) /\ call'[c].op = op /\ call'[c].id = id
        /\ Range(down'[c]) \subseteq Range(down[c])
        /\ granted'[c] = IF op \in {"register", "publish"} THEN granted[c] ELSE "unknown"
    BY <1>6 DEF Begun
  <2>3. ASSUME op \in DOMAIN Wish
        PROVE  AwaitsGrant(c, op)'
    <3>1. /\ op \in Exchanges /\ id = nextMsgId[c] + 1
          /\ Request[op] \in Requests /\ Answer[op] \in Answers
          /\ granted'[c] = "unknown"
      BY <2>2, <2>3 DEF Wish, Exchanges, Answer, Requests, Answers
    <3>2. ~(id <= nextMsgId[c])
      BY <3>1
    <3>3. m \notin Range(up[c])
      BY <2>1, <3>1, <3>2 DEF IdsInv
    <3>4. Message(Answer[op], id) \notin Range(down'[c])
      BY <2>2, <3>1, <3>2 DEF IdsInv, Message
    <3>5. NoneAfter(up[c], m, Ends[Wish[op]])
      BY <3>3 DEF NoneAfter, Range
    <3> HIDE DEF m, id
    <3>6. NoneAfter(up'[c], m, Ends[Wish[op]])
      BY <2>1, <2>2, <3>3, <3>5, SentByNoneAfter
    <3> QED
      BY <2>2, <3>1, <3>4, <3>6 DEF AwaitsGrant, m
  <2> HIDE DEF m, id
  <2>4. \A g \in DOMAIN Ends : granted'[c] = g => Settled(c, g)'
    <3>1. ASSUME NEW g \in DOMAIN Ends, granted'[c] = g
          PROVE  op \in {"register", "publish"} /\ granted[c] = g /\ m.type \notin Ends[g]
      <4>1. op \in {"register", "publish"} /\ granted[c] = g
        BY <2>2, <3>1 DEF Ends
      <4>2. Request[op] \in {"REGISTER", "PUBLISH"}
        BY <4>1 DEF Request
      <4>3. g \in {"yes", "no"}
        BY DEF Ends
      <4>4. Ends[g] \subseteq {"CONNECT", "DISCONNECT", "UNSUBSCRIBE", "SUBSCRIBE"}
        BY <4>3 DEF Ends
      <4>5. m.type \in {"REGISTER", "PUBLISH"}
        BY <2>1, <4>2
      <4> QED
        BY <4>1, <4>4, <4>5
    <3> QED
      BY <1>1, <2>1, <2>2, <3>1 DEF GrantInv
  <2> QED
    BY <2>2, <2>3, <2>4 DEF GrantInv
<1>7. CASE Resent(c)
  <2> DEFINE op == call[c].op
             m == Message(Request[op], call[c].id)
  <2>1. m \in UpMessages /\ m.type = Request[op] /\ op \in DOMAIN Request
    BY <1>7, RequestType DEF Message, Resent
  <2>2. /\ SentBy(c, m) /\ call'[c].op = op /\ call'[c].id = call[c].id
        /\ Range(down'[c]) \subseteq Range(down[c]) /\ granted'[c] = granted[c]
    BY <1>7 DEF Resent
  <2>3. op \in DOMAIN Wish => Request[op] \notin Ends[Wish[op]]
    BY DEF Wish, Ends, Request
  <2>4. \A g \in DOMAIN Ends : granted[c] = g => Request[op] \notin Ends[g]
    <3>1. granted[c] # "unknown" => op \notin {"connect", "disconnect"} \cup DOMAIN Wish
      BY DEF GrantInv, AwaitsGrant
    <3>2. granted[c] # "unknown" => op \in {"register", "publish"}
      BY <2>1, <3>1 DEF Request, Wish
    <3>3. \A g \in DOMAIN Ends : /\ g # "unknown"
                                 /\ Request["register"] \notin Ends[g]
                                 /\ Request["publish"] \notin Ends[g]
      BY DEF Request, Ends
    <3> QED
      BY <3>2, <3>3, Zenon
  <2> HIDE DEF m
  <2>5. ASSUME op \in DOMAIN Wish
        PROVE  AwaitsGrant(c, op)'
    <3>1. AwaitsGrant(c, op)
      BY <2>5 DEF GrantInv
    <3>2. NoneAfter(up'[c], m, Ends[Wish[op]])
      <4>1. NoneAfter(up[c], m, Ends[Wish[op]])
        BY <3>1 DEF AwaitsGrant, m
      <4> QED
        BY <2>1, <2>2, <2>3, <2>5, <4>1, SentByNoneAfter
    <3>3. Settled(c, Wish[op]) => Settled(c, Wish[op])'
      BY <1>1, <1>3, <2>1, <2>2, <2>3, <2>5
    <3> QED
      BY <2>2, <3>1, <3>2, <3>3 DEF AwaitsGrant, m
  <2>6. \A g \in DOMAIN Ends : granted'[c] = g => Settled(c, g)'
    BY <1>1, <2>1, <2>2, <2>4 DEF GrantInv
  <2> HIDE DEF op
  <2> QED
    BY <2>2, <2>5, <2>6 DEF GrantInv, op
<1>8. CASE Answered(c)
  <2>1. \A g \in DOMAIN Ends : granted'[c] = g => Settled(c, g)
    <3>1. CASE call[c].op \in DOMAIN Wish
      <4>1. Settled(c, Wish[call[c].op])
        BY <1>8, <3>1 DEF Answered, GrantInv, AwaitsGrant
      <4>2. granted'[c] = Wish[call[c].op]
        BY <1>8, <3>1 DEF Answered
      <4> QED
        BY <4>1, <4>2
    <3>2. CASE call[c].op \notin DOMAIN Wish
      BY <1>8, <3>2 DEF Answered, GrantInv
    <3> QED
      BY <3>1, <3>2
  <2> QED
    BY <1>2, <1>4, <1>8, <2>1 DEF Answered, GrantInv
<1> QED
  BY <1>5, <1>6, <1>7, <1>8 DEF Effect
-----------------------------------------------------------------------------
(* What the broker does with message m of client c *)

\* the connection of a client that has one
LEMMA OneSlot ==
  ASSUME BrokerInv, NEW c \in Clients, SlotsOf(c) # {}
  PROVE  Least(SlotsOf(c)) \in Slots /\ SlotsOf(c) = {Least(SlotsOf(c))}
<1>1. SlotsOf(c) \subseteq Nat
  BY BrokerAssumption DEF SlotsOf
<1>2. Least(SlotsOf(c)) \in SlotsOf(c)
  BY <1>1, LeastIn
<1>3. \A i, j \in SlotsOf(c) : i = j
  BY BrokerAssumption DEF SlotsOf, BrokerInv, Injective
<1>4. \A i \in SlotsOf(c) : i \in Slots
  BY DEF SlotsOf
<1> HIDE DEF SlotsOf
<1> QED
  BY <1>2, <1>3, <1>4

Answering(c, m) ==
  LET i == Least(SlotsOf(c)) IN
  \/ m.type = "CONNECT" /\ AnswerConnect(c)
  \/ m.type # "CONNECT" /\ SlotsOf(c) = {} /\ AnswerUnknown(c)
  \/ /\ i \in Slots /\ SlotsOf(c) = {i}
     /\ \/ m.type = "DISCONNECT" /\ AnswerDisconnect(i)
        \/ m.type \in {"SUBSCRIBE", "UNSUBSCRIBE"} /\ AnswerSubscribe(c, i, m)
        \/ m.type = "PUBLISH" /\ AnswerPublish(c, i, m)
        \/ m.type = "PUBACK" /\ AnswerPuback(i, m)
        \/ m.type \in {"REGISTER", "PINGREQ"} /\ AnswerOther(c, m)

LEMMA BrokerAnswers ==
  ASSUME IInv, NEW c \in Clients, BrokerReceive(c)
  PROVE  /\ Head(up[c]) \in UpMessages /\ Head(up[c]) \in Range(up[c])
         /\ up[c] # << >> /\ up'[c] = Tail(up[c]) /\ use' = use
         /\ \A d \in Clients : Range(up'[d]) \subseteq Range(up[d])
         /\ \A d \in Clients \ {c} : up'[d] = up[d]
         /\ Answering(c, Head(up[c]))
<1> DEFINE m == Head(up[c])
           i == Least(SlotsOf(c))
<1>1. up[c] # << >> /\ up' = Taken(up, c) /\ use' = use
  BY DEF BrokerReceive
<1>2. use \in Uses /\ Holds(up, UpMessages) /\ BrokerInv
  BY DEF IInv, WaysInv
<1>3. m \in UpMessages /\ m.type \in UpTypes
  <2>1. m \in UpMessages
    BY <1>1, <1>2, TakenHolds
  <2> HIDE DEF m
  <2> QED
    BY <2>1 DEF UpMessages
<1>4. /\ m \in Range(up[c])
      /\ up'[c] = Tail(up[c])
      /\ \A d \in Clients : Range(up'[d]) \subseteq Range(up[d])
      /\ \A d \in Clients \ {c} : up'[d] = up[d]
  BY <1>1, <1>2, TakenChange
<1>5. SlotsOf(c) # {} => Least(SlotsOf(c)) \in Slots /\ SlotsOf(c) = {Least(SlotsOf(c))}
  BY <1>2, OneSlot
<1>6. Answering(c, m)
  <2>1. CASE m.type = "CONNECT"
    <3>1. AnswerConnect(c)
      BY <2>1 DEF BrokerReceive
    <3> HIDE DEF m, i
    <3> QED
      BY <2>1, <3>1 DEF Answering, i
  <2>2. CASE m.type # "CONNECT" /\ SlotsOf(c) = {}
    <3>1. AnswerUnknown(c)
      BY <2>2 DEF BrokerReceive
    <3> HIDE DEF m, i
    <3> QED
      BY <2>2, <3>1 DEF Answering, i
  <2>3. CASE m.type = "DISCONNECT" /\ SlotsOf(c) # {}
    <3>1. AnswerDisconnect(i)
      BY <2>3 DEF BrokerReceive
    <3> HIDE DEF m, i
    <3> QED
      BY <1>5, <2>3, <3>1 DEF Answering, i
  <2>4. CASE m.type \in {"SUBSCRIBE", "UNSUBSCRIBE"} /\ SlotsOf(c) # {}
    <3>1. AnswerSubscribe(c, i, m)
      BY <2>4 DEF BrokerReceive
    <3> HIDE DEF m, i
    <3> QED
      BY <1>5, <2>4, <3>1 DEF Answering, i
  <2>5. CASE m.type = "PUBLISH" /\ SlotsOf(c) # {}
    <3>1. AnswerPublish(c, i, m)
      BY <2>5 DEF BrokerReceive
    <3> HIDE DEF m, i
    <3> QED
      BY <1>5, <2>5, <3>1 DEF Answering, i
  <2>6. CASE m.type = "PUBACK" /\ SlotsOf(c) # {}
    <3>1. AnswerPuback(i, m)
      BY <2>6 DEF BrokerReceive
    <3> HIDE DEF m, i
    <3> QED
      BY <1>5, <2>6, <3>1 DEF Answering, i
  <2>7. CASE m.type \in {"REGISTER", "PINGREQ"} /\ SlotsOf(c) # {}
    <3>1. AnswerOther(c, m)
      BY <2>7 DEF BrokerReceive
    <3> HIDE DEF m, i
    <3> QED
      BY <1>5, <2>7, <3>1 DEF Answering, i
  <2> HIDE DEF m, i
  <2> QED
    BY <1>3, <2>1, <2>2, <2>3, <2>4, <2>5, <2>6, <2>7 DEF UpTypes
<1> QED
  BY <1>1, <1>3, <1>4, <1>6

\* forward() sends nothing but messages
LEMMA ForwardToSends ==
  ASSUME IInv, NEW f \in Forwards, NEW source \in Slots, NEW i \in Nat, NEW way,
         Holds(way, DownMessages(brokerMsgId)), ForwardTo(f, source, i, way), NEW d \in Clients
  PROVE  \A x \in Range(down'[d]) : x \in Range(way[d]) \/ x.type = "PUBLISH"
<1>1. CASE Targets(source, i) = {}
  BY <1>1 DEF ForwardTo
<1>2. CASE Targets(source, i) # {}
  <2> DEFINE j == Least(Targets(source, i))
             n == brokerMsgId + 1
             m == Message("PUBLISH", n)
  <2>1. /\ brokerMsgId \in Nat /\ n \in Nat /\ brokerMsgId <= n
        /\ endpoint \in [Slots -> Clients \cup {NoClient}] /\ subscribed \subseteq Slots
        /\ use \in Uses
    BY DEF IInv, BrokerInv, WaysInv
  <2>2. endpoint[j] \in Clients
    <3>1. Targets(source, i) \subseteq Nat
      BY <2>1, BrokerAssumption DEF Targets
    <3>2. j \in Targets(source, i)
      BY <1>2, <3>1, LeastIn
    <3> QED
      BY <2>1, <3>2 DEF Targets
  <2>3. down' = Sent(way, endpoint[j], m)
    BY <1>2 DEF ForwardTo
  <2>4. m \in DownMessages(n) /\ m.type = "PUBLISH"
    BY <2>1 DEF Message, DownMessages, DownTypes
  <2> HIDE DEF j, n, m
  <2>5. Holds(way, DownMessages(n))
    BY <2>1, HoldsGrows
  <2>6. Range(down'[d]) \subseteq Range(way[d]) \cup {m}
    BY <2>1, <2>2, <2>3, <2>4, <2>5, SentChange
  <2> QED
    BY <2>4, <2>6
<1> QED
  BY <1>1, <1>2

LEMMA ForwardAgainSends ==
  ASSUME IInv, NEW f \in Forwards, forward[f] # Idle, ForwardAgain(f), NEW d \in Clients
  PROVE  \A x \in Range(down'[d]) : x \in Range(down[d]) \/ x.type = "PUBLISH"
<1> DEFINE job == forward[f]
           m == Message("PUBLISH", job.id)
<1>1. /\ brokerMsgId \in Nat /\ forward \in [Forwards -> Jobs(brokerMsgId)]
      /\ endpoint \in [Slots -> Clients \cup {NoClient}]
      /\ use \in Uses /\ Holds(down, DownMessages(brokerMsgId))
  BY DEF IInv, BrokerInv, WaysInv
<1>2. job \in [to : Slots, from : Slots, id : 0 .. brokerMsgId, retry : 0 .. FORWARD_RETRY]
  BY <1>1 DEF Jobs
<1>3. job.to \in Slots /\ job.to \in Nat /\ job.from \in Slots
  BY <1>2, BrokerAssumption
<1>4. CASE endpoint[job.to] = NoClient \/ job.retry = FORWARD_RETRY
  <2>1. ForwardTo(f, job.from, job.to, down)
    BY <1>4 DEF ForwardAgain
  <2> HIDE DEF job
  <2> QED
    BY <1>1, <1>3, <2>1, ForwardToSends
<1>5. CASE ~(endpoint[job.to] = NoClient \/ job.retry = FORWARD_RETRY)
  <2>1. down' = Sent(down, endpoint[job.to], m)
    BY <1>5 DEF ForwardAgain
  <2>2. m \in DownMessages(brokerMsgId) /\ m.type = "PUBLISH"
    BY <1>1, <1>2 DEF Message, DownMessages, DownTypes
  <2>3. endpoint[job.to] \in Clients
    BY <1>1, <1>3, <1>5
  <2> DEFINE e == endpoint[job.to]
  <2> HIDE DEF m, e
  <2>4. Range(down'[d]) \subseteq Range(down[d]) \cup {m}
    <3>1. down' = Sent(down, e, m) /\ e \in Clients
      BY <2>1, <2>3 DEF e
    <3> QED
      BY <1>1, <2>2, <3>1, SentChange
  <2> QED
    BY <2>2, <2>4
<1> QED
  BY <1>4, <1>5

\* the acknowledges that client c may get for message m
Acks(c, m) ==
  IF SlotsOf(c) = {} THEN {}
  ELSE {Message(Answer[op], m.id) : op \in {o \in Exchanges : Request[o] = m.type}}

\* what client d gets are old messages, acknowledges in S, and what is no acknowledge
Told(d, S) == \A x \in Range(down'[d]) : x \in Range(down[d]) \/ x.type \notin Answers \/ x \in S

LEMMA ReplyTells ==
  ASSUME IInv, NEW c \in Clients, NEW type \in DownTypes \ {"PUBLISH"}, NEW id \in Nat,
         Reply(c, type, id), NEW S, type \notin Answers \/ Message(type, id) \in S,
         NEW d \in Clients
  PROVE  Told(d, IF d = c THEN S ELSE {})
<1> DEFINE m == Message(type, id)
<1>1. m \in DownMessages(brokerMsgId) /\ m.type = type
  BY DEF Message, DownMessages
<1>2. use \in Uses /\ Holds(down, DownMessages(brokerMsgId)) /\ down' = Sent(down, c, m)
  BY DEF IInv, WaysInv, Reply
<1> HIDE DEF m
<1>3. Range(down'[d]) \subseteq Range(down[d]) \cup (IF d = c THEN {m} ELSE {})
  BY <1>1, <1>2, SentChange
<1> QED
  BY <1>1, <1>3 DEF Told, m

LEMMA AnswerConnectTells ==
  ASSUME IInv, NEW c \in Clients, AnswerConnect(c), NEW S, NEW d \in Clients
  PROVE  Told(d, IF d = c THEN S ELSE {})
<1>1. PICK type \in {"REJECTED", "CONNACK"} : Reply(c, type, 0)
  BY DEF AnswerConnect
<1>2. type \in DownTypes \ {"PUBLISH"} /\ type \notin Answers
  BY DEF DownTypes, Answers, Answer, Exchanges
<1> QED
  BY <1>1, <1>2, ReplyTells

LEMMA AnswerPublishTells ==
  ASSUME IInv, NEW c \in Clients, NEW i \in Slots, NEW m \in UpMessages, AnswerPublish(c, i, m),
         NEW S, Message("PUBACK", m.id) \in S, NEW d \in Clients
  PROVE  Told(d, IF d = c THEN S ELSE {})
<1> DEFINE ack == Message("PUBACK", m.id)
           acknowledged == Sent(down, c, ack)
           waiting == {f \in Forwards : forward[f] = Idle}
<1>1. use \in Uses /\ Holds(down, DownMessages(brokerMsgId)) /\ m.id \in Nat
  BY DEF IInv, WaysInv, UpMessages
<1>2. ack \in DownMessages(brokerMsgId)
  BY <1>1 DEF Message, DownMessages, DownTypes
<1> HIDE DEF ack
<1>3. /\ Holds(acknowledged, DownMessages(brokerMsgId))
      /\ Range(acknowledged[d]) \subseteq Range(down[d]) \cup (IF d = c THEN {ack} ELSE {})
  BY <1>1, <1>2, SentHolds, SentChange
<1>4. \/ down' = acknowledged
      \/ \E f \in Forwards : ForwardTo(f, i, 0, acknowledged)
  BY DEF AnswerPublish, ack
<1> HIDE DEF acknowledged
<1>5. \A x \in Range(down'[d]) : x \in Range(acknowledged[d]) \/ x.type = "PUBLISH"
  BY <1>3, <1>4, ForwardToSends
<1>6. "PUBLISH" \notin Answers
  BY DEF Answers, Answer, Exchanges
<1> QED
  BY <1>3, <1>5, <1>6 DEF Told, ack

LEMMA BrokerTells ==
  ASSUME IInv, NEW c \in Clients, BrokerReceive(c), NEW d \in Clients
  PROVE  Told(d, IF d = c THEN Acks(c, Head(up[c])) ELSE {})
<1> DEFINE m == Head(up[c])
           i == Least(SlotsOf(c))
<1>1. m \in UpMessages /\ Answering(c, m)
  BY BrokerAnswers
<1>2. m.id \in Nat
  BY <1>1 DEF UpMessages
<1> SUFFICES Told(d, IF d = c THEN Acks(c, m) ELSE {})
  OBVIOUS
<1> HIDE DEF m
<1>3. CASE AnswerConnect(c)
  BY <1>3, AnswerConnectTells
<1>4. CASE AnswerUnknown(c)
  <2>1. "DISCONNECT" \in DownTypes \ {"PUBLISH"} /\ "DISCONNECT" \notin Answers
    BY DEF DownTypes, Answers, Answer, Exchanges
  <2> QED
    BY <1>4, <2>1, ReplyTells DEF AnswerUnknown
<1>5. CASE AnswerDisconnect(i)
  BY <1>5 DEF AnswerDisconnect, Told
<1>6. ASSUME i \in Slots, SlotsOf(c) = {i}, NEW op \in Exchanges, m.type = Request[op]
      PROVE  Message(Answer[op], m.id) \in Acks(c, m)
  BY <1>6 DEF Acks
<1>7. CASE i \in Slots /\ SlotsOf(c) = {i} /\ m.type \in {"SUBSCRIBE", "UNSUBSCRIBE"}
           /\ AnswerSubscribe(c, i, m)
  <2>1. Reply(c, IF m.type = "SUBSCRIBE" THEN "SUBACK" ELSE "UNSUBACK", m.id)
    BY <1>7 DEF AnswerSubscribe
  <2>2. CASE m.type = "SUBSCRIBE"
    <3>1. Message("SUBACK", m.id) \in Acks(c, m)
      BY <1>6, <1>7, <2>2 DEF Exchanges, Answer, Request
    <3> QED
      BY <1>2, <2>1, <2>2, <3>1, ReplyTells DEF DownTypes
  <2>3. CASE m.type = "UNSUBSCRIBE"
    <3>1. Message("UNSUBACK", m.id) \in Acks(c, m)
      BY <1>6, <1>7, <2>3 DEF Exchanges, Answer, Request
    <3> QED
      BY <1>2, <2>1, <2>3, <3>1, ReplyTells DEF DownTypes
  <2> QED
    BY <1>7, <2>2, <2>3
<1>8. CASE i \in Slots /\ SlotsOf(c) = {i} /\ m.type = "PUBLISH" /\ AnswerPublish(c, i, m)
  <2>1. Message("PUBACK", m.id) \in Acks(c, m)
    BY <1>6, <1>8 DEF Exchanges, Answer, Request
  <2> HIDE DEF i
  <2> QED
    BY <1>1, <1>8, <2>1, AnswerPublishTells
<1>9. CASE i \in Slots /\ AnswerPuback(i, m)
  <2>1. down' = down \/ \E f \in Forwards : forward[f].to = i /\ ForwardAgain(f)
    BY <1>9 DEF AnswerPuback
  <2>2. \A f \in Forwards : forward[f].to = i => forward[f] # Idle
    BY <1>9, BrokerAssumption DEF Idle
  <2>3. "PUBLISH" \notin Answers
    BY DEF Answers, Answer, Exchanges
  <2> HIDE DEF i
  <2> QED
    BY <2>1, <2>2, <2>3, ForwardAgainSends DEF Told
<1>10. CASE i \in Slots /\ SlotsOf(c) = {i} /\ m.type \in {"REGISTER", "PINGREQ"}
            /\ AnswerOther(c, m)
  <2>1. Reply(c, IF m.type = "REGISTER" THEN "REGACK" ELSE "PINGRESP", m.id)
    BY <1>10 DEF AnswerOther
  <2>2. CASE m.type = "REGISTER"
    <3>1. Message("REGACK", m.id) \in Acks(c, m)
      BY <1>6, <1>10, <2>2 DEF Exchanges, Answer, Request
    <3> QED
      BY <1>2, <2>1, <2>2, <3>1, ReplyTells DEF DownTypes
  <2>3. CASE m.type = "PINGREQ"
    <3>1. "PINGRESP" \notin Answers
      BY DEF Answers, Answer, Exchanges
    <3> QED
      BY <1>2, <2>1, <2>3, <3>1, ReplyTells DEF DownTypes
  <2> QED
    BY <1>10, <2>2, <2>3
<1> QED
  BY <1>1, <1>3, <1>4, <1>5, <1>7, <1>8, <1>9, <1>10 DEF Answering

\* client c loses its connection, or its subscription, by its own requests only
SlotsChange(c, m) ==
  /\ \A d \in Clients : \A j \in SlotsOf(d) :
       endpoint'[j] = d \/ (d = c /\ m.type = "DISCONNECT")
  /\ \A d \in Clients \ {c} : IsSubscribed(d)' = IsSubscribed(d)
  /\ m.type \notin Ends["yes"] /\ IsSubscribed(c) => IsSubscribed(c)'
  /\ m.type \notin Ends["no"] /\ ~IsSubscribed(c) => ~IsSubscribed(c)'
  /\ SlotsOf(c) # {} /\ m.type = "SUBSCRIBE" => IsSubscribed(c)'
  /\ m.type = "UNSUBSCRIBE" => ~IsSubscribed(c)'

LEMMA BrokerSlots ==
  ASSUME IInv, NEW c \in Clients, NEW m, Answering(c, m)
  PROVE  SlotsChange(c, m)
<1> DEFINE i == Least(SlotsOf(c))
<1>1. /\ endpoint \in [Slots -> Clients \cup {NoClient}] /\ subscribed \subseteq Slots
      /\ NoClient \notin Clients
  BY BrokerAssumption DEF IInv, BrokerInv
<1>2. Ends["yes"] = {"CONNECT", "DISCONNECT", "UNSUBSCRIBE"} /\ Ends["no"] = {"SUBSCRIBE"}
  BY DEF Ends
<1>3. ASSUME UNCHANGED <<endpoint, subscribed>>
      PROVE  /\ \A d \in Clients : IsSubscribed(d)' = IsSubscribed(d)
             /\ \A d \in Clients : \A j \in SlotsOf(d) : endpoint'[j] = d
  BY <1>1, <1>3 DEF IsSubscribed, SlotsOf
<1>4. CASE m.type = "CONNECT" /\ AnswerConnect(c)
  <2>1. CASE SlotFor(c) = {}
    <3>1. UNCHANGED <<endpoint, subscribed>>
      BY <1>4, <2>1 DEF AnswerConnect
    <3> QED
      BY <1>3, <1>4, <3>1 DEF SlotsChange
  <2>2. CASE SlotFor(c) # {}
    <3> DEFINE k == Least(SlotFor(c))
    <3>1. k \in Slots /\ endpoint[k] \in {c, NoClient}
      <4>1. SlotFor(c) \subseteq Nat
        BY BrokerAssumption DEF SlotFor, SlotsOf
      <4>2. k \in SlotFor(c)
        BY <2>2, <4>1, LeastIn
      <4> QED
        BY <4>2 DEF SlotFor, SlotsOf
    <3>2. endpoint' = [endpoint EXCEPT ![k] = c] /\ subscribed' = subscribed \ {k}
      BY <1>4, <2>2 DEF AnswerConnect
    <3> HIDE DEF k
    <3>3. \A j \in Slots : endpoint'[j] = IF j = k THEN c ELSE endpoint[j]
      BY <1>1, <3>1, <3>2
    <3>4. \A d \in Clients : \A j \in SlotsOf(d) : endpoint'[j] = d
      BY <1>1, <3>1, <3>3 DEF SlotsOf
    <3>5. \A d \in Clients \ {c} : IsSubscribed(d)' = IsSubscribed(d)
      BY <1>1, <3>1, <3>2, <3>3 DEF IsSubscribed
    <3>6. ~IsSubscribed(c)'  <=> ~ \E j \in subscribed \ {k} : endpoint[j] = c
      BY <1>1, <3>1, <3>2, <3>3 DEF IsSubscribed
    <3>7. ~IsSubscribed(c) => ~IsSubscribed(c)'
      BY <3>6 DEF IsSubscribed
    <3> QED
      BY <1>2, <1>4, <3>4, <3>5, <3>7 DEF SlotsChange
  <2> QED
    BY <2>1, <2>2
<1>5. CASE m.type # "CONNECT" /\ SlotsOf(c) = {} /\ AnswerUnknown(c)
  <2>1. UNCHANGED <<endpoint, subscribed>>
    BY <1>5 DEF AnswerUnknown, brokerVars
  <2>2. ~IsSubscribed(c)
    BY <1>1, <1>5 DEF IsSubscribed, SlotsOf
  <2> QED
    BY <1>3, <1>5, <2>1, <2>2 DEF SlotsChange
<1>6. CASE i \in Slots /\ SlotsOf(c) = {i} /\ m.type = "DISCONNECT" /\ AnswerDisconnect(i)
  <2>1. endpoint' = [endpoint EXCEPT ![i] = NoClient] /\ subscribed' = subscribed \ {i}
    BY <1>6 DEF AnswerDisconnect
  <2>2. endpoint[i] = c /\ \A j \in Slots : endpoint[j] = c => j = i
    BY <1>6 DEF SlotsOf
  <2> HIDE DEF i
  <2>3. \A j \in Slots : endpoint'[j] = IF j = i THEN NoClient ELSE endpoint[j]
    BY <1>1, <1>6, <2>1
  <2>4. \A d \in Clients : \A j \in SlotsOf(d) : endpoint'[j] = d \/ d = c
    BY <1>1, <2>2, <2>3 DEF SlotsOf
  <2>5. \A d \in Clients \ {c} : IsSubscribed(d)' = IsSubscribed(d)
    BY <1>1, <2>1, <2>2, <2>3 DEF IsSubscribed
  <2>6. ~IsSubscribed(c)'
    BY <1>1, <2>1, <2>2, <2>3 DEF IsSubscribed
  <2> QED
    BY <1>2, <1>6, <2>4, <2>5, <2>6 DEF SlotsChange
<1>7. CASE /\ i \in Slots /\ SlotsOf(c) = {i} /\ m.type \in {"SUBSCRIBE", "UNSUBSCRIBE"}
           /\ AnswerSubscribe(c, i, m)
  <2>1. /\ endpoint' = endpoint
        /\ subscribed' = IF m.type = "SUBSCRIBE" THEN subscribed \cup {i} ELSE subscribed \ {i}
    BY <1>7 DEF AnswerSubscribe
  <2>2. endpoint[i] = c /\ \A j \in Slots : endpoint[j] = c => j = i
    BY <1>7 DEF SlotsOf
  <2> HIDE DEF i
  <2>3. \A d \in Clients \ {c} : IsSubscribed(d)' = IsSubscribed(d)
    BY <2>1, <2>2 DEF IsSubscribed
  <2>4. IF m.type = "SUBSCRIBE" THEN IsSubscribed(c)' ELSE ~IsSubscribed(c)'
    BY <1>1, <1>7, <2>1, <2>2 DEF IsSubscribed
  <2>5. \A d \in Clients : \A j \in SlotsOf(d) : endpoint'[j] = d
    BY <2>1 DEF SlotsOf
  <2> QED
    BY <1>2, <1>7, <2>3, <2>4, <2>5 DEF SlotsChange
<1>8. CASE /\ m.type \in {"PUBLISH", "PUBACK", "REGISTER", "PINGREQ"}
           /\ AnswerPublish(c, i, m) \/ AnswerPuback(i, m) \/ AnswerOther(c, m)
  <2>1. UNCHANGED <<endpoint, subscribed>>
    BY <1>8 DEF AnswerPublish, AnswerPuback, AnswerOther, brokerVars
  <2> QED
    BY <1>2, <1>3, <1>8, <2>1 DEF SlotsChange
<1> HIDE DEF i
<1> QED
  BY <1>4, <1>5, <1>6, <1>7, <1>8 DEF Answering, i
-----------------------------------------------------------------------------
(* GrantHolds *)

\* messages are taken or lost, and what comes is no acknowledge for client c
LEMMA GrantKeptByLess ==
  ASSUME IInv, UNCHANGED clientVars, NEW c \in Clients, IdsInv(c), GrantInv(c),
         IsSubscribed(c)' = IsSubscribed(c), Told(c, {}),
         up'[c] = up[c] \/ (up[c] # << >> /\ up'[c] = Tail(up[c]))
  PROVE  IdsInv(c)' /\ GrantInv(c)'
<1>1. up[c] \in Seq(UpMessages)
  BY ClientWays
<1>2. Range(up'[c]) \subseteq Range(up[c])
  BY <1>1, RangeTail
<1>3. \A m, types : NoneAfter(up[c], m, types) => NoneAfter(up'[c], m, types)
  BY <1>1, NoneAfterTail
<1>4. UNCHANGED <<call, nextMsgId, granted>>
  BY DEF clientVars
<1>5. IdsInv(c)'
  BY <1>2, <1>4 DEF IdsInv, Told
<1>6. \A g \in DOMAIN Ends : Settled(c, g) => Settled(c, g)'
  BY <1>2 DEF Settled
<1>7. ASSUME NEW op \in DOMAIN Wish, AwaitsGrant(c, op)
      PROVE  AwaitsGrant(c, op)'
  <2>1. Wish[op] \in DOMAIN Ends /\ Message(Answer[op], call[c].id).type \in Answers
    BY <1>7 DEF Wish, Ends, Message, Answers, Exchanges, Answer
  <2>2. Message(Answer[op], call[c].id) \in Range(down'[c]) =>
          Message(Answer[op], call[c].id) \in Range(down[c])
    BY <2>1 DEF Told
  <2> QED
    BY <1>3, <1>4, <1>6, <1>7, <2>1, <2>2 DEF AwaitsGrant
<1>8. GrantInv(c)'
  BY <1>4, <1>6, <1>7 DEF GrantInv
<1> QED
  BY <1>5, <1>8

\* the broker takes a message of client c itself
LEMMA GrantKeptByBroker ==
  ASSUME IInv, UNCHANGED clientVars, NEW c \in Clients, IdsInv(c), GrantInv(c), BrokerReceive(c)
  PROVE  IdsInv(c)' /\ GrantInv(c)'
<1> DEFINE m == Head(up[c])
<1>1. /\ m \in UpMessages /\ m \in Range(up[c])
      /\ up[c] # << >> /\ up'[c] = Tail(up[c])
      /\ Range(up'[c]) \subseteq Range(up[c])
      /\ SlotsChange(c, m)
  BY BrokerAnswers, BrokerSlots
<1>2. Told(c, Acks(c, m))
  <2>1. Told(c, IF c = c THEN Acks(c, m) ELSE {})
    BY BrokerTells
  <2> QED
    BY <2>1
<1>3. up[c] \in Seq(UpMessages) /\ call[c].id \in Nat
  BY ClientWays
<1>4. UNCHANGED <<call, nextMsgId, granted>>
  BY DEF clientVars
<1>5. /\ \A x, types : NoneAfter(up[c], x, types) => NoneAfter(up'[c], x, types)
      /\ \A types : NoneAfter(up[c], m, types) => \A x \in Range(up'[c]) : x.type \notin types
  BY <1>1, <1>3, NoneAfterTail
<1> HIDE DEF m
<1>6. IdsInv(c)'
  <2>1. \A x \in Acks(c, m) : x.id = m.id /\ m.type \in Requests
    BY DEF Acks, Requests, Message
  <2> QED
    BY <1>1, <1>2, <1>4, <2>1 DEF IdsInv, Told
<1>7. ASSUME NEW g \in DOMAIN Ends, Settled(c, g)
      PROVE  Settled(c, g)'
  <2>1. m.type \notin Ends[g] /\ \A x \in Range(up'[c]) : x.type \notin Ends[g]
    BY <1>1, <1>7 DEF Settled
  <2>2. g = "yes" \/ g = "no"
    BY DEF Ends
  <2>3. g = "yes" <=> IsSubscribed(c)'
    BY <1>1, <1>7, <2>1, <2>2 DEF Settled, SlotsChange
  <2> QED
    BY <2>1, <2>3 DEF Settled
<1>8. ASSUME NEW op \in DOMAIN Wish, AwaitsGrant(c, op)
      PROVE  AwaitsGrant(c, op)'
  <2> DEFINE ack == Message(Answer[op], call[c].id)
  <2>1. Wish[op] \in DOMAIN Ends /\ ack.type \in Answers
    BY <1>8 DEF Wish, Ends, Message, Answers, Exchanges, Answer
  <2>2. ASSUME ack \in Acks(c, m)
        PROVE  Settled(c, Wish[op])'
    <3>1. PICK o \in Exchanges : SlotsOf(c) # {} /\ Request[o] = m.type
                                 /\ ack = Message(Answer[o], m.id)
      BY <2>2 DEF Acks
    <3>2. Answer[o] = Answer[op] /\ m.id = call[c].id
      BY <3>1 DEF Message
    <3>3. o = op
      BY <3>2, <1>8 DEF Answer, Exchanges, Wish
    <3>4. m = Message(Request[op], call[c].id)
      BY <1>1, <3>1, <3>2, <3>3 DEF UpMessages, Message
    <3>5. \A x \in Range(up'[c]) : x.type \notin Ends[Wish[op]]
      BY <1>5, <1>8, <3>4 DEF AwaitsGrant
    <3>6. Wish[op] = "yes" <=> IsSubscribed(c)'
      <4>1. CASE op = "subscribe"
        BY <1>1, <3>1, <3>3, <4>1 DEF SlotsChange, Request, Wish
      <4>2. CASE op = "unsubscribe"
        BY <1>1, <3>1, <3>3, <4>2 DEF SlotsChange, Request, Wish
      <4> QED
        BY <4>1, <4>2 DEF Wish
    <3> QED
      BY <3>5, <3>6 DEF Settled
  <2>3. ack \in Range(down'[c]) => Settled(c, Wish[op])'
    <3>1. ack \in Range(down'[c]) => ack \in Range(down[c]) \/ ack \in Acks(c, m)
      BY <1>2, <2>1 DEF Told
    <3> QED
      BY <1>7, <1>8, <2>1, <2>2, <3>1 DEF AwaitsGrant
  <2> QED
    BY <1>4, <1>5, <1>8, <2>3 DEF AwaitsGrant
<1>9. GrantInv(c)'
  BY <1>4, <1>7, <1>8 DEF GrantInv
<1> QED
  BY <1>6, <1>9

\* who loses a message loses one
LEMMA LoseChange ==
  ASSUME IInv, NEW c \in Clients, Lose(c), NEW d \in Clients
  PROVE  /\ up'[d] = up[d] \/ (up[d] # << >> /\ up'[d] = Tail(up[d]))
         /\ Range(down'[d]) \subseteq Range(down[d])
<1>1. use \in Uses /\ Holds(up, UpMessages) /\ Holds(down, DownMessages(brokerMsgId))
  BY DEF IInv, WaysInv
<1>2. CASE up[c] # << >> /\ up' = Taken(up, c) /\ UNCHANGED <<use, down>>
  BY <1>1, <1>2, TakenChange
<1>3. CASE down[c] # << >> /\ down' = Taken(down, c) /\ UNCHANGED <<use, up>>
  BY <1>1, <1>3, TakenChange
<1> QED
  BY <1>2, <1>3 DEF Lose

GrantsInv == \A c \in Clients : IdsInv(c) /\ GrantInv(c)

LEMMA GrantsKept ==
  ASSUME IInv, GrantsInv, [Next]_vars
  PROVE  GrantsInv'
<1> SUFFICES ASSUME NEW d \in Clients
             PROVE  IdsInv(d)' /\ GrantInv(d)'
  BY DEF GrantsInv
<1>0. IdsInv(d) /\ GrantInv(d)
  BY DEF GrantsInv
<1>1. CASE ClientStep
  <2>1. UNCHANGED brokerVars /\ Effect(d)
    BY <1>1, ClientEffect DEF ClientStep
  <2> QED
    BY <1>0, <2>1, IdsKeptByClient, GrantKeptByClient
<1>2. ASSUME UNCHANGED clientVars, NEW c \in Clients, BrokerReceive(c)
      PROVE  IdsInv(d)' /\ GrantInv(d)'
  <2>1. CASE d = c
    BY <1>0, <1>2, <2>1, GrantKeptByBroker
  <2>2. CASE d # c
    <3>1. up'[d] = up[d] /\ IsSubscribed(d)' = IsSubscribed(d)
      BY <1>2, <2>2, BrokerAnswers, BrokerSlots DEF SlotsChange
    <3>2. Told(d, {})
      <4>1. Told(d, IF d = c THEN Acks(c, Head(up[c])) ELSE {})
        BY <1>2, BrokerTells
      <4> QED
        BY <2>2, <4>1
    <3> QED
      BY <1>0, <1>2, <3>1, <3>2, GrantKeptByLess
  <2> QED
    BY <2>1, <2>2
<1>3. ASSUME UNCHANGED clientVars, NEW f \in Forwards, ForwardTimeout(f)
      PROVE  IdsInv(d)' /\ GrantInv(d)'
  <2>1. /\ forward[f] # Idle /\ ForwardAgain(f)
        /\ UNCHANGED <<endpoint, subscribed, up>>
    BY <1>3 DEF ForwardTimeout
  <2>2. Told(d, {})
    <3>1. "PUBLISH" \notin Answers
      BY DEF Answers, Answer, Exchanges
    <3> QED
      BY <2>1, <3>1, ForwardAgainSends DEF Told
  <2>3. IsSubscribed(d)' = IsSubscribed(d)
    BY <2>1 DEF IsSubscribed
  <2> QED
    BY <1>0, <1>3, <2>1, <2>2, <2>3, GrantKeptByLess
<1>4. ASSUME UNCHANGED <<clientVars, brokerVars>>, NEW c \in Clients, Lose(c)
      PROVE  IdsInv(d)' /\ GrantInv(d)'
  <2>1. IsSubscribed(d)' = IsSubscribed(d)
    BY <1>4 DEF IsSubscribed, brokerVars
  <2>2. Told(d, {})
    BY <1>4, LoseChange DEF Told
  <2> QED
    BY <1>0, <1>4, <2>1, <2>2, LoseChange, GrantKeptByLess
<1>5. CASE UNCHANGED vars
  <2>1. UNCHANGED clientVars /\ UNCHANGED <<endpoint, subscribed, up, down>>
    BY <1>5 DEF vars, brokerVars, networkVars
  <2>2. IsSubscribed(d)' = IsSubscribed(d) /\ Told(d, {})
    BY <2>1 DEF IsSubscribed, Told
  <2> QED
    BY <1>0, <2>1, <2>2, GrantKeptByLess
<1> QED
  BY <1>1, <1>2, <1>3, <1>4, <1>5 DEF Next

\* What subscribeTopic or unsubscribeTopic granted holds at the broker as long as the client
\* is connected, whatever is lost, sent again or answered late: a message id is new for each
\* call, and on the way from the client nothing that ends the subscription follows the
\* request that was granted (subscribeTopic, unsubscribeTopic; receive of the broker).
THEOREM MqttGrantHolds == Spec => []GrantHolds
<1>1. Init => GrantsInv
  <2> SUFFICES ASSUME Init, NEW c \in Clients
               PROVE  IdsInv(c) /\ GrantInv(c)
    BY DEF GrantsInv
  <2>1. /\ up[c] = << >> /\ down[c] = << >> /\ call[c] = NoCall /\ granted[c] = "unknown"
    BY DEF Init, NetworkInit, ClientInit
  <2>2. Range(up[c]) = {} /\ Range(down[c]) = {}
    BY <2>1 DEF Range
  <2>3. NoCall.op \notin Exchanges \cup DOMAIN Wish \cup {"connect", "disconnect"}
    BY DEF NoCall, Exchanges, Answer, Wish
  <2>4. "unknown" \notin DOMAIN Ends
    BY DEF Ends
  <2> QED
    BY <2>1, <2>2, <2>3, <2>4 DEF IdsInv, GrantInv
<1>2. IInv /\ GrantsInv /\ [Next]_vars => GrantsInv'
  BY GrantsKept
<1>3. GrantsInv => GrantHolds
  <2> SUFFICES ASSUME GrantsInv, NEW c \in Clients
               PROVE  /\ granted[c] = "yes" => IsSubscribed(c)
                      /\ granted[c] = "no" => ~IsSubscribed(c)
    BY DEF GrantHolds, IsSubscribed
  <2>1. \A g \in {"yes", "no"} : granted[c] = g => Settled(c, g)
    BY DEF GrantsInv, GrantInv, Ends
  <2> QED
    BY <2>1 DEF Settled
<1> QED
  BY Invariant, <1>1, <1>2, <1>3, PTL DEF Spec
-----------------------------------------------------------------------------
(* OkIsTaken *)

LEMMA UseKept ==
  ASSUME [Next]_vars
  PROVE  use' = use
<1>1. ASSUME NEW c \in Clients, \/ \E op \in use[c].calls \cap DOMAIN Request : Begin(c, op)
                                \/ Retry(c) \/ Ping(c) \/ AwaitMessage(c) \/ AckReceive(c)
      PROVE  use' = use
  BY <1>1 DEF Begin, Retry, Ping, AwaitMessage, AckReceive, networkVars
<1>2. ASSUME NEW c \in Clients, ClientReceive(c) \/ BrokerReceive(c) \/ Lose(c)
      PROVE  use' = use
  <2>1. CASE ClientReceive(c)
    BY <2>1 DEF ClientReceive
  <2>2. CASE BrokerReceive(c)
    BY <2>2 DEF BrokerReceive
  <2>3. CASE Lose(c)
    BY <2>3 DEF Lose
  <2> QED
    BY <1>2, <2>1, <2>2, <2>3
<1>3. ASSUME NEW f \in Forwards, ForwardTimeout(f)
      PROVE  use' = use
  BY <1>3 DEF ForwardTimeout
<1>4. UNCHANGED vars => use' = use
  BY DEF vars, networkVars
<1> QED
  BY <1>1, <1>2, <1>3, <1>4 DEF Next, ClientStep, ClientNext

LEMMA CallsKeptByClient ==
  ASSUME IInv, use' = use, NEW c \in Clients, CallsInv(c), Effect(c)
  PROVE  CallsInv(c)'
<1>1. \A op \in {"publish", "disconnect"} :
        op \in DOMAIN Request /\ Request[op] \notin {"PINGREQ", "PUBACK"}
  BY DEF Request
<1>2. \A op \in DOMAIN Request, o \in DOMAIN Request : Request[o] = Request[op] => o = op
  BY DEF Request
<1>3. NoCall.op = "none"
  BY DEF NoCall
<1>4. CASE Quiet(c)
  <2>1. \A m \in Range(up'[c]) : m \in Range(up[c]) \/ m.type \in {"PINGREQ", "PUBACK"}
    BY <1>4, SentByRange DEF Quiet
  <2> QED
    BY <1>1, <1>3, <1>4, <2>1 DEF Quiet, CallsInv
<1>5. ASSUME NEW o \in use[c].calls \cap DOMAIN Request, NEW m \in UpMessages,
             m.type = Request[o], SentBy(c, m), call'[c].op = o
      PROVE  CallsInv(c)'
  <2>1. Range(up'[c]) \subseteq Range(up[c]) \cup {m}
    BY <1>5, SentByRange
  <2>2. ASSUME NEW op \in {"publish", "disconnect"}, NEW x \in Range(up'[c]),
               x.type = Request[op]
        PROVE  op \in use'[c].calls
    BY <1>1, <1>2, <1>5, <2>1, <2>2 DEF CallsInv
  <2> QED
    BY <1>5, <2>2 DEF CallsInv
<1>6. ASSUME NEW o \in use[c].calls \cap DOMAIN Request, Begun(c, o)
      PROVE  CallsInv(c)'
  <2> DEFINE id == IF o \in Exchanges THEN nextMsgId[c] + 1 ELSE 0
             m == Message(Request[o], id)
  <2>1. id \in Nat /\ m \in UpMessages /\ m.type = Request[o]
    BY ClientWays, RequestType DEF Message
  <2>2. SentBy(c, m) /\ call'[c].op = o
    BY <1>6 DEF Begun
  <2> HIDE DEF m
  <2> QED
    BY <1>5, <2>1, <2>2
<1>7. CASE Resent(c)
  <2> DEFINE o == call[c].op
             m == Message(Request[o], call[c].id)
  <2>1. o \in DOMAIN Request /\ m \in UpMessages /\ m.type = Request[o]
    BY <1>7, ClientWays, RequestType DEF Message, Resent
  <2>2. SentBy(c, m) /\ call'[c].op = o
    BY <1>7 DEF Resent
  <2>3. o \in use[c].calls
    <3>1. "none" \notin DOMAIN Request
      BY DEF Request
    <3> QED
      BY <2>1, <3>1 DEF CallsInv
  <2> HIDE DEF m, o
  <2> QED
    BY <1>5, <2>1, <2>2, <2>3
<1>8. CASE Answered(c)
  BY <1>3, <1>8 DEF Answered, CallsInv
<1> QED
  BY <1>4, <1>6, <1>7, <1>8 DEF Effect

LEMMA CallsKept ==
  ASSUME IInv, [Next]_vars, NEW d \in Clients, CallsInv(d)
  PROVE  CallsInv(d)'
<1>1. use' = use
  BY UseKept
<1>2. ASSUME UNCHANGED clientVars, Range(up'[d]) \subseteq Range(up[d])
      PROVE  CallsInv(d)'
  BY <1>1, <1>2 DEF CallsInv, clientVars
<1>3. CASE ClientStep
  BY <1>1, <1>3, ClientEffect, CallsKeptByClient
<1>4. ASSUME UNCHANGED clientVars, NEW c \in Clients, BrokerReceive(c)
      PROVE  CallsInv(d)'
  BY <1>2, <1>4, BrokerAnswers
<1>5. ASSUME UNCHANGED clientVars, NEW f \in Forwards, ForwardTimeout(f)
      PROVE  CallsInv(d)'
  BY <1>2, <1>5 DEF ForwardTimeout
<1>6. ASSUME UNCHANGED <<clientVars, brokerVars>>, NEW c \in Clients, Lose(c)
      PROVE  CallsInv(d)'
  <2>1. Range(up'[d]) \subseteq Range(up[d])
    BY <1>6, LoseChange, ClientWays, RangeTail
  <2> QED
    BY <1>2, <1>6, <2>1
<1>7. CASE UNCHANGED vars
  BY <1>2, <1>7 DEF vars, networkVars
<1> QED
  BY <1>3, <1>4, <1>5, <1>6, <1>7 DEF Next

\* the broker takes message m of client c, or nothing
Takes(c, m) ==
  LET i == Least(SlotsOf(c)) IN
  /\ m.type = "PUBLISH" /\ i \in Slots /\ SlotsOf(c) = {i} /\ ~IsDuplicate(i, m)
  /\ last' = [slot |-> i, id |-> m.id]
  /\ taken' = Append(taken, <<c, m.id>>)

TakesNot(c, m) ==
  LET i == Least(SlotsOf(c)) IN
  /\ UNCHANGED <<last, taken>>
  /\ m.type = "PUBLISH" /\ SlotsOf(c) # {} => i \in Slots /\ SlotsOf(c) = {i} /\ IsDuplicate(i, m)

LEMMA BrokerTakes ==
  ASSUME NEW c \in Clients, NEW m, Answering(c, m)
  PROVE  Takes(c, m) \/ TakesNot(c, m)
<1> DEFINE i == Least(SlotsOf(c))
<1>1. CASE m.type # "PUBLISH" \/ SlotsOf(c) = {}
  <2>1. UNCHANGED <<last, taken>>
    BY <1>1 DEF Answering, AnswerConnect, AnswerUnknown, AnswerDisconnect, AnswerSubscribe,
                AnswerPuback, AnswerOther, brokerVars
  <2> QED
    BY <1>1, <2>1 DEF TakesNot
<1>2. CASE m.type = "PUBLISH" /\ SlotsOf(c) # {}
  <2>1. i \in Slots /\ SlotsOf(c) = {i} /\ AnswerPublish(c, i, m)
    BY <1>2 DEF Answering
  <2> HIDE DEF i
  <2>2. CASE IsDuplicate(i, m)
    <3>1. UNCHANGED <<last, taken>>
      BY <2>1, <2>2 DEF AnswerPublish
    <3> QED
      BY <2>1, <2>2, <3>1 DEF TakesNot, i
  <2>3. CASE ~IsDuplicate(i, m)
    <3>1. last' = [slot |-> i, id |-> m.id] /\ taken' = Append(taken, <<c, m.id>>)
      BY <2>1, <2>3 DEF AnswerPublish
    <3> QED
      BY <1>2, <2>1, <2>3, <3>1 DEF Takes, i
  <2> QED
    BY <2>2, <2>3
<1> QED
  BY <1>1, <1>2

\* clients which publish do not follow each other on a connection
NoFollower ==
  \A u \in Uses : \A c, d \in Clients :
    c # d /\ "publish" \in u[c].calls \cap u[d].calls => "disconnect" \notin u[c].calls

LEMMA OkKeptByBroker ==
  ASSUME IInv, NoFollower, UNCHANGED clientVars, NEW c \in Clients, CallsInv(c), OkInv,
         BrokerReceive(c)
  PROVE  OkInv'
<1> DEFINE m == Head(up[c])
           i == Least(SlotsOf(c))
<1>1. /\ m \in UpMessages /\ m \in Range(up[c]) /\ use' = use
      /\ Answering(c, m) /\ SlotsChange(c, m)
      /\ Takes(c, m) \/ TakesNot(c, m)
  BY BrokerAnswers, BrokerSlots, BrokerTakes
<1>2. \A d \in Clients : Told(d, IF d = c THEN Acks(c, m) ELSE {})
  BY BrokerTells
<1>3. /\ use \in Uses /\ taken \in Seq(Clients \X Nat)
      /\ last \in [slot : Slots \cup {0}, id : Nat]
      /\ endpoint \in [Slots -> Clients \cup {NoClient}] /\ 0 \notin Slots
  BY BrokerAssumption DEF IInv, WaysInv, BrokerInv
<1>4. /\ m.type = "PUBLISH" => "publish" \in use[c].calls
      /\ m.type = "DISCONNECT" => "disconnect" \in use[c].calls
  BY <1>1 DEF CallsInv, Request
<1> HIDE DEF m
<1>5. m.id \in Nat
  BY <1>1 DEF UpMessages
<1>6. Range(taken) \subseteq Range(taken')
  <2>1. Range(Append(taken, <<c, m.id>>)) = Range(taken) \cup {<<c, m.id>>}
    BY <1>3, <1>5, RangeAppend
  <2> QED
    BY <1>1, <2>1 DEF Takes, TakesNot
<1>7. ASSUME Takes(c, m)
      PROVE  /\ <<c, m.id>> \in Range(taken')
             /\ last'.slot = i /\ last'.id = m.id /\ endpoint'[i] = c
  <2>1. /\ i \in SlotsOf(c) /\ m.type = "PUBLISH"
        /\ last' = [slot |-> i, id |-> m.id] /\ taken' = Append(taken, <<c, m.id>>)
    BY <1>7 DEF Takes
  <2> HIDE DEF i
  <2>2. endpoint'[i] = c
    <3>1. endpoint'[i] = c \/ m.type = "DISCONNECT"
      BY <1>1, <2>1, Zenon DEF SlotsChange
    <3> QED
      BY <2>1, <3>1
  <2>3. Range(Append(taken, <<c, m.id>>)) = Range(taken) \cup {<<c, m.id>>}
    BY <1>3, <1>5, RangeAppend
  <2> QED
    BY <2>1, <2>2, <2>3
<1>8. ASSUME m.type = "PUBLISH", SlotsOf(c) # {}
      PROVE  <<c, m.id>> \in Range(taken')
  <2>1. CASE TakesNot(c, m)
    <3>1. i \in Slots /\ SlotsOf(c) = {i} /\ last = [slot |-> i, id |-> m.id]
      BY <1>8, <2>1 DEF TakesNot, IsDuplicate
    <3>2. endpoint[i] = c
      BY <3>1 DEF SlotsOf
    <3> HIDE DEF i
    <3>3. PICK p \in Clients :
            /\ <<p, last.id>> \in Range(taken)
            /\ "publish" \in use[p].calls
            /\ endpoint[last.slot] = p \/ "disconnect" \in use[p].calls
      BY <1>3, <3>1 DEF OkInv
    <3>4. p = c
      BY <1>3, <1>4, <1>8, <3>1, <3>2, <3>3 DEF NoFollower
    <3> QED
      BY <1>6, <3>1, <3>3, <3>4
  <2> QED
    BY <1>1, <1>7, <2>1
<1>9. ASSUME NEW d \in Clients, NEW x \in Range(down'[d]), x.type = "PUBACK"
      PROVE  <<d, x.id>> \in Range(taken')
  <2>1. x.type \in Answers
    BY <1>9 DEF Answers, Answer, Exchanges
  <2>2. x \in Range(down[d]) \/ (d = c /\ x \in Acks(c, m))
    BY <1>2, <1>9, <2>1 DEF Told
  <2>3. CASE x \in Range(down[d])
    BY <1>6, <1>9, <2>3 DEF OkInv
  <2>4. CASE d = c /\ x \in Acks(c, m)
    <3>1. PICK o \in Exchanges : /\ SlotsOf(c) # {} /\ Request[o] = m.type
                                 /\ x = Message(Answer[o], m.id)
      BY <2>4 DEF Acks
    <3>2. x.id = m.id /\ Answer[o] = "PUBACK"
      BY <1>9, <3>1 DEF Message
    <3>3. m.type = "PUBLISH"
      BY <3>1, <3>2 DEF Exchanges, Answer, Request
    <3> QED
      BY <1>8, <2>4, <3>1, <3>2, <3>3
  <2> QED
    BY <2>2, <2>3, <2>4
<1>10. acked' \subseteq Range(taken')
  BY <1>6 DEF OkInv, clientVars
<1>11. ASSUME last'.slot # 0
       PROVE  \E p \in Clients :
                /\ <<p, last'.id>> \in Range(taken')
                /\ "publish" \in use'[p].calls
                /\ endpoint'[last'.slot] = p \/ "disconnect" \in use'[p].calls
  <2>1. CASE Takes(c, m)
    <3>1. m.type = "PUBLISH"
      BY <2>1 DEF Takes
    <3> HIDE DEF i
    <3> QED
      BY <1>1, <1>4, <1>7, <2>1, <3>1
  <2>2. CASE TakesNot(c, m)
    <3>1. last' = last
      BY <2>2 DEF TakesNot
    <3>2. PICK p \in Clients :
            /\ <<p, last.id>> \in Range(taken)
            /\ "publish" \in use[p].calls
            /\ endpoint[last.slot] = p \/ "disconnect" \in use[p].calls
      BY <1>11, <3>1 DEF OkInv
    <3>3. endpoint[last.slot] = p =>
            endpoint'[last.slot] = p \/ "disconnect" \in use[p].calls
      <4>1. endpoint[last.slot] = p => last.slot \in SlotsOf(p)
        BY <1>3, <1>11, <3>1 DEF SlotsOf
      <4> QED
        BY <1>1, <1>4, <4>1, Zenon DEF SlotsChange
    <3> QED
      BY <1>1, <1>6, <3>1, <3>2, <3>3
  <2> QED
    BY <1>1, <2>1, <2>2
<1> QED
  BY <1>9, <1>10, <1>11 DEF OkInv

\* nothing is taken, and what comes is no acknowledge
LEMMA OkKeptByOthers ==
  ASSUME OkInv, UNCHANGED brokerVars \/ UNCHANGED <<endpoint, last, taken>>, use' = use,
         AckedCame,
         \A d \in Clients : \A x \in Range(down'[d]) :
           x \in Range(down[d]) \/ x.type # "PUBACK"
  PROVE  OkInv'
<1>1. UNCHANGED <<endpoint, last, taken>>
  BY DEF brokerVars
<1>2. acked' \subseteq Range(taken)
  BY DEF AckedCame, OkInv
<1> QED
  BY <1>1, <1>2 DEF OkInv

\* When publish returns OK the broker has taken this very message, for every use in which
\* clients that publish do not follow each other on a connection: PUBACK is for the message
\* or for one that the broker takes for the same, and then it is the same (publish; receive
\* of the broker with lastConnectionIndex and lastMsgId).
THEOREM MqttOkIsTaken ==
  ASSUME NoFollower
  PROVE  Spec => []OkIsTaken
<1> DEFINE Inv == OkInv /\ \A c \in Clients : CallsInv(c)
<1>1. Init => Inv
  <2> SUFFICES ASSUME Init PROVE Inv
    OBVIOUS
  <2>1. /\ \A c \in Clients : up[c] = << >> /\ down[c] = << >> /\ call[c].op = "none"
        /\ acked = {} /\ last.slot = 0
    BY DEF Init, NetworkInit, ClientInit, BrokerInit, NoCall
  <2>2. Range(<< >>) = {}
    BY DEF Range
  <2> QED
    BY <2>1, <2>2 DEF OkInv, CallsInv
<1>2. ASSUME IInv, Inv, [Next]_vars
      PROVE  Inv'
  <2>1. use' = use /\ \A c \in Clients : CallsInv(c)'
    BY <1>2, UseKept, CallsKept
  <2>2. acked' = acked => AckedCame
    BY DEF AckedCame
  <2>3. CASE ClientStep
    <3>1. ASSUME NEW d \in Clients
          PROVE  Range(down'[d]) \subseteq Range(down[d])
      BY <1>2, <2>3, ClientEffect DEF Effect, Quiet, Begun, Resent, Answered
    <3>2. UNCHANGED brokerVars /\ (Clients # {} => AckedCame)
      BY <1>2, <2>3, ClientEffect DEF ClientStep
    <3>3. Clients # {}
      BY <2>3 DEF ClientStep, ClientNext
    <3> QED
      BY <1>2, <2>1, <3>1, <3>2, <3>3, OkKeptByOthers
  <2>4. ASSUME UNCHANGED clientVars, NEW c \in Clients, BrokerReceive(c)
        PROVE  Inv'
    BY <1>2, <2>1, <2>4, OkKeptByBroker
  <2>5. ASSUME UNCHANGED clientVars, NEW f \in Forwards, ForwardTimeout(f)
        PROVE  Inv'
    <3>1. /\ forward[f] # Idle /\ ForwardAgain(f)
          /\ UNCHANGED <<endpoint, last, taken>> /\ acked' = acked
      BY <2>5 DEF ForwardTimeout, clientVars
    <3> QED
      BY <1>2, <2>1, <2>2, <3>1, ForwardAgainSends, OkKeptByOthers
  <2>6. ASSUME UNCHANGED <<clientVars, brokerVars>>, NEW c \in Clients, Lose(c)
        PROVE  Inv'
    <3>1. acked' = acked
      BY <2>6 DEF clientVars
    <3> QED
      BY <1>2, <2>1, <2>2, <2>6, <3>1, LoseChange, OkKeptByOthers
  <2>7. CASE UNCHANGED vars
    <3>1. UNCHANGED brokerVars /\ down' = down /\ acked' = acked
      BY <2>7 DEF vars, clientVars, networkVars
    <3> QED
      BY <1>2, <2>1, <2>2, <3>1, OkKeptByOthers
  <2> QED
    BY <1>2, <2>3, <2>4, <2>5, <2>6, <2>7 DEF Next
<1>3. Inv => OkIsTaken
  BY DEF OkInv, OkIsTaken
<1> QED
  BY Invariant, <1>1, <1>2, <1>3, PTL DEF Spec
-----------------------------------------------------------------------------
(* TakenOnce *)

LEMMA InOrderAppend ==
  ASSUME NEW s \in Seq(UpMessages), NEW x \in UpMessages, InOrder(s),
         x.type = "PUBLISH" => /\ \A y \in Range(s) : y.type = "PUBLISH" => y.id <= x.id
                               /\ NoneAfter(s, x, {"DISCONNECT"})
  PROVE  InOrder(Append(s, x))
<1> DEFINE t == Append(s, x)
<1>1. /\ DOMAIN s = 1 .. Len(s) /\ Len(s) \in Nat
      /\ DOMAIN t = 1 .. Len(s) + 1
      /\ \A k \in 1 .. Len(s) : t[k] = s[k]
      /\ t[Len(s) + 1] = x
  BY AppendProperties
<1> HIDE DEF t
<1>2. ASSUME NEW p \in DOMAIN t, NEW q \in DOMAIN t, p < q,
             t[p].type = "PUBLISH", t[q].type = "PUBLISH"
      PROVE  /\ t[p].id <= t[q].id
             /\ t[p].id = t[q].id =>
                  \A r \in DOMAIN t : p < r /\ r < q => t[r].type # "DISCONNECT"
  <2>1. p \in DOMAIN s /\ t[p] = s[p]
    BY <1>1, <1>2
  <2>2. \A r \in DOMAIN t : r < q => r \in DOMAIN s /\ t[r] = s[r]
    BY <1>1
  <2>3. CASE q \in DOMAIN s
    <3>1. t[q] = s[q]
      BY <1>1, <2>3
    <3> QED
      BY <1>2, <2>1, <2>2, <2>3, <3>1 DEF InOrder
  <2>4. CASE q = Len(s) + 1
    <3>1. t[q] = x
      BY <1>1, <2>4
    <3>2. s[p] \in Range(s) /\ s[p] \in UpMessages
      BY <1>1, <2>1 DEF Range
    <3>3. s[p].id <= x.id /\ NoneAfter(s, x, {"DISCONNECT"})
      BY <1>2, <2>1, <3>1, <3>2
    <3>4. s[p].id = x.id => s[p] = x
      BY <1>2, <2>1, <3>1, <3>2 DEF UpMessages
    <3>5. s[p].id = x.id => \A r \in DOMAIN s : p < r => s[r].type # "DISCONNECT"
      BY <2>1, <3>3, <3>4 DEF NoneAfter
    <3> QED
      BY <2>1, <2>2, <3>1, <3>3, <3>5
  <2> QED
    BY <1>1, <2>3, <2>4
<1> QED
  BY <1>2 DEF InOrder, t

LEMMA InOrderTail ==
  ASSUME NEW s \in Seq(UpMessages), s # << >>, InOrder(s)
  PROVE  /\ InOrder(Tail(s))
         /\ Head(s).type = "PUBLISH" => IsAfter(Tail(s), Head(s).id)
<1> DEFINE t == Tail(s)
<1>1. /\ DOMAIN s = 1 .. Len(s) /\ Len(s) \in Nat \ {0} /\ Head(s) = s[1]
      /\ DOMAIN t = 1 .. Len(s) - 1
      /\ \A k \in 1 .. Len(s) - 1 : t[k] = s[k + 1]
  BY HeadTailProperties
<1> HIDE DEF t
<1>2. \A k \in DOMAIN t : k + 1 \in DOMAIN s /\ t[k] = s[k + 1] /\ 1 < k + 1
  BY <1>1
<1>3. 1 \in DOMAIN s
  BY <1>1
<1>4. \A j, k \in DOMAIN t : j < k => j + 1 < k + 1
  BY <1>1
<1>5. ASSUME NEW p \in DOMAIN t, NEW q \in DOMAIN t, p < q,
             t[p].type = "PUBLISH", t[q].type = "PUBLISH"
      PROVE  /\ t[p].id <= t[q].id
             /\ t[p].id = t[q].id =>
                  \A r \in DOMAIN t : p < r /\ r < q => t[r].type # "DISCONNECT"
  <2>1. /\ p + 1 \in DOMAIN s /\ q + 1 \in DOMAIN s /\ p + 1 < q + 1
        /\ s[p + 1].type = "PUBLISH" /\ s[q + 1].type = "PUBLISH"
    BY <1>2, <1>4, <1>5
  <2>2. /\ s[p + 1].id <= s[q + 1].id
        /\ s[p + 1].id = s[q + 1].id =>
             \A r \in DOMAIN s : p + 1 < r /\ r < q + 1 => s[r].type # "DISCONNECT"
    BY <2>1 DEF InOrder
  <2> QED
    BY <1>2, <1>4, <2>2
<1>6. ASSUME s[1].type = "PUBLISH", NEW q \in DOMAIN t, t[q].type = "PUBLISH"
      PROVE  /\ s[1].id <= t[q].id
             /\ s[1].id = t[q].id => \A p \in DOMAIN t : p < q => t[p].type # "DISCONNECT"
  <2>1. q + 1 \in DOMAIN s /\ 1 < q + 1 /\ s[q + 1].type = "PUBLISH"
    BY <1>2, <1>6
  <2>2. /\ s[1].id <= s[q + 1].id
        /\ s[1].id = s[q + 1].id =>
             \A r \in DOMAIN s : 1 < r /\ r < q + 1 => s[r].type # "DISCONNECT"
    BY <1>3, <1>6, <2>1 DEF InOrder
  <2> QED
    BY <1>2, <1>4, <2>2
<1> QED
  BY <1>1, <1>5, <1>6 DEF InOrder, IsAfter, t

LEMMA IsAfterAppend ==
  ASSUME NEW s \in Seq(UpMessages), NEW x \in UpMessages, NEW k \in Nat, IsAfter(s, k),
         x.type = "PUBLISH" =>
           k <= x.id /\ (k = x.id => \A y \in Range(s) : y.type # "DISCONNECT")
  PROVE  IsAfter(Append(s, x), k)
<1> DEFINE t == Append(s, x)
<1>1. /\ DOMAIN s = 1 .. Len(s) /\ Len(s) \in Nat
      /\ DOMAIN t = 1 .. Len(s) + 1
      /\ \A n \in 1 .. Len(s) : t[n] = s[n]
      /\ t[Len(s) + 1] = x
  BY AppendProperties
<1> HIDE DEF t
<1>2. ASSUME NEW q \in DOMAIN t, t[q].type = "PUBLISH"
      PROVE  /\ k <= t[q].id
             /\ k = t[q].id => \A p \in DOMAIN t : p < q => t[p].type # "DISCONNECT"
  <2>1. \A p \in DOMAIN t : p < q => p \in DOMAIN s /\ t[p] = s[p] /\ t[p] \in Range(s)
    BY <1>1 DEF Range
  <2>2. CASE q \in DOMAIN s
    BY <1>1, <1>2, <2>1, <2>2 DEF IsAfter
  <2>3. CASE q = Len(s) + 1
    BY <1>1, <1>2, <2>1, <2>3
  <2> QED
    BY <1>1, <2>2, <2>3
<1> QED
  BY <1>2 DEF IsAfter, t

LEMMA IsAfterTail ==
  ASSUME NEW s \in Seq(UpMessages), s # << >>, NEW k \in Nat, IsAfter(s, k)
  PROVE  /\ IsAfter(Tail(s), k)
         /\ Head(s).type = "PUBLISH" => k <= Head(s).id
         /\ Head(s).type = "DISCONNECT" => Message("PUBLISH", k) \notin Range(Tail(s))
<1> DEFINE t == Tail(s)
<1>1. /\ DOMAIN s = 1 .. Len(s) /\ Len(s) \in Nat \ {0} /\ Head(s) = s[1]
      /\ DOMAIN t = 1 .. Len(s) - 1
      /\ \A n \in 1 .. Len(s) - 1 : t[n] = s[n + 1]
  BY HeadTailProperties
<1> HIDE DEF t
<1>2. \A n \in DOMAIN t : n + 1 \in DOMAIN s /\ t[n] = s[n + 1] /\ 1 < n + 1
  BY <1>1
<1>3. 1 \in DOMAIN s /\ \A i, j \in DOMAIN t : i < j => i + 1 < j + 1
  BY <1>1
<1>4. IsAfter(t, k)
  BY <1>2, <1>3 DEF IsAfter
<1>5. s[1].type = "PUBLISH" => k <= s[1].id
  BY <1>3 DEF IsAfter
<1>6. ASSUME s[1].type = "DISCONNECT", NEW n \in DOMAIN t, t[n] = Message("PUBLISH", k)
      PROVE  FALSE
  <2>1. s[n + 1].type = "PUBLISH" /\ k = s[n + 1].id
    BY <1>2, <1>6 DEF Message
  <2> QED
    BY <1>2, <1>3, <1>6, <2>1 DEF IsAfter
<1> QED
  BY <1>1, <1>4, <1>5, <1>6 DEF Range, t

LEMMA SentByOrder ==
  ASSUME IInv, NEW c \in Clients, NEW x \in UpMessages, SentBy(c, x), InOrder(up[c]),
         x.type = "PUBLISH" => /\ \A y \in Range(up[c]) : y.type = "PUBLISH" => y.id <= x.id
                               /\ NoneAfter(up[c], x, {"DISCONNECT"})
  PROVE  InOrder(up'[c])
<1>1. up[c] \in Seq(UpMessages)
  BY ClientWays
<1>2. InOrder(Append(up[c], x))
  BY <1>1, InOrderAppend
<1>3. up'[c] = up[c] \/ up'[c] = Append(up[c], x)
  BY DEF SentBy
<1> QED
  BY <1>2, <1>3

LEMMA SentByAfter ==
  ASSUME IInv, NEW c \in Clients, NEW x \in UpMessages, SentBy(c, x), NEW k \in Nat,
         IsAfter(up[c], k),
         x.type = "PUBLISH" =>
           k <= x.id /\ (k = x.id => \A y \in Range(up[c]) : y.type # "DISCONNECT")
  PROVE  IsAfter(up'[c], k)
<1>1. up[c] \in Seq(UpMessages)
  BY ClientWays
<1>2. IsAfter(Append(up[c], x), k)
  BY <1>1, IsAfterAppend
<1>3. up'[c] = up[c] \/ up'[c] = Append(up[c], x)
  BY DEF SentBy
<1> QED
  BY <1>2, <1>3

LEMMA OrderKeptByClient ==
  ASSUME IInv, NEW c \in Clients, IdsInv(c), OrderInv(c), Effect(c)
  PROVE  OrderInv(c)'
<1>1. NoCall.op # "publish"
  BY DEF NoCall
<1>2. \A op \in DOMAIN Request : Request[op] = "PUBLISH" <=> op = "publish"
  BY DEF Request
<1>3. "PUBLISH" \in Requests /\ "publish" \in Exchanges
  BY DEF Requests, Request, Exchanges, Answer
<1>4. CASE Quiet(c)
  <2>1. ASSUME NEW x \in UpMessages, x.type \in {"PINGREQ", "PUBACK"}, SentBy(c, x)
        PROVE  OrderInv(c)'
    <3>1. InOrder(up'[c])
      BY <2>1, SentByOrder DEF OrderInv
    <3>2. \A m : NoneAfter(up[c], m, {"DISCONNECT"}) => NoneAfter(up'[c], m, {"DISCONNECT"})
      BY <2>1, SentByNoneAfter
    <3> QED
      BY <1>1, <1>4, <3>1, <3>2 DEF Quiet, OrderInv
  <2>2. CASE up'[c] = up[c]
    BY <1>1, <1>4, <2>2 DEF Quiet, OrderInv
  <2> QED
    BY <1>4, <2>1, <2>2 DEF Quiet
<1>5. ASSUME NEW op \in use[c].calls \cap DOMAIN Request, Begun(c, op)
      PROVE  OrderInv(c)'
  <2> DEFINE id == IF op \in Exchanges THEN nextMsgId[c] + 1 ELSE 0
             m == Message(Request[op], id)
  <2>1. /\ id \in Nat /\ m \in UpMessages /\ m.type = Request[op] /\ m.id = id
        /\ nextMsgId[c] \in Nat
    BY ClientWays, RequestType DEF Message
  <2>2. SentBy(c, m) /\ call'[c].op = op /\ call'[c].id = id
    BY <1>5 DEF Begun
  <2>3. op \in Exchanges => id = nextMsgId[c] + 1
    OBVIOUS
  <2> HIDE DEF id
  <2>4. ASSUME op = "publish"
        PROVE  /\ \A y \in Range(up[c]) : y.type = "PUBLISH" => y.id <= m.id
               /\ NoneAfter(up[c], m, {"DISCONNECT"}) /\ m \notin Range(up[c])
               /\ m = Message("PUBLISH", id)
    <3>1. \A y \in Range(up[c]) : y.type = "PUBLISH" => y.id <= nextMsgId[c]
      BY <1>3 DEF IdsInv
    <3>2. \A y \in Range(up[c]) : y.id \in Nat
      BY ClientWays DEF UpMessages
    <3>3. m = Message("PUBLISH", id) /\ m.type = "PUBLISH" /\ m.id = nextMsgId[c] + 1
      BY <1>2, <1>3, <2>1, <2>3, <2>4
    <3> HIDE DEF m
    <3>4. m \notin Range(up[c])
      BY <2>1, <3>1, <3>3
    <3>5. NoneAfter(up[c], m, {"DISCONNECT"})
      BY <3>4 DEF NoneAfter, Range
    <3> QED
      BY <2>1, <3>1, <3>2, <3>3, <3>4, <3>5
  <2> HIDE DEF m
  <2>5. InOrder(up'[c])
    BY <1>2, <2>1, <2>2, <2>4, SentByOrder DEF OrderInv
  <2>6. op = "publish" => NoneAfter(up'[c], Message("PUBLISH", id), {"DISCONNECT"})
    BY <2>1, <2>2, <2>4, SentByNoneAfter
  <2> QED
    BY <2>2, <2>5, <2>6 DEF OrderInv
<1>6. CASE Resent(c)
  <2> DEFINE op == call[c].op
             m == Message(Request[op], call[c].id)
  <2>1. m \in UpMessages /\ m.type = Request[op] /\ op \in DOMAIN Request /\ m.id = call[c].id
    BY <1>6, ClientWays, RequestType DEF Message, Resent
  <2>2. SentBy(c, m) /\ call'[c].op = op /\ call'[c].id = call[c].id
    BY <1>6 DEF Resent
  <2>3. ASSUME op = "publish"
        PROVE  /\ \A y \in Range(up[c]) : y.type = "PUBLISH" => y.id <= m.id
               /\ NoneAfter(up[c], m, {"DISCONNECT"})
               /\ m = Message("PUBLISH", call[c].id)
    <3>1. m = Message("PUBLISH", call[c].id)
      BY <1>2, <2>1, <2>3
    <3>2. call[c].id = nextMsgId[c]
      BY <1>3, <2>3 DEF IdsInv
    <3> QED
      BY <1>3, <2>1, <2>3, <3>1, <3>2 DEF IdsInv, OrderInv
  <2> HIDE DEF m
  <2>4. InOrder(up'[c])
    BY <1>2, <2>1, <2>2, <2>3, SentByOrder DEF OrderInv
  <2>5. op = "publish" => NoneAfter(up'[c], Message("PUBLISH", call[c].id), {"DISCONNECT"})
    <3>1. op = "publish" => m.type # "DISCONNECT"
      BY <1>2, <2>1
    <3> QED
      BY <2>1, <2>2, <2>3, <3>1, SentByNoneAfter
  <2> QED
    BY <2>2, <2>4, <2>5 DEF OrderInv
<1>7. CASE Answered(c)
  BY <1>1, <1>7 DEF Answered, OrderInv
<1> QED
  BY <1>4, <1>5, <1>6, <1>7 DEF Effect

LEMMA TakenKeptByClient ==
  ASSUME IInv, UNCHANGED brokerVars, NEW c \in Clients, IdsInv(c), TakenInv(c), Effect(c)
  PROVE  TakenInv(c)'
<1> SUFFICES ASSUME NEW k \in Nat, <<c, k>> \in Range(taken)
             PROVE  /\ k <= nextMsgId'[c]
                    /\ IsAfter(up'[c], k)
                    /\ Message("PUBLISH", k) \in Range(up'[c]) => Known(c, k)
                    /\ call'[c].op = "publish" /\ call'[c].id = k =>
                         Known(c, k) /\ \A m \in Range(up'[c]) : m.type # "DISCONNECT"
  <2>1. taken' = taken /\ \A k \in Nat : Known(c, k)' = Known(c, k)
    BY DEF brokerVars, Known, SlotsOf
  <2> QED
    BY <2>1 DEF TakenInv
<1>1. NoCall.op # "publish"
  BY DEF NoCall
<1>2. \A op \in DOMAIN Request : /\ Request[op] = "PUBLISH" <=> op = "publish"
                                 /\ Request[op] = "DISCONNECT" <=> op = "disconnect"
  BY DEF Request
<1>3. "publish" \in Exchanges
  BY DEF Exchanges, Answer
<1>4. /\ k <= nextMsgId[c]
      /\ IsAfter(up[c], k)
      /\ Message("PUBLISH", k) \in Range(up[c]) => Known(c, k)
      /\ call[c].op = "publish" /\ call[c].id = k =>
           Known(c, k) /\ \A m \in Range(up[c]) : m.type # "DISCONNECT"
  BY DEF TakenInv
<1>5. nextMsgId[c] \in Nat
  BY ClientWays
<1>6. Message("PUBLISH", k).type = "PUBLISH" /\ Message("PUBLISH", k).id = k
  BY DEF Message
<1>7. CASE Quiet(c)
  <2>1. CASE up'[c] = up[c]
    BY <1>1, <1>4, <1>7, <2>1 DEF Quiet
  <2>2. ASSUME NEW x \in UpMessages, x.type \in {"PINGREQ", "PUBACK"}, SentBy(c, x)
        PROVE  /\ IsAfter(up'[c], k)
               /\ \A m \in Range(up'[c]) : m \in Range(up[c]) \/ m.type \in {"PINGREQ", "PUBACK"}
    BY <1>4, <2>2, SentByAfter, SentByRange
  <2>3. CASE \E x \in UpMessages : x.type \in {"PINGREQ", "PUBACK"} /\ SentBy(c, x)
    BY <1>1, <1>4, <1>6, <1>7, <2>2, <2>3 DEF Quiet
  <2> QED
    BY <1>7, <2>1, <2>3 DEF Quiet
<1>8. ASSUME NEW op \in use[c].calls \cap DOMAIN Request, Begun(c, op)
      PROVE  /\ k <= nextMsgId'[c]
             /\ IsAfter(up'[c], k)
             /\ Message("PUBLISH", k) \in Range(up'[c]) => Known(c, k)
             /\ ~(call'[c].op = "publish" /\ call'[c].id = k)
  <2> DEFINE id == IF op \in Exchanges THEN nextMsgId[c] + 1 ELSE 0
             m == Message(Request[op], id)
  <2>1. id \in Nat /\ m \in UpMessages /\ m.type = Request[op] /\ m.id = id
    BY ClientWays, RequestType DEF Message
  <2>2. /\ SentBy(c, m) /\ call'[c].op = op /\ call'[c].id = id
        /\ nextMsgId'[c] = IF op \in Exchanges THEN id ELSE nextMsgId[c]
    BY <1>8 DEF Begun
  <2>3. op \in Exchanges => id = nextMsgId[c] + 1
    OBVIOUS
  <2> HIDE DEF id, m
  <2>4. m.type = "PUBLISH" => op = "publish" /\ k < m.id
    <3>1. m.type = "PUBLISH" => op = "publish"
      BY <1>2, <2>1
    <3>2. op = "publish" => m.id = nextMsgId[c] + 1
      BY <1>3, <2>1, <2>3
    <3>3. k < nextMsgId[c] + 1
      BY <1>4, <1>5
    <3> QED
      BY <3>1, <3>2, <3>3
  <2>5. k <= nextMsgId'[c]
    BY <1>4, <1>5, <2>2, <2>3
  <2>6. IsAfter(up'[c], k)
    BY <1>4, <2>1, <2>2, <2>4, SentByAfter DEF UpMessages
  <2>7. Message("PUBLISH", k) \in Range(up'[c]) => Known(c, k)
    <3>1. Range(up'[c]) \subseteq Range(up[c]) \cup {m}
      BY <2>1, <2>2, SentByRange
    <3>2. m # Message("PUBLISH", k)
      BY <1>6, <2>1, <2>4
    <3> QED
      BY <1>4, <3>1, <3>2
  <2>8. ~(call'[c].op = "publish" /\ call'[c].id = k)
    BY <1>3, <1>4, <1>5, <2>2, <2>3
  <2> QED
    BY <2>5, <2>6, <2>7, <2>8
<1>9. CASE Resent(c)
  <2> DEFINE op == call[c].op
             m == Message(Request[op], call[c].id)
  <2>1. m \in UpMessages /\ m.type = Request[op] /\ op \in DOMAIN Request /\ m.id = call[c].id
    BY <1>9, ClientWays, RequestType DEF Message, Resent
  <2>2. SentBy(c, m) /\ call'[c].op = op /\ call'[c].id = call[c].id
        /\ nextMsgId'[c] = nextMsgId[c]
    BY <1>9 DEF Resent
  <2> HIDE DEF m
  <2>3. m.type = "PUBLISH" => op = "publish" /\ m.id = nextMsgId[c]
    BY <1>2, <1>3, <2>1 DEF IdsInv
  <2>4. IsAfter(up'[c], k)
    BY <1>4, <2>1, <2>2, <2>3, SentByAfter
  <2>5. Range(up'[c]) \subseteq Range(up[c]) \cup {m}
    BY <2>1, <2>2, SentByRange
  <2>6. Message("PUBLISH", k) \in Range(up'[c]) => Known(c, k)
    BY <1>4, <1>6, <2>1, <2>3, <2>5
  <2>7. op = "publish" => m.type # "DISCONNECT"
    BY <1>2, <2>1
  <2> QED
    BY <1>4, <2>2, <2>4, <2>5, <2>6, <2>7
<1>10. CASE Answered(c)
  BY <1>1, <1>4, <1>10 DEF Answered
<1> QED
  BY <1>7, <1>8, <1>9, <1>10 DEF Effect

\* nothing is taken for client c, and its connection stays if it does not disconnect
LEMMA TakenKeptByLess ==
  ASSUME IInv, UNCHANGED clientVars, NEW c \in Clients, OrderInv(c), TakenInv(c),
         up'[c] = up[c] \/ (up[c] # << >> /\ up'[c] = Tail(up[c])),
         \A k \in Nat : <<c, k>> \in Range(taken') => <<c, k>> \in Range(taken),
         \A k \in Nat : <<c, k>> \in Range(taken) /\ Known(c, k) =>
           \/ Known(c, k)'
           \/ up[c] # << >> /\ up'[c] = Tail(up[c]) /\ Head(up[c]).type = "DISCONNECT"
  PROVE  OrderInv(c)' /\ TakenInv(c)'
<1>1. up[c] \in Seq(UpMessages) /\ UNCHANGED <<call, nextMsgId>>
  BY ClientWays DEF clientVars
<1>2. Range(up'[c]) \subseteq Range(up[c])
  BY <1>1, RangeTail
<1>3. OrderInv(c)'
  <2>1. InOrder(up'[c])
    BY <1>1, InOrderTail DEF OrderInv
  <2>2. \A m : NoneAfter(up[c], m, {"DISCONNECT"}) => NoneAfter(up'[c], m, {"DISCONNECT"})
    BY <1>1, NoneAfterTail
  <2> QED
    BY <1>1, <2>1, <2>2 DEF OrderInv
<1>4. ASSUME NEW k \in Nat, <<c, k>> \in Range(taken')
      PROVE  /\ k <= nextMsgId[c]
             /\ IsAfter(up'[c], k)
             /\ Message("PUBLISH", k) \in Range(up'[c]) => Known(c, k)'
             /\ call[c].op = "publish" /\ call[c].id = k =>
                  Known(c, k)' /\ \A m \in Range(up'[c]) : m.type # "DISCONNECT"
  <2>1. /\ <<c, k>> \in Range(taken)
        /\ k <= nextMsgId[c] /\ IsAfter(up[c], k)
        /\ Message("PUBLISH", k) \in Range(up[c]) => Known(c, k)
        /\ call[c].op = "publish" /\ call[c].id = k =>
             Known(c, k) /\ \A m \in Range(up[c]) : m.type # "DISCONNECT"
    BY <1>4 DEF TakenInv
  <2>2. IsAfter(up'[c], k)
    BY <1>1, <2>1, IsAfterTail
  <2>3. up[c] # << >> => Head(up[c]) \in Range(up[c])
    BY <1>1, RangeTail
  <2>4. up[c] # << >> /\ up'[c] = Tail(up[c]) /\ Head(up[c]).type = "DISCONNECT" =>
          Message("PUBLISH", k) \notin Range(up'[c])
    BY <1>1, <2>1, IsAfterTail
  <2> QED
    BY <1>2, <2>1, <2>2, <2>3, <2>4
<1> QED
  BY <1>1, <1>3, <1>4 DEF TakenInv

\* only one client publishes
OnePublisher ==
  \A u \in Uses : \A c, d \in Clients : "publish" \in u[c].calls \cap u[d].calls => c = d

OrdersInv ==
  /\ OnceInv
  /\ \A c \in Clients : CallsInv(c) /\ IdsInv(c) /\ OrderInv(c) /\ TakenInv(c)

LEMMA OrdersKeptByBroker ==
  ASSUME IInv, OnePublisher, UNCHANGED clientVars, OrdersInv, NEW c \in Clients,
         BrokerReceive(c)
  PROVE  OnceInv' /\ \A d \in Clients : OrderInv(d)' /\ TakenInv(d)'
<1> DEFINE m == Head(up[c])
           i == Least(SlotsOf(c))
<1>1. /\ m \in UpMessages /\ m \in Range(up[c]) /\ use' = use
      /\ up[c] # << >> /\ up'[c] = Tail(up[c])
      /\ \A d \in Clients \ {c} : up'[d] = up[d]
      /\ Answering(c, m) /\ SlotsChange(c, m)
      /\ Takes(c, m) \/ TakesNot(c, m)
  BY BrokerAnswers, BrokerSlots, BrokerTakes
<1>2. /\ use \in Uses /\ taken \in Seq(Clients \X Nat)
      /\ last \in [slot : Slots \cup {0}, id : Nat]
      /\ endpoint \in [Slots -> Clients \cup {NoClient}]
      /\ up[c] \in Seq(UpMessages)
  BY ClientWays DEF IInv, WaysInv, BrokerInv
<1>3. m.type = "PUBLISH" => "publish" \in use[c].calls
  BY <1>1 DEF OrdersInv, CallsInv, Request
<1>4. \A d \in Clients, k \in Nat : <<d, k>> \in Range(taken) => "publish" \in use[d].calls
  BY DEF OrdersInv, OnceInv
<1> HIDE DEF m
<1>5. m.id \in Nat /\ UNCHANGED <<call, nextMsgId>>
  BY <1>1 DEF UpMessages, clientVars
<1>6. \A d \in Clients : \A j \in SlotsOf(d) :
        j \in SlotsOf(d)' \/ (d = c /\ m.type = "DISCONNECT")
  <2>1. \A d \in Clients : \A j \in SlotsOf(d) :
          endpoint'[j] = d \/ (d = c /\ m.type = "DISCONNECT")
    BY <1>1 DEF SlotsChange
  <2> QED
    BY <2>1 DEF SlotsOf
<1>7. CASE TakesNot(c, m)
  <2>1. UNCHANGED <<last, taken>>
    BY <1>7 DEF TakesNot
  <2>2. ASSUME NEW d \in Clients
        PROVE  OrderInv(d)' /\ TakenInv(d)'
    <3>1. ASSUME NEW k \in Nat, Known(d, k)
          PROVE  Known(d, k)' \/ (d = c /\ m.type = "DISCONNECT")
      BY <1>6, <2>1, <3>1 DEF Known
    <3>2. OrderInv(d) /\ TakenInv(d) /\ (d # c => up'[d] = up[d])
      BY <1>1 DEF OrdersInv
    <3> QED
      BY <1>1, <2>1, <3>1, <3>2, TakenKeptByLess DEF m
  <2> QED
    BY <1>1, <2>1, <2>2 DEF OrdersInv, OnceInv
<1>8. CASE Takes(c, m)
  <2>1. /\ m.type = "PUBLISH" /\ i \in Slots /\ SlotsOf(c) = {i} /\ ~IsDuplicate(i, m)
        /\ last' = [slot |-> i, id |-> m.id]
        /\ taken' = Append(taken, <<c, m.id>>)
    BY <1>8 DEF Takes
  <2> HIDE DEF i
  <2>2. Range(taken') = Range(taken) \cup {<<c, m.id>>}
    <3>1. Range(Append(taken, <<c, m.id>>)) = Range(taken) \cup {<<c, m.id>>}
      <4>1. taken \in Seq(Clients \X Nat) /\ <<c, m.id>> \in Clients \X Nat
        BY <1>2, <1>5
      <4> QED
        BY <4>1, RangeAppend
    <3> QED
      BY <2>1, <3>1
  <2>3. m = Message("PUBLISH", m.id)
    BY <1>1, <2>1 DEF UpMessages, Message
  <2>4. <<c, m.id>> \notin Range(taken)
    <3>1. <<c, m.id>> \in Range(taken) => Known(c, m.id)
      BY <1>1, <1>5, <2>3 DEF OrdersInv, TakenInv
    <3>2. Known(c, m.id) => last = [slot |-> i, id |-> m.id]
      BY <1>2, <2>1 DEF Known
    <3> QED
      BY <2>1, <3>1, <3>2 DEF IsDuplicate
  <2>5. OnceInv'
    <3>1. /\ DOMAIN taken = 1 .. Len(taken) /\ Len(taken) \in Nat
          /\ DOMAIN taken' = 1 .. Len(taken) + 1
          /\ \A k \in 1 .. Len(taken) : taken'[k] = taken[k] /\ taken'[k] \in Range(taken)
          /\ taken'[Len(taken) + 1] = <<c, m.id>>
      BY <1>2, <1>5, <2>1, AppendProperties DEF Range
    <3>2. \A k \in DOMAIN taken' : k \in DOMAIN taken \/ k = Len(taken) + 1
      BY <3>1
    <3>3. \A j, k \in DOMAIN taken' : taken'[j] = taken'[k] => j = k
      BY <2>4, <3>1, <3>2 DEF OrdersInv, OnceInv
    <3>4. \A d \in Clients, k \in Nat :
            <<d, k>> \in Range(taken') => "publish" \in use'[d].calls
      BY <1>1, <1>3, <1>4, <2>1, <2>2
    <3> QED
      BY <3>3, <3>4 DEF OnceInv
  <2>6. ASSUME NEW d \in Clients \ {c}
        PROVE  OrderInv(d)' /\ TakenInv(d)'
    <3>1. \A k \in Nat : <<d, k>> \notin Range(taken)
      BY <1>2, <1>3, <1>4, <2>1 DEF OnePublisher
    <3>2. \A k \in Nat : <<d, k>> \in Range(taken') => <<d, k>> \in Range(taken)
      BY <2>2
    <3>3. OrderInv(d) /\ TakenInv(d) /\ up'[d] = up[d]
      BY <1>1 DEF OrdersInv
    <3> QED
      BY <3>1, <3>2, <3>3, TakenKeptByLess
  <2>7. OrderInv(c)'
    <3>1. InOrder(up'[c])
      BY <1>1, <1>2, InOrderTail DEF OrdersInv, OrderInv
    <3>2. \A x : NoneAfter(up[c], x, {"DISCONNECT"}) => NoneAfter(up'[c], x, {"DISCONNECT"})
      BY <1>1, <1>2, NoneAfterTail
    <3> QED
      BY <1>5, <3>1, <3>2 DEF OrdersInv, OrderInv
  <2>8. TakenInv(c)'
    <3>1. IdsInv(c) /\ OrderInv(c) /\ TakenInv(c)
      BY DEF OrdersInv
    <3>2. m.id <= nextMsgId[c] /\ (call[c].op = "publish" => call[c].id = nextMsgId[c])
      <4>1. "PUBLISH" \in Requests /\ "publish" \in Exchanges
        BY DEF Requests, Request, Exchanges, Answer
      <4> QED
        BY <1>1, <2>1, <3>1, <4>1 DEF IdsInv
    <3>3. IsAfter(up'[c], m.id)
      BY <1>1, <1>2, <2>1, <3>1, InOrderTail DEF OrderInv, m
    <3>4. \A k \in Nat : k = m.id => Known(c, k)'
      <4>1. i \in SlotsOf(c)'
        BY <1>6, <2>1
      <4>2. last'.id = m.id /\ last'.slot = i
        BY <2>1
      <4> QED
        BY <4>1, <4>2 DEF Known
    <3>5. call[c].op = "publish" /\ call[c].id = m.id =>
            \A x \in Range(up'[c]) : x.type # "DISCONNECT"
      <4>1. ASSUME call[c].op = "publish", call[c].id = m.id
            PROVE  NoneAfter(up[c], m, {"DISCONNECT"})
        BY <2>3, <3>1, <4>1 DEF OrderInv
      <4>2. NoneAfter(up[c], m, {"DISCONNECT"}) =>
              \A x \in Range(Tail(up[c])) : x.type \notin {"DISCONNECT"}
        BY <1>1, <1>2, NoneAfterTail DEF m
      <4> QED
        BY <1>1, <4>1, <4>2
    <3>6. ASSUME NEW k \in Nat, <<c, k>> \in Range(taken)
          PROVE  /\ k <= nextMsgId[c] /\ IsAfter(up'[c], k) /\ k < m.id
                 /\ Message("PUBLISH", k) \notin Range(up'[c])
      <4>1. k <= nextMsgId[c] /\ IsAfter(up[c], k)
        BY <3>1, <3>6 DEF TakenInv
      <4>2. IsAfter(up'[c], k) /\ k <= m.id
        BY <1>1, <1>2, <2>1, <4>1, IsAfterTail DEF m
      <4>3. k # m.id
        BY <2>4, <3>6
      <4>4. \A q \in DOMAIN up'[c] : up'[c][q].type = "PUBLISH" => m.id <= up'[c][q].id
        BY <3>3 DEF IsAfter
      <4>5. Message("PUBLISH", k).type = "PUBLISH" /\ Message("PUBLISH", k).id = k
        BY DEF Message
      <4>6. k < m.id
        BY <1>5, <4>2, <4>3
      <4>7. ~(m.id <= k)
        BY <1>5, <4>6
      <4>8. Message("PUBLISH", k) \notin Range(up'[c])
        BY <4>4, <4>5, <4>7 DEF Range
      <4> QED
        BY <4>1, <4>2, <4>6, <4>8
    <3>7. ASSUME NEW k \in Nat, <<c, k>> \in Range(taken')
          PROVE  /\ k <= nextMsgId[c]
                 /\ IsAfter(up'[c], k)
                 /\ Message("PUBLISH", k) \in Range(up'[c]) => Known(c, k)'
                 /\ call[c].op = "publish" /\ call[c].id = k =>
                      Known(c, k)' /\ \A x \in Range(up'[c]) : x.type # "DISCONNECT"
      <4>1. CASE k = m.id
        BY <3>2, <3>3, <3>4, <3>5, <4>1
      <4>2. CASE k # m.id
        <5>1. <<c, k>> \in Range(taken)
          BY <2>2, <3>7, <4>2
        <5>2. nextMsgId[c] \in Nat
          BY ClientWays
        <5>3. /\ k <= nextMsgId[c] /\ IsAfter(up'[c], k) /\ k < m.id
              /\ Message("PUBLISH", k) \notin Range(up'[c])
          BY <3>6, <5>1
        <5>4. ~(call[c].op = "publish" /\ call[c].id = k)
          BY <1>5, <3>2, <5>2, <5>3
        <5> QED
          BY <5>3, <5>4
      <4> QED
        BY <4>1, <4>2
    <3> QED
      BY <1>5, <3>7 DEF TakenInv
  <2> QED
    BY <2>5, <2>6, <2>7, <2>8
<1> QED
  BY <1>1, <1>7, <1>8

\* the broker takes no message in this step
LEMMA OrdersKeptByOthers ==
  ASSUME IInv, UNCHANGED clientVars, UNCHANGED <<endpoint, last, taken>>, NEW d \in Clients,
         OrderInv(d), TakenInv(d),
         up'[d] = up[d] \/ (up[d] # << >> /\ up'[d] = Tail(up[d]))
  PROVE  OrderInv(d)' /\ TakenInv(d)'
<1>1. \A k \in Nat : Known(d, k)' = Known(d, k)
  BY DEF Known, SlotsOf
<1> QED
  BY <1>1, TakenKeptByLess

\* With one client that publishes, the broker hands each of its messages over to forward()
\* once, however often it is sent: what is on the way is in the order of the ids, and when a
\* message that was taken comes again, the client still has its connection and no other
\* message was taken meanwhile (publish; receive of the broker with lastConnectionIndex and
\* lastMsgId).
THEOREM MqttTakenOnce ==
  ASSUME OnePublisher
  PROVE  Spec => []TakenOnce
<1> DEFINE Inv == OrdersInv /\ GrantsInv
<1>1. Init => Inv
  <2> SUFFICES ASSUME Init PROVE Inv
    OBVIOUS
  <2>1. /\ \A c \in Clients : up[c] = << >> /\ down[c] = << >> /\ call[c] = NoCall
                               /\ granted[c] = "unknown"
        /\ taken = << >>
    BY DEF Init, NetworkInit, ClientInit, BrokerInit
  <2>2. Range(<< >>) = {}
    BY DEF Range
  <2>3. NoCall.op = "none" /\ "none" \notin Exchanges \cup DOMAIN Wish
    BY DEF NoCall, Exchanges, Answer, Wish
  <2>4. "unknown" \notin DOMAIN Ends
    BY DEF Ends
  <2>5. \A c \in Clients : IdsInv(c) /\ GrantInv(c)
    BY <2>1, <2>2, <2>3, <2>4 DEF IdsInv, GrantInv
  <2>6. OnceInv
    BY <2>1, <2>2 DEF OnceInv
  <2>7. ASSUME NEW c \in Clients
        PROVE  CallsInv(c) /\ OrderInv(c) /\ TakenInv(c)
    <3>1. up[c] = << >> /\ call[c].op = "none" /\ Range(taken) = {}
      BY <2>1, <2>2, <2>3
    <3>2. Range(up[c]) = {} /\ DOMAIN up[c] = {}
      BY <2>2, <3>1
    <3>3. CallsInv(c)
      BY <3>1, <3>2 DEF CallsInv
    <3>4. OrderInv(c)
      BY <3>1, <3>2 DEF OrderInv, InOrder
    <3>5. TakenInv(c)
      BY <3>1 DEF TakenInv
    <3> QED
      BY <3>3, <3>4, <3>5
  <2> QED
    BY <2>5, <2>6, <2>7 DEF OrdersInv, GrantsInv
<1>2. ASSUME IInv, Inv, [Next]_vars
      PROVE  Inv'
  <2>1. GrantsInv' /\ \A d \in Clients : IdsInv(d)'
    BY <1>2, GrantsKept DEF GrantsInv
  <2>2. use' = use /\ \A d \in Clients : CallsInv(d)'
    BY <1>2, UseKept, CallsKept DEF OrdersInv
  <2>3. taken' = taken => OnceInv'
    BY <1>2, <2>2 DEF OrdersInv, OnceInv
  <2>4. \A d \in Clients : IdsInv(d) /\ OrderInv(d) /\ TakenInv(d)
    BY <1>2 DEF OrdersInv
  <2>5. OnceInv' /\ \A d \in Clients : OrderInv(d)' /\ TakenInv(d)'
    <3>1. CASE ClientStep
      <4>1. UNCHANGED brokerVars /\ \A d \in Clients : Effect(d)
        BY <1>2, <3>1, ClientEffect DEF ClientStep
      <4>2. taken' = taken
        BY <4>1 DEF brokerVars
      <4> QED
        BY <1>2, <2>3, <2>4, <4>1, <4>2, OrderKeptByClient, TakenKeptByClient
    <3>2. ASSUME UNCHANGED clientVars, NEW c \in Clients, BrokerReceive(c)
          PROVE  OnceInv' /\ \A d \in Clients : OrderInv(d)' /\ TakenInv(d)'
      BY <1>2, <3>2, OrdersKeptByBroker
    <3>3. ASSUME UNCHANGED clientVars, NEW f \in Forwards, ForwardTimeout(f)
          PROVE  OnceInv' /\ \A d \in Clients : OrderInv(d)' /\ TakenInv(d)'
      <4>1. UNCHANGED <<endpoint, last, taken, up>>
        BY <3>3 DEF ForwardTimeout
      <4> QED
        BY <1>2, <2>3, <2>4, <3>3, <4>1, OrdersKeptByOthers
    <3>4. ASSUME UNCHANGED <<clientVars, brokerVars>>, NEW c \in Clients, Lose(c)
          PROVE  OnceInv' /\ \A d \in Clients : OrderInv(d)' /\ TakenInv(d)'
      <4>1. UNCHANGED <<endpoint, last, taken>>
        BY <3>4 DEF brokerVars
      <4> QED
        BY <1>2, <2>3, <2>4, <3>4, <4>1, LoseChange, OrdersKeptByOthers
    <3>5. CASE UNCHANGED vars
      <4>1. UNCHANGED clientVars /\ UNCHANGED <<endpoint, last, taken, up>>
        BY <3>5 DEF vars, brokerVars, networkVars
      <4> QED
        BY <1>2, <2>3, <2>4, <4>1, OrdersKeptByOthers
    <3> QED
      BY <1>2, <3>1, <3>2, <3>3, <3>4, <3>5 DEF Next
  <2> QED
    BY <2>1, <2>2, <2>5 DEF OrdersInv
<1>3. Inv => TakenOnce
  BY DEF OrdersInv, OnceInv, TakenOnce, IsInjective
<1> QED
  BY Invariant, <1>1, <1>2, <1>3, PTL DEF Spec
=============================================================================
