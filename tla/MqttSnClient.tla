---------------------------- MODULE MqttSnClient ----------------------------
(***************************************************************************)
(* The MQTT-SN clients (node/src/MqttSnClient.cpp).  A user of a client    *)
(* makes one call at a time, and another coroutine of the user receives    *)
(* messages and acknowledges them.  Besides, the coroutines ping and       *)
(* receive run while the client is connected.  A call sends a request and  *)
(* waits for its answer in ackWaitlist or for RETRANSMISSION_TIME; receive *)
(* resumes it synchronously when the answer comes.                         *)
(*                                                                         *)
(* Network::send keeps the order of what a client sends, so that a step    *)
(* includes the sending up to the co_await after it.                       *)
(***************************************************************************)
EXTENDS MqttSnNetwork, Integers

CONSTANTS
  MAX_RETRY,    (* a request is sent 1 + MAX_RETRY times                   *)
  PING_RETRY    (* the same number in ping()                               *)

ASSUME ClientAssumption ==
  /\ MAX_RETRY \in Nat
  /\ PING_RETRY \in Nat

VARIABLES
  state,        (* of each client: "disconnected", "connected", "crashed"  *)
  call,         (* what its user called: op, number of retries, message id *)
  ping,         (* retries of ping(), Sleeps between two pings             *)
  receiver,     (* user of receive(): Away, Waits for a message, or        *)
                (*   acknowledges the message with this id                 *)
  nextMsgId,
  granted,      (* what the user knows of its subscription: "yes", "no",   *)
                (*   "unknown"                                             *)
  acked         (* history: <<client, id>> for which publish returned OK   *)

clientVars == <<state, call, ping, receiver, nextMsgId, granted, acked>>

Sleeps == -1
Away == -1
Waits == 0

NoCall == [op |-> "none", retry |-> 0, id |-> 0]

\* request and answer of each call that waits in ackWaitlist
Request == [register |-> "REGISTER", subscribe |-> "SUBSCRIBE",
            unsubscribe |-> "UNSUBSCRIBE", publish |-> "PUBLISH",
            connect |-> "CONNECT", disconnect |-> "DISCONNECT"]

Answer == [register |-> "REGACK", subscribe |-> "SUBACK", unsubscribe |-> "UNSUBACK",
           publish |-> "PUBACK"]

Exchanges == DOMAIN Answer

Calls(c) ==
  [op : DOMAIN Request \cup {"none"}, retry : 0 .. MAX_RETRY, id : 0 .. use[c].ids]
-----------------------------------------------------------------------------
\* the user calls op; connect needs a client that is not connected, the others one that is
Begin(c, op) ==
  LET id == IF op \in Exchanges THEN nextMsgId[c] + 1 ELSE 0 IN
  /\ call[c] = NoCall
  /\ state[c] = IF op = "connect" THEN "disconnected" ELSE "connected"
  /\ id <= use[c].ids
  /\ call' = [call EXCEPT ![c] = [op |-> op, retry |-> 0, id |-> id]]
  /\ nextMsgId' = [nextMsgId EXCEPT ![c] = IF op \in Exchanges THEN id ELSE @]
  /\ granted' = [granted EXCEPT ![c] =
                   IF op \in {"register", "publish"} THEN @ ELSE "unknown"]
  /\ up' = Sent(up, c, Message(Request[op], id))
  /\ UNCHANGED <<use, state, ping, receiver, acked, down>>

\* mutant of Disconnected: the user of receive() waits on
DisconnectedKeepsReceiver(c) ==
  /\ state' = [state EXCEPT ![c] = "disconnected"]
  /\ ping' = [ping EXCEPT ![c] = Sleeps]
  /\ call' = [call EXCEPT ![c] = NoCall]
  /\ UNCHANGED receiver

\* disconnectInternal: whoever waits is resumed, finds the client disconnected and
\* returns INVALID_STATE; a call of disconnect() is done
Disconnected(c) ==
  /\ state' = [state EXCEPT ![c] = "disconnected"]
  /\ ping' = [ping EXCEPT ![c] = Sleeps]
  /\ call' = [call EXCEPT ![c] = NoCall]
  /\ receiver' = [receiver EXCEPT ![c] = IF @ = Waits THEN Away ELSE @]

\* ping() or receive() finds out.  When disconnect() waits it is resumed, cancels both
\* coroutines and so destroys the one that runs: undefined, it may go well or crash
Noticed(c) ==
  \/ Disconnected(c)
  \/ /\ call[c].op = "disconnect"
     /\ state' = [state EXCEPT ![c] = "crashed"]
     /\ ping' = [ping EXCEPT ![c] = Sleeps]
     /\ call' = [call EXCEPT ![c] = NoCall]
     /\ receiver' = [receiver EXCEPT ![c] = Away]

\* mutant of Retry: one retry too many
RetryOnceMore(c) ==
  /\ call[c].op # "none"
  /\ call[c].retry <= MAX_RETRY
  /\ call' = [call EXCEPT ![c].retry = @ + 1]
  /\ up' = Sent(up, c, Message(Request[call[c].op], call[c].id))
  /\ UNCHANGED <<state, ping, receiver, nextMsgId, use, granted, acked, down>>

\* mutant of Retry: starts to count again
RetryUncounted(c) ==
  /\ call[c].op # "none"
  /\ call' = [call EXCEPT ![c].retry = 0]
  /\ up' = Sent(up, c, Message(Request[call[c].op], call[c].id))
  /\ UNCHANGED <<state, ping, receiver, nextMsgId, use, granted, acked, down>>

\* no answer within the time: send again, or give up
Retry(c) ==
  /\ call[c].op # "none"
  /\ IF call[c].retry < MAX_RETRY
     THEN /\ call' = [call EXCEPT ![c].retry = @ + 1]
          /\ up' = Sent(up, c, Message(Request[call[c].op], call[c].id))
          /\ UNCHANGED <<state, ping, receiver>>
     ELSE /\ IF call[c].op = "disconnect"
             THEN Disconnected(c)
             ELSE call' = [call EXCEPT ![c] = NoCall] /\ UNCHANGED <<state, ping, receiver>>
          /\ UNCHANGED up
  /\ UNCHANGED <<nextMsgId, use, granted, acked, down>>

\* the timer of ping()
Ping(c) ==
  /\ "ping" \in use[c].calls
  /\ state[c] = "connected"
  /\ IF ping[c] < PING_RETRY
     THEN /\ ping' = [ping EXCEPT ![c] = @ + 1]
          /\ up' = Sent(up, c, Message("PINGREQ", 0))
          /\ UNCHANGED <<state, call, receiver>>
     ELSE Noticed(c) /\ UNCHANGED up
  /\ UNCHANGED <<nextMsgId, use, granted, acked, down>>

\* the other coroutine of the user calls receive()
AwaitMessage(c) ==
  /\ "receive" \in use[c].calls
  /\ state[c] = "connected"
  /\ receiver[c] = Away
  /\ receiver' = [receiver EXCEPT ![c] = Waits]
  /\ UNCHANGED <<state, call, ping, nextMsgId, granted, acked, networkVars>>

\* and ackReceive(), which does not look at the state
AckReceive(c) ==
  /\ receiver[c] > 0
  /\ up' = Sent(up, c, Message("PUBACK", receiver[c]))
  /\ receiver' = [receiver EXCEPT ![c] = Away]
  /\ UNCHANGED <<state, call, ping, nextMsgId, use, granted, acked, down>>

\* connect() reads the socket itself, and takes anything but CONNACK for an error
AnswerToConnect(c, m) ==
  /\ call' = [call EXCEPT ![c] = NoCall]
  /\ state' = [state EXCEPT ![c] = IF m.type = "CONNACK" THEN "connected" ELSE @]
  /\ UNCHANGED <<ping, receiver, granted, acked, up>>

\* mutant of Awaited: any acknowledge of this type
AwaitedType(c, m) ==
  /\ call[c].op \in Exchanges
  /\ Answer[call[c].op] = m.type

\* the call waits for this acknowledge
Awaited(c, m) ==
  /\ call[c].op \in Exchanges
  /\ Answer[call[c].op] = m.type
  /\ call[c].id = m.id

\* receive() resumes the call that waits for the acknowledge, or ping()
Acknowledged(c, m) ==
  /\ IF Awaited(c, m)
     THEN /\ call' = [call EXCEPT ![c] = NoCall]
          /\ granted' = [granted EXCEPT ![c] = CASE m.type = "SUBACK" -> "yes"
                                                [] m.type = "UNSUBACK" -> "no"
                                                [] OTHER -> @]
          /\ acked' = IF m.type = "PUBACK" THEN acked \cup {<<c, call[c].id>>} ELSE acked
     ELSE UNCHANGED <<call, granted, acked>>
  /\ ping' = [ping EXCEPT ![c] = IF m.type = "PINGRESP" THEN Sleeps ELSE @]
  /\ UNCHANGED <<state, receiver, up>>

\* a message is lost when the user does not wait for it
Published(c, m) ==
  /\ receiver' = [receiver EXCEPT ![c] = IF @ = Waits THEN m.id ELSE @]
  /\ UNCHANGED <<state, call, ping, granted, acked, up>>

\* the socket of client c has a datagram; it stays there while nobody receives
ClientReceive(c) ==
  /\ down[c] # << >>
  /\ state[c] = "connected" \/ call[c].op = "connect"
  /\ LET m == Head(down[c]) IN
     IF state[c] = "disconnected" THEN AnswerToConnect(c, m)
     ELSE CASE m.type = "PUBLISH" -> Published(c, m)
            [] m.type = "DISCONNECT" -> Noticed(c) /\ UNCHANGED <<granted, acked, up>>
            [] OTHER -> Acknowledged(c, m)
  /\ down' = Taken(down, c)
  /\ UNCHANGED <<use, nextMsgId>>

ClientInit ==
  /\ state = [c \in Clients |-> "disconnected"]
  /\ call = [c \in Clients |-> NoCall]
  /\ ping = [c \in Clients |-> Sleeps]
  /\ receiver = [c \in Clients |-> Away]
  /\ nextMsgId = [c \in Clients |-> 0]
  /\ granted = [c \in Clients |-> "unknown"]
  /\ acked = {}

ClientNext ==
  \E c \in Clients :
    \/ \E op \in use[c].calls \cap DOMAIN Request : Begin(c, op)
    \/ Retry(c)
    \/ Ping(c)
    \/ AwaitMessage(c)
    \/ AckReceive(c)
    \/ ClientReceive(c)
=============================================================================
