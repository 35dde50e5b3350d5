------------------------------- MODULE MqttSn -------------------------------
(***************************************************************************)
(* Clients and a broker of MQTT-SN, with datagrams that get lost and       *)
(* answers that come after the timeout.                                    *)
(***************************************************************************)
EXTENDS MqttSnClient, MqttSnBroker, Functions

vars == <<clientVars, brokerVars, networkVars>>

Init == NetworkInit /\ ClientInit /\ BrokerInit

ClientStep == ClientNext /\ UNCHANGED brokerVars

Next ==
  \/ ClientStep
  \/ UNCHANGED clientVars /\ \E c \in Clients : BrokerReceive(c)
  \/ UNCHANGED clientVars /\ \E f \in Forwards : ForwardTimeout(f)
  \/ UNCHANGED <<clientVars, brokerVars>> /\ \E c \in Clients : Lose(c)

Spec == Init /\ [][Next]_vars

\* timers run out
LiveSpec ==
  /\ Spec
  /\ \A c \in Clients : WF_vars(Retry(c) /\ UNCHANGED brokerVars)
  /\ \A f \in Forwards : WF_vars(ForwardTimeout(f) /\ UNCHANGED clientVars)
-----------------------------------------------------------------------------
MessageTypes == {"CONNECT", "CONNACK", "REJECTED", "DISCONNECT", "REGISTER", "REGACK",
                 "SUBSCRIBE", "SUBACK", "UNSUBSCRIBE", "UNSUBACK", "PUBLISH", "PUBACK",
                 "PINGREQ", "PINGRESP"}

MessagesOf(way) == UNION {{way[c][k] : k \in DOMAIN way[c]} : c \in Clients}

TypeOK ==
  /\ use \in Uses
  /\ \A m \in MessagesOf(up) \cup MessagesOf(down) : m.type \in MessageTypes /\ m.id \in Nat
  /\ \A c \in Clients : Len(up[c]) <= use[c].room /\ Len(down[c]) <= use[c].room
  /\ state \in [Clients -> {"disconnected", "connected", "crashed"}]
  /\ \A c \in Clients : call[c] \in Calls(c)
  /\ ping \in [Clients -> Sleeps .. PING_RETRY]
  /\ receiver \in [Clients -> Away .. brokerMsgId]
  /\ \A c \in Clients : nextMsgId[c] \in 0 .. use[c].ids
  /\ granted \in [Clients -> {"yes", "no", "unknown"}]
  /\ endpoint \in [Slots -> Clients \cup {NoClient}]
  /\ subscribed \subseteq Slots
  /\ last.slot \in Slots \cup {0} /\ last.id \in Nat
  /\ \A f \in Forwards :
       /\ {forward[f].to, forward[f].from} \subseteq Slots \cup {0}
       /\ forward[f].id \in 0 .. brokerMsgId
       /\ forward[f].retry \in 0 .. FORWARD_RETRY
  /\ {acked, Range(taken)} \subseteq SUBSET (Clients \X Nat)

\* A client has one connection at most, whatever is sent twice or comes late: otherwise it
\* would get each message more than once, and its DISCONNECT would leave a connection
\* behind for ever (receive, CONNECT and DISCONNECT).
OneConnection == \A c \in Clients : Cardinality(SlotsOf(c)) <= 1

\* What subscribeTopic or unsubscribeTopic granted holds at the broker as long as the client
\* is connected, also after retries, late answers and a connection that was given up.
GrantHolds ==
  \A c \in Clients : state[c] = "connected" =>
    /\ granted[c] = "yes" => \E i \in subscribed : endpoint[i] = c
    /\ granted[c] = "no" => \A i \in subscribed : endpoint[i] # c

\* When publish returns OK the broker has taken this very message: the acknowledge is not
\* a late one of an earlier message, and the message was not suppressed as a duplicate of
\* another one.  This needs that clients which publish on a topic do not follow each other
\* on a connection (publish, receive with lastConnectionIndex and lastMsgId).
OkIsTaken == acked \subseteq Range(taken)

\* With one publisher the broker hands each message over to forward() once, however often
\* it is sent (receive, lastConnectionIndex and lastMsgId).
TakenOnce == IsInjective(taken)

\* Nobody waits for a message on a connection that is given up (disconnectInternal).
ReceiverWakes == \A c \in Clients : receiver[c] = Waits => state[c] = "connected"

\* Every call returns, whatever gets lost.
CallsReturn == \A c \in Clients : []<>(call[c] = NoCall)

\* Every forward() comes back to wait for the next message, whatever the clients do.
ForwardsReturn == \A f \in Forwards : []<>(forward[f] = Idle)
=============================================================================
