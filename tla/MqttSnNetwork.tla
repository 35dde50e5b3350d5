---------------------------- MODULE MqttSnNetwork ----------------------------
(***************************************************************************)
(* The datagrams between the clients and the broker of MQTT-SN             *)
(* (system/src/posix/Network.cpp and the network below it).  A socket has  *)
(* one list of datagrams to send and one of datagrams that came, both in   *)
(* order; the way between them keeps the order too, but loses datagrams,   *)
(* and a full buffer drops what comes.                                     *)
(*                                                                         *)
(* A message is its type and its message id (0 when it has none).          *)
(***************************************************************************)
EXTENDS Naturals, Sequences

CONSTANTS
  Clients,    (* endpoints of the clients                                  *)
  Uses        (* bound: the uses of the clients. For each client            *)
              (*   calls: what its user calls, and "ping" when it is idle  *)
              (*     for KEEP_ALIVE_TIME                                   *)
              (*   ids: the message ids it takes                           *)
              (*   room: datagrams that may be on each of its two ways     *)

ASSUME NetworkAssumption ==
  Uses \subseteq [Clients -> [calls : SUBSET STRING, ids : Nat, room : Nat \ {0}]]

VARIABLES
  use,        (* the use of this behaviour                                 *)
  up,         (* from each client to the broker                            *)
  down        (* from the broker to each client                            *)

networkVars == <<use, up, down>>

Message(type, id) == [type |-> type, id |-> id]

\* the way with one more datagram for or from client c, if there is room
Sent(way, c, m) ==
  [way EXCEPT ![c] = IF Len(@) < use[c].room THEN Append(@, m) ELSE @]

Taken(way, c) == [way EXCEPT ![c] = Tail(@)]

Lose(c) ==
  \/ up[c] # << >> /\ up' = Taken(up, c) /\ UNCHANGED <<use, down>>
  \/ down[c] # << >> /\ down' = Taken(down, c) /\ UNCHANGED <<use, up>>

NetworkInit ==
  /\ use \in Uses
  /\ up = [c \in Clients |-> << >>]
  /\ down = [c \in Clients |-> << >>]
=============================================================================
