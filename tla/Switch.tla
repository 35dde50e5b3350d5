------------------------------- MODULE Switch -------------------------------
(***************************************************************************)
(* The switch node (switch/src/main.cpp): up to four buttons on two        *)
(* channels, the relays of SwitchRelays, the bus, and the persistent modes,*)
(* commissioning and security counter.  Its coroutines checkButtons, send, *)
(* receive and updateRelays share the fields of the class; they run in one *)
(* thread and are resumed synchronously: who adds to sendQueue or changes  *)
(* relays and calls resumeFirst runs the waiting coroutine up to its next  *)
(* co_await, within the same step.                                         *)
(*                                                                         *)
(* A message is "enumerate" or "data"; what the data says, the state of a  *)
(* button or an attribute, does not matter to the properties.              *)
(* masterSecurityCounter is left out: it is only stored and written to the *)
(* terminal.                                                               *)
(***************************************************************************)
EXTENDS SwitchRelays, Sequences

CONSTANTS
  Address,        (* addresses the master may give                         *)
  NoAddress,      (* -1: standalone mode                                   *)
  None,           (* nothing is on the way to the bus                      *)
  Values,         (* values for plugs: 0..2, 3 stands for others          *)
  QueueLength,    (* places in sendQueue: 8                                *)
  LAST_COUNTER    (* bound: the security counter is used up to here        *)

ASSUME SwitchAssumption ==
  /\ NoAddress \notin Address
  /\ None \notin {"enumerate", "data"}
  /\ Values \subseteq 0 .. 3
  /\ QueueLength \in Nat \ {0}
  /\ LAST_COUNTER \in Nat

Buttons == Relays    \* a button for every relay

Channels == {b \div 2 : b \in Buttons}

Modes == {"light", "doubleLight", "blind"}

Messages == {"enumerate", "data"}

VARIABLES
  buttons,              (* buttons that are pressed                        *)
  configure,            (* all were pressed, not configured yet            *)
  commission,           (* all were pressed, not all released yet          *)
  modes,                (* mode of each channel                            *)
  commissioning,        (* the address on the bus                          *)
  nodeSecurityCounter,  (* of the next message                             *)
  storedModes, storedCommissioning, storedCounter,   (* in the storages    *)
  outputStates,         (* of each relay, for messages from the bus        *)
  sendQueue,
  sending,              (* message busNode.send works on, None when send() *)
                        (*   waits at sendBarrier                          *)
  lastSent              (* history: last counter since enumerate, or -1    *)

buttonVars == <<buttons, configure, commission, modes, storedModes>>
busVars == <<nodeSecurityCounter, storedCounter, sendQueue, sending, lastSent>>
vars == <<relayVars, buttonVars, busVars, commissioning, storedCommissioning,
          outputStates>>

SendQueue == INSTANCE Queue WITH Elements <- Messages, N <- QueueLength
-----------------------------------------------------------------------------
(* send() *)

\* mutant of Send: the counter reaches the storage after the next message
SendStoredLate(q) ==
  LET message == SendQueue!GetFront(q) IN
  /\ sendQueue' = SendQueue!RemoveFront(q)
  /\ sending' = message
  /\ nodeSecurityCounter' = IF message = "enumerate" THEN 0 ELSE nodeSecurityCounter + 1
  /\ storedCounter' = nodeSecurityCounter
  /\ lastSent' = IF message = "enumerate" THEN -1 ELSE nodeSecurityCounter

\* take the next element; the counter is in the storage before the message is on the bus,
\* "enumerate" resets it
Send(q) ==
  LET message == SendQueue!GetFront(q) IN
  /\ sendQueue' = SendQueue!RemoveFront(q)
  /\ sending' = message
  /\ nodeSecurityCounter' = IF message = "enumerate" THEN 0 ELSE nodeSecurityCounter + 1
  /\ storedCounter' = nodeSecurityCounter'
  /\ lastSent' = IF message = "enumerate" THEN -1 ELSE nodeSecurityCounter

\* addBack, then resumeFirst, which finds send() waiting or busy
Enqueue(message) ==
  LET q == SendQueue!AddBack(sendQueue, message) IN
  IF sending = None
  THEN Send(q)
  ELSE sendQueue' = q /\ UNCHANGED <<sending, nodeSecurityCounter, storedCounter, lastSent>>

\* bound: at the end of the counters no message that takes one is queued
BelowBound ==
  nodeSecurityCounter + Len(SelectSeq(SendQueue!Contents(sendQueue), LAMBDA e : e = "data"))
    < LAST_COUNTER

\* mutant of BusSent: waits for the next wake-up
BusSentWaits ==
  /\ sending # None
  /\ sending' = None
  /\ UNCHANGED <<sendQueue, nodeSecurityCounter, storedCounter, lastSent>>
  /\ UNCHANGED <<relayVars, buttonVars, commissioning, storedCommissioning, outputStates>>

\* busNode.send has finished
BusSent ==
  /\ sending # None
  /\ IF SendQueue!IsEmpty(sendQueue)
     THEN /\ sending' = None
          /\ UNCHANGED <<sendQueue, nodeSecurityCounter, storedCounter, lastSent>>
     ELSE Send(sendQueue)
  /\ UNCHANGED <<relayVars, buttonVars, commissioning, storedCommissioning, outputStates>>
-----------------------------------------------------------------------------
(* checkButtons() *)

\* the buttons that are held select the mode of a channel; none keeps it
SelectedMode(ch) ==
  CASE buttons \cap {2 * ch, 2 * ch + 1} = {} -> modes[ch]
    [] buttons \cap {2 * ch, 2 * ch + 1} = {2 * ch} -> "light"
    [] buttons \cap {2 * ch, 2 * ch + 1} = {2 * ch + 1} -> "doubleLight"
    [] OTHER -> "blind"

\* what button i does in standalone mode. The shift in doubleLight moves a zero into bit 0,
\* so that the second button of each channel clears bit 0 on press and release.
ButtonRelays(mode, i, state) ==
  LET first == i - (i % 2) IN
  CASE mode = "light" ->
         IF state
         THEN (relays \ {first, first + 4}) \cup (IF i = first THEN {first} ELSE {})
         ELSE relays
    [] mode = "doubleLight" ->
         LET known0 == relays \ ({i + 4} \cup (IF i # first THEN {0} ELSE {})) IN
         IF ~state THEN known0 ELSE (known0 \ {i}) \cup ({i} \ known0)
    [] mode = "blind" ->
         IF state
         THEN (relays \ {first, first + 1, first + 4, first + 5}) \cup {i}
         ELSE relays

\* mutant of Decommission: the commissioning stays in the storage
DecommissionKeeps(released) ==
  /\ commissioning' = IF released THEN NoAddress ELSE commissioning
  /\ UNCHANGED storedCommissioning

Decommission(released) ==
  /\ commissioning' = IF released THEN NoAddress ELSE commissioning
  /\ storedCommissioning' = IF released THEN NoAddress ELSE storedCommissioning

\* button i is pressed or released, late when all were pressed more than 3 s ago;
\* the modes come from the buttons before
Trigger(i, late) ==
  LET state == i \notin buttons
      configuring == configure /\ late
      all == buttons' = Buttons
      released == commission /\ buttons' = {}
  IN
  /\ buttons' = IF state THEN buttons \cup {i} ELSE buttons \ {i}
  /\ modes' = IF configuring THEN [ch \in Channels |-> SelectedMode(ch)] ELSE modes
  /\ storedModes' = IF configuring THEN modes' ELSE storedModes
  /\ configure' = (all \/ (configure /\ ~configuring /\ ~released))
  /\ commission' = (all \/ (commission /\ ~released))
  /\ Decommission(released)
  /\ IF commissioning' = NoAddress
     THEN Ask(ButtonRelays(modes'[i \div 2], i, state))
     ELSE UNCHANGED relayVars
  /\ IF released THEN Enqueue("enumerate")
     ELSE IF commissioning' # NoAddress /\ BelowBound THEN Enqueue("data")
     ELSE UNCHANGED busVars
  /\ UNCHANGED outputStates
-----------------------------------------------------------------------------
(* receive().  A message that does not decrypt, or for a plug that does not *)
(* exist any more, ends the coroutine: from then on the master could as    *)
(* well be silent, which the steps below do not forbid.                    *)

\* the master answers "enumerate" with an address
ReceiveCommission(address) ==
  /\ commissioning' = address
  /\ storedCommissioning' = address
  /\ UNCHANGED <<relayVars, buttonVars, busVars, outputStates>>

\* the master asks for an attribute
ReceiveAttribute ==
  /\ commissioning # NoAddress
  /\ BelowBound
  /\ Enqueue("data")
  /\ UNCHANGED <<relayVars, buttonVars, commissioning, storedCommissioning, outputStates>>

\* plugs of a mode: a rocker, then the inputs
PlugCount(mode) == IF mode = "doubleLight" THEN 3 ELSE 2

\* a light is off, on or toggled (0, 1, 2); 3 stands for other values
LightState(state, value) ==
  CASE value < 2 -> value
    [] value = 2 -> IF state % 2 = 0 THEN state + 1 ELSE state - 1
    [] OTHER -> state

StateBits(relay, state) ==
  {relay + b : b \in {k \in {0, 1} : (state \div (k + 1)) % 2 = 1}}

\* a value for plug `plug' of channel ch, which exists
ReceivePlug(ch, plug, value) ==
  LET relay == 2 * ch + (IF plug = 2 THEN 1 ELSE 0)
      light == modes[ch] # "blind"
      state == IF light THEN LightState(outputStates[relay], value)
               ELSE IF value <= 2 THEN value ELSE 0
      cleared == IF light THEN {relay, relay + 4}
                 ELSE {relay, relay + 1, relay + 4, relay + 5}
  IN
  /\ commissioning # NoAddress
  /\ plug \in 1 .. PlugCount(modes[ch]) - 1
  /\ outputStates' = [outputStates EXCEPT ![relay] = state]
  /\ Ask((relays \ cleared) \cup StateBits(relay, state))
  /\ UNCHANGED <<buttonVars, busVars, commissioning, storedCommissioning>>

-----------------------------------------------------------------------------
\* the power fails and returns with no button pressed; the constructor loads what is stored
PowerFails ==
  /\ RelaysRestart
  /\ modes' = storedModes
  /\ commissioning' = storedCommissioning
  /\ nodeSecurityCounter' = storedCounter
  /\ buttons' = {}
  /\ configure' = FALSE
  /\ commission' = FALSE
  /\ outputStates' = [r \in Relays |-> 0]
  /\ sendQueue' = SendQueue!NewQueue("data")
  /\ sending' = None
  /\ UNCHANGED <<storedModes, storedCommissioning, storedCounter, lastSent>>

Init ==
  /\ RelaysInit
  /\ buttons = {}
  /\ configure = FALSE
  /\ commission = FALSE
  /\ modes = [ch \in Channels |-> "light"]
  /\ storedModes = modes
  /\ commissioning = NoAddress
  /\ storedCommissioning = NoAddress
  /\ nodeSecurityCounter = 0
  /\ storedCounter = 0
  /\ outputStates = [r \in Relays |-> 0]
  /\ sendQueue = SendQueue!NewQueue("data")
  /\ sending = None
  /\ lastSent = -1

otherVars == <<buttonVars, busVars, commissioning, storedCommissioning, outputStates>>

Driver == /\ ContactsMoved \/ Released
          /\ UNCHANGED otherVars

Next ==
  \/ \E i \in Buttons, late \in BOOLEAN : Trigger(i, late)
  \/ BusSent
  \/ \E address \in Address : ReceiveCommission(address)
  \/ ReceiveAttribute
  \/ \E ch \in Channels, plug \in 1 .. 2, value \in Values : ReceivePlug(ch, plug, value)
  \/ Driver
  \/ PowerFails

Spec == Init /\ [][Next]_vars

\* SPI transfer and timer come back to updateRelays
LiveSpec == Spec /\ WF_vars(Driver)
-----------------------------------------------------------------------------
TypeOK ==
  /\ RelaysTypeOK
  /\ buttons \subseteq Buttons
  /\ {configure, commission} \subseteq BOOLEAN
  /\ {modes, storedModes} \subseteq [Channels -> Modes]
  /\ {commissioning, storedCommissioning} \subseteq Address \cup {NoAddress}
  /\ {nodeSecurityCounter, storedCounter} \subseteq Nat
  /\ outputStates \in [Relays -> 0 .. 3]
  /\ sendQueue \in SendQueue!Queues
  /\ sending \in Messages \cup {None}
  /\ lastSent \in Nat \cup {-1}

\* Whenever the power fails the node comes back with the modes and the commissioning it
\* has now: a node that left the bus does not return to it (checkButtons, receive).
StoredAgrees ==
  /\ modes = storedModes
  /\ commissioning = storedCommissioning

\* The next message to the master has a counter above every one that was on the bus since
\* the node last enumerated, also after a restart (send stores before it sends).
CounterFresh == lastSent < nodeSecurityCounter

\* sendQueue keeps the order and gives up only the oldest element (Queue::addBack), though
\* two coroutines add to it and a third one takes elements out.
List == INSTANCE DropOldest WITH
          Elements <- Messages, N <- QueueLength, list <- SendQueue!Contents(sendQueue)
QueueDropsOldest == List!Spec

\* send() never sleeps on a queue with elements, so that a node that left the bus does
\* ask the master for an address: resumeFirst keeps nothing for a coroutine that does not
\* wait, send() looks at the queue each time before it waits.
SendAwake == sending = None => SendQueue!IsEmpty(sendQueue)

\* When nobody asks for changes any more every contact gets to where it was asked to be and
\* the half bridges are off: updateRelays misses no change, whatever it waits for.
InPlace ==
  /\ driver = "idle"
  /\ \A r \in Relays : r + 4 \notin relays => (r \in contacts <=> r \in relays)

RelaysFollow == []<><<TRUE>>_relays \/ <>[]InPlace
=============================================================================
