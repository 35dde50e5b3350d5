---------------------------- MODULE SwitchProofs ----------------------------
(***************************************************************************)
(* Proofs about Switch, for every set of relays, queue and counter.  Each  *)
(* step of the switch is a step of its relays: what the coroutines ask for *)
(* never makes a bit unknown, because the two bits that ReceivePlug sets   *)
(* are those of relays.  For the first relay of a channel this holds       *)
(* whatever its output state; the second one has an output state of its    *)
(* own only in mode doubleLight, where it is 0 or 1.  And sendQueue        *)
(* implements DropOldest.                                                  *)
(***************************************************************************)
EXTENDS Switch, SwitchRelaysProofs

ButtonInv ==
  /\ buttons \subseteq Buttons
  /\ configure \in BOOLEAN
  /\ commission \in BOOLEAN
  /\ modes \in [Channels -> Modes]
  /\ commissioning \in Address \cup {NoAddress}
  /\ StoredAgrees

OutputInv ==
  /\ outputStates \in [Relays -> 0 .. 3]
  /\ \A r \in Relays : r % 2 = 1 => outputStates[r] \in {0, 1}

BusInv ==
  /\ nodeSecurityCounter \in Nat
  /\ storedCounter = nodeSecurityCounter
  /\ sendQueue \in SendQueue!Queues
  /\ sending \in Messages \cup {None}
  /\ lastSent \in Nat \cup {-1}
  /\ CounterFresh
  /\ SendAwake

IInv == RelaysInv /\ ButtonInv /\ OutputInv /\ BusInv
-----------------------------------------------------------------------------
(* The queue *)

LEMMA Modulus ==
  ASSUME NEW x \in Nat, NEW n \in Nat \ {0}
  PROVE  /\ x % n \in 0 .. n - 1
         /\ x < n => x % n = x
         /\ n <= x /\ x < n + n => x % n = x - n
  OBVIOUS

LEMMA QueueTypes ==
  ASSUME NEW q \in SendQueue!Queues, NEW e \in Messages
  PROVE  /\ SendQueue!AddBack(q, e) \in SendQueue!Queues
         /\ ~SendQueue!IsEmpty(SendQueue!AddBack(q, e))
         /\ SendQueue!RemoveFront(q) \in SendQueue!Queues
         /\ SendQueue!GetFront(q) \in Messages
         /\ SendQueue!NewQueue(e) \in SendQueue!Queues
         /\ SendQueue!IsEmpty(SendQueue!NewQueue(e))
<1> DEFINE N == QueueLength
<1>1. N \in Nat \ {0}
  BY SwitchAssumption
<1>2. q.front \in 0 .. N - 1 /\ q.c \in 0 .. N /\ q.elements \in [0 .. N - 1 -> Messages]
  BY DEF SendQueue!Queues
<1>3. (q.front + q.c) % N \in 0 .. N - 1 /\ (q.front + 1) % N \in 0 .. N - 1
  <2>1. q.front + q.c \in Nat /\ q.front + 1 \in Nat
    BY <1>1, <1>2
  <2> HIDE DEF N
  <2> QED
    BY <1>1, <2>1, Modulus
<1>4. SendQueue!AddBack(q, e) \in SendQueue!Queues
  BY <1>1, <1>2, <1>3 DEF SendQueue!AddBack, SendQueue!Queues
<1>5. ~SendQueue!IsEmpty(SendQueue!AddBack(q, e))
  BY <1>1, <1>2 DEF SendQueue!AddBack, SendQueue!IsEmpty
<1>6. SendQueue!RemoveFront(q) \in SendQueue!Queues
  BY <1>1, <1>2, <1>3 DEF SendQueue!RemoveFront, SendQueue!Queues
<1>7. SendQueue!GetFront(q) \in Messages
  BY <1>2 DEF SendQueue!GetFront
<1>8. SendQueue!NewQueue(e) \in SendQueue!Queues /\ SendQueue!IsEmpty(SendQueue!NewQueue(e))
  BY <1>1 DEF SendQueue!NewQueue, SendQueue!Queues, SendQueue!IsEmpty
<1> QED
  BY <1>4, <1>5, <1>6, <1>7, <1>8
-----------------------------------------------------------------------------
(* Steps on the bus *)

LEMMA SendKeeps ==
  ASSUME BusInv, NEW q \in SendQueue!Queues, Send(q)
  PROVE  BusInv'
<1>1. /\ sendQueue' = SendQueue!RemoveFront(q)
      /\ sending' = SendQueue!GetFront(q)
      /\ nodeSecurityCounter' = IF sending' = "enumerate" THEN 0 ELSE nodeSecurityCounter + 1
      /\ storedCounter' = nodeSecurityCounter'
      /\ lastSent' = IF sending' = "enumerate" THEN -1 ELSE nodeSecurityCounter
  BY DEF Send
<1>2. sendQueue' \in SendQueue!Queues /\ sending' \in Messages
  BY <1>1, QueueTypes DEF Messages
<1>3. sending' # None
  BY <1>2, SwitchAssumption DEF Messages
<1>4. nodeSecurityCounter' \in Nat /\ lastSent' \in Nat \cup {-1} /\ CounterFresh'
  BY <1>1 DEF BusInv, CounterFresh
<1> QED
  BY <1>1, <1>2, <1>3, <1>4 DEF BusInv, SendAwake

LEMMA EnqueueKeeps ==
  ASSUME BusInv, NEW message \in Messages, Enqueue(message)
  PROVE  BusInv'
<1> DEFINE q == SendQueue!AddBack(sendQueue, message)
<1>1. q \in SendQueue!Queues
  BY QueueTypes DEF BusInv
<1>2. CASE sending = None
  <2>1. Send(q)
    BY <1>2 DEF Enqueue
  <2> HIDE DEF q
  <2> QED
    BY <1>1, <2>1, SendKeeps
<1>3. CASE sending # None
  <2>1. sendQueue' = q /\ UNCHANGED <<sending, nodeSecurityCounter, storedCounter, lastSent>>
    BY <1>3 DEF Enqueue
  <2> HIDE DEF q
  <2> QED
    BY <1>1, <1>3, <2>1 DEF BusInv, CounterFresh, SendAwake
<1> QED
  BY <1>2, <1>3

LEMMA BusSentKeeps ==
  ASSUME BusInv, BusSent
  PROVE  BusInv'
<1>1. CASE SendQueue!IsEmpty(sendQueue)
  <2>1. sending' = None /\ UNCHANGED <<sendQueue, nodeSecurityCounter, storedCounter, lastSent>>
    BY <1>1 DEF BusSent
  <2> QED
    BY <1>1, <2>1 DEF BusInv, CounterFresh, SendAwake, SendQueue!IsEmpty
<1>2. CASE ~SendQueue!IsEmpty(sendQueue)
  <2>1. Send(sendQueue) /\ sendQueue \in SendQueue!Queues
    BY <1>2 DEF BusSent, BusInv
  <2> QED
    BY <2>1, SendKeeps
<1> QED
  BY <1>1, <1>2

LEMMA BusStays == BusInv /\ UNCHANGED busVars => BusInv'
  BY DEF BusInv, busVars, CounterFresh, SendAwake, SendQueue!IsEmpty
-----------------------------------------------------------------------------
(* What is asked of the relays *)

\* a request for known states, or one that changes nothing about what is not known
Allowed(asked) == asked \subseteq Bits /\ asked \cap Unknown \subseteq relays

LEMMA RelayNumbers ==
  ASSUME NEW r \in Relays
  PROVE  /\ r \in {0, 1, 2, 3} /\ r \notin Unknown /\ r \in Bits
         /\ r \div 2 \in Channels
         /\ r - (r % 2) \in Relays
         /\ (r - (r % 2)) + 1 \in Relays
<1>1. r \in {0, 1, 2, 3} /\ (IF r % 2 = 0 THEN r + 1 ELSE r - 1) \in Relays
  BY RelaysAssumption
<1>2. \A u \in Relays : u + 4 # r
  BY <1>1, RelaysAssumption
<1>3. r \notin Unknown /\ r \in Bits
  BY <1>2 DEF Unknown, Bits
<1>4. r \div 2 \in Channels
  BY DEF Channels, Buttons
<1>5. r - (r % 2) \in Relays /\ (r - (r % 2)) + 1 \in Relays
  BY <1>1
<1> QED
  BY <1>1, <1>3, <1>4, <1>5

LEMMA ChannelRelays ==
  ASSUME NEW ch \in Channels
  PROVE  /\ 2 * ch \in Relays /\ 2 * ch + 1 \in Relays
         /\ (2 * ch) % 2 = 0 /\ (2 * ch + 1) % 2 = 1
         /\ 2 * ch + 0 = 2 * ch
<1>1. PICK b \in Relays : ch = b \div 2
  BY DEF Channels, Buttons
<1>2. b \in {0, 1, 2, 3} /\ b - (b % 2) \in Relays /\ (b - (b % 2)) + 1 \in Relays
  BY RelayNumbers
<1>3. 2 * ch = b - (b % 2) /\ ch \in {0, 1}
  BY <1>1, <1>2
<1>4. (2 * ch) % 2 = 0 /\ (2 * ch + 1) % 2 = 1 /\ 2 * ch + 0 = 2 * ch
  BY <1>3
<1> QED
  BY <1>2, <1>3, <1>4

LEMMA ButtonAsks ==
  ASSUME RelaysTypeOK, NEW i \in Buttons, NEW mode \in Modes, NEW state \in BOOLEAN
  PROVE  Allowed(ButtonRelays(mode, i, state))
<1> DEFINE first == i - (i % 2)
<1>1. i \in Relays /\ i \notin Unknown /\ i \in Bits
  BY RelayNumbers DEF Buttons
<1>2. first \in Relays /\ first \notin Unknown /\ first \in Bits
  <2>1. first \in Relays
    BY <1>1, RelayNumbers
  <2> HIDE DEF first
  <2> QED
    BY <2>1, RelayNumbers
<1>3. relays \subseteq Bits
  BY DEF RelaysTypeOK
<1> HIDE DEF first
<1>4. ASSUME NEW b \in ButtonRelays(mode, i, state)
      PROVE  b \in relays \/ b = i \/ b = first
  <2>1. CASE mode = "light"
    BY <2>1 DEF ButtonRelays, first
  <2>2. CASE mode = "doubleLight"
    BY <2>2 DEF ButtonRelays
  <2>3. CASE mode = "blind"
    BY <2>3 DEF ButtonRelays
  <2> QED
    BY <2>1, <2>2, <2>3 DEF Modes
<1> QED
  BY <1>1, <1>2, <1>3, <1>4 DEF Allowed

\* the bits that ReceivePlug sets
LEMMA PlugAsks ==
  ASSUME RelaysTypeOK, NEW relay \in Relays, NEW state \in 0 .. 3,
         relay % 2 = 1 => state \in {0, 1}, NEW cleared
  PROVE  Allowed((relays \ cleared) \cup StateBits(relay, state))
<1>1. ASSUME NEW b \in StateBits(relay, state)
      PROVE  b \in Relays
  <2>1. PICK k \in {0, 1} : b = relay + k /\ (state \div (k + 1)) % 2 = 1
    BY <1>1 DEF StateBits
  <2>2. CASE k = 0
    BY <2>1, <2>2, RelayNumbers
  <2>3. CASE k = 1
    <3>1. (state \div 2) % 2 = 1
      BY <2>1, <2>3
    <3>2. state \notin {0, 1}
      BY <3>1
    <3>3. relay % 2 # 1 /\ relay \in {0, 1, 2, 3} /\ (relay - (relay % 2)) + 1 \in Relays
      BY <3>2, RelayNumbers
    <3> QED
      BY <2>1, <2>3, <3>3
  <2> QED
    BY <2>2, <2>3
<1>2. \A b \in StateBits(relay, state) : b \in Bits /\ b \notin Unknown
  BY <1>1, RelayNumbers
<1> QED
  BY <1>2 DEF Allowed, RelaysTypeOK
-----------------------------------------------------------------------------
(* One lemma for each action: the invariant, and what the step is for the relays *)

RelayStep == [RelaysNext]_relayVars

LEMMA AskedStep ==
  ASSUME NEW asked, Allowed(asked), Ask(asked)
  PROVE  RelayStep
  BY DEF RelayStep, RelaysNext, Allowed

LEMMA TriggerKeeps ==
  ASSUME IInv, NEW i \in Buttons, NEW late \in BOOLEAN, Trigger(i, late)
  PROVE  RelayStep /\ ButtonInv' /\ OutputInv' /\ BusInv'
<1> DEFINE state == i \notin buttons
           configuring == configure /\ late
           released == commission /\ buttons' = {}
<1>1. /\ buttons' = IF state THEN buttons \cup {i} ELSE buttons \ {i}
      /\ modes' = IF configuring THEN [ch \in Channels |-> SelectedMode(ch)] ELSE modes
      /\ storedModes' = IF configuring THEN modes' ELSE storedModes
      /\ configure' \in BOOLEAN
      /\ commission' \in BOOLEAN
      /\ commissioning' = IF released THEN NoAddress ELSE commissioning
      /\ storedCommissioning' = IF released THEN NoAddress ELSE storedCommissioning
      /\ outputStates' = outputStates
  BY DEF Trigger, Decommission
<1>2. \A ch \in Channels : SelectedMode(ch) \in Modes
  BY DEF SelectedMode, Modes, IInv, ButtonInv
<1>3. ButtonInv'
  <2>1. buttons' \subseteq Buttons
    BY <1>1 DEF IInv, ButtonInv
  <2>2. modes' \in [Channels -> Modes] /\ storedModes' = modes'
    BY <1>1, <1>2 DEF IInv, ButtonInv, StoredAgrees
  <2>3. /\ commissioning' \in Address \cup {NoAddress}
        /\ commissioning' = storedCommissioning'
    BY <1>1 DEF IInv, ButtonInv, StoredAgrees
  <2> QED
    BY <1>1, <2>1, <2>2, <2>3 DEF ButtonInv, StoredAgrees
<1>4. OutputInv'
  BY <1>1 DEF IInv, OutputInv
<1>5. BusInv'
  <2>1. Enqueue("enumerate") \/ Enqueue("data") \/ UNCHANGED busVars
    BY DEF Trigger
  <2> QED
    BY <2>1, EnqueueKeeps, BusStays DEF IInv, Messages
<1>6. RelayStep
  <2> DEFINE mode == modes'[i \div 2]
  <2>1. mode \in Modes
    <3>1. i \div 2 \in Channels
      BY RelayNumbers DEF Buttons
    <3> QED
      BY <1>3, <3>1 DEF ButtonInv
  <2>2. Ask(ButtonRelays(mode, i, state)) \/ UNCHANGED relayVars
    BY DEF Trigger
  <2>3. state \in BOOLEAN
    OBVIOUS
  <2> HIDE DEF mode, state
  <2>4. Allowed(ButtonRelays(mode, i, state))
    BY <2>1, <2>3, ButtonAsks DEF IInv, RelaysInv
  <2>5. CASE Ask(ButtonRelays(mode, i, state))
    BY <2>4, <2>5, AskedStep
  <2>6. CASE UNCHANGED relayVars
    BY <2>6 DEF RelayStep
  <2> QED
    BY <2>2, <2>5, <2>6
<1> QED
  BY <1>3, <1>4, <1>5, <1>6

LEMMA ReceivePlugKeeps ==
  ASSUME IInv, NEW ch \in Channels, NEW plug \in 1 .. 2, NEW value \in Values,
         ReceivePlug(ch, plug, value)
  PROVE  RelayStep /\ ButtonInv' /\ OutputInv' /\ BusInv'
<1> DEFINE relay == 2 * ch + (IF plug = 2 THEN 1 ELSE 0)
           light == modes[ch] # "blind"
           state == IF light THEN LightState(outputStates[relay], value)
                    ELSE IF value <= 2 THEN value ELSE 0
           cleared == IF light THEN {relay, relay + 4}
                      ELSE {relay, relay + 1, relay + 4, relay + 5}
<1>1. /\ plug \in 1 .. PlugCount(modes[ch]) - 1
      /\ outputStates' = [outputStates EXCEPT ![relay] = state]
      /\ Ask((relays \ cleared) \cup StateBits(relay, state))
      /\ UNCHANGED <<buttonVars, busVars, commissioning, storedCommissioning>>
  BY DEF ReceivePlug
<1>2. relay \in Relays /\ (relay % 2 = 1 => plug = 2)
  <2>1. CASE plug = 2
    BY <2>1, ChannelRelays
  <2>2. CASE plug # 2
    <3>1. relay = 2 * ch
      BY <2>2, ChannelRelays
    <3> HIDE DEF relay
    <3> QED
      BY <3>1, ChannelRelays
  <2> QED
    BY <2>1, <2>2
<1>3. plug = 2 => light
  BY <1>1 DEF PlugCount
<1>4. value \in 0 .. 3
  BY SwitchAssumption
<1>5. outputStates[relay] \in 0 .. 3 /\ (relay % 2 = 1 => outputStates[relay] \in {0, 1})
  BY <1>2 DEF IInv, OutputInv
<1>6. state \in 0 .. 3 /\ (relay % 2 = 1 => state \in {0, 1})
  <2> DEFINE old == outputStates[relay]
  <2>1. LightState(old, value) \in 0 .. 3 /\ (old \in {0, 1} => LightState(old, value) \in {0, 1})
    <3> HIDE DEF old, relay
    <3>1. old \in {0, 1, 2, 3} /\ value \in {0, 1, 2, 3}
      BY <1>4, <1>5 DEF old
    <3> QED
      BY <3>1 DEF LightState
  <2> QED
    BY <1>2, <1>3, <1>4, <1>5, <2>1
<1> HIDE DEF relay, state, cleared
<1>7. OutputInv'
  BY <1>1, <1>2, <1>6 DEF IInv, OutputInv
<1>8. RelayStep
  <2>1. Allowed((relays \ cleared) \cup StateBits(relay, state))
    BY <1>2, <1>6, PlugAsks DEF IInv, RelaysInv
  <2> QED
    BY <1>1, <2>1, AskedStep
<1>9. BusInv' /\ ButtonInv'
  BY <1>1, BusStays DEF IInv, ButtonInv, StoredAgrees, buttonVars
<1> QED
  BY <1>7, <1>8, <1>9

LEMMA PowerFailsKeeps ==
  ASSUME IInv, PowerFails
  PROVE  RelayStep /\ ButtonInv' /\ OutputInv' /\ BusInv'
<1>1. RelayStep
  BY DEF PowerFails, RelayStep, RelaysNext
<1>2. ButtonInv'
  BY DEF PowerFails, IInv, ButtonInv, StoredAgrees
<1>3. OutputInv'
  BY DEF PowerFails, OutputInv
<1>4. BusInv'
  <2>1. sendQueue' \in SendQueue!Queues /\ SendQueue!IsEmpty(sendQueue')
    <3>1. sendQueue' = SendQueue!NewQueue("data") /\ sendQueue \in SendQueue!Queues
      BY DEF PowerFails, IInv, BusInv
    <3> QED
      BY <3>1, QueueTypes DEF Messages
  <2>2. /\ sending' = None /\ lastSent' = lastSent
        /\ storedCounter' = storedCounter /\ nodeSecurityCounter' = storedCounter
    BY DEF PowerFails
  <2> QED
    BY <2>1, <2>2 DEF IInv, BusInv, CounterFresh, SendAwake, SendQueue!IsEmpty
<1> QED
  BY <1>1, <1>2, <1>3, <1>4

LEMMA OtherKeeps ==
  ASSUME IInv,
         \/ BusSent
         \/ \E address \in Address : ReceiveCommission(address)
         \/ ReceiveAttribute
         \/ Driver
         \/ UNCHANGED vars
  PROVE  RelayStep /\ ButtonInv' /\ OutputInv' /\ BusInv'
<1>1. CASE BusSent
  <2>1. UNCHANGED <<relayVars, buttonVars, commissioning, storedCommissioning, outputStates>>
    BY <1>1 DEF BusSent
  <2>2. BusInv'
    BY <1>1, BusSentKeeps DEF IInv
  <2> QED
    BY <2>1, <2>2 DEF RelayStep, IInv, ButtonInv, OutputInv, StoredAgrees, buttonVars
<1>2. ASSUME NEW address \in Address, ReceiveCommission(address)
      PROVE  RelayStep /\ ButtonInv' /\ OutputInv' /\ BusInv'
  BY <1>2, BusStays
  DEF ReceiveCommission, RelayStep, IInv, ButtonInv, OutputInv, StoredAgrees, buttonVars
<1>3. CASE ReceiveAttribute
  <2>1. Enqueue("data")
        /\ UNCHANGED <<relayVars, buttonVars, commissioning, storedCommissioning, outputStates>>
    BY <1>3 DEF ReceiveAttribute
  <2>2. BusInv'
    BY <2>1, EnqueueKeeps DEF IInv, Messages
  <2> QED
    BY <2>1, <2>2 DEF RelayStep, IInv, ButtonInv, OutputInv, StoredAgrees, buttonVars
<1>4. CASE Driver
  <2>1. RelayStep
    BY <1>4 DEF Driver, RelayStep, RelaysNext
  <2> QED
    BY <1>4, <2>1, BusStays
    DEF Driver, otherVars, IInv, ButtonInv, OutputInv, StoredAgrees, buttonVars
<1>5. CASE UNCHANGED vars
  BY <1>5, BusStays DEF vars, RelayStep, IInv, ButtonInv, OutputInv, StoredAgrees, buttonVars
<1> QED
  BY <1>1, <1>2, <1>3, <1>4, <1>5
-----------------------------------------------------------------------------
LEMMA InitInv == Init => IInv
<1> SUFFICES ASSUME Init PROVE IInv
  OBVIOUS
<1>1. RelaysInv
  BY RelaysInitInv DEF Init
<1>2. ButtonInv
  BY DEF Init, ButtonInv, StoredAgrees, Modes
<1>3. OutputInv
  BY DEF Init, OutputInv
<1>4. BusInv
  <2>1. sendQueue \in SendQueue!Queues /\ SendQueue!IsEmpty(sendQueue)
    <3>1. QueueLength \in Nat \ {0} /\ sendQueue = SendQueue!NewQueue("data")
      BY SwitchAssumption DEF Init
    <3> QED
      BY <3>1 DEF SendQueue!NewQueue, SendQueue!Queues, SendQueue!IsEmpty, Messages
  <2> QED
    BY <2>1 DEF Init, BusInv, CounterFresh, SendAwake
<1> QED
  BY <1>1, <1>2, <1>3, <1>4 DEF IInv

LEMMA NextStep ==
  ASSUME IInv, [Next]_vars
  PROVE  RelayStep /\ IInv'
<1>1. RelayStep /\ ButtonInv' /\ OutputInv' /\ BusInv'
  <2>1. ASSUME NEW i \in Buttons, NEW late \in BOOLEAN, Trigger(i, late)
        PROVE  RelayStep /\ ButtonInv' /\ OutputInv' /\ BusInv'
    BY <2>1, TriggerKeeps
  <2>2. ASSUME NEW ch \in Channels, NEW plug \in 1 .. 2, NEW value \in Values,
               ReceivePlug(ch, plug, value)
        PROVE  RelayStep /\ ButtonInv' /\ OutputInv' /\ BusInv'
    BY <2>2, ReceivePlugKeeps
  <2>3. CASE PowerFails
    BY <2>3, PowerFailsKeeps
  <2>4. CASE \/ BusSent
             \/ \E address \in Address : ReceiveCommission(address)
             \/ ReceiveAttribute
             \/ Driver
             \/ UNCHANGED vars
    BY <2>4, OtherKeeps
  <2> QED
    BY <2>1, <2>2, <2>3, <2>4 DEF Next
<1>2. RelaysInv'
  BY <1>1, RelaysStep DEF IInv, RelayStep
<1> QED
  BY <1>1, <1>2 DEF IInv
-----------------------------------------------------------------------------
\* The switch keeps to what the relays promise: buttons, bus and power do to them what any
\* sequence of requests and restarts may do (checkButtons, receive, constructor).
THEOREM SwitchImplementsRelays == Spec => RelaysSpec
<1>1. Init => RelaysInit
  BY DEF Init
<1>2. IInv /\ [Next]_vars => [RelaysNext]_relayVars
  BY NextStep DEF RelayStep
<1>3. IInv /\ [Next]_vars => IInv'
  BY NextStep
<1> QED
  BY InitInv, <1>1, <1>2, <1>3, PTL DEF Spec, RelaysSpec

LEMMA Invariant == Spec => []IInv
<1>1. IInv /\ [Next]_vars => IInv'
  BY NextStep
<1> QED
  BY InitInv, <1>1, PTL DEF Spec

\* Every variable keeps its type, for every number of relays, places and counters.
THEOREM SwitchTypeOK == Spec => []TypeOK
<1>1. IInv => TypeOK
  BY DEF IInv, RelaysInv, ButtonInv, OutputInv, BusInv, StoredAgrees, TypeOK
<1> QED
  BY Invariant, <1>1, PTL

\* A node that left the bus does not return to it when the power fails, however buttons and
\* messages from the master interleave.
THEOREM SwitchStoredAgrees == Spec => []StoredAgrees
<1>1. IInv => StoredAgrees
  BY DEF IInv, ButtonInv
<1> QED
  BY Invariant, <1>1, PTL

\* No counter is used twice between two enumerations, however often the power fails: what
\* is stored is always the counter of the next message (send).
THEOREM SwitchCounterFresh == Spec => []CounterFresh
<1>1. IInv => CounterFresh
  BY DEF IInv, BusInv
<1> QED
  BY Invariant, <1>1, PTL

\* send() looks at the queue before it sleeps: no message waits for the next one.
THEOREM SwitchSendAwake == Spec => []SendAwake
<1>1. IInv => SendAwake
  BY DEF IInv, BusInv
<1> QED
  BY Invariant, <1>1, PTL

\* No word the switch sends opens one relay of a channel and closes the other.
THEOREM SwitchCommonTerminal == Spec => []CommonTerminal
  BY SwitchImplementsRelays, RelaysCommonTerminal, PTL

\* No contact closes next to a closed one that should be open, whatever buttons and bus ask
\* for and whenever the power fails.
THEOREM SwitchBlindInterlock == Spec => BlindInterlock
  BY SwitchImplementsRelays, RelaysBlindInterlock, PTL

-----------------------------------------------------------------------------
(* sendQueue implements DropOldest, for every number of places: the ring   *)
(* buffer is the list it stands for.                                       *)

\* the place of an index that went at most once around the ring
Wrap(x) == IF x < QueueLength THEN x ELSE x - QueueLength

LEMMA RingIndex ==
  ASSUME NEW n \in Nat \ {0}, NEW x \in 0 .. n + n - 1
  PROVE  x % n = IF x < n THEN x ELSE x - n
  OBVIOUS

LEMMA WrapIsModulus ==
  ASSUME NEW x \in 0 .. QueueLength + QueueLength - 1
  PROVE  x % QueueLength = Wrap(x) /\ Wrap(x) \in 0 .. QueueLength - 1
<1>1. QueueLength \in Nat \ {0}
  BY SwitchAssumption
<1>2. x % QueueLength = IF x < QueueLength THEN x ELSE x - QueueLength
  BY <1>1, RingIndex
<1> QED
  BY <1>1, <1>2 DEF Wrap

\* the list a ring stands for
LEMMA ContentsAt ==
  ASSUME NEW q \in SendQueue!Queues
  PROVE  /\ SendQueue!Contents(q) \in Seq(Messages)
         /\ Len(SendQueue!Contents(q)) = q.c
         /\ \A i \in 1 .. q.c : SendQueue!Contents(q)[i] = q.elements[Wrap(q.front + i - 1)]
<1> DEFINE s == SendQueue!Contents(q)
<1>1. QueueLength \in Nat \ {0}
  BY SwitchAssumption
<1>2. /\ q.front \in 0 .. QueueLength - 1 /\ q.c \in 0 .. QueueLength
      /\ q.elements \in [0 .. QueueLength - 1 -> Messages]
  BY <1>1 DEF SendQueue!Queues
<1>3. ASSUME NEW i \in 1 .. q.c
      PROVE  /\ (q.front + i - 1) % QueueLength = Wrap(q.front + i - 1)
             /\ Wrap(q.front + i - 1) \in 0 .. QueueLength - 1
  <2> DEFINE x == q.front + i - 1
  <2>1. x \in 0 .. QueueLength + QueueLength - 1
    BY <1>1, <1>2
  <2> HIDE DEF x
  <2>2. x % QueueLength = Wrap(x) /\ Wrap(x) \in 0 .. QueueLength - 1
    BY <2>1, WrapIsModulus
  <2> QED
    BY <2>2 DEF x
<1>4. DOMAIN s = 1 .. q.c /\ s = [i \in 1 .. q.c |-> s[i]]
  BY DEF SendQueue!Contents
<1>5. ASSUME NEW i \in 1 .. q.c
      PROVE  s[i] = q.elements[Wrap(q.front + i - 1)] /\ s[i] \in Messages
  <2>1. s[i] = q.elements[(q.front + i - 1) % QueueLength]
    BY DEF SendQueue!Contents
  <2> QED
    BY <1>2, <1>3, <2>1
<1> HIDE DEF s
<1>6. s \in Seq(Messages) /\ Len(s) = q.c
  <2>1. q.c \in Nat
    BY <1>1, <1>2
  <2>2. s \in [1 .. q.c -> Messages]
    BY <1>4, <1>5
  <2>3. s \in Seq(Messages)
    BY <2>1, <2>2
  <2> QED
    BY <1>4, <2>1, <2>3
<1> QED
  BY <1>5, <1>6 DEF s

\* an element is appended; a full ring gives up its oldest one
LEMMA ContentsAdd ==
  ASSUME NEW q \in SendQueue!Queues, NEW e \in Messages
  PROVE  SendQueue!Contents(SendQueue!AddBack(q, e)) =
           Append(IF Len(SendQueue!Contents(q)) < QueueLength THEN SendQueue!Contents(q)
                  ELSE Tail(SendQueue!Contents(q)), e)
<1> DEFINE new == SendQueue!AddBack(q, e)
           s == SendQueue!Contents(q)
           t == SendQueue!Contents(new)
<1>1. QueueLength \in Nat \ {0}
  BY SwitchAssumption
<1>2. /\ q.front \in 0 .. QueueLength - 1 /\ q.c \in 0 .. QueueLength
      /\ q.elements \in [0 .. QueueLength - 1 -> Messages]
  BY DEF SendQueue!Queues
<1>3. new \in SendQueue!Queues
  BY QueueTypes
<1>4. /\ new.elements = [q.elements EXCEPT ![Wrap(q.front + q.c)] = e]
      /\ new.front = IF q.c = QueueLength THEN Wrap(q.front + 1) ELSE q.front
      /\ new.c = IF q.c = QueueLength THEN QueueLength ELSE q.c + 1
  <2> DEFINE x == q.front + q.c
             y == q.front + 1
  <2>1. /\ x \in 0 .. QueueLength + QueueLength - 1
        /\ y \in 0 .. QueueLength + QueueLength - 1
    BY <1>1, <1>2
  <2>2. /\ new.elements = [q.elements EXCEPT ![x % QueueLength] = e]
        /\ new.front = IF q.c = QueueLength THEN y % QueueLength ELSE q.front
        /\ new.c = IF q.c = QueueLength THEN QueueLength ELSE q.c + 1
    BY DEF SendQueue!AddBack
  <2> HIDE DEF x, y, new
  <2>3. x % QueueLength = Wrap(x) /\ y % QueueLength = Wrap(y)
    BY <2>1, WrapIsModulus
  <2> QED
    BY <2>2, <2>3 DEF x, y
<1>5. /\ s \in Seq(Messages) /\ Len(s) = q.c
      /\ \A i \in 1 .. q.c : s[i] = q.elements[Wrap(q.front + i - 1)]
  BY ContentsAt
<1> HIDE DEF new
<1>6. /\ t \in Seq(Messages) /\ Len(t) = new.c
      /\ \A i \in 1 .. new.c : t[i] = new.elements[Wrap(new.front + i - 1)]
  BY <1>3, ContentsAt
<1> HIDE DEF s, t
<1>7. CASE q.c < QueueLength
  <2>1. new.c = q.c + 1 /\ new.front = q.front
    BY <1>1, <1>2, <1>4, <1>7
  <2>2. t[q.c + 1] = e
    <3>1. t[q.c + 1] = new.elements[Wrap(q.front + q.c)]
      BY <1>1, <1>2, <1>6, <2>1
    <3>2. Wrap(q.front + q.c) \in 0 .. QueueLength - 1
      BY <1>1, <1>2 DEF Wrap
    <3> QED
      BY <1>2, <1>4, <3>1, <3>2
  <2>3. ASSUME NEW i \in 1 .. q.c
        PROVE  t[i] = s[i]
    <3>1. /\ t[i] = new.elements[Wrap(q.front + i - 1)]
          /\ s[i] = q.elements[Wrap(q.front + i - 1)]
      <4>1. i \in 1 .. new.c
        BY <1>2, <2>1
      <4> QED
        BY <1>5, <1>6, <2>1, <4>1
    <3>2. /\ Wrap(q.front + i - 1) \in 0 .. QueueLength - 1
          /\ Wrap(q.front + i - 1) # Wrap(q.front + q.c)
      BY <1>1, <1>2, <1>7 DEF Wrap
    <3> QED
      BY <1>2, <1>4, <3>1, <3>2
  <2>4. t = Append(s, e)
    BY <1>2, <1>5, <1>6, <2>1, <2>2, <2>3
  <2> QED
    BY <1>5, <1>7, <2>4 DEF s, t, new
<1>8. CASE q.c = QueueLength
  <2>1. new.c = QueueLength /\ new.front = Wrap(q.front + 1)
    BY <1>4, <1>8
  <2>2. Wrap(q.front + q.c) = q.front
    BY <1>1, <1>2, <1>8 DEF Wrap
  <2>3. ASSUME NEW i \in 1 .. QueueLength
        PROVE  Wrap(new.front + i - 1) = Wrap(q.front + i)
    BY <1>1, <1>2, <2>1 DEF Wrap
  <2>4. t[QueueLength] = e
    <3>1. QueueLength \in 1 .. QueueLength
      BY <1>1
    <3>2. t[QueueLength] = new.elements[Wrap(q.front + QueueLength)]
      BY <1>6, <2>1, <2>3, <3>1
    <3> QED
      BY <1>2, <1>4, <1>8, <2>2, <3>2
  <2>5. ASSUME NEW i \in 1 .. QueueLength - 1
        PROVE  t[i] = s[i + 1]
    <3>1. /\ t[i] = new.elements[Wrap(q.front + i)]
          /\ s[i + 1] = q.elements[Wrap(q.front + i)]
      <4>1. /\ i \in 1 .. QueueLength /\ i + 1 \in 1 .. QueueLength
            /\ q.front + (i + 1) - 1 = q.front + i
        BY <1>1, <1>2
      <4>2. t[i] = new.elements[Wrap(q.front + i)]
        BY <1>6, <2>1, <2>3, <4>1
      <4>3. s[i + 1] = q.elements[Wrap(q.front + (i + 1) - 1)]
        BY <1>5, <1>8, <4>1
      <4> QED
        BY <4>1, <4>2, <4>3
    <3>2. /\ Wrap(q.front + i) \in 0 .. QueueLength - 1
          /\ Wrap(q.front + i) # q.front
      BY <1>1, <1>2 DEF Wrap
    <3> QED
      BY <1>2, <1>4, <2>2, <3>1, <3>2
  <2>6. t = Append(Tail(s), e)
    BY <1>1, <1>5, <1>6, <1>8, <2>1, <2>4, <2>5
  <2> QED
    BY <1>1, <1>5, <1>8, <2>6 DEF s, t, new
<1> QED
  BY <1>1, <1>2, <1>7, <1>8

\* the oldest element is taken
LEMMA ContentsRemove ==
  ASSUME NEW q \in SendQueue!Queues, ~SendQueue!IsEmpty(q)
  PROVE  /\ SendQueue!Contents(q) # << >>
         /\ SendQueue!Contents(SendQueue!RemoveFront(q)) = Tail(SendQueue!Contents(q))
<1> DEFINE new == SendQueue!RemoveFront(q)
           s == SendQueue!Contents(q)
           t == SendQueue!Contents(new)
<1>1. QueueLength \in Nat \ {0}
  BY SwitchAssumption
<1>2. q.front \in 0 .. QueueLength - 1 /\ q.c \in 1 .. QueueLength
  BY <1>1 DEF SendQueue!Queues, SendQueue!IsEmpty
<1>3. new \in SendQueue!Queues
  BY QueueTypes DEF Messages
<1>4. new.elements = q.elements /\ new.front = Wrap(q.front + 1) /\ new.c = q.c - 1
  <2> DEFINE y == q.front + 1
  <2>1. y \in 0 .. QueueLength + QueueLength - 1
    BY <1>1, <1>2
  <2>2. new.elements = q.elements /\ new.front = y % QueueLength /\ new.c = q.c - 1
    BY <1>2 DEF SendQueue!RemoveFront
  <2> HIDE DEF y, new
  <2> QED
    BY <2>1, <2>2, WrapIsModulus DEF y
<1>5. /\ s \in Seq(Messages) /\ Len(s) = q.c
      /\ \A i \in 1 .. q.c : s[i] = q.elements[Wrap(q.front + i - 1)]
  BY ContentsAt
<1> HIDE DEF new
<1>6. /\ t \in Seq(Messages) /\ Len(t) = new.c
      /\ \A i \in 1 .. new.c : t[i] = new.elements[Wrap(new.front + i - 1)]
  BY <1>3, ContentsAt
<1> HIDE DEF s, t
<1>7. s # << >>
  BY <1>2, <1>5
<1>8. ASSUME NEW i \in 1 .. q.c - 1
      PROVE  t[i] = s[i + 1]
  <2>1. Wrap(new.front + i - 1) = Wrap(q.front + i)
    BY <1>1, <1>2, <1>4 DEF Wrap
  <2>2. /\ i \in 1 .. new.c /\ i + 1 \in 1 .. q.c
        /\ q.front + (i + 1) - 1 = q.front + i
    BY <1>1, <1>2, <1>4
  <2>3. s[i + 1] = q.elements[Wrap(q.front + (i + 1) - 1)]
    BY <1>5, <2>2
  <2> QED
    BY <1>4, <1>6, <2>1, <2>2, <2>3
<1>9. t = Tail(s)
  BY <1>2, <1>4, <1>5, <1>6, <1>7, <1>8
<1> QED
  BY <1>7, <1>9 DEF s, t, new

\* a ring without elements stands for the empty list
LEMMA ContentsEmpty ==
  ASSUME NEW q \in SendQueue!Queues, SendQueue!IsEmpty(q)
  PROVE  SendQueue!Contents(q) = << >>
<1> DEFINE s == SendQueue!Contents(q)
<1>1. s \in Seq(Messages) /\ Len(s) = 0
  BY ContentsAt DEF SendQueue!IsEmpty
<1> HIDE DEF s
<1>2. s = << >>
  BY <1>1
<1> QED
  BY <1>2 DEF s
-----------------------------------------------------------------------------
queued == SendQueue!Contents(sendQueue)

LEMMA EnqueueAdds ==
  ASSUME IInv, NEW message \in Messages, Enqueue(message)
  PROVE  List!Next \/ queued' = queued
<1> DEFINE q == SendQueue!AddBack(sendQueue, message)
<1>1. sendQueue \in SendQueue!Queues /\ q \in SendQueue!Queues
      /\ ~SendQueue!IsEmpty(q)
  BY QueueTypes DEF IInv, BusInv
<1>2. SendQueue!Contents(q) =
        Append(IF Len(queued) < QueueLength THEN queued ELSE Tail(queued), message)
  BY <1>1, ContentsAdd DEF queued
<1>3. CASE sending = None
  <2>1. queued = << >>
    BY <1>1, <1>3, ContentsEmpty DEF IInv, BusInv, SendAwake, queued
  <2>2. SendQueue!Contents(q) = Append(<< >>, message)
    BY <1>2, <2>1, SwitchAssumption
  <2> HIDE DEF q
  <2>3. sendQueue' = SendQueue!RemoveFront(q)
    BY <1>3 DEF Enqueue, Send, q
  <2>4. queued' = Tail(SendQueue!Contents(q))
    BY <1>1, <2>3, ContentsRemove DEF queued
  <2>5. Tail(Append(<< >>, message)) = << >>
    OBVIOUS
  <2> QED
    BY <2>1, <2>2, <2>4, <2>5
<1>4. CASE sending # None
  <2>1. sendQueue' = q
    BY <1>4 DEF Enqueue
  <2> HIDE DEF q
  <2>2. queued' = Append(IF Len(queued) < QueueLength THEN queued ELSE Tail(queued), message)
    BY <1>2, <2>1 DEF queued
  <2> QED
    BY <2>2 DEF List!Next, List!Add, queued
<1> QED
  BY <1>3, <1>4

LEMMA ListStep ==
  ASSUME IInv, [Next]_vars
  PROVE  [List!Next]_queued
<1>1. sendQueue \in SendQueue!Queues
  BY DEF IInv, BusInv
<1>2. CASE UNCHANGED sendQueue
  BY <1>2 DEF queued
<1>3. CASE \E message \in Messages : Enqueue(message)
  BY <1>3, EnqueueAdds
<1>4. CASE BusSent
  <2>1. CASE SendQueue!IsEmpty(sendQueue)
    BY <1>2, <1>4, <2>1 DEF BusSent
  <2>2. CASE ~SendQueue!IsEmpty(sendQueue)
    <3>1. sendQueue' = SendQueue!RemoveFront(sendQueue)
      BY <1>4, <2>2 DEF BusSent, Send
    <3>2. queued # << >> /\ queued' = Tail(queued)
      BY <1>1, <2>2, <3>1, ContentsRemove DEF queued
    <3> QED
      BY <3>2 DEF List!Next, List!Remove, queued
  <2> QED
    BY <2>1, <2>2
<1>5. CASE PowerFails
  <2>1. sendQueue' \in SendQueue!Queues /\ SendQueue!IsEmpty(sendQueue')
    <3>1. sendQueue' = SendQueue!NewQueue("data")
      BY <1>5 DEF PowerFails
    <3> QED
      BY <1>1, <3>1, QueueTypes DEF Messages
  <2>2. queued' = << >>
    BY <2>1, ContentsEmpty DEF queued
  <2> QED
    BY <2>2 DEF List!Next, List!Restart, queued
<1>6. ASSUME NEW i \in Buttons, NEW late \in BOOLEAN, Trigger(i, late)
      PROVE  UNCHANGED sendQueue \/ \E message \in Messages : Enqueue(message)
  BY <1>6 DEF Trigger, busVars, Messages
<1>7. CASE ReceiveAttribute
  BY <1>3, <1>7 DEF ReceiveAttribute, Messages
<1>8. CASE \/ \E address \in Address : ReceiveCommission(address)
           \/ \E ch \in Channels, plug \in 1 .. 2, value \in Values :
                ReceivePlug(ch, plug, value)
           \/ Driver
           \/ UNCHANGED vars
  BY <1>2, <1>8 DEF ReceiveCommission, ReceivePlug, Driver, otherVars, busVars, vars
<1> QED
  BY <1>2, <1>3, <1>4, <1>5, <1>6, <1>7, <1>8 DEF Next

\* sendQueue gives up only its oldest element and keeps the order of the others, whoever
\* adds to it and however often it runs over (Queue::addBack, removeFront).
THEOREM SwitchQueueDropsOldest == Spec => QueueDropsOldest
<1>1. Init => List!Init
  <2> SUFFICES ASSUME Init PROVE List!Init
    OBVIOUS
  <2>1. sendQueue \in SendQueue!Queues /\ SendQueue!IsEmpty(sendQueue)
    <3>1. sendQueue = SendQueue!NewQueue("data") /\ sendQueue \in SendQueue!Queues
      BY InitInv DEF Init, IInv, BusInv
    <3> QED
      BY <3>1, QueueTypes DEF Messages
  <2> QED
    BY <2>1, ContentsEmpty DEF List!Init
<1>2. IInv /\ [Next]_vars => [List!Next]_queued
  BY ListStep
<1> QED
  BY Invariant, <1>1, <1>2, PTL DEF Spec, QueueDropsOldest, List!Spec, queued
=============================================================================
