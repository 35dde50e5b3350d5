------------------------- MODULE BusCountersProofs -------------------------
(* Invariants and proofs for BusCounters. *)
EXTENDS BusCounters, TLAPS

-----------------------------------------------------------------------------
(* The inductive invariant *)

Rising(q) == \A i, j \in DOMAIN q : i < j => q[i].counter < q[j].counter

\* Values in use were taken from the counter and are in the order they were taken:
\* what was on the bus, what waits for the bus, what waits for the storage.
InOrder ==
  /\ Rising(sends)
  /\ Rising(stores)
  /\ \A i \in DOMAIN sends : lastSent < sends[i].counter
  /\ \A i \in DOMAIN sends, j \in DOMAIN stores : sends[i].counter < stores[j].counter
  /\ \A j \in DOMAIN stores : stores[j].counter < securityCounter

\* The storage is ahead of the bus, and the transfer is ahead of the message that
\* waits for it.
StorageAhead ==
  /\ lastSent < Load(stored)
  /\ \A i \in DOMAIN sends : sends[i].counter < Load(stored)
  /\ \A j \in DOMAIN stores : lastSent < stores[j].counter
  /\ Load(stored) <= securityCounter
  /\ transfer # NoValue => Load(stored) <= transfer /\ transfer <= securityCounter
  /\ stores # << >> <=> transfer # NoValue
  /\ stores # << >> => stores[1].counter < transfer

IInv == InOrder /\ StorageAhead

-----------------------------------------------------------------------------
(* Lists of messages *)

\* The counters of a list are numbers.
LEMMA CountersAreNumbers ==
  ASSUME NEW q \in Seq(Message)
  PROVE  \A i \in 1..Len(q) : q[i] \in Message /\ q[i].counter \in Nat
<1>1. \A i \in 1..Len(q) : q[i] \in Message
  OBVIOUS
<1>2. \A m \in Message : m.counter \in Nat
  BY DEF Message
<1>. QED
  BY <1>1, <1>2

\* Removing an element of a list of messages keeps the others in their order.
LEMMA RemoveMessage ==
  ASSUME NEW q \in Seq(Message), NEW k \in DOMAIN q
  PROVE  /\ RemoveAt(q, k) \in Seq(Message)
         /\ Len(RemoveAt(q, k)) = Len(q) - 1
         /\ \A i \in 1..Len(q) - 1 :
              RemoveAt(q, k)[i] = IF i < k THEN q[i] ELSE q[i + 1]
<1>1. k \in 1..Len(q)
  OBVIOUS
<1>2. /\ SubSeq(q, 1, k - 1) \in Seq(Message)
      /\ SubSeq(q, k + 1, Len(q)) \in Seq(Message)
      /\ Len(SubSeq(q, 1, k - 1)) = k - 1
      /\ Len(SubSeq(q, k + 1, Len(q))) = Len(q) - k
  BY <1>1
<1>3. \A i \in 1..k - 1 : SubSeq(q, 1, k - 1)[i] = q[i]
  BY <1>1
<1>4. \A i \in 1..Len(q) - k : SubSeq(q, k + 1, Len(q))[i] = q[k + i]
  BY <1>1
<1>. DEFINE a == SubSeq(q, 1, k - 1)
            b == SubSeq(q, k + 1, Len(q))
<1>5. RemoveAt(q, k) = a \o b
  BY DEF RemoveAt
<1>. HIDE DEF a, b
<1>6. a \in Seq(Message) /\ b \in Seq(Message) /\ Len(a) = k - 1 /\ Len(b) = Len(q) - k
  BY <1>2 DEF a, b
<1>7. \A i \in 1..Len(q) - 1 : (a \o b)[i] = IF i < k THEN q[i] ELSE q[i + 1]
  <2>. SUFFICES ASSUME NEW i \in 1..Len(q) - 1
       PROVE  (a \o b)[i] = IF i < k THEN q[i] ELSE q[i + 1]
    OBVIOUS
  <2>. HIDE DEF a, b
  <2>0. i \in Int /\ k \in Int /\ Len(q) \in Nat
    BY <1>1
  <2>1. CASE i < k
    <3>1. (a \o b)[i] = a[i]
      BY <1>1, <1>6, <2>1
    <3>. QED
      BY <1>1, <1>3, <2>1, <3>1 DEF a
  <2>2. CASE i >= k
    <3>1. (a \o b)[i] = b[i - (k - 1)]
      BY <1>1, <1>6, <2>2
    <3>2. i - (k - 1) \in 1..Len(q) - k /\ k + (i - (k - 1)) = i + 1
      BY <1>1, <2>2
    <3>3. b[i - (k - 1)] = q[k + (i - (k - 1))]
      BY <1>4, <3>2 DEF b
    <3>4. ~(i < k)
      BY <2>0, <2>2
    <3>. QED
      BY <3>1, <3>2, <3>3, <3>4
  <2>3. i < k \/ i >= k
    BY <2>0
  <2>. QED
    BY <2>1, <2>2, <2>3
<1>8. a \o b \in Seq(Message) /\ Len(a \o b) = Len(q) - 1
  BY <1>1, <1>6
<1>. QED
  BY <1>5, <1>7, <1>8

\* What holds of the elements of a list, and their order, hold without one of them.
LEMMA RemoveKeeps ==
  ASSUME NEW q \in Seq(Message), NEW k \in DOMAIN q
  PROVE  /\ Rising(q) => Rising(RemoveAt(q, k))
         /\ \A i \in DOMAIN RemoveAt(q, k) : \E j \in DOMAIN q :
              RemoveAt(q, k)[i] = q[j] /\ j >= i
         /\ k > 1 /\ RemoveAt(q, k) # << >> => RemoveAt(q, k)[1] = q[1]
<1>. DEFINE r == RemoveAt(q, k)
<1>1. r \in Seq(Message) /\ Len(r) = Len(q) - 1 /\ k \in 1..Len(q)
  BY RemoveMessage
<1>2. \A i \in 1..Len(q) - 1 : r[i] = IF i < k THEN q[i] ELSE q[i + 1]
  BY RemoveMessage
<1>. HIDE DEF r
<1>3. Rising(q) => Rising(r)
  <2>. SUFFICES ASSUME Rising(q), NEW i \in 1..Len(r), NEW j \in 1..Len(r), i < j
       PROVE  r[i].counter < r[j].counter
    BY <1>1 DEF Rising
  <2>1. PICK m \in 1..Len(q) : m = (IF i < k THEN i ELSE i + 1) /\ r[i] = q[m]
    BY <1>1, <1>2
  <2>2. PICK n \in 1..Len(q) : n = (IF j < k THEN j ELSE j + 1) /\ r[j] = q[n]
    BY <1>1, <1>2
  <2>3. m < n
    BY <1>1, <2>1, <2>2
  <2>. QED
    BY <2>1, <2>2, <2>3 DEF Rising
<1>4. \A i \in DOMAIN r : \E j \in DOMAIN q : r[i] = q[j] /\ j >= i
  BY <1>1, <1>2
<1>5. k > 1 /\ r # << >> => r[1] = q[1]
  BY <1>1, <1>2
<1>. QED
  BY <1>3, <1>4, <1>5 DEF r

\* A list without its first message.
LEMMA TailKeeps ==
  ASSUME NEW q \in Seq(Message), q # << >>
  PROVE  /\ \A i \in DOMAIN Tail(q) : Tail(q)[i] = q[i + 1] /\ i + 1 \in DOMAIN q
         /\ Rising(q) => Rising(Tail(q))
<1>1. /\ Len(q) \in Nat \ {0} /\ DOMAIN q = 1..Len(q)
      /\ DOMAIN Tail(q) = 1..Len(q) - 1
      /\ \A i \in 1..Len(q) - 1 : Tail(q)[i] = q[i + 1]
  OBVIOUS
<1>2. \A i \in 1..Len(q) - 1 : i + 1 \in 1..Len(q)
  BY <1>1
<1>3. Rising(q) => Rising(Tail(q))
  <2>. SUFFICES ASSUME Rising(q), NEW i \in 1..Len(q) - 1, NEW j \in 1..Len(q) - 1, i < j
       PROVE  q[i + 1].counter < q[j + 1].counter
    BY <1>1 DEF Rising
  <2>1. i + 1 < j + 1
    BY <1>1
  <2>. QED
    BY <1>1, <1>2, <2>1 DEF Rising
<1>. QED
  BY <1>1, <1>2, <1>3

-----------------------------------------------------------------------------
(* Types *)

\* What a start loads is a number.
LEMMA LoadIsNat == TypeOK => Load(stored) \in 0..LAST_COUNTER /\ Load(stored) \in Nat
  BY CountersAssumption DEF TypeOK, Load

LEMMA InitType == Init => TypeOK
  BY CountersAssumption DEF Init, TypeOK, NoValue, Message

LEMMA NextType == TypeOK /\ IInv /\ [Next]_vars => TypeOK'
<1>. SUFFICES ASSUME TypeOK, IInv, [Next]_vars PROVE TypeOK'
  OBVIOUS
<1>. USE CountersAssumption DEF TypeOK
<1>1. ASSUME NEW s \in Senders, Take(s) PROVE TypeOK'
  <2>1. [sender |-> s, counter |-> securityCounter] \in Message
    BY DEF Message
  <2>. QED
    BY <1>1, <2>1 DEF Take, NoValue
<1>2. CASE Stored
  <2>1. stores # << >> => Head(stores) \in Message /\ Tail(stores) \in Seq(Message)
    OBVIOUS
  <2>. QED
    BY <1>2, <2>1 DEF Stored, NoValue
<1>3. CASE Sent
  <2>1. Head(sends) \in Message /\ Tail(sends) \in Seq(Message) /\ Head(sends) = sends[1]
    BY <1>3 DEF Sent
  <2>2. Head(sends).counter \in Nat /\ Head(sends).counter < Load(stored)
    BY <1>3, <2>1 DEF Sent, IInv, StorageAhead, Message
  <2>3. Head(sends).counter \in 0..LAST_COUNTER
    BY <2>2, LoadIsNat
  <2>. QED
    BY <1>3, <2>1, <2>3 DEF Sent
<1>4. CASE CancelStore
  BY <1>4, RemoveMessage DEF CancelStore
<1>5. CASE CancelSend
  BY <1>5, RemoveMessage DEF CancelSend
<1>6. CASE PowerFail
  BY <1>6, LoadIsNat DEF PowerFail
<1>7. CASE UNCHANGED vars
  BY <1>7 DEF vars
<1>. QED
  BY <1>1, <1>2, <1>3, <1>4, <1>5, <1>6, <1>7 DEF Next

-----------------------------------------------------------------------------
(* The order of the values *)

LEMMA InitInv == Init => IInv
  BY CountersAssumption DEF Init, IInv, InOrder, StorageAhead, Rising, NoValue, Load

\* A coroutine takes a value that is greater than all values in use.
LEMMA TakeInv ==
  ASSUME TypeOK, IInv, NEW s \in Senders, Take(s)
  PROVE  IInv'
<1>. DEFINE m == [sender |-> s, counter |-> securityCounter]
<1>1. /\ stores' = Append(stores, m) /\ m \in Message /\ m.counter = securityCounter
      /\ securityCounter' = securityCounter + 1
      /\ transfer' = IF transfer = NoValue THEN securityCounter + 1 ELSE transfer
      /\ UNCHANGED <<stored, sends, lastSent>>
  BY DEF Take, TypeOK, Message
<1>. HIDE DEF m
<1>2. /\ stores \in Seq(Message) /\ sends \in Seq(Message)
      /\ securityCounter \in Nat /\ Load(stored) \in Nat /\ lastSent \in Int
      /\ transfer \in Nat \cup {NoValue}
  BY CountersAssumption, LoadIsNat DEF TypeOK
<1>3. /\ Len(stores') = Len(stores) + 1
      /\ \A j \in DOMAIN stores : stores'[j] = stores[j]
      /\ stores'[Len(stores) + 1] = m
      /\ DOMAIN stores' = 1..Len(stores) + 1
  BY <1>1, <1>2
<1>4. /\ \A i \in DOMAIN sends : sends[i].counter \in Nat
      /\ \A j \in DOMAIN stores : stores[j].counter \in Nat
  BY <1>2, CountersAreNumbers
<1>5. InOrder'
  <2>1. Rising(stores)'
    BY <1>1, <1>2, <1>3, <1>4 DEF IInv, InOrder, Rising
  <2>2. \A i \in DOMAIN sends, j \in DOMAIN stores' : sends[i].counter < stores'[j].counter
    BY <1>1, <1>2, <1>3, <1>4 DEF IInv, InOrder, StorageAhead
  <2>3. \A j \in DOMAIN stores' : stores'[j].counter < securityCounter'
    BY <1>1, <1>2, <1>3, <1>4 DEF IInv, InOrder
  <2>. QED
    BY <1>1, <2>1, <2>2, <2>3 DEF IInv, InOrder
<1>6. StorageAhead'
  <2>1. \A j \in DOMAIN stores' : lastSent < stores'[j].counter
    BY <1>1, <1>2, <1>3 DEF IInv, StorageAhead
  <2>2. Load(stored) <= securityCounter'
    BY <1>1, <1>2 DEF IInv, StorageAhead
  <2>3. transfer' # NoValue /\ Load(stored) <= transfer' /\ transfer' <= securityCounter'
    BY <1>1, <1>2 DEF IInv, StorageAhead, NoValue
  <2>4. stores'[1].counter < transfer'
    <3>1. CASE stores = << >>
      <4>1. stores'[1] = m
        BY <1>3, <3>1
      <4>2. transfer' = securityCounter + 1
        BY <1>1, <3>1 DEF IInv, StorageAhead
      <4>. QED
        BY <1>1, <1>2, <4>1, <4>2
    <3>2. CASE stores # << >>
      <4>1. 1 \in DOMAIN stores /\ stores'[1] = stores[1]
        BY <1>2, <1>3, <3>2
      <4>. QED
        BY <1>1, <3>2, <4>1 DEF IInv, StorageAhead
    <3>. QED
      BY <3>1, <3>2
  <2>. QED
    BY <1>1, <2>1, <2>2, <2>3, <2>4 DEF IInv, StorageAhead
<1>. QED
  BY <1>5, <1>6 DEF IInv

\* The message that waited for the transfer goes from one list to the other.
LEMMA StoredInv ==
  ASSUME TypeOK, IInv, Stored
  PROVE  IInv'
<1>1. /\ stores \in Seq(Message) /\ sends \in Seq(Message)
      /\ securityCounter \in Nat /\ Load(stored) \in Nat /\ lastSent \in Int
      /\ transfer \in Nat
  BY CountersAssumption, LoadIsNat DEF TypeOK, Stored, NoValue
<1>2. stores # << >> /\ Len(stores) \in Nat \ {0}
  BY <1>1 DEF IInv, StorageAhead, Stored
<1>3. /\ stored' = transfer /\ Load(stored') = transfer
      /\ stores' = Tail(stores)
      /\ sends' = Append(sends, stores[1])
      /\ transfer' = IF stores' = << >> THEN NoValue ELSE securityCounter
      /\ UNCHANGED <<securityCounter, lastSent>>
  BY <1>1, <1>2 DEF Stored, Load, NoValue
<1>4. /\ \A i \in 1..Len(sends) : sends[i].counter \in Nat
      /\ \A j \in 1..Len(stores) : stores[j] \in Message /\ stores[j].counter \in Nat
  BY <1>1, CountersAreNumbers
<1>5. /\ DOMAIN stores' = 1..Len(stores) - 1
      /\ \A j \in 1..Len(stores) - 1 : stores'[j] = stores[j + 1]
      /\ stores' # << >> => 1 \in 1..Len(stores) - 1
  BY <1>1, <1>2, <1>3
<1>6. /\ DOMAIN sends' = 1..Len(sends) + 1
      /\ \A i \in 1..Len(sends) : sends'[i] = sends[i]
      /\ sends'[Len(sends) + 1] = stores[1]
  BY <1>1, <1>2, <1>3, <1>4
<1>7. /\ \A i \in 1..Len(sends) : sends[i].counter < Load(stored) /\ lastSent < sends[i].counter
      /\ \A i \in 1..Len(sends), j \in 1..Len(stores) : sends[i].counter < stores[j].counter
      /\ \A j \in 1..Len(stores) : stores[j].counter < securityCounter /\ lastSent < stores[j].counter
      /\ \A i, j \in 1..Len(sends) : i < j => sends[i].counter < sends[j].counter
      /\ \A i, j \in 1..Len(stores) : i < j => stores[i].counter < stores[j].counter
  BY <1>1, <1>2 DEF IInv, InOrder, StorageAhead, Rising
<1>70. /\ lastSent < Load(stored) /\ Load(stored) <= transfer /\ transfer <= securityCounter
       /\ stores[1].counter < transfer
  BY <1>1, <1>2 DEF IInv, StorageAhead
<1>8. InOrder'
  <2>1. Rising(sends)'
    <3>1. /\ Len(sends) \in Nat /\ Len(stores) \in Nat
          /\ DOMAIN sends' = DOMAIN sends \cup {Len(sends) + 1} /\ 1 \in 1..Len(stores)
      BY <1>1, <1>2, <1>6
    <3>2. \A i \in 1..Len(sends) : sends'[i].counter < sends'[Len(sends) + 1].counter
      BY <1>6, <1>7, <3>1
    <3> QED
      BY <1>1, <1>6, <1>7, <3>1, <3>2 DEF Rising
  <2>2. Rising(stores)'
    BY <1>1, <1>2, <1>3, TailKeeps DEF IInv, InOrder, Rising
  <2>3. \A i \in DOMAIN sends' : lastSent' < sends'[i].counter
    BY <1>1, <1>2, <1>3, <1>6, <1>7, <1>70
  <2>4. \A i \in DOMAIN sends', j \in DOMAIN stores' : sends'[i].counter < stores'[j].counter
    <3>. TAKE i \in DOMAIN sends', j \in DOMAIN stores'
    <3>1. stores'[j] = stores[j + 1] /\ j + 1 \in 1..Len(stores) /\ 1 \in 1..Len(stores) /\ 1 < j + 1
      BY <1>1, <1>2, <1>5
    <3>2. CASE i \in 1..Len(sends)
      BY <1>6, <1>7, <1>70, <3>1, <3>2
    <3>3. CASE i = Len(sends) + 1
      BY <1>6, <1>7, <1>70, <3>1, <3>3
    <3>. QED
      BY <1>1, <1>6, <3>2, <3>3
  <2>5. \A j \in DOMAIN stores' : stores'[j].counter < securityCounter'
    BY <1>1, <1>2, <1>3, <1>5, <1>7, <1>70
  <2>. QED
    BY <2>1, <2>2, <2>3, <2>4, <2>5 DEF InOrder
<1>9. StorageAhead'
  <2>1. lastSent' < Load(stored') /\ Load(stored') <= securityCounter'
    BY <1>1, <1>3, <1>7, <1>70
  <2>2. \A i \in DOMAIN sends' : sends'[i].counter < Load(stored')
    BY <1>1, <1>2, <1>3, <1>4, <1>6, <1>7, <1>70
  <2>3. \A j \in DOMAIN stores' : lastSent' < stores'[j].counter
    BY <1>1, <1>2, <1>3, <1>5, <1>7, <1>70
  <2>4. transfer' # NoValue => Load(stored') <= transfer' /\ transfer' <= securityCounter'
    BY <1>1, <1>3, <1>7, <1>70
  <2>5. stores' # << >> <=> transfer' # NoValue
    BY <1>1, <1>3 DEF NoValue
  <2>6. stores' # << >> => stores'[1].counter < transfer'
    BY <1>1, <1>2, <1>3, <1>5, <1>7, <1>70
  <2>. QED
    BY <2>1, <2>2, <2>3, <2>4, <2>5, <2>6 DEF StorageAhead
<1>. QED
  BY <1>8, <1>9 DEF IInv

\* The first message leaves the list and becomes the last one on the bus.
LEMMA SentInv ==
  ASSUME TypeOK, IInv, Sent
  PROVE  IInv'
<1>1. /\ sends \in Seq(Message) /\ sends # << >> /\ Len(sends) \in Nat \ {0}
      /\ Load(stored) \in Nat /\ lastSent \in Int
      /\ stores \in Seq(Message)
  BY LoadIsNat DEF TypeOK, Sent
<1>2. /\ lastSent' = sends[1].counter
      /\ sends' = Tail(sends)
      /\ UNCHANGED <<securityCounter, stored, transfer, stores>>
  BY <1>1 DEF Sent
<1>3. \A i \in 1..Len(sends) : sends[i].counter \in Nat
  BY <1>1, CountersAreNumbers
<1>4. /\ DOMAIN sends' = 1..Len(sends) - 1
      /\ \A i \in 1..Len(sends) - 1 : sends'[i] = sends[i + 1] /\ i + 1 \in 1..Len(sends)
  BY <1>1, <1>2
<1>5. /\ \A i \in 1..Len(sends) : sends[i].counter < Load(stored)
      /\ \A i \in 1..Len(sends), j \in DOMAIN stores : sends[i].counter < stores[j].counter
      /\ \A i, j \in 1..Len(sends) : i < j => sends[i].counter < sends[j].counter
  BY <1>1 DEF IInv, InOrder, StorageAhead, Rising
<1>6. InOrder'
  <2>1. Rising(sends)'
    BY <1>1, <1>2, TailKeeps DEF IInv, InOrder, Rising
  <2>2. \A i \in DOMAIN sends' : lastSent' < sends'[i].counter
    <3>. TAKE i \in DOMAIN sends'
    <3>1. sends'[i] = sends[i + 1] /\ i + 1 \in 1..Len(sends) /\ 1 \in 1..Len(sends) /\ 1 < i + 1
      BY <1>1, <1>4
    <3>. QED
      BY <1>2, <1>5, <3>1
  <2>3. \A i \in DOMAIN sends', j \in DOMAIN stores : sends'[i].counter < stores[j].counter
    BY <1>4, <1>5
  <2>. QED
    BY <1>2, <2>1, <2>2, <2>3 DEF IInv, InOrder, Rising
<1>7. StorageAhead'
  <2>1. lastSent' < Load(stored)
    BY <1>1, <1>2, <1>5
  <2>2. \A i \in DOMAIN sends' : sends'[i].counter < Load(stored)
    BY <1>4, <1>5
  <2>3. \A j \in DOMAIN stores : lastSent' < stores[j].counter
    BY <1>1, <1>2, <1>5
  <2>. QED
    BY <1>2, <2>1, <2>2, <2>3 DEF IInv, StorageAhead
<1>. QED
  BY <1>6, <1>7 DEF IInv

\* A message leaves the list in front of the storage, but not the one whose counter
\* is on the way.
LEMMA CancelStoreInv ==
  ASSUME TypeOK, IInv, CancelStore, CancelTransfer = FALSE
  PROVE  IInv'
<1>1. PICK k \in DOMAIN stores : k > 1 /\ stores' = RemoveAt(stores, k)
  BY DEF CancelStore
<1>2. UNCHANGED <<securityCounter, stored, transfer, sends, lastSent>>
  BY DEF CancelStore
<1>3. stores \in Seq(Message)
  BY DEF TypeOK
<1>4. /\ stores' \in Seq(Message) /\ Len(stores') = Len(stores) - 1
      /\ Rising(stores) => Rising(stores')
      /\ \A i \in DOMAIN stores' : \E j \in DOMAIN stores : stores'[i] = stores[j]
      /\ stores' # << >> => stores'[1] = stores[1]
  BY <1>1, <1>3, RemoveMessage, RemoveKeeps
<1>5. stores # << >> /\ stores' # << >>
  BY <1>1, <1>3, <1>4
<1>6. InOrder'
  BY <1>2, <1>4 DEF IInv, InOrder, Rising
<1>7. StorageAhead'
  BY <1>2, <1>4, <1>5 DEF IInv, StorageAhead
<1>. QED
  BY <1>6, <1>7 DEF IInv

\* A message leaves the list in front of the bus.
LEMMA CancelSendInv ==
  ASSUME TypeOK, IInv, CancelSend
  PROVE  IInv'
<1>1. PICK k \in DOMAIN sends : sends' = RemoveAt(sends, k)
  BY DEF CancelSend
<1>2. UNCHANGED <<securityCounter, stored, transfer, stores, lastSent>>
  BY DEF CancelSend
<1>3. sends \in Seq(Message)
  BY DEF TypeOK
<1>4. /\ Rising(sends) => Rising(sends')
      /\ \A i \in DOMAIN sends' : \E j \in DOMAIN sends : sends'[i] = sends[j]
  BY <1>1, <1>3, RemoveKeeps
<1>5. InOrder'
  BY <1>2, <1>4 DEF IInv, InOrder, Rising
<1>6. StorageAhead'
  BY <1>2, <1>4 DEF IInv, StorageAhead
<1>. QED
  BY <1>5, <1>6 DEF IInv

LEMMA PowerFailInv ==
  ASSUME TypeOK, IInv, PowerFail
  PROVE  IInv'
<1>1. Load(stored) \in Nat /\ lastSent \in Int /\ lastSent < Load(stored)
  BY LoadIsNat DEF TypeOK, IInv, StorageAhead
<1>. QED
  BY <1>1 DEF PowerFail, IInv, InOrder, StorageAhead, Rising, Load

-----------------------------------------------------------------------------
(* Results *)

\* The inductive invariant, when a commissioning is not cancelled while its counter
\* is on the way into the storage.
THEOREM Ahead == ASSUME CancelTransfer = FALSE PROVE Spec => [](TypeOK /\ IInv)
<1>1. Init => TypeOK /\ IInv
  BY InitType, InitInv
<1>2. TypeOK /\ IInv /\ [Next]_vars => TypeOK' /\ IInv'
  <2>. SUFFICES ASSUME TypeOK, IInv, [Next]_vars PROVE IInv'
    BY NextType
  <2>1. CASE UNCHANGED vars
    BY <2>1 DEF vars, IInv, InOrder, StorageAhead, Rising
  <2>. QED
    BY <2>1, TakeInv, StoredInv, SentInv, CancelStoreInv, CancelSendInv, PowerFailInv DEF Next
<1>. QED
  BY <1>1, <1>2, PTL DEF Spec

\* The counters on the bus rise, for every number of publishers.
THEOREM Rise == ASSUME CancelTransfer = FALSE PROVE Spec => CountersRise
<1>1. TypeOK /\ IInv /\ [Next]_vars => [Sent => Head(sends).counter > lastSent]_vars
  <2>. SUFFICES ASSUME TypeOK, IInv, Sent PROVE Head(sends).counter > lastSent
    OBVIOUS
  <2>1. sends \in Seq(Message) /\ sends # << >> /\ Len(sends) \in Nat \ {0} /\ lastSent \in Int
    BY DEF TypeOK, Sent
  <2>2. Head(sends) = sends[1] /\ 1 \in DOMAIN sends /\ sends[1].counter \in Nat
    BY <2>1, CountersAreNumbers
  <2>. QED
    BY <2>1, <2>2 DEF IInv, InOrder
<1>. QED
  BY <1>1, Ahead, PTL DEF Spec, CountersRise
=============================================================================
