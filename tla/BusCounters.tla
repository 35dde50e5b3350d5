---------------------------- MODULE BusCounters ----------------------------
(***************************************************************************)
(* The security counter of the bus master (control/src/BusInterface.cpp).  *)
(* Every message to a node carries a new counter value, because a node     *)
(* refuses old values and a nonce must not be used twice.  The coroutines  *)
(* that send share the counter: each one takes a value, increments the     *)
(* counter, waits until the counter is stored, and then waits until its    *)
(* message is sent.  The power may fail at any moment.                     *)
(*                                                                         *)
(* The storage writes for one caller at a time: it takes the value that    *)
(* the counter has when the transfer starts (it got a pointer), and it     *)
(* answers the first caller in its list when the transfer has ended        *)
(* (FeRamStorage4).  Counters of other devices in the same storage only    *)
(* delay the transfer.                                                     *)
(***************************************************************************)
EXTENDS Integers, SequencesExt

CONSTANTS
  Publishers,      (* the publish() coroutines                             *)
  Commission,      (* the coroutine that reads attributes of a new device  *)
  LAST_COUNTER,    (* bound: the counter is used up to here                *)
  CancelTransfer   (* the commissioning may be cancelled while its counter *)
                   (*   is on the way into the storage                     *)

ASSUME CountersAssumption ==
  /\ Commission \notin Publishers
  /\ LAST_COUNTER \in Nat
  /\ CancelTransfer \in BOOLEAN

Senders == Publishers \cup {Commission}

VARIABLES
  securityCounter,  (* the next value, in RAM                              *)
  stored,           (* the counter in the storage, or NoValue              *)
  transfer,         (* value on its way into the storage, or NoValue    *)
  stores,           (* messages that wait for the storage, in order        *)
  sends,            (* messages that wait for the bus, in order            *)
  lastSent          (* the last value that was seen on the bus             *)

vars == <<securityCounter, stored, transfer, stores, sends, lastSent>>

NoValue == -1

Busy(s) == \E q \in {stores, sends} : \E k \in DOMAIN q : q[k].sender = s

\* mutant of Take: the message does not wait for the storage
TakeUnstored(s) ==
  /\ ~Busy(s)
  /\ securityCounter < LAST_COUNTER
  /\ sends' = Append(sends, [sender |-> s, counter |-> securityCounter])
  /\ securityCounter' = securityCounter + 1
  /\ transfer' = securityCounter'
  /\ UNCHANGED <<stored, stores, lastSent>>

\* a coroutine builds its message and waits until the incremented counter is
\* stored; an idle storage starts at once
Take(s) ==
  /\ ~Busy(s)
  /\ securityCounter < LAST_COUNTER
  /\ stores' = Append(stores, [sender |-> s, counter |-> securityCounter])
  /\ securityCounter' = securityCounter + 1
  /\ transfer' = IF transfer = NoValue THEN securityCounter' ELSE transfer
  /\ UNCHANGED <<stored, sends, lastSent>>

\* mutant of Stored: the next transfer repeats the value of the last one
StoredSame ==
  /\ transfer # NoValue
  /\ stored' = transfer
  /\ stores' = IF stores = << >> THEN stores ELSE Tail(stores)
  /\ sends' = IF stores = << >> THEN sends ELSE Append(sends, Head(stores))
  /\ transfer' = IF stores' = << >> THEN NoValue ELSE transfer
  /\ UNCHANGED <<securityCounter, lastSent>>

\* the transfer has ended: the first caller goes on to the bus, the next transfer
\* takes the value that the counter has now
Stored ==
  /\ transfer # NoValue
  /\ stored' = transfer
  /\ stores' = IF stores = << >> THEN stores ELSE Tail(stores)
  /\ sends' = IF stores = << >> THEN sends ELSE Append(sends, Head(stores))
  /\ transfer' = IF stores' = << >> THEN NoValue ELSE securityCounter
  /\ UNCHANGED <<securityCounter, lastSent>>

\* the first message is on the bus
Sent ==
  /\ sends # << >>
  /\ lastSent' = Head(sends).counter
  /\ sends' = Tail(sends)
  /\ UNCHANGED <<securityCounter, stored, transfer, stores>>

\* setCommissioning(false) or another node that wants to join destroy the
\* coroutine, which leaves the list it waits in; a transfer goes on
CancelStore ==
  /\ \E k \in DOMAIN stores :
       /\ stores[k].sender = Commission
       /\ k > 1 \/ CancelTransfer
       /\ stores' = RemoveAt(stores, k)
  /\ UNCHANGED <<securityCounter, stored, transfer, sends, lastSent>>

CancelSend ==
  /\ \E k \in DOMAIN sends :
       /\ sends[k].sender = Commission
       /\ sends' = RemoveAt(sends, k)
  /\ UNCHANGED <<securityCounter, stored, transfer, stores, lastSent>>

\* the constructor starts at 0 when there is no counter yet
Load(value) == IF value = NoValue THEN 0 ELSE value

\* a transfer that was cut leaves the old value
PowerFail ==
  /\ securityCounter' = Load(stored)
  /\ transfer' = NoValue
  /\ stores' = << >>
  /\ sends' = << >>
  /\ UNCHANGED <<stored, lastSent>>

Init ==
  /\ securityCounter = 0
  /\ stored = NoValue
  /\ transfer = NoValue
  /\ stores = << >>
  /\ sends = << >>
  /\ lastSent = -1

Next ==
  \/ \E s \in Senders : Take(s)
  \/ Stored
  \/ Sent
  \/ CancelStore
  \/ CancelSend
  \/ PowerFail

Spec == Init /\ [][Next]_vars

-----------------------------------------------------------------------------
(* Properties *)

Message == [sender : Senders, counter : Nat]

\* The variables keep their types.
TypeOK ==
  /\ securityCounter \in 0..LAST_COUNTER
  /\ stored \in (0..LAST_COUNTER) \cup {NoValue}
  /\ transfer \in (0..LAST_COUNTER) \cup {NoValue}
  /\ stores \in Seq(Message)
  /\ sends \in Seq(Message)
  /\ lastSent \in -1..LAST_COUNTER

\* Every message on the bus carries a greater counter than all messages before it,
\* whatever coroutines take values in between and also after power failures
\* (BusInterface.cpp:768 and 908: the value is in use before it is stored).
CountersRise == [][Sent => Head(sends).counter > lastSent]_vars
=============================================================================
