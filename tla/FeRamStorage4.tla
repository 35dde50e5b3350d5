--------------------------- MODULE FeRamStorage4 ---------------------------
(***************************************************************************)
(* The storage for security counters on a FeRam that is connected via SPI  *)
(* (system/src/FeRamStorage4.cpp).  Every id has two slots of five bytes:  *)
(* four bytes of data and a byte with checksum, sequence bit and size.     *)
(* Writes alternate between the slots, guided by a two bit sequence counter*)
(* in RAM, so that a power failure during a write leaves the other slot.   *)
(* One coroutine writes on behalf of all callers, another one reads; both  *)
(* wait for their SPI transfer while callers go on.  The FeRam takes over  *)
(* one byte after the other, therefore the power may fail in between.      *)
(***************************************************************************)
EXTENDS Integers, SequencesExt

CONSTANTS
  Ids,      (* ids of elements                                             *)
  Callers,  (* coroutines that use the storage                             *)
  Datas,    (* data the callers write: sequences of at most four bytes     *)
  Habits    (* what callers do besides the use that the storage copes with *)

(* Habits may contain                                                      *)
(*   "unread":  write an element that was not read since the start         *)
(*   "overlap": blocking access to an element while a write of it waits    *)
(*   "cancel":  destroy a coroutine that waits for its write               *)
(*   "read":    use the asynchronous read                                  *)

Byte == 0..255

ASSUME FeRamAssumption ==
  /\ Datas \subseteq Seq(Byte)
  /\ \A d \in Datas : Len(d) <= 4

VARIABLES
  feram,            (* the two slots of every id                           *)
  sequenceCounters, (* sequence counter of every id, in RAM                *)
  writeWaitlist,    (* callers that wait for a write, in order             *)
  readWaitlist,     (* callers that wait for a read, in order              *)
  spi,              (* transfers that wait for the SPI bus                 *)
  known,            (* ids that were read since the start                  *)
  durable,          (* the data of the last write that reached the FeRam   *)
  acked             (* the write that just returned to its caller          *)

vars == <<feram, sequenceCounters, writeWaitlist, readWaitlist, spi, known, durable, acked>>

-----------------------------------------------------------------------------
(* Slots *)

Slots == 0..1
SlotBytes == 0..4

\* both nibbles of the four data bytes
NibbleSum(s) ==
  LET n(k) == s[k] + (s[k] \div 16)
  IN n(0) + n(1) + n(2) + n(3)

\* checksum in the high nibble, sequence bit and size in the low nibble
checksum(s) == (s[4] % 16) + 16 * ((s[4] + NibbleSum(s)) % 16)

IsValid(s) == s[4] = checksum(s)
SequenceBit(s) == (s[4] \div 8) % 2
SizeOf(s) == s[4] % 8

\* mutant of NewerSlot: the sequence bits are not compared
NewerSlotFirst(b) == IF IsValid(b[0]) THEN 0 ELSE 1

\* readBuffer: the slot that was written later
NewerSlot(b) ==
  IF (IsValid(b[0]) /\ SequenceBit(b[0]) # SequenceBit(b[1])) \/ ~IsValid(b[1])
  THEN 0 ELSE 1

\* readBuffer: size of the element and its data, as far as a buffer of four bytes
\* can take it
Nothing == [size |-> 0, data |-> << >>]
ReadBuffer(b) ==
  IF ~IsValid(b[0]) /\ ~IsValid(b[1]) THEN Nothing
  ELSE LET s == b[NewerSlot(b)]
       IN [size |-> SizeOf(s),
           data |-> [k \in 1..(IF SizeOf(s) < 4 THEN SizeOf(s) ELSE 4) |-> s[k - 1]]]

\* readBuffer: sequence counter after reading
CounterRead(b, old) ==
  IF ~IsValid(b[0]) /\ ~IsValid(b[1]) THEN old
  ELSE 2 * SequenceBit(b[NewerSlot(b)]) + NewerSlot(b)

Stored(f, i) == ReadBuffer(f[i])
ElementOf(d) == [size |-> Len(d), data |-> d]

\* mutants of nextSequenceCounter: not limited to two bits; stays on the slot
nextSequenceCounterWide(i) == sequenceCounters[i] + 1
nextSequenceCounterSame(i) == (sequenceCounters[i] + 2) % 4

nextSequenceCounter(i) == (sequenceCounters[i] + 1) % 4

\* the slot a write builds: data padded by 0xff
SlotFor(d, counter) ==
  LET s == [k \in SlotBytes |->
              IF k < Len(d) THEN d[k + 1]
              ELSE IF k < 4 THEN 255 ELSE 8 * (counter \div 2) + Len(d)]
  IN [s EXCEPT ![4] = checksum(s)]

\* mutant of Transfer: the last byte is left out
TransferShort(i, d, counter) ==
  [kind |-> "write", id |-> i, slot |-> counter % 2, bytes |-> SlotFor(d, counter),
   count |-> Len(d), data |-> d]

\* the transfer of a write: size + 1 bytes of the slot
Transfer(i, d, counter) ==
  [kind |-> "write", id |-> i, slot |-> counter % 2, bytes |-> SlotFor(d, counter),
   count |-> Len(d) + 1, data |-> d]
ReadTransfer(i) == [kind |-> "read", id |-> i]

\* the FeRam after the first n bytes of a transfer
Written(t, n) ==
  [feram EXCEPT ![t.id][t.slot] = [k \in SlotBytes |-> IF k < n THEN t.bytes[k] ELSE @[k]]]

-----------------------------------------------------------------------------
(* Callers *)

Waiting(c) == \E r \in ToSet(writeWaitlist) \cup ToSet(readWaitlist) : r.caller = c
Pending(i) ==
  \/ \E r \in ToSet(writeWaitlist) : r.id = i
  \/ \E t \in ToSet(spi) : t.id = i
MayWrite(i) == i \in known \/ "unread" \in Habits
MayBlock(i) == ~Pending(i) \/ "overlap" \in Habits

NoAck == [kind |-> "none"]
Ack(i, d) == [kind |-> "write", id |-> i, data |-> d]
ReadResult(i, r) == [kind |-> "read", id |-> i, result |-> r]

WriterBusy == \E t \in ToSet(spi) : t.kind = "write"
ReaderBusy == \E t \in ToSet(spi) : t.kind = "read"

\* readBlocking
ReadBlocking(i) ==
  /\ MayBlock(i)
  /\ sequenceCounters' = [sequenceCounters EXCEPT ![i] = CounterRead(feram[i], @)]
  /\ known' = known \cup {i}
  /\ acked' = ReadResult(i, Stored(feram, i))
  /\ UNCHANGED <<feram, writeWaitlist, readWaitlist, spi, durable>>

\* writeBlocking
WriteBlocking(i, d) ==
  /\ MayWrite(i) /\ MayBlock(i)
  /\ LET counter == nextSequenceCounter(i)
         t == Transfer(i, d, counter)
     IN /\ sequenceCounters' = [sequenceCounters EXCEPT ![i] = counter]
        /\ feram' = Written(t, t.count)
  /\ durable' = [durable EXCEPT ![i] = ElementOf(d)]
  /\ acked' = Ack(i, d)
  /\ UNCHANGED <<writeWaitlist, readWaitlist, spi, known>>

\* the writer takes the first request, if there is one, and starts its transfer
\* behind the transfers that wait for the bus already
StartWriter(list, transfers) ==
  \/ list = << >> /\ spi' = transfers /\ UNCHANGED sequenceCounters
  \/ /\ list # << >>
     /\ LET r == Head(list)
            counter == nextSequenceCounter(r.id)
        IN /\ spi' = Append(transfers, Transfer(r.id, r.data, counter))
           /\ sequenceCounters' = [sequenceCounters EXCEPT ![r.id] = counter]

\* write: the writer starts at once when it waits at its barrier
Write(c, i, d) ==
  /\ ~Waiting(c)
  /\ MayWrite(i)
  /\ writeWaitlist' = Append(writeWaitlist, [caller |-> c, id |-> i, data |-> d])
  /\ \/ WriterBusy /\ UNCHANGED <<spi, sequenceCounters>>
     \/ ~WriterBusy /\ StartWriter(Append(writeWaitlist, [caller |-> c, id |-> i, data |-> d]), spi)
  /\ acked' = NoAck
  /\ UNCHANGED <<feram, readWaitlist, known, durable>>

\* read: the reader starts at once when it waits at its barrier
Read(c, i) ==
  /\ "read" \in Habits
  /\ ~Waiting(c)
  /\ readWaitlist' = Append(readWaitlist, [caller |-> c, id |-> i])
  /\ spi' = IF ReaderBusy THEN spi ELSE Append(spi, ReadTransfer(i))
  /\ acked' = NoAck
  /\ UNCHANGED <<feram, sequenceCounters, writeWaitlist, known, durable>>

\* the coroutine that waits for a write is destroyed, its request leaves the list
Cancel(c) ==
  /\ "cancel" \in Habits
  /\ \E k \in 1..Len(writeWaitlist) :
       /\ writeWaitlist[k].caller = c
       /\ writeWaitlist' = RemoveAt(writeWaitlist, k)
  /\ acked' = NoAck
  /\ UNCHANGED <<feram, sequenceCounters, readWaitlist, spi, known, durable>>

-----------------------------------------------------------------------------
(* The bus and the coroutines *)

\* mutant of TransferWrite: one request is served only
TransferWriteOnce ==
  /\ spi # << >>
  /\ Head(spi).kind = "write"
  /\ LET t == Head(spi)
     IN /\ feram' = Written(t, t.count)
        /\ durable' = [durable EXCEPT ![t.id] = ElementOf(t.data)]
  /\ \/ writeWaitlist = << >> /\ acked' = NoAck /\ UNCHANGED writeWaitlist
     \/ /\ writeWaitlist # << >>
        /\ acked' = Ack(Head(writeWaitlist).id, Head(writeWaitlist).data)
        /\ writeWaitlist' = Tail(writeWaitlist)
  /\ spi' = Tail(spi)
  /\ UNCHANGED <<sequenceCounters, readWaitlist, known>>

\* a transfer of the writer completes: the writer answers the first request of the
\* list and goes on with the next one
TransferWrite ==
  /\ spi # << >>
  /\ Head(spi).kind = "write"
  /\ LET t == Head(spi)
     IN /\ feram' = Written(t, t.count)
        /\ durable' = [durable EXCEPT ![t.id] = ElementOf(t.data)]
  /\ \/ writeWaitlist = << >> /\ acked' = NoAck /\ UNCHANGED writeWaitlist
     \/ /\ writeWaitlist # << >>
        /\ acked' = Ack(Head(writeWaitlist).id, Head(writeWaitlist).data)
        /\ writeWaitlist' = Tail(writeWaitlist)
  /\ StartWriter(IF writeWaitlist = << >> THEN << >> ELSE Tail(writeWaitlist), Tail(spi))
  /\ UNCHANGED <<readWaitlist, known>>

\* what the reader takes for the slots: its buffer with the three bytes of the
\* command in front, which are not read from the FeRam
ReaderSlots(i) ==
  {[s \in Slots |-> [k \in SlotBytes |->
      LET n == 5 * s + k - 3
      IN IF n < 0 THEN x ELSE feram[i][n \div 5][n % 5]]] : x \in {0, 255}}

\* a transfer of the reader completes
TransferRead ==
  /\ spi # << >>
  /\ Head(spi).kind = "read"
  /\ \E b \in ReaderSlots(Head(spi).id) :
       LET i == Head(spi).id
           r == Head(readWaitlist)
       IN /\ acked' = ReadResult(i, ReadBuffer(b))
          /\ sequenceCounters' = [sequenceCounters EXCEPT ![i] = CounterRead(b, @)]
  /\ readWaitlist' = Tail(readWaitlist)
  /\ spi' = IF Tail(readWaitlist) = << >> THEN Tail(spi)
            ELSE Append(Tail(spi), ReadTransfer(readWaitlist[2].id))
  /\ UNCHANGED <<feram, writeWaitlist, known, durable>>

-----------------------------------------------------------------------------
(* The power supply *)

\* everything in RAM is lost, the sequence counters are not initialised
Restart ==
  /\ sequenceCounters' \in [Ids -> 0..3]
  /\ writeWaitlist' = << >>
  /\ readWaitlist' = << >>
  /\ spi' = << >>
  /\ known' = {}
  /\ acked' = NoAck

\* the power fails after n bytes of a transfer
CutTransfer(t, n) ==
  /\ feram' = Written(t, n)
  /\ durable' = IF n = t.count THEN [durable EXCEPT ![t.id] = ElementOf(t.data)] ELSE durable

PowerFail ==
  /\ Restart
  /\ \/ UNCHANGED <<feram, durable>>
     \/ /\ spi # << >> /\ Head(spi).kind = "write"
        /\ \E n \in 1..Head(spi).count : CutTransfer(Head(spi), n)
     \/ \E i \in Ids, d \in Datas :
          /\ MayWrite(i) /\ MayBlock(i)
          /\ \E n \in 1..Len(d) + 1 : CutTransfer(Transfer(i, d, nextSequenceCounter(i)), n)

-----------------------------------------------------------------------------

Init ==
  /\ feram = [i \in Ids |-> [s \in Slots |-> [k \in SlotBytes |-> 255]]]
  /\ sequenceCounters \in [Ids -> 0..3]
  /\ writeWaitlist = << >>
  /\ readWaitlist = << >>
  /\ spi = << >>
  /\ known = {}
  /\ durable = [i \in Ids |-> Nothing]
  /\ acked = NoAck

Next ==
  \/ \E i \in Ids : ReadBlocking(i)
  \/ \E i \in Ids, d \in Datas : WriteBlocking(i, d)
  \/ \E c \in Callers, i \in Ids, d \in Datas : Write(c, i, d)
  \/ \E c \in Callers, i \in Ids : Read(c, i)
  \/ \E c \in Callers : Cancel(c)
  \/ TransferWrite
  \/ TransferRead
  \/ PowerFail

Spec == Init /\ [][Next]_vars

\* the event loop serves the bus again and again
LiveSpec == Spec /\ WF_vars(TransferWrite) /\ WF_vars(TransferRead)

-----------------------------------------------------------------------------
(* Properties *)

WriteRequest == [caller : Callers, id : Ids, data : Datas]
ReadRequest == [caller : Callers, id : Ids]
Element == [size : 0..7, data : Seq(Byte)]
WriteTransfer ==
  [kind : {"write"}, id : Ids, slot : Slots, bytes : [SlotBytes -> Byte], count : 1..5, data : Datas]

\* The variables keep their types: slots hold bytes, the sequence counters two
\* bits, and what waits are requests and transfers.
TypeOK ==
  /\ feram \in [Ids -> [Slots -> [SlotBytes -> Byte]]]
  /\ sequenceCounters \in [Ids -> 0..3]
  /\ writeWaitlist \in Seq(WriteRequest)
  /\ readWaitlist \in Seq(ReadRequest)
  /\ spi \in Seq(WriteTransfer \cup {ReadTransfer(i) : i \in Ids})
  /\ known \subseteq Ids
  /\ durable \in [Ids -> Element]
  /\ acked \in {NoAck} \cup [kind : {"write"}, id : Ids, data : Datas]
                \cup [kind : {"read"}, id : Ids, result : Element]

\* What reading an element returns is what the last write left there that reached
\* the FeRam completely, at every moment, so also after a power failure in the
\* middle of a transfer: half of a write is never taken for the newer value.
ReadIsLastWrite == \A i \in Ids : Stored(feram, i) = durable[i]

\* A write that returned with OK is in the FeRam.
AckIsStored == acked.kind = "write" => Stored(feram, acked.id) = ElementOf(acked.data)

\* A read returns the element that is stored ("Read an entry from the non-volatile
\* storage into a given data buffer", Storage.hpp:54).
ReadReturnsElement == acked.kind = "read" => acked.result = durable[acked.id]

\* Every caller that waits is resumed: the coroutines miss no request and, having
\* answered one, go on with the next (FeRamStorage4.cpp:130 and 154).
CallersReturn == \A c \in Callers : Waiting(c) ~> ~Waiting(c)
=============================================================================
