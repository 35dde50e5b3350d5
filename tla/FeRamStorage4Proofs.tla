------------------------ MODULE FeRamStorage4Proofs ------------------------
(***************************************************************************)
(* For any number of ids and callers and for any data of four bytes: what  *)
(* is read from the FeRam is the last write that reached it completely,    *)
(* whenever the power fails.  The proof does not rely on the strength of   *)
(* the checksum, except for slots that were never written.                 *)
(***************************************************************************)
EXTENDS FeRamStorage4, SequenceTheorems, TLAPS

\* The use of the storage that it copes with: every data has four bytes, elements
\* are read before they are written, and no other access to an element is made
\* while a write of it waits.
CounterUse ==
  /\ Habits \subseteq {"cancel"}
  /\ \A d \in Datas : Len(d) = 4

\* A slot that was never written completely: the data of writes that were cut
\* short, then the bytes of the new FeRam.
DataByte(k) == {d[k + 1] : d \in Datas}
Unwritten(s) ==
  \E m \in 0..4 : /\ \A k \in 0..m - 1 : s[k] \in DataByte(k)
                 /\ \A k \in m..4 : s[k] = 255

\* Such a slot is not taken for a valid one, which depends on the data.
ErasedBytes == {255} \cup UNION {DataByte(k) : k \in 0..3}
NoFalseSlot == \A s \in [SlotBytes -> ErasedBytes] : Unwritten(s) => ~IsValid(s)

\* The slots b of an element were last written with data d and sequence counter n,
\* and the other slot is older: its sequence bit is that of the counter before n.
LastWrite(b, d, n) ==
  /\ b[n % 2] = SlotFor(d, n)
  /\ \/ Unwritten(b[1 - (n % 2)])
     \/ SequenceBit(b[1 - (n % 2)]) = ((n + 3) % 4) \div 2

NeverWritten(b) == \A q \in Slots : Unwritten(b[q])

\* The slots b hold the element e; the next write uses sequence counter c, unless
\* nothing was written so far.
Holds(b, e) ==
  \/ NeverWritten(b) /\ e = Nothing
  \/ \E d \in Datas, n \in 0..3 : LastWrite(b, d, n) /\ e = ElementOf(d)
NextWrite(b, e, c) ==
  \/ NeverWritten(b) /\ e = Nothing
  \/ \E d \in Datas, n \in 0..3 : LastWrite(b, d, n) /\ e = ElementOf(d) /\ c = (n + 1) % 4

SlotsType == [Slots -> [SlotBytes -> Byte]]
Written4 == {ElementOf(d) : d \in Datas}

InTransfer(i) == spi # << >> /\ spi[1].id = i

\* An element that was read and is not being written continues with the next sequence
\* counter; while it is transferred, the counter is that of the transfer.
ElementInv(i) ==
  /\ Holds(feram[i], durable[i])
  /\ i \in known /\ ~InTransfer(i)
       => NextWrite(feram[i], durable[i], (sequenceCounters[i] + 1) % 4)
  /\ InTransfer(i) => NextWrite(feram[i], durable[i], sequenceCounters[i])

\* Only the writer uses the bus, for an element that was read.
TransferInv ==
  \/ spi = << >>
  \/ \E i \in known, d \in Datas : spi = <<Transfer(i, d, sequenceCounters[i])>>

KnownRequest == [caller : Callers, id : known, data : Datas]

RamInv ==
  /\ feram \in [Ids -> SlotsType]
  /\ sequenceCounters \in [Ids -> 0..3]
  /\ known \subseteq Ids
  /\ durable \in [Ids -> {Nothing} \cup Written4]
  /\ writeWaitlist \in Seq(KnownRequest)

IInv == RamInv /\ TransferInv /\ \A i \in Ids : ElementInv(i)

-----------------------------------------------------------------------------
(* Slots *)

LEMMA Checksum ==
  ASSUME NEW a \in Int, NEW h \in 0..1
  PROVE  LET x == 8 * h + 4
             y == (x % 16) + 16 * ((x + a) % 16)
         IN /\ y \in 0..255
            /\ y % 8 = 4
            /\ (y \div 8) % 2 = h
            /\ y = (y % 16) + 16 * ((y + a) % 16)
<1>1. CASE h = 0
  BY <1>1, SMT
<1>2. CASE h = 1
  BY <1>2, SMT
<1> QED
  BY <1>1, <1>2

LEMMA DataFacts ==
  ASSUME CounterUse, NEW d \in Datas
  PROVE  /\ d \in Seq(Byte) /\ Len(d) = 4
         /\ \A k \in 1..4 : d[k] \in Byte
         /\ d = [k \in 1..4 |-> d[k]]
<1>1. d \in Seq(Byte) /\ Len(d) = 4
  BY FeRamAssumption DEF CounterUse
<1>2. d \in [1..4 -> Byte]
  BY <1>1, LenProperties
<1> QED
  BY <1>1, <1>2

LEMMA SlotForFacts ==
  ASSUME CounterUse, NEW d \in Datas, NEW n \in 0..3
  PROVE  /\ SlotFor(d, n) \in [SlotBytes -> Byte]
         /\ \A k \in 0..3 : SlotFor(d, n)[k] = d[k + 1]
         /\ IsValid(SlotFor(d, n))
         /\ SequenceBit(SlotFor(d, n)) = n \div 2
         /\ SizeOf(SlotFor(d, n)) = 4
<1> DEFINE x == 8 * (n \div 2) + 4
           pre == [k \in SlotBytes |->
                     IF k < Len(d) THEN d[k + 1]
                     ELSE IF k < 4 THEN 255 ELSE 8 * (n \div 2) + Len(d)]
           sum == NibbleSum(pre)
           y == (x % 16) + 16 * ((x + sum) % 16)
           s == SlotFor(d, n)
<1>1. Len(d) = 4 /\ \A k \in 1..4 : d[k] \in Byte
  BY DataFacts
<1>2. n \div 2 \in 0..1
  BY SMT
<1>3. /\ pre \in [SlotBytes -> Int] /\ pre[4] = x
      /\ \A k \in 0..3 : pre[k] = d[k + 1] /\ pre[k] \in Byte
  <2>1. pre[4] = x
    BY <1>1 DEF SlotBytes
  <2>2. \A k \in 0..3 : pre[k] = d[k + 1] /\ pre[k] \in Byte
    BY <1>1 DEF SlotBytes
  <2>3. x \in Int
    BY <1>2
  <2>4. \A k \in SlotBytes : pre[k] \in Int
    <3> TAKE k \in SlotBytes
    <3> HIDE DEF pre, x
    <3>1. CASE k = 4
      BY <2>1, <2>3, <3>1
    <3>2. CASE k \in 0..3
      BY <2>2, <3>2 DEF Byte
    <3> QED
      BY <3>1, <3>2 DEF SlotBytes
  <2> QED
    BY <2>1, <2>2, <2>4
<1> HIDE DEF pre
<1>4. sum \in Int
  BY <1>3 DEF NibbleSum, SlotBytes, Byte
<1>5. s = [pre EXCEPT ![4] = y]
  BY <1>3 DEF SlotFor, checksum, pre
<1>6. s[4] = y /\ \A k \in 0..3 : s[k] = pre[k]
  BY <1>5, <1>3 DEF SlotBytes
<1>7. NibbleSum(s) = sum
  BY <1>6 DEF NibbleSum
<1> HIDE DEF sum, s
<1>8. /\ y \in 0..255
      /\ y % 8 = 4
      /\ (y \div 8) % 2 = n \div 2
      /\ y = (y % 16) + 16 * ((y + sum) % 16)
  BY <1>2, <1>4, Checksum
<1>9. s \in [SlotBytes -> Byte]
  BY <1>3, <1>5, <1>6, <1>8 DEF SlotBytes, Byte
<1>10. IsValid(s)
  BY <1>6, <1>7, <1>8 DEF IsValid, checksum
<1>11. SequenceBit(s) = n \div 2 /\ SizeOf(s) = 4
  BY <1>6, <1>8 DEF SequenceBit, SizeOf
<1> QED
  BY <1>3, <1>6, <1>9, <1>10, <1>11 DEF s

\* A slot that was never written completely does not count.
LEMMA UnwrittenInvalid ==
  ASSUME CounterUse, NoFalseSlot, NEW s \in [SlotBytes -> Byte], Unwritten(s)
  PROVE  ~IsValid(s)
<1>1. PICK m \in 0..4 : /\ \A k \in 0..m - 1 : s[k] \in DataByte(k)
                        /\ \A k \in m..4 : s[k] = 255
  BY DEF Unwritten
<1>2. \A k \in SlotBytes : s[k] \in ErasedBytes
  <2> TAKE k \in SlotBytes
  <2>1. CASE k < m
    BY <1>1, <2>1 DEF ErasedBytes, SlotBytes
  <2>2. CASE k >= m
    BY <1>1, <2>2 DEF ErasedBytes, SlotBytes
  <2> QED
    BY <2>1, <2>2 DEF SlotBytes
<1>3. s \in [SlotBytes -> ErasedBytes]
  BY <1>2
<1> QED
  BY <1>3 DEF NoFalseSlot

LEMMA ReadsLast ==
  ASSUME CounterUse, NoFalseSlot, NEW b \in SlotsType, NEW d \in Datas, NEW n \in 0..3,
         LastWrite(b, d, n), NEW old
  PROVE  ReadBuffer(b) = ElementOf(d) /\ CounterRead(b, old) = n
<1> DEFINE w == b[n % 2]
           o == b[1 - (n % 2)]
<1>1. /\ n % 2 \in Slots /\ 1 - (n % 2) \in Slots
      /\ w \in [SlotBytes -> Byte] /\ o \in [SlotBytes -> Byte]
  BY DEF SlotsType, Slots
<1>2. /\ IsValid(w) /\ SequenceBit(w) = n \div 2 /\ SizeOf(w) = 4
      /\ \A k \in 0..3 : w[k] = d[k + 1]
  BY SlotForFacts DEF LastWrite
<1>3. ~IsValid(o) \/ SequenceBit(o) = ((n + 3) % 4) \div 2
  BY <1>1, UnwrittenInvalid DEF LastWrite
<1>4. NewerSlot(b) = n % 2
  <2>1. CASE n \in {0, 2}
    <3>1. n % 2 = 0 /\ w = b[0] /\ o = b[1]
      BY <2>1
    <3>2. n \div 2 # ((n + 3) % 4) \div 2
      BY <2>1
    <3> QED
      BY <1>2, <1>3, <3>1, <3>2 DEF NewerSlot
  <2>2. CASE n \in {1, 3}
    <3>1. n % 2 = 1 /\ w = b[1] /\ o = b[0]
      BY <2>2
    <3>2. n \div 2 = ((n + 3) % 4) \div 2
      BY <2>2
    <3> QED
      BY <1>2, <1>3, <3>1, <3>2 DEF NewerSlot
  <2> QED
    BY <2>1, <2>2
<1>5. IsValid(b[0]) \/ IsValid(b[1])
  BY <1>1, <1>2 DEF Slots
<1>6. CounterRead(b, old) = n
  <2>1. CounterRead(b, old) = 2 * (n \div 2) + (n % 2)
    BY <1>2, <1>4, <1>5 DEF CounterRead
  <2> QED
    BY <2>1
<1>7. [k \in 1..4 |-> w[k - 1]] = d
  BY <1>2, DataFacts
<1>8. ReadBuffer(b) = [size |-> 4, data |-> [k \in 1..4 |-> w[k - 1]]]
  BY <1>2, <1>4, <1>5 DEF ReadBuffer
<1> QED
  BY <1>6, <1>7, <1>8, DataFacts DEF ElementOf

LEMMA ReadsNothing ==
  ASSUME CounterUse, NoFalseSlot, NEW b \in SlotsType, NeverWritten(b), NEW old
  PROVE  ReadBuffer(b) = Nothing /\ CounterRead(b, old) = old
<1>1. ~IsValid(b[0]) /\ ~IsValid(b[1])
  BY UnwrittenInvalid DEF NeverWritten, SlotsType, Slots
<1> QED
  BY <1>1 DEF ReadBuffer, CounterRead

-----------------------------------------------------------------------------
(* Writes *)

\* the slot q of b after the first m bytes of s were written
Mix(b, q, s, m) == [b EXCEPT ![q] = [k \in SlotBytes |-> IF k < m THEN s[k] ELSE @[k]]]

LEMMA CompleteWrite ==
  ASSUME CounterUse, NEW b \in SlotsType, NEW e, NEW c \in 0..3, NEW d \in Datas,
         NextWrite(b, e, c)
  PROVE  LET w == Mix(b, c % 2, SlotFor(d, c), 5)
         IN w \in SlotsType /\ LastWrite(w, d, c)
<1> DEFINE w == Mix(b, c % 2, SlotFor(d, c), 5)
           q == c % 2
           p == 1 - (c % 2)
<1>1. q \in Slots /\ p \in Slots /\ q # p
  BY DEF Slots
<1>2. SlotFor(d, c) \in [SlotBytes -> Byte]
  BY SlotForFacts
<1>3. [k \in SlotBytes |-> IF k < 5 THEN SlotFor(d, c)[k] ELSE b[q][k]] = SlotFor(d, c)
  BY <1>2 DEF SlotBytes
<1>4. w = [b EXCEPT ![q] = SlotFor(d, c)]
  BY <1>3 DEF Mix
<1>5. w \in SlotsType /\ w[q] = SlotFor(d, c) /\ w[p] = b[p]
  BY <1>1, <1>2, <1>4 DEF SlotsType
<1>6. Unwritten(b[p]) \/ SequenceBit(b[p]) = ((c + 3) % 4) \div 2
  <2>1. CASE NeverWritten(b)
    BY <1>1, <2>1 DEF NeverWritten
  <2>2. ASSUME NEW g \in Datas, NEW n \in 0..3, LastWrite(b, g, n), c = (n + 1) % 4
        PROVE  SequenceBit(b[p]) = ((c + 3) % 4) \div 2
    <3>1. p = n % 2 /\ (c + 3) % 4 = n
      BY <2>2
    <3>2. b[p] = SlotFor(g, n)
      BY <2>2, <3>1 DEF LastWrite
    <3> QED
      BY <3>1, <3>2, SlotForFacts
  <2> QED
    BY <2>1, <2>2 DEF NextWrite
<1> QED
  BY <1>5, <1>6 DEF LastWrite

\* A write that is cut short touches the older slot only, and leaves its sequence
\* bit alone, which is in the last byte.
LEMMA TornWrite ==
  ASSUME CounterUse, NEW b \in SlotsType, NEW e, NEW c \in 0..3, NEW d \in Datas,
         NEW m \in 0..4, NextWrite(b, e, c)
  PROVE  LET w == Mix(b, c % 2, SlotFor(d, c), m)
         IN w \in SlotsType /\ Holds(w, e)
<1> DEFINE w == Mix(b, c % 2, SlotFor(d, c), m)
           q == c % 2
           p == 1 - (c % 2)
<1>1. q \in Slots /\ p \in Slots /\ q # p
  BY DEF Slots
<1>2. /\ SlotFor(d, c) \in [SlotBytes -> Byte]
      /\ \A k \in 0..3 : SlotFor(d, c)[k] = d[k + 1]
  BY SlotForFacts
<1>3. /\ w \in SlotsType /\ w[p] = b[p]
      /\ w[q] = [k \in SlotBytes |-> IF k < m THEN SlotFor(d, c)[k] ELSE b[q][k]]
  BY <1>1, <1>2 DEF SlotsType, Mix
<1>4. w[q][4] = b[q][4]
  BY <1>3 DEF SlotBytes
<1>5. ASSUME Unwritten(b[q]) PROVE Unwritten(w[q])
  <2>1. PICK l \in 0..4 : /\ \A k \in 0..l - 1 : b[q][k] \in DataByte(k)
                          /\ \A k \in l..4 : b[q][k] = 255
    BY <1>5 DEF Unwritten
  <2> DEFINE h == IF l < m THEN m ELSE l
  <2>2. h \in 0..4
    OBVIOUS
  <2>3. \A k \in 0..h - 1 : w[q][k] \in DataByte(k)
    <3> TAKE k \in 0..h - 1
    <3>1. CASE k < m
      BY <1>2, <1>3, <3>1 DEF DataByte, SlotBytes
    <3>2. CASE k >= m
      BY <1>3, <2>1, <3>2 DEF SlotBytes
    <3> QED
      BY <3>1, <3>2
  <2>4. \A k \in h..4 : w[q][k] = 255
    BY <1>3, <2>1 DEF SlotBytes
  <2> QED
    BY <2>2, <2>3, <2>4 DEF Unwritten
<1>6. CASE NeverWritten(b) /\ e = Nothing
  <2>1. \A z \in Slots : Unwritten(w[z])
    BY <1>1, <1>3, <1>5, <1>6 DEF NeverWritten, Slots
  <2> QED
    BY <1>3, <1>6, <2>1 DEF NeverWritten, Holds
<1>7. ASSUME NEW g \in Datas, NEW n \in 0..3, LastWrite(b, g, n), e = ElementOf(g),
             c = (n + 1) % 4
      PROVE  w \in SlotsType /\ Holds(w, e)
  <2>1. p = n % 2 /\ q = 1 - (n % 2)
    BY <1>7
  <2>2. w[n % 2] = SlotFor(g, n)
    BY <1>3, <1>7, <2>1 DEF LastWrite
  <2>3. SequenceBit(w[q]) = SequenceBit(b[q])
    BY <1>4 DEF SequenceBit
  <2>4. Unwritten(w[q]) \/ SequenceBit(w[q]) = ((n + 3) % 4) \div 2
    BY <1>5, <1>7, <2>1, <2>3 DEF LastWrite
  <2>5. LastWrite(w, g, n)
    BY <2>1, <2>2, <2>4 DEF LastWrite
  <2> QED
    BY <1>3, <1>7, <2>5 DEF Holds
<1> QED
  BY <1>6, <1>7 DEF NextWrite

LEMMA HoldsReads ==
  ASSUME CounterUse, NoFalseSlot, NEW b \in SlotsType, NEW e, Holds(b, e), NEW old \in 0..3
  PROVE  /\ ReadBuffer(b) = e
         /\ CounterRead(b, old) \in 0..3
         /\ NextWrite(b, e, (CounterRead(b, old) + 1) % 4)
<1>1. CASE NeverWritten(b) /\ e = Nothing
  BY <1>1, ReadsNothing DEF NextWrite
<1>2. ASSUME NEW d \in Datas, NEW n \in 0..3, LastWrite(b, d, n), e = ElementOf(d)
      PROVE  /\ ReadBuffer(b) = e
             /\ CounterRead(b, old) \in 0..3
             /\ NextWrite(b, e, (CounterRead(b, old) + 1) % 4)
  BY <1>2, ReadsLast DEF NextWrite
<1> QED
  BY <1>1, <1>2 DEF Holds

LEMMA NextWriteHolds ==
  ASSUME NEW b, NEW e, NEW c, NextWrite(b, e, c)
  PROVE  Holds(b, e)
BY DEF NextWrite, Holds

LEMMA LastThenNext ==
  ASSUME NEW b, NEW d \in Datas, NEW c \in 0..3, LastWrite(b, d, c)
  PROVE  NextWrite(b, ElementOf(d), (c + 1) % 4)
BY DEF NextWrite

LEMMA WrittenMix ==
  ASSUME NEW i \in Ids, NEW d, NEW c \in 0..3, NEW n, feram \in [Ids -> SlotsType]
  PROVE  Written(Transfer(i, d, c), n)
           = [feram EXCEPT ![i] = Mix(feram[i], c % 2, SlotFor(d, c), n)]
BY DEF Written, Transfer, Mix

LEMMA TransferFields ==
  ASSUME CounterUse, NEW i, NEW d \in Datas, NEW c
  PROVE  /\ Transfer(i, d, c).count = 5
         /\ Transfer(i, d, c).id = i
         /\ Transfer(i, d, c).data = d
<1> DEFINE l == Len(d)
<1>1. l = 4
  BY DEF CounterUse
<1> HIDE DEF l
<1>2. l + 1 = 5
  BY <1>1
<1> QED
  BY <1>2, Zenon DEF Transfer, l

\* All bytes of a transfer arrive.
LEMMA CompleteTransfer ==
  ASSUME CounterUse, feram \in [Ids -> SlotsType], NEW i \in Ids, NEW d \in Datas,
         NEW c \in 0..3, NextWrite(feram[i], durable[i], c),
         feram' = Written(Transfer(i, d, c), Transfer(i, d, c).count)
  PROVE  /\ feram' \in [Ids -> SlotsType]
         /\ \A j \in Ids : j # i => feram'[j] = feram[j]
         /\ NextWrite(feram'[i], ElementOf(d), (c + 1) % 4)
<1> DEFINE w == Mix(feram[i], c % 2, SlotFor(d, c), 5)
<1>1. Transfer(i, d, c).count = 5
  BY TransferFields
<1>2. feram[i] \in SlotsType
  OBVIOUS
<1>3. w \in SlotsType /\ LastWrite(w, d, c)
  BY <1>2, CompleteWrite
<1> HIDE DEF w
<1>4. feram' = [feram EXCEPT ![i] = w]
  BY <1>1, WrittenMix DEF w
<1> QED
  BY <1>3, <1>4, LastThenNext

\* The power fails during a transfer.
LEMMA CutTransferHolds ==
  ASSUME CounterUse, RamInv, \A j \in Ids : Holds(feram[j], durable[j]),
         NEW i \in Ids, NEW d \in Datas, NEW c \in 0..3, NextWrite(feram[i], durable[i], c),
         NEW n \in 1..5, CutTransfer(Transfer(i, d, c), n)
  PROVE  /\ feram' \in [Ids -> SlotsType]
         /\ durable' \in [Ids -> {Nothing} \cup Written4]
         /\ \A j \in Ids : Holds(feram'[j], durable'[j])
<1> USE DEF RamInv
<1>1. Transfer(i, d, c).count = 5 /\ Transfer(i, d, c).id = i /\ Transfer(i, d, c).data = d
  BY TransferFields
<1>2. CASE n = 5
  <2>1. /\ feram' = Written(Transfer(i, d, c), Transfer(i, d, c).count)
        /\ durable' = [durable EXCEPT ![i] = ElementOf(d)]
    BY <1>1, <1>2 DEF CutTransfer
  <2>2. /\ feram' \in [Ids -> SlotsType]
        /\ \A j \in Ids : j # i => feram'[j] = feram[j]
        /\ NextWrite(feram'[i], ElementOf(d), (c + 1) % 4)
    BY <2>1, CompleteTransfer
  <2>3. durable' \in [Ids -> {Nothing} \cup Written4]
    BY <2>1 DEF Written4
  <2> QED
    BY <2>1, <2>2, <2>3, NextWriteHolds
<1>3. CASE n \in 0..4
  <2> DEFINE w == Mix(feram[i], c % 2, SlotFor(d, c), n)
  <2>1. feram' = [feram EXCEPT ![i] = w] /\ durable' = durable
    BY <1>1, <1>3, WrittenMix DEF CutTransfer
  <2>2. w \in SlotsType /\ Holds(w, durable[i])
    BY <1>3, TornWrite
  <2> HIDE DEF w
  <2> QED
    BY <2>1, <2>2
<1> QED
  BY <1>2, <1>3

-----------------------------------------------------------------------------
(* The steps *)

\* The writer takes a request while nothing waits for the bus.
LEMMA StartKeeps ==
  ASSUME sequenceCounters \in [Ids -> 0..3], known \subseteq Ids, known' = known,
         NEW list \in Seq(KnownRequest), StartWriter(list, << >>),
         \A j \in Ids : Holds(feram'[j], durable'[j]),
         \A j \in known : NextWrite(feram'[j], durable'[j], (sequenceCounters[j] + 1) % 4)
  PROVE  /\ sequenceCounters' \in [Ids -> 0..3]
         /\ TransferInv'
         /\ \A j \in Ids : ElementInv(j)'
<1>1. CASE list = << >> /\ spi' = << >> /\ UNCHANGED sequenceCounters
  BY <1>1 DEF TransferInv, ElementInv, InTransfer
<1>2. CASE list # << >>
  <2> DEFINE r == Head(list)
             counter == (sequenceCounters[r.id] + 1) % 4
             t == Transfer(r.id, r.data, counter)
  <2>1. r \in KnownRequest
    BY <1>2, HeadTailProperties
  <2>2. r.id \in known /\ r.id \in Ids /\ r.data \in Datas
    BY <2>1 DEF KnownRequest
  <2>3. spi' = Append(<< >>, t) /\ sequenceCounters' = [sequenceCounters EXCEPT ![r.id] = counter]
    BY <1>2 DEF StartWriter, nextSequenceCounter
  <2> HIDE DEF r
  <2>4. spi' = <<t>> /\ spi'[1].id = r.id /\ spi' # << >>
    BY <2>3 DEF Transfer
  <2>5. counter \in 0..3
    BY <2>2
  <2>6. sequenceCounters' \in [Ids -> 0..3] /\ sequenceCounters'[r.id] = counter
    BY <2>2, <2>3, <2>5
  <2>7. TransferInv'
    BY <2>2, <2>4, <2>6 DEF TransferInv, Transfer
  <2>8. ASSUME NEW j \in Ids PROVE ElementInv(j)'
    <3>1. CASE j = r.id
      BY <2>2, <2>4, <2>6, <3>1 DEF ElementInv, InTransfer
    <3>2. CASE j # r.id
      <4>1. sequenceCounters'[j] = sequenceCounters[j]
        BY <2>3, <3>2
      <4> QED
        BY <2>4, <3>2, <4>1 DEF ElementInv, InTransfer
    <3> QED
      BY <3>1, <3>2
  <2> QED
    BY <2>6, <2>7, <2>8
<1> QED
  BY <1>1, <1>2 DEF StartWriter

LEMMA InitKeeps == ASSUME CounterUse, Init PROVE IInv
<1>1. RamInv
  BY DEF Init, RamInv, SlotsType, Byte
<1>2. TransferInv
  BY DEF Init, TransferInv
<1>3. ASSUME NEW i \in Ids PROVE ElementInv(i)
  <2>1. \A q \in Slots : \A k \in 0..4 : feram[i][q][k] = 255
    BY DEF Init, SlotBytes
  <2>2. NeverWritten(feram[i])
    BY <2>1 DEF NeverWritten, Unwritten
  <2> QED
    BY <2>2 DEF Init, ElementInv, Holds, InTransfer
<1> QED
  BY <1>1, <1>2, <1>3 DEF IInv

\* What waits for the bus, spelled out.
LEMMA TransferFacts ==
  ASSUME IInv, spi # << >>
  PROVE  \E i \in known, d \in Datas :
           /\ spi = <<Transfer(i, d, sequenceCounters[i])>>
           /\ i \in Ids /\ sequenceCounters[i] \in 0..3
           /\ spi[1].id = i /\ spi[1].kind = "write" /\ Head(spi) = spi[1] /\ Tail(spi) = << >>
           /\ Pending(i) /\ WriterBusy
           /\ NextWrite(feram[i], durable[i], sequenceCounters[i])
<1>1. PICK i \in known, d \in Datas : spi = <<Transfer(i, d, sequenceCounters[i])>>
  BY DEF IInv, TransferInv
<1> DEFINE t == Transfer(i, d, sequenceCounters[i])
<1>2. i \in Ids /\ sequenceCounters[i] \in 0..3
  BY DEF IInv, RamInv
<1>3. t.id = i /\ t.kind = "write"
  BY DEF Transfer
<1> HIDE DEF t
<1>4. spi = <<t>>
  BY <1>1 DEF t
<1>5. t \in ToSet(spi)
  BY <1>4 DEF ToSet
<1>6. Pending(i) /\ WriterBusy
  BY <1>3, <1>5 DEF Pending, WriterBusy
<1>7. spi[1].id = i /\ spi[1].kind = "write" /\ Head(spi) = spi[1] /\ Tail(spi) = << >>
  BY <1>3, <1>4
<1>8. NextWrite(feram[i], durable[i], sequenceCounters[i])
  BY <1>2, <1>7 DEF IInv, ElementInv, InTransfer
<1> QED
  BY <1>1, <1>2, <1>6, <1>7, <1>8

LEMMA ReadBlockingKeeps ==
  ASSUME CounterUse, NoFalseSlot, IInv, NEW i \in Ids, ReadBlocking(i)
  PROVE  IInv'
<1> USE DEF IInv, RamInv
<1> DEFINE n == CounterRead(feram[i], sequenceCounters[i])
<1>1. MayBlock(i) /\ ~Pending(i)
  BY DEF ReadBlocking, MayBlock, CounterUse
<1>2. n \in 0..3 /\ NextWrite(feram[i], durable[i], (n + 1) % 4)
  <2>1. feram[i] \in SlotsType /\ Holds(feram[i], durable[i]) /\ sequenceCounters[i] \in 0..3
    BY DEF ElementInv
  <2> QED
    BY <2>1, HoldsReads
<1> HIDE DEF n
<1>3. /\ sequenceCounters' = [sequenceCounters EXCEPT ![i] = n]
      /\ known' = known \cup {i}
      /\ UNCHANGED <<feram, durable, spi, writeWaitlist>>
  BY DEF ReadBlocking, n
<1>4. ~InTransfer(i)
  BY <1>1, TransferFacts DEF InTransfer
<1>5. RamInv'
  <2>1. writeWaitlist' \in Seq(KnownRequest')
    <3>1. KnownRequest \subseteq KnownRequest'
      BY <1>3 DEF KnownRequest
    <3> QED
      BY <1>3, <3>1, SeqMonotonic
  <2> QED
    BY <1>2, <1>3, <2>1
<1>6. TransferInv'
  <2>1. CASE spi = << >>
    BY <1>3, <2>1 DEF TransferInv
  <2>2. CASE spi # << >>
    <3>1. PICK j \in known, d \in Datas :
            spi = <<Transfer(j, d, sequenceCounters[j])>> /\ spi[1].id = j
      BY <2>2, TransferFacts
    <3>2. sequenceCounters'[j] = sequenceCounters[j]
      BY <1>3, <1>4, <2>2, <3>1 DEF InTransfer
    <3> QED
      BY <1>3, <3>1, <3>2 DEF TransferInv
  <2> QED
    BY <2>1, <2>2
<1>7. ASSUME NEW j \in Ids PROVE ElementInv(j)'
  <2>1. CASE j = i
    BY <1>2, <1>3, <1>4, <2>1 DEF ElementInv, InTransfer
  <2>2. CASE j # i
    BY <1>3, <2>2 DEF ElementInv, InTransfer
  <2> QED
    BY <2>1, <2>2
<1> QED
  BY <1>5, <1>6, <1>7

LEMMA WriteBlockingKeeps ==
  ASSUME CounterUse, IInv, NEW i \in Ids, NEW d \in Datas, WriteBlocking(i, d)
  PROVE  IInv'
<1> USE DEF IInv, RamInv
<1> DEFINE c == (sequenceCounters[i] + 1) % 4
<1>1. i \in known /\ ~Pending(i)
  BY DEF WriteBlocking, MayWrite, MayBlock, CounterUse
<1>2. ~InTransfer(i)
  BY <1>1, TransferFacts DEF InTransfer
<1>3. c \in 0..3 /\ NextWrite(feram[i], durable[i], c)
  BY <1>1, <1>2 DEF ElementInv
<1>4. /\ sequenceCounters' = [sequenceCounters EXCEPT ![i] = c]
      /\ feram' = Written(Transfer(i, d, c), Transfer(i, d, c).count)
      /\ durable' = [durable EXCEPT ![i] = ElementOf(d)]
      /\ UNCHANGED <<known, spi, writeWaitlist>>
  BY DEF WriteBlocking, nextSequenceCounter
<1>5. /\ feram' \in [Ids -> SlotsType]
      /\ \A j \in Ids : j # i => feram'[j] = feram[j]
      /\ NextWrite(feram'[i], ElementOf(d), (c + 1) % 4)
  BY <1>3, <1>4, CompleteTransfer
<1> HIDE DEF c
<1>6. RamInv'
  BY <1>3, <1>4, <1>5 DEF Written4, KnownRequest
<1>7. TransferInv'
  <2>1. CASE spi = << >>
    BY <1>4, <2>1 DEF TransferInv
  <2>2. CASE spi # << >>
    <3>1. PICK j \in known, g \in Datas :
            spi = <<Transfer(j, g, sequenceCounters[j])>> /\ spi[1].id = j
      BY <2>2, TransferFacts
    <3>2. sequenceCounters'[j] = sequenceCounters[j]
      BY <1>2, <1>4, <2>2, <3>1 DEF InTransfer
    <3> QED
      BY <1>4, <3>1, <3>2 DEF TransferInv
  <2> QED
    BY <2>1, <2>2
<1>8. ASSUME NEW j \in Ids PROVE ElementInv(j)'
  <2>1. CASE j = i
    BY <1>2, <1>3, <1>4, <1>5, <2>1, NextWriteHolds DEF ElementInv, InTransfer
  <2>2. CASE j # i
    BY <1>4, <1>5, <2>2 DEF ElementInv, InTransfer
  <2> QED
    BY <2>1, <2>2
<1> QED
  BY <1>6, <1>7, <1>8

LEMMA WriteKeeps ==
  ASSUME CounterUse, IInv, NEW a \in Callers, NEW i \in Ids, NEW d \in Datas, Write(a, i, d)
  PROVE  IInv'
<1> USE DEF IInv, RamInv
<1> DEFINE r == [caller |-> a, id |-> i, data |-> d]
           list == Append(writeWaitlist, r)
<1>1. r \in KnownRequest
  BY DEF Write, MayWrite, CounterUse, KnownRequest
<1> HIDE DEF r
<1>2. list \in Seq(KnownRequest)
  BY <1>1, AppendProperties
<1>3. writeWaitlist' = list /\ UNCHANGED <<feram, durable, known>>
  BY DEF Write, r
<1> HIDE DEF list
<1>4. KnownRequest' = KnownRequest
  BY <1>3 DEF KnownRequest
<1>5. CASE UNCHANGED <<spi, sequenceCounters>>
  <2>1. RamInv'
    BY <1>2, <1>3, <1>4, <1>5
  <2>2. TransferInv'
    BY <1>3, <1>5 DEF TransferInv
  <2>3. ASSUME NEW j \in Ids PROVE ElementInv(j)'
    BY <1>3, <1>5 DEF ElementInv, InTransfer
  <2> QED
    BY <2>1, <2>2, <2>3
<1>6. CASE ~WriterBusy /\ StartWriter(list, spi)
  <2>1. spi = << >>
    BY <1>6, TransferFacts
  <2>2. \A j \in Ids : Holds(feram'[j], durable'[j])
    BY <1>3 DEF ElementInv
  <2>3. \A j \in known : NextWrite(feram'[j], durable'[j], (sequenceCounters[j] + 1) % 4)
    BY <1>3, <2>1 DEF ElementInv, InTransfer
  <2>4. /\ sequenceCounters' \in [Ids -> 0..3]
        /\ TransferInv'
        /\ \A j \in Ids : ElementInv(j)'
    BY <1>2, <1>3, <1>6, <2>1, <2>2, <2>3, StartKeeps
  <2> QED
    BY <1>2, <1>3, <1>4, <2>4
<1> QED
  BY <1>5, <1>6 DEF Write, list, r

LEMMA CancelKeeps ==
  ASSUME IInv, NEW a \in Callers, Cancel(a)
  PROVE  IInv'
<1> USE DEF IInv, RamInv
<1>1. UNCHANGED <<feram, sequenceCounters, spi, known, durable>>
  BY DEF Cancel
<1>2. writeWaitlist' \in Seq(KnownRequest)
  <2>1. PICK k \in 1..Len(writeWaitlist) : writeWaitlist' = RemoveAt(writeWaitlist, k)
    BY DEF Cancel
  <2> DEFINE w == writeWaitlist
  <2>2. Len(w) \in Nat /\ \A n \in 1..Len(w) : w[n] \in KnownRequest
    BY LenProperties
  <2>3. SubSeq(w, 1, k - 1) \in Seq(KnownRequest)
    BY <2>2, SubSeqProperties
  <2>4. SubSeq(w, k + 1, Len(w)) \in Seq(KnownRequest)
    BY <2>2, SubSeqProperties
  <2> QED
    BY <2>1, <2>3, <2>4, ConcatProperties DEF RemoveAt
<1>3. RamInv'
  BY <1>1, <1>2 DEF KnownRequest
<1>4. TransferInv'
  BY <1>1 DEF TransferInv
<1>5. ASSUME NEW j \in Ids PROVE ElementInv(j)'
  BY <1>1 DEF ElementInv, InTransfer
<1> QED
  BY <1>3, <1>4, <1>5

LEMMA TransferWriteKeeps ==
  ASSUME CounterUse, IInv, TransferWrite
  PROVE  IInv'
<1> USE DEF IInv, RamInv
<1> DEFINE list == IF writeWaitlist = << >> THEN << >> ELSE Tail(writeWaitlist)
<1>1. spi # << >>
  BY DEF TransferWrite
<1>2. PICK i \in known, d \in Datas :
        /\ spi = <<Transfer(i, d, sequenceCounters[i])>>
        /\ i \in Ids /\ sequenceCounters[i] \in 0..3
        /\ Head(spi) = spi[1] /\ Tail(spi) = << >> /\ spi[1].id = i
        /\ NextWrite(feram[i], durable[i], sequenceCounters[i])
  BY <1>1, TransferFacts
<1> DEFINE c == sequenceCounters[i]
           t == Transfer(i, d, c)
<1>3. Head(spi) = t /\ t.id = i /\ t.data = d
  BY <1>2, TransferFields
<1> HIDE DEF t
<1>4. /\ feram' = Written(t, t.count)
      /\ durable' = [durable EXCEPT ![i] = ElementOf(d)]
      /\ writeWaitlist' = list
      /\ StartWriter(list, << >>)
      /\ known' = known
  BY <1>2, <1>3 DEF TransferWrite
<1>5. list \in Seq(KnownRequest)
  BY HeadTailProperties
<1> HIDE DEF list
<1>6. /\ feram' \in [Ids -> SlotsType]
      /\ \A j \in Ids : j # i => feram'[j] = feram[j]
      /\ NextWrite(feram'[i], ElementOf(d), (c + 1) % 4)
  BY <1>2, <1>4, CompleteTransfer DEF t
<1> HIDE DEF c
<1>7. /\ durable' \in [Ids -> {Nothing} \cup Written4]
      /\ durable'[i] = ElementOf(d)
      /\ \A j \in Ids : j # i => durable'[j] = durable[j]
  BY <1>2, <1>4 DEF Written4
<1>8. \A j \in Ids : Holds(feram'[j], durable'[j])
  BY <1>6, <1>7, NextWriteHolds DEF ElementInv
<1>9. \A j \in known : NextWrite(feram'[j], durable'[j], (sequenceCounters[j] + 1) % 4)
  BY <1>2, <1>6, <1>7 DEF ElementInv, InTransfer, c
<1>10. /\ sequenceCounters' \in [Ids -> 0..3]
       /\ TransferInv'
       /\ \A j \in Ids : ElementInv(j)'
  BY <1>4, <1>5, <1>8, <1>9, StartKeeps
<1>11. KnownRequest' = KnownRequest
  BY <1>4 DEF KnownRequest
<1> QED
  BY <1>4, <1>5, <1>6, <1>7, <1>10, <1>11

LEMMA PowerFailKeeps ==
  ASSUME CounterUse, IInv, PowerFail
  PROVE  IInv'
<1> USE DEF IInv, RamInv
<1>1. /\ sequenceCounters' \in [Ids -> 0..3] /\ writeWaitlist' = << >>
      /\ spi' = << >> /\ known' = {}
  BY DEF PowerFail, Restart
<1>2. \A j \in Ids : Holds(feram[j], durable[j])
  BY DEF ElementInv
<1>3. /\ feram' \in [Ids -> SlotsType]
      /\ durable' \in [Ids -> {Nothing} \cup Written4]
      /\ \A j \in Ids : Holds(feram'[j], durable'[j])
  <2>1. CASE UNCHANGED <<feram, durable>>
    BY <1>2, <2>1
  <2>2. ASSUME spi # << >>, NEW n \in 1..Head(spi).count, CutTransfer(Head(spi), n)
        PROVE  <1>3!:
    <3>1. PICK i \in known, d \in Datas :
            /\ Head(spi) = Transfer(i, d, sequenceCounters[i])
            /\ i \in Ids /\ sequenceCounters[i] \in 0..3
            /\ NextWrite(feram[i], durable[i], sequenceCounters[i])
      BY <2>2, TransferFacts
    <3>2. n \in 1..5
      BY <3>1, TransferFields
    <3> QED
      BY <1>2, <2>2, <3>1, <3>2, CutTransferHolds
  <2>3. ASSUME NEW i \in Ids, NEW d \in Datas, MayWrite(i), MayBlock(i), NEW n \in 1..Len(d) + 1,
               CutTransfer(Transfer(i, d, nextSequenceCounter(i)), n)
        PROVE  <1>3!:
    <3> DEFINE c == (sequenceCounters[i] + 1) % 4
    <3>1. i \in known /\ ~Pending(i)
      BY <2>3 DEF MayWrite, MayBlock, CounterUse
    <3>2. ~InTransfer(i)
      BY <3>1, TransferFacts DEF InTransfer
    <3>3. c \in 0..3 /\ NextWrite(feram[i], durable[i], c)
      BY <3>1, <3>2 DEF ElementInv
    <3>4. n \in 1..5
      BY TransferFields, <2>3, Zenon DEF Transfer
    <3> QED
      BY <1>2, <2>3, <3>3, <3>4, CutTransferHolds DEF nextSequenceCounter
  <2> QED
    BY <2>1, <2>2, <2>3 DEF PowerFail
<1>4. RamInv'
  BY <1>1, <1>3
<1>5. TransferInv'
  BY <1>1 DEF TransferInv
<1>6. ASSUME NEW j \in Ids PROVE ElementInv(j)'
  BY <1>1, <1>3 DEF ElementInv, InTransfer
<1> QED
  BY <1>4, <1>5, <1>6

\* The inductive invariant.
THEOREM CountersInductive ==
  ASSUME CounterUse, NoFalseSlot
  PROVE  Spec => []IInv
<1>1. Init => IInv
  BY InitKeeps
<1>2. IInv /\ [Next]_vars => IInv'
  <2> SUFFICES ASSUME IInv, [Next]_vars PROVE IInv'
    OBVIOUS
  <2>1. ASSUME NEW i \in Ids, ReadBlocking(i) PROVE IInv'
    BY <2>1, ReadBlockingKeeps
  <2>2. ASSUME NEW i \in Ids, NEW d \in Datas, WriteBlocking(i, d) PROVE IInv'
    BY <2>2, WriteBlockingKeeps
  <2>3. ASSUME NEW a \in Callers, NEW i \in Ids, NEW d \in Datas, Write(a, i, d) PROVE IInv'
    BY <2>3, WriteKeeps
  <2>4. ASSUME NEW a \in Callers, NEW i \in Ids, Read(a, i) PROVE IInv'
    BY <2>4 DEF Read, CounterUse
  <2>5. ASSUME NEW a \in Callers, Cancel(a) PROVE IInv'
    BY <2>5, CancelKeeps
  <2>6. CASE TransferWrite
    BY <2>6, TransferWriteKeeps
  <2>7. CASE TransferRead
    BY <2>7, TransferFacts DEF TransferRead
  <2>8. CASE PowerFail
    BY <2>8, PowerFailKeeps
  <2>9. CASE UNCHANGED vars
    BY <2>9 DEF vars, IInv, RamInv, TransferInv, ElementInv, InTransfer, KnownRequest
  <2> QED
    BY <2>1, <2>2, <2>3, <2>4, <2>5, <2>6, <2>7, <2>8, <2>9 DEF Next
<1> QED
  BY <1>1, <1>2, PTL DEF Spec

\* Whenever the power fails, and in whatever order callers use the storage within
\* CounterUse: reading an element returns the last write that reached the FeRam
\* completely (readBuffer, FeRamStorage4.cpp:177).
THEOREM CountersDurable ==
  ASSUME CounterUse, NoFalseSlot
  PROVE  Spec => []ReadIsLastWrite
<1>1. IInv => ReadIsLastWrite
  <2> SUFFICES ASSUME IInv, NEW i \in Ids PROVE Stored(feram, i) = durable[i]
    BY DEF ReadIsLastWrite
  <2>1. feram[i] \in SlotsType /\ Holds(feram[i], durable[i])
    BY DEF IInv, RamInv, ElementInv
  <2>2. 0 \in 0..3
    OBVIOUS
  <2> QED
    BY <2>1, <2>2, HoldsReads DEF Stored
<1> QED
  BY <1>1, CountersInductive, PTL
-----------------------------------------------------------------------------
(* What callers are told *)

\* The writer has a transfer under way exactly while requests wait, and it is the one
\* of the first request.
WriterServes ==
  /\ spi = << >> <=> writeWaitlist = << >>
  /\ spi # << >> => /\ spi[1].id = writeWaitlist[1].id
                    /\ spi[1].data = writeWaitlist[1].data

Answers ==
  {NoAck} \cup [kind : {"write"}, id : Ids, data : Datas]
    \cup [kind : {"read"}, id : Ids, result : Element]

\* What the last call returned agrees with the storage; for writes this needs that
\* no request leaves the list by itself.
AnswerInv ==
  /\ readWaitlist = << >>
  /\ acked \in Answers
  /\ ReadReturnsElement
  /\ Habits = {} => WriterServes /\ AckIsStored

\* Reading what the FeRam holds, in the form of the properties.
LEMMA IInvReads ==
  ASSUME CounterUse, NoFalseSlot, IInv, NEW i \in Ids
  PROVE  Stored(feram, i) = durable[i]
<1>1. feram[i] \in SlotsType /\ Holds(feram[i], durable[i])
  BY DEF IInv, RamInv, ElementInv
<1>2. 0 \in 0..3
  OBVIOUS
<1> QED
  BY <1>1, <1>2, HoldsReads DEF Stored

\* An element has its type.
LEMMA ElementType ==
  ASSUME CounterUse PROVE {Nothing} \cup Written4 \subseteq Element
<1>1. Nothing \in Element
  BY DEF Nothing, Element
<1>2. ASSUME NEW d \in Datas PROVE ElementOf(d) \in Element
  BY DataFacts DEF ElementOf, Element
<1> QED
  BY <1>1, <1>2 DEF Written4

\* A call that answers nothing keeps the answers right when it leaves writer and bus alone.
LEMMA NoAnswer ==
  ASSUME AnswerInv, acked' = NoAck, readWaitlist' = readWaitlist,
         Habits = {} => WriterServes'
  PROVE  AnswerInv'
BY DEF AnswerInv, Answers, NoAck, ReadReturnsElement, AckIsStored

\* Writer and bus after StartWriter.
LEMMA StartServes ==
  ASSUME NEW S, NEW list \in Seq(S),
         StartWriter(list, << >>), writeWaitlist' = list
  PROVE  WriterServes'
<1>1. CASE list = << >>
  BY <1>1 DEF StartWriter, WriterServes
<1>2. CASE list # << >>
  <2> DEFINE r == Head(list)
             t == Transfer(r.id, r.data, nextSequenceCounter(r.id))
  <2>1. spi' = Append(<< >>, t)
    BY <1>2 DEF StartWriter
  <2>2. t.id = r.id /\ t.data = r.data
    BY DEF Transfer
  <2>3. r = list[1]
    BY <1>2
  <2> HIDE DEF r, t
  <2>4. spi' = <<t>> /\ spi'[1] = t /\ spi' # << >>
    BY <2>1
  <2> QED
    BY <1>2, <2>2, <2>3, <2>4 DEF WriterServes
<1> QED
  BY <1>1, <1>2

\* A write in FeRam that the caller is told of.
LEMMA AckedWrite ==
  ASSUME CounterUse, NoFalseSlot, IInv', NEW i \in Ids, NEW d \in Datas,
         durable'[i] = ElementOf(d), acked' = Ack(i, d)
  PROVE  acked' \in Answers /\ ReadReturnsElement' /\ AckIsStored'
<1>1. feram'[i] \in SlotsType /\ Holds(feram'[i], durable'[i])
  BY DEF IInv, RamInv, ElementInv
<1>2. 0 \in 0..3
  OBVIOUS
<1>3. ReadBuffer(feram'[i]) = durable'[i]
  BY <1>1, <1>2, HoldsReads
<1>4. acked'.kind = "write" /\ acked'.id = i /\ acked'.data = d
  BY DEF Ack
<1>5. acked' \in Answers
  BY DEF Ack, Answers
<1> QED
  BY <1>3, <1>4, <1>5 DEF ReadReturnsElement, AckIsStored, Stored

\* The blocking calls.
LEMMA BlockingAnswers ==
  ASSUME CounterUse, NoFalseSlot, IInv, IInv', AnswerInv, NEW i \in Ids,
         ReadBlocking(i) \/ \E d \in Datas : WriteBlocking(i, d)
  PROVE  AnswerInv'
<1>1. CASE ReadBlocking(i)
  <2>1. acked' = [kind |-> "read", id |-> i, result |-> durable[i]]
    BY <1>1, IInvReads DEF ReadBlocking, ReadResult
  <2>2. durable[i] \in Element
    BY ElementType DEF IInv, RamInv
  <2>3. acked' \in Answers
    BY <2>1, <2>2 DEF Answers
  <2>4. UNCHANGED <<writeWaitlist, readWaitlist, spi, durable>>
    BY <1>1 DEF ReadBlocking
  <2> QED
    BY <2>1, <2>3, <2>4 DEF AnswerInv, ReadReturnsElement, AckIsStored, WriterServes
<1>2. ASSUME NEW d \in Datas, WriteBlocking(i, d) PROVE AnswerInv'
  <2>1. durable'[i] = ElementOf(d) /\ acked' = Ack(i, d)
    BY <1>2 DEF WriteBlocking, IInv, RamInv
  <2>2. acked' \in Answers /\ ReadReturnsElement' /\ AckIsStored'
    BY <2>1, AckedWrite
  <2>3. UNCHANGED <<writeWaitlist, readWaitlist, spi>>
    BY <1>2 DEF WriteBlocking
  <2> QED
    BY <2>2, <2>3 DEF AnswerInv, WriterServes
<1> QED
  BY <1>1, <1>2

\* A request for the writer.
LEMMA WriteAnswers ==
  ASSUME IInv, AnswerInv, NEW a \in Callers, NEW i \in Ids, NEW d \in Datas, Write(a, i, d)
  PROVE  AnswerInv'
<1> DEFINE r == [caller |-> a, id |-> i, data |-> d]
           list == Append(writeWaitlist, r)
<1>1. acked' = NoAck /\ readWaitlist' = readWaitlist /\ writeWaitlist' = list
  BY DEF Write
<1>2. ASSUME Habits = {} PROVE WriterServes'
  <2>1. writeWaitlist \in Seq(KnownRequest)
    BY DEF IInv, RamInv
  <2>2. r \in [caller : Callers, id : Ids, data : Datas]
    OBVIOUS
  <2>3. KnownRequest \subseteq [caller : Callers, id : Ids, data : Datas]
    BY DEF KnownRequest, IInv, RamInv
  <2>4. writeWaitlist \in Seq([caller : Callers, id : Ids, data : Datas])
    BY <2>1, <2>3, SeqMonotonic
  <2> HIDE DEF r
  <2>5. list \in Seq([caller : Callers, id : Ids, data : Datas])
    BY <2>2, <2>4, AppendProperties
  <2>6. writeWaitlist # << >> => list[1] = writeWaitlist[1]
    BY <2>4
  <2>7. list # << >>
    BY <2>2, <2>4, AppendProperties
  <2> HIDE DEF list
  <2>8. CASE WriterBusy /\ UNCHANGED <<spi, sequenceCounters>>
    <3>1. spi # << >>
      BY <2>8 DEF WriterBusy, ToSet
    <3> QED
      BY <1>1, <1>2, <2>6, <2>7, <2>8, <3>1 DEF AnswerInv, WriterServes
  <2>9. CASE ~WriterBusy /\ StartWriter(list, spi)
    <3>1. spi = << >>
      BY <2>9, TransferFacts
    <3> QED
      BY <1>1, <2>5, <2>9, <3>1, StartServes
  <2> QED
    BY <2>8, <2>9 DEF Write, list, r
<1> QED
  BY <1>1, <1>2, NoAnswer

\* A transfer of the writer.
LEMMA TransferAnswers ==
  ASSUME CounterUse, NoFalseSlot, IInv, IInv', AnswerInv, TransferWrite
  PROVE  AnswerInv'
<1>1. spi # << >>
  BY DEF TransferWrite
<1>2. PICK i \in known, d \in Datas :
        /\ spi = <<Transfer(i, d, sequenceCounters[i])>>
        /\ i \in Ids /\ Head(spi) = spi[1] /\ Tail(spi) = << >>
  BY <1>1, TransferFacts
<1>3. spi[1].id = i /\ spi[1].data = d
  BY <1>2, TransferFields
<1>4. durable' = [durable EXCEPT ![i] = ElementOf(d)] /\ readWaitlist' = readWaitlist
  BY <1>2, <1>3 DEF TransferWrite
<1>5. writeWaitlist \in Seq(KnownRequest)
  BY DEF IInv, RamInv
<1>6. CASE writeWaitlist = << >>
  <2>1. acked' = NoAck /\ Habits # {}
    BY <1>1, <1>6 DEF TransferWrite, AnswerInv, WriterServes
  <2> QED
    BY <1>4, <2>1, NoAnswer
<1>7. CASE writeWaitlist # << >>
  <2> DEFINE r == writeWaitlist[1]
  <2>1. r \in KnownRequest /\ Head(writeWaitlist) = r /\ Tail(writeWaitlist) \in Seq(KnownRequest)
    BY <1>5, <1>7
  <2>2. r.id \in Ids /\ r.data \in Datas
    BY <2>1 DEF KnownRequest, IInv, RamInv
  <2>3. acked' = Ack(r.id, r.data)
    BY <1>7, <2>1 DEF TransferWrite
  <2>4. CASE Habits = {}
    <3>1. r.id = i /\ r.data = d
      BY <1>1, <1>3, <2>4 DEF AnswerInv, WriterServes
    <3>2. durable'[i] = ElementOf(d)
      BY <1>2, <1>4 DEF IInv, RamInv
    <3>3. acked' \in Answers /\ ReadReturnsElement' /\ AckIsStored'
      BY <2>2, <2>3, <3>1, <3>2, AckedWrite
    <3>4. /\ StartWriter(Tail(writeWaitlist), << >>)
          /\ writeWaitlist' = Tail(writeWaitlist)
      BY <1>2, <1>7 DEF TransferWrite
    <3>5. WriterServes'
      BY <2>1, <3>4, StartServes
    <3> QED
      BY <1>4, <3>3, <3>5 DEF AnswerInv
  <2>5. CASE Habits # {}
    <3>1. acked' \in Answers /\ acked'.kind = "write"
      BY <2>2, <2>3 DEF Ack, Answers
    <3> QED
      BY <1>4, <2>5, <3>1 DEF AnswerInv, ReadReturnsElement
  <2> QED
    BY <2>4, <2>5
<1> QED
  BY <1>6, <1>7

\* The answers stay right.
LEMMA CountersAnswers ==
  ASSUME CounterUse, NoFalseSlot
  PROVE  Spec => []AnswerInv
<1>1. Init => AnswerInv
  BY DEF Init, AnswerInv, Answers, NoAck, ReadReturnsElement, AckIsStored, WriterServes
<1>2. IInv /\ IInv' /\ AnswerInv /\ [Next]_vars => AnswerInv'
  <2> SUFFICES ASSUME IInv, IInv', AnswerInv, [Next]_vars PROVE AnswerInv'
    OBVIOUS
  <2>1. ASSUME NEW i \in Ids, ReadBlocking(i) \/ \E d \in Datas : WriteBlocking(i, d)
        PROVE  AnswerInv'
    BY <2>1, BlockingAnswers
  <2>2. ASSUME NEW a \in Callers, NEW i \in Ids, NEW d \in Datas, Write(a, i, d)
        PROVE  AnswerInv'
    BY <2>2, WriteAnswers
  <2>3. ASSUME NEW a \in Callers, NEW i \in Ids, Read(a, i) PROVE AnswerInv'
    BY <2>3 DEF Read, CounterUse
  <2>4. ASSUME NEW a \in Callers, Cancel(a) PROVE AnswerInv'
    <3>1. acked' = NoAck /\ readWaitlist' = readWaitlist /\ Habits # {}
      BY <2>4 DEF Cancel
    <3> QED
      BY <3>1, NoAnswer
  <2>5. CASE TransferWrite
    BY <2>5, TransferAnswers
  <2>6. CASE TransferRead
    BY <2>6, TransferFacts DEF TransferRead
  <2>7. CASE PowerFail
    BY <2>7 DEF PowerFail, Restart, AnswerInv, Answers, NoAck, ReadReturnsElement, AckIsStored,
       WriterServes
  <2>8. CASE UNCHANGED vars
    BY <2>8 DEF vars, AnswerInv, ReadReturnsElement, AckIsStored, Stored, WriterServes
  <2> QED
    BY <2>1, <2>2, <2>3, <2>4, <2>5, <2>6, <2>7, <2>8 DEF Next
<1> QED
  BY <1>1, <1>2, CountersInductive, PTL DEF Spec

\* Type correctness: the slots stay bytes and the counters two bits, whatever is cut short.
THEOREM CountersTypeOK ==
  ASSUME CounterUse, NoFalseSlot
  PROVE  Spec => []TypeOK
<1>1. IInv /\ AnswerInv => TypeOK
  <2> SUFFICES ASSUME IInv, AnswerInv PROVE TypeOK
    OBVIOUS
  <2> USE DEF IInv, RamInv
  <2>1. feram \in [Ids -> [Slots -> [SlotBytes -> Byte]]]
    BY DEF SlotsType
  <2>2. writeWaitlist \in Seq(WriteRequest)
    <3>1. KnownRequest \subseteq WriteRequest
      BY DEF KnownRequest, WriteRequest
    <3> QED
      BY <3>1, SeqMonotonic
  <2>3. readWaitlist \in Seq(ReadRequest) /\ acked \in Answers
    BY DEF AnswerInv
  <2>4. spi \in Seq(WriteTransfer \cup {ReadTransfer(i) : i \in Ids})
    <3>1. ASSUME NEW i \in Ids, NEW d \in Datas PROVE Transfer(i, d, sequenceCounters[i]) \in WriteTransfer
      <4>1. sequenceCounters[i] \in 0..3
        OBVIOUS
      <4>2. SlotFor(d, sequenceCounters[i]) \in [SlotBytes -> Byte]
        BY <4>1, SlotForFacts
      <4>3. \A n \in 0..3 : n % 2 \in Slots
        BY DEF Slots
      <4>4. Len(d) + 1 \in 1..5
        <5>1. Len(d) = 4
          BY Zenon DEF CounterUse
        <5> QED
          BY <5>1
      <4> QED
        BY <4>1, <4>2, <4>3, <4>4 DEF Transfer, WriteTransfer
    <3>2. CASE spi = << >>
      BY <3>2
    <3>3. ASSUME NEW i \in known, NEW d \in Datas, spi = <<Transfer(i, d, sequenceCounters[i])>>
          PROVE  spi \in Seq(WriteTransfer \cup {ReadTransfer(j) : j \in Ids})
      BY <3>1, <3>3
    <3> QED
      BY <3>2, <3>3 DEF TransferInv
  <2>5. durable \in [Ids -> Element]
    BY ElementType
  <2> QED
    BY <2>1, <2>2, <2>3, <2>4, <2>5 DEF TypeOK, Answers
<1> QED
  BY <1>1, CountersInductive, CountersAnswers, PTL

\* When nobody cancels a write, a write that returned with OK is in the FeRam: the writer
\* answers the request whose transfer it just completed, in whatever order requests come.
THEOREM CountersAckIsStored ==
  ASSUME CounterUse, NoFalseSlot, Habits = {}
  PROVE  Spec => []AckIsStored
<1>1. AnswerInv => AckIsStored
  BY DEF AnswerInv
<1> QED
  BY <1>1, CountersAnswers, PTL

\* A blocking read returns the last write that reached the FeRam completely.
THEOREM CountersReadReturns ==
  ASSUME CounterUse, NoFalseSlot
  PROVE  Spec => []ReadReturnsElement
<1>1. AnswerInv => ReadReturnsElement
  BY DEF AnswerInv
<1> QED
  BY <1>1, CountersAnswers, PTL
=============================================================================
