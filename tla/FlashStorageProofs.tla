------------------------- MODULE FlashStorageProofs -------------------------
(***************************************************************************)
(* For every geometry of the flash: the allocation table of a sector and   *)
(* its data never collide, and garbage collection never needs more space   *)
(* than there is.                                                          *)
(***************************************************************************)
EXTENDS FlashStorage, TLAPS

\* What the steps preserve: the types and the space in the sectors.
IInv == TypeOK /\ TableBelowData

-----------------------------------------------------------------------------
(* Cells and sectors *)

\* The successor of a sector is a sector.
LEMMA NextSectorType ==
  ASSUME NEW s \in Sectors PROVE NextSector(s) \in Sectors
BY FlashAssumption DEF NextSector, Sectors

\* What the fields of an entry are.
LEMMA EntryFields ==
  ASSUME NEW c \in Cell, c.kind = "entry"
  PROVE  c.id \in Ids /\ c.size \in 0..SectorSize /\ c.offset \in 0..SectorSize
BY DEF Cell, Empty, Torn, Garbage, Close, Data, Entry

\* An entry is a cell.
LEMMA EntryType ==
  ASSUME NEW i \in Ids, NEW n \in 0..SectorSize, NEW o \in 0..SectorSize
  PROVE  Entry(i, n, o) \in Cell
BY DEF Cell

\* Programming a cell with a cell leaves a cell.
LEMMA ProgramType ==
  ASSUME NEW old \in Cell, NEW new \in Cell PROVE Program(old, new) \in Cell
BY DEF Program, Cell

\* Programming one cell of the flash keeps the type of the flash.
LEMMA ProgrammedType ==
  ASSUME flash \in [Sectors -> [Offsets -> Cell]],
         NEW s \in Sectors, NEW o \in Offsets, NEW new \in Cell
  PROVE  Programmed(s, o, new) \in [Sectors -> [Offsets -> Cell]]
<1>1. flash[s][o] \in Cell
  OBVIOUS
<1>2. Program(flash[s][o], new) \in Cell
  BY <1>1, ProgramType
<1> QED
  BY <1>2 DEF Programmed

\* Erasing cells of a sector keeps the type of the sector.
LEMMA WipedType ==
  ASSUME NEW sector \in [Offsets -> Cell], NEW cells
  PROVE  Wiped(sector, cells) \in [Offsets -> Cell]
BY DEF Wiped, Cell

\* Erasing a sector keeps the type of the flash.
LEMMA ErasedType ==
  ASSUME flash \in [Sectors -> [Offsets -> Cell]], NEW s \in Sectors
  PROVE  Erased(s) \in [Sectors -> [Offsets -> Cell]]
BY WipedType DEF Erased

\* The entries of a sector lie behind the close entry and before its end.
LEMMA ClosedTableRange ==
  ASSUME NEW sector PROVE ClosedTable(sector) \subseteq 1..SectorSize - 1
BY DEF ClosedTable, Table

\* The data of a valid entry is a sequence of cells.
LEMMA ContentType ==
  ASSUME NEW sector \in [Offsets -> Cell], NEW o \in Offsets, NEW d \in 0..SectorSize,
         o >= 1, isEntryValid(o, d, sector[o])
  PROVE  /\ Content(sector, o) \in Seq(Cell)
         /\ Len(Content(sector, o)) = sector[o].size
<1>1. /\ sector[o] \in Cell
      /\ sector[o].kind = "entry"
      /\ sector[o].offset + sector[o].size <= d
  BY DEF isEntryValid
<1>2. sector[o].size \in 0..SectorSize /\ sector[o].offset \in 0..SectorSize
  BY <1>1, EntryFields
<1>3. \A n \in 1..sector[o].size : sector[o].offset + n - 1 \in Offsets
  BY <1>1, <1>2, FlashAssumption DEF Offsets
<1>4. \A n \in 1..sector[o].size : sector[sector[o].offset + n - 1] \in Cell
  BY <1>3
<1> QED
  BY <1>2, <1>4 DEF Content

\* The data of a call is a sequence of cells.
LEMMA PayloadType ==
  ASSUME NEW c \in Contents
  PROVE  Payload(c) \in Seq(Cell) /\ Len(Payload(c)) = Size[c]
<1>1. Size[c] \in 0..SectorSize - 2
  BY FlashAssumption
<1>2. \A n \in 1..Size[c] : Data(c, n) \in Cell
  BY <1>1, FlashAssumption DEF Cell
<1> QED
  BY <1>1, <1>2, FlashAssumption DEF Payload

\* Appending a cell of the record in hand leaves a record.
LEMMA RecordStep ==
  ASSUME NEW r \in Record
  PROVE  /\ [r EXCEPT !.part = @ + 1] \in Record
         /\ [r EXCEPT !.part = @ + 1].part = r.part + 1
         /\ [r EXCEPT !.part = @ + 1].cells = r.cells
         /\ [r EXCEPT !.part = @ + 1].copy = r.copy
BY DEF Record

\* What the fields of a record are.
LEMMA RecordFields ==
  ASSUME NEW r \in Record
  PROVE  /\ r.id \in Ids
         /\ r.cells \in Seq(Cell)
         /\ Len(r.cells) \in Nat
         /\ r.part \in Nat
         /\ r.copy \in BOOLEAN
BY DEF Record

-----------------------------------------------------------------------------
(* Space: table end e and data end w of the sector that is written, position g *)
(* and data end d in the tail, offset o and size n of an entry                 *)

\* After the check of writeBlocking the entry and the data have room.
LEMMA WriteHasRoom ==
  ASSUME NEW S \in Nat, NEW e \in Nat, NEW w \in 0..S, NEW n \in Nat, e + 1 + n <= w
  PROVE  w - n \in 0..S /\ e < w - n /\ w - n + n <= S
OBVIOUS

\* Without a check there is room for the entry of the tail, too, and the new data
\* end is still not below that of the tail.
LEMMA CopyHasRoom ==
  ASSUME NEW S \in Nat, NEW e \in Nat, NEW g \in Nat, NEW d \in 0..S, NEW w \in 0..S,
         NEW n \in 0..S, NEW o \in 0..S,
         e <= g, d <= w, o >= g + 1, o + n <= d
  PROVE  /\ w - n \in 0..S /\ g + 1 \in 1..S
         /\ e < w - n /\ e <= w - n + 1 /\ w - n + n <= S
         /\ e < g + 1 /\ o <= w - n
OBVIOUS

-----------------------------------------------------------------------------
(* The invariant is inductive *)

\* The flash is empty and nothing is in progress at the start.
LEMMA InitInv == Init => IInv
BY FlashAssumption DEF Init, InitWith, IInv, TypeOK, TableBelowData, Sectors, Offsets,
   Cell, OpsAt, NoOp, NoRec

\* The recovery keeps the invariant: detectOffsets leaves the table below the data.
LEMMA RecoveryInv ==
  ASSUME IInv, Boot \/ Format \/ DetectEntry \/ DetectData PROVE IInv'
<1> USE FlashAssumption DEF IInv, TypeOK, TableBelowData, OpsAt
<1>1. CASE Boot
  <2>1. PICK head \in Sectors :
          /\ flash' = Erased(NextSector(head))
          /\ LET state == FoundState(flash, head)
             IN /\ Enter(IF state = "CLOSED" THEN NextSector(head) ELSE head)
                /\ pc' = CASE state = "EMPTY" -> "format"
                           [] state = "OPEN" -> "detect"
                           [] state = "CLOSED" -> "gc"
    BY <1>1 DEF Boot
  <2>2. FoundState(flash, head) \in {"EMPTY", "OPEN", "CLOSED"}
    BY DEF FoundState, SectorState
  <2>3. pc' \in {"format", "detect", "gc"}
    BY <2>1, <2>2
  <2>4. flash' \in [Sectors -> [Offsets -> Cell]]
    BY <2>1, NextSectorType, ErasedType
  <2>5. sectorIndex' \in Sectors /\ entryWriteOffset' = 1 /\ dataWriteOffset' = SectorSize
    BY <2>1, NextSectorType DEF Enter
  <2>6. pc = "boot" /\ UNCHANGED <<op, gcCount, gcEntry, gcData, rec>>
    BY <1>1 DEF Boot
  <2> QED
    BY <2>3, <2>4, <2>5, <2>6
<1>2. CASE Format
  <2>1. flash' \in [Sectors -> [Offsets -> Cell]]
    BY <1>2, ErasedType DEF Format
  <2> QED
    BY <1>2, <2>1 DEF Format, ram
<1>3. CASE DetectEntry
  <2>1. CASE entryWriteOffset < SectorSize
    <3> DEFINE c == flash[sectorIndex][entryWriteOffset]
    <3>1. c \in Cell
      BY <2>1 DEF Offsets
    <3>2. dataWriteOffset' = IF isEntryValid(entryWriteOffset, dataWriteOffset, c)
                             THEN c.offset ELSE dataWriteOffset
      BY <1>3, <2>1 DEF DetectEntry
    <3>3. dataWriteOffset' \in 0..SectorSize /\ entryWriteOffset' <= dataWriteOffset' + 1
      BY <1>3, <3>1, <3>2, EntryFields DEF DetectEntry, isEntryValid
    <3> QED
      BY <1>3, <2>1, <3>3 DEF DetectEntry
  <2>2. CASE ~(entryWriteOffset < SectorSize)
    BY <1>3, <2>2 DEF DetectEntry
  <2> QED
    BY <2>1, <2>2
<1>4. CASE DetectData
  BY <1>4 DEF DetectData
<1> QED
  BY <1>1, <1>2, <1>3, <1>4

\* A call and the search for room keep the invariant.
LEMMA CallInv ==
  ASSUME IInv, Call \/ WriteFits \/ OutOfMemory \/ CloseFirst \/ CloseSecond PROVE IInv'
<1> USE FlashAssumption DEF IInv, TypeOK, TableBelowData, OpsAt
<1>1. CASE Call
  <2>1. CASE BeginClear
    BY <2>1 DEF BeginClear, Idle, ClearOp
  <2>2. ASSUME NEW i \in Ids, NEW c \in Contents, BeginWrite(i, c) PROVE IInv'
    <3>1. op' \in WriteOps
      BY <2>2 DEF BeginWrite, WriteOps
    <3> QED
      BY <2>2, <3>1 DEF BeginWrite, Idle
  <2> QED
    BY <1>1, <2>1, <2>2 DEF Call
<1>2. CASE WriteFits
  <2>1. op.id \in Ids /\ op.content \in Contents
    BY <1>2 DEF WriteFits, WriteOps
  <2>2. /\ Payload(op.content) \in Seq(Cell)
        /\ Len(Payload(op.content)) = Size[op.content]
        /\ Size[op.content] \in 0..SectorSize - 2
    BY <2>1, PayloadType
  <2>3. /\ rec' = [id |-> op.id, cells |-> Payload(op.content), part |-> 0, copy |-> FALSE]
        /\ dataWriteOffset' = dataWriteOffset - Size[op.content]
        /\ pc' = "append"
        /\ entryWriteOffset + 1 + Size[op.content] <= dataWriteOffset
    BY <1>2 DEF WriteFits, StartAppend, Fits
  <2>4. /\ rec' \in Record
        /\ Len(rec'.cells) = Size[op.content]
        /\ rec'.part = 0
        /\ rec'.copy = FALSE
    BY <2>1, <2>2, <2>3 DEF Record
  <2>5. pc = "fit" /\ UNCHANGED <<flash, op, sectorIndex, entryWriteOffset, gcCount, gcEntry, gcData>>
    BY <1>2 DEF WriteFits
  <2>6. /\ dataWriteOffset - Size[op.content] \in 0..SectorSize
        /\ entryWriteOffset < dataWriteOffset - Size[op.content]
        /\ dataWriteOffset - Size[op.content] + Size[op.content] <= SectorSize
    <3>1. /\ SectorSize \in Nat /\ entryWriteOffset \in Nat
          /\ dataWriteOffset \in 0..SectorSize /\ Size[op.content] \in Nat
      BY <2>2
    <3> HIDE DEF IInv, TypeOK, TableBelowData, OpsAt
    <3> QED
      BY <2>3, <3>1, WriteHasRoom
  <2>7. TypeOK'
    <3>1. dataWriteOffset' \in 0..SectorSize
      BY <2>3, <2>6
    <3>2. op' \in OpsAt(pc')
      BY <2>3, <2>5
    <3>3. rec' \in IF pc' \in {"append", "entry"} THEN Record ELSE {NoRec}
      BY <2>3, <2>4
    <3> HIDE DEF OpsAt
    <3> QED
      BY <2>3, <2>5, <3>1, <3>2, <3>3
  <2>8. TableBelowData'
    <3>1. SectorSize \in Nat /\ entryWriteOffset' \in Nat
      BY <2>5
    <3>2. /\ dataWriteOffset' = dataWriteOffset - Size[op.content]
          /\ dataWriteOffset' \in 0..SectorSize
          /\ entryWriteOffset' < dataWriteOffset'
          /\ dataWriteOffset' + Len(rec'.cells) <= SectorSize
      <4> HIDE DEF IInv, TypeOK, TableBelowData, OpsAt
      <4> QED
        BY <2>3, <2>4, <2>5, <2>6
    <3> HIDE DEF IInv, TypeOK, TableBelowData, OpsAt
    <3>3. entryWriteOffset' <= dataWriteOffset' + 1
      BY <3>1, <3>2
    <3>4. rec'.part <= Len(rec'.cells) /\ ~rec'.copy
      BY <2>2, <2>4
    <3> QED
      BY <2>3, <3>2, <3>3, <3>4 DEF TableBelowData
  <2> QED
    BY <2>7, <2>8
<1>3. CASE OutOfMemory
  BY <1>3 DEF OutOfMemory
<1>4. CASE CloseFirst
  <2>1. flash' \in [Sectors -> [Offsets -> Cell]]
    <3>1. 0 \in Offsets /\ Torn \in Cell
      BY DEF Offsets, Cell
    <3> QED
      BY <1>4, <3>1, ProgrammedType DEF CloseFirst
  <2> QED
    BY <1>4, <2>1 DEF CloseFirst
<1>5. CASE CloseSecond
  <2>1. flash' \in [Sectors -> [Offsets -> Cell]]
    <3>1. 0 \in Offsets /\ Close(entryWriteOffset - 1) \in Cell
      BY DEF Offsets, Cell
    <3> QED
      BY <1>5, <3>1, ProgrammedType DEF CloseSecond
  <2>2. sectorIndex' \in Sectors
    BY <1>5, NextSectorType DEF CloseSecond, Enter
  <2> QED
    BY <1>5, <2>1, <2>2 DEF CloseSecond, Enter, StartGc
<1> QED
  BY <1>1, <1>2, <1>3, <1>4, <1>5

\* Appending keeps the invariant: data and entry go into cells that are there.
LEMMA AppendInv ==
  ASSUME IInv, AppendData \/ AppendEntryFirst \/ AppendEntrySecond PROVE IInv'
<1> USE FlashAssumption DEF IInv, TypeOK, TableBelowData, OpsAt
<1>1. CASE AppendData
  <2>1. /\ rec \in Record
        /\ pc = "append"
        /\ rec.part < Len(rec.cells)
        /\ dataWriteOffset + Len(rec.cells) <= SectorSize
        /\ rec' = [rec EXCEPT !.part = @ + 1]
        /\ UNCHANGED <<pc, op, ram>>
        /\ dataWriteOffset \in 0..SectorSize
        /\ flash \in [Sectors -> [Offsets -> Cell]]
        /\ sectorIndex \in Sectors
    BY <1>1 DEF AppendData
  <2> HIDE DEF IInv, TypeOK, TableBelowData, OpsAt
  <2>2. /\ rec.cells \in Seq(Cell)
        /\ Len(rec.cells) \in Nat
        /\ rec.part \in Nat
    BY <2>1, RecordFields
  <2>3. dataWriteOffset + rec.part \in Offsets
    BY <2>1, <2>2 DEF Offsets
  <2>4. rec.cells[rec.part + 1] \in Cell
    <3>1. rec.part + 1 \in 1..Len(rec.cells)
      BY <2>1, <2>2
    <3> QED
      BY <2>2, <3>1
  <2>5. flash' \in [Sectors -> [Offsets -> Cell]]
    BY <1>1, <2>1, <2>3, <2>4, ProgrammedType DEF AppendData
  <2>6. /\ rec' \in Record
        /\ rec'.part = rec.part + 1
        /\ rec'.cells = rec.cells
        /\ rec'.copy = rec.copy
    BY <2>1, RecordStep
  <2>7. TypeOK'
    BY <2>1, <2>5, <2>6 DEF ram, IInv, TypeOK, OpsAt
  <2>8. TableBelowData'
    BY <2>1, <2>2, <2>6 DEF ram, IInv, TableBelowData
  <2> QED
    BY <2>7, <2>8 DEF IInv
<1>2. CASE AppendEntryFirst
  <2>1. flash' \in [Sectors -> [Offsets -> Cell]]
    <3>1. entryWriteOffset \in Offsets /\ Torn \in Cell
      BY <1>2 DEF AppendEntryFirst, Offsets, Cell
    <3> QED
      BY <1>2, <3>1, ProgrammedType DEF AppendEntryFirst
  <2> QED
    BY <1>2, <2>1 DEF AppendEntryFirst, ram
<1>3. CASE AppendEntrySecond
  <2>1. /\ rec.id \in Ids
        /\ Len(rec.cells) \in 0..SectorSize
        /\ rec.copy \in BOOLEAN
    <3>1. rec \in Record
      BY <1>3 DEF AppendEntrySecond
    <3>2. Len(rec.cells) \in Nat
      BY <3>1, RecordFields
    <3>3. Len(rec.cells) \in 0..SectorSize
      BY <1>3, <3>2 DEF AppendEntrySecond
    <3> QED
      BY <3>1, <3>3, RecordFields
  <2>2. flash' \in [Sectors -> [Offsets -> Cell]]
    <3>1. entryWriteOffset \in Offsets
      BY <1>3 DEF AppendEntrySecond, Offsets
    <3>2. Entry(rec.id, Len(rec.cells), dataWriteOffset) \in Cell
      BY <2>1, EntryType
    <3> QED
      BY <1>3, <3>1, <3>2, ProgrammedType DEF AppendEntrySecond
  <2>3. /\ rec' = NoRec
        /\ pc = "entry" /\ pc' \in {"gc", "ready"}
        /\ entryWriteOffset < dataWriteOffset \/ entryWriteOffset + 1 <= SectorSize + 1
        /\ entryWriteOffset' = entryWriteOffset + 1
        /\ UNCHANGED <<sectorIndex, dataWriteOffset, gcEntry, gcData>>
    BY <1>3 DEF AppendEntrySecond
  <2>4. CASE rec.copy
    BY <1>3, <2>2, <2>3, <2>4 DEF AppendEntrySecond
  <2>5. CASE ~rec.copy
    <3>1. pc' = "ready" /\ op' = NoOp /\ gcCount' = 0
      BY <1>3, <2>5 DEF AppendEntrySecond
    <3>2. TypeOK'
      BY <1>3, <2>2, <2>3, <3>1
    <3>3. TableBelowData'
      BY <1>3, <2>3, <3>1
    <3> QED
      BY <3>2, <3>3
  <2> QED
    BY <2>4, <2>5
<1> QED
  BY <1>1, <1>2, <1>3

\* Garbage collection keeps the invariant: what it copies fits, because table and
\* data of the new sector are no larger than those of the tail up to this entry.
LEMMA GcInv ==
  ASSUME IInv, GcEntry \/ GcErase PROVE IInv'
<1> USE FlashAssumption DEF IInv, TypeOK, TableBelowData, OpsAt
<1>0. TailSector \in Sectors
  BY NextSectorType DEF TailSector
<1>1. CASE GcEntry
  <2> DEFINE c == flash[TailSector][gcEntry]
  <2>1. gcEntry <= SectorSize - 1
    BY <1>1, ClosedTableRange DEF GcEntry, MoreEntries
  <2>2. gcEntry \in Offsets /\ gcEntry >= 1 /\ flash[TailSector] \in [Offsets -> Cell] /\ c \in Cell
    BY <1>0, <2>1 DEF Offsets
  <2>3. CASE ~isEntryValid(gcEntry, gcData, c)
    BY <1>1, <2>1, <2>3 DEF GcEntry
  <2>4. CASE isEntryValid(gcEntry, gcData, c)
    <3>1. /\ c.id \in Ids /\ c.size \in 0..SectorSize /\ c.offset \in 0..SectorSize
          /\ c.offset >= gcEntry + 1
          /\ c.offset + c.size <= gcData
      BY <2>2, <2>4, EntryFields DEF isEntryValid
    <3>2. gcData' = c.offset /\ gcEntry' = gcEntry + 1 /\ pc = "gc"
          /\ UNCHANGED <<flash, op, sectorIndex, entryWriteOffset, gcCount>>
      BY <1>1, <2>4 DEF GcEntry
    <3>3. CASE UNCHANGED <<pc, rec, dataWriteOffset>>
      BY <2>1, <3>1, <3>2, <3>3
    <3>4. CASE StartAppend([id |-> c.id, cells |-> Content(flash[TailSector], gcEntry),
                            part |-> 0, copy |-> TRUE], c.size)
      <4>1. /\ Content(flash[TailSector], gcEntry) \in Seq(Cell)
            /\ Len(Content(flash[TailSector], gcEntry)) = c.size
        BY <2>2, <2>4, ContentType, gcData \in 0..SectorSize
      <4>2. /\ rec' \in Record
            /\ Len(rec'.cells) = c.size
            /\ rec'.part = 0
            /\ dataWriteOffset' = dataWriteOffset - c.size
            /\ pc' = "append"
        BY <3>1, <3>4, <4>1 DEF StartAppend, Record
      <4>3. /\ entryWriteOffset <= gcEntry
            /\ gcData <= dataWriteOffset
        BY <3>2
      <4>4. /\ entryWriteOffset \in Nat /\ dataWriteOffset \in 0..SectorSize
            /\ gcEntry \in Nat /\ gcData \in 0..SectorSize
            /\ op \in {NoOp} \cup WriteOps
        BY <3>2
      <4> HIDE DEF IInv, TypeOK, TableBelowData, OpsAt, c
      <4>5. /\ dataWriteOffset' \in 0..SectorSize /\ gcEntry' \in 1..SectorSize
            /\ entryWriteOffset' < dataWriteOffset'
            /\ entryWriteOffset' <= dataWriteOffset' + 1
            /\ dataWriteOffset' + Len(rec'.cells) <= SectorSize
            /\ entryWriteOffset' < gcEntry'
            /\ gcData' <= dataWriteOffset'
        <5> DEFINE n == c.size
                   o == c.offset
        <5>1. /\ SectorSize \in Nat /\ n \in 0..SectorSize /\ o \in 0..SectorSize
              /\ o >= gcEntry + 1 /\ o + n <= gcData
          BY <3>1, FlashAssumption DEF c
        <5>2. /\ dataWriteOffset' = dataWriteOffset - n /\ gcEntry' = gcEntry + 1
              /\ entryWriteOffset' = entryWriteOffset /\ gcData' = o
              /\ Len(rec'.cells) = n
          BY <3>2, <4>2 DEF c
        <5> HIDE DEF n, o
        <5> QED
          BY <4>3, <4>4, <5>1, <5>2, CopyHasRoom
      <4>6. op' \in OpsAt(pc')
        BY <3>2, <4>2, <4>4 DEF OpsAt
      <4>7. TypeOK'
        BY <3>1, <3>2, <4>2, <4>5, <4>6 DEF IInv, TypeOK
      <4>8. TableBelowData'
        <5>1. rec'.part <= Len(rec'.cells)
          BY <3>1, <4>2
        <5> QED
          BY <4>2, <4>5, <5>1 DEF TableBelowData
      <4> QED
        BY <4>7, <4>8 DEF IInv
    <3> QED
      BY <1>1, <2>4, <3>3, <3>4 DEF GcEntry
  <2> QED
    BY <2>3, <2>4
<1>2. CASE GcErase
  <2>1. flash' \in [Sectors -> [Offsets -> Cell]]
    BY <1>0, <1>2, ErasedType DEF GcErase
  <2> QED
    BY <1>2, <2>1 DEF GcErase, StartGc
<1> QED
  BY <1>1, <1>2

\* Clearing, and losing the power, keep the invariant.
LEMMA ClearInv ==
  ASSUME IInv, ClearSector \/ EndClear \/ PowerFail PROVE IInv'
<1> USE FlashAssumption DEF IInv, TypeOK, TableBelowData, OpsAt
<1>1. CASE ClearSector
  <2>1. gcCount \in Sectors
    BY <1>1 DEF ClearSector, Sectors
  <2>2. flash' \in [Sectors -> [Offsets -> Cell]]
    BY <1>1, <2>1, ErasedType DEF ClearSector
  <2> QED
    BY <1>1, <2>2 DEF ClearSector
<1>2. CASE EndClear
  BY <1>2 DEF EndClear, Enter, Sectors
<1>3. CASE PowerFail
  <2>1. flash' \in [Sectors -> [Offsets -> Cell]]
    BY <1>3, WipedType DEF PowerFail
  <2>2. 0 \in Sectors
    BY DEF Sectors
  <2> QED
    BY <1>3, <2>1, <2>2 DEF PowerFail, Enter, StartGc
<1> QED
  BY <1>1, <1>2, <1>3

\* Every step of the storage and of its power supply keeps the invariant.
LEMMA StepInv == IInv /\ [Next]_vars => IInv'
<1> SUFFICES ASSUME IInv, [Next]_vars PROVE IInv'
  OBVIOUS
<1>1. CASE Next
  BY <1>1, RecoveryInv, CallInv, AppendInv, GcInv, ClearInv DEF Next, Work
<1>2. CASE UNCHANGED vars
  BY <1>2 DEF vars, ram, IInv, TypeOK, TableBelowData
<1> QED
  BY <1>1, <1>2

\* Type correctness: whatever the geometry, every offset the code computes stays
\* inside its sector, through any sequence of calls and power failures.
THEOREM FlashTypeCorrect == Spec => []TypeOK
<1>1. IInv => TypeOK
  BY DEF IInv
<1> QED
  BY InitInv, StepInv, <1>1, PTL DEF Spec

\* The allocation table and the data of a sector never overlap, and copying the
\* entries of the tail never overflows the new sector.
THEOREM FlashTableBelowData == Spec => []TableBelowData
<1>1. IInv => TableBelowData
  BY DEF IInv
<1> QED
  BY InitInv, StepInv, <1>1, PTL DEF Spec

-----------------------------------------------------------------------------
(* The sector behind the current one is erased *)

\* The next sector is empty.
TailErased == \A o \in Offsets : flash[TailSector][o] = Empty

\* Between the restart and the next collection the next sector is empty: nothing
\* is written but the current one.  Clearing has emptied the sectors it passed.
ErasedInv ==
  /\ pc \in {"ready", "full", "fit", "close", "format", "detect"} => TailErased
  /\ pc \in {"append", "entry"} => (rec.copy \/ TailErased)
  /\ pc = "clear" => \A s \in Sectors : s < gcCount => \A o \in Offsets : flash[s][o] = Empty

\* The sector behind a sector is another one.
LEMMA NextSectorOther ==
  ASSUME NEW s \in Sectors PROVE NextSector(s) # s
BY FlashAssumption DEF NextSector, Sectors

\* An erased sector is empty.
LEMMA ErasedIsEmpty ==
  ASSUME flash \in [Sectors -> [Offsets -> Cell]], NEW s \in Sectors, NEW o \in Offsets
  PROVE  Erased(s)[s][o] = Empty
BY DEF Erased, Wiped

\* Erasing a sector keeps the others, and an empty cell stays empty.
LEMMA ErasedOther ==
  ASSUME flash \in [Sectors -> [Offsets -> Cell]], NEW s \in Sectors, NEW t \in Sectors,
         t # s
  PROVE  Erased(s)[t] = flash[t]
BY DEF Erased

\* Programming a cell keeps the other sectors.
LEMMA ProgrammedOther ==
  ASSUME flash \in [Sectors -> [Offsets -> Cell]], NEW s \in Sectors, NEW t \in Sectors,
         NEW o, NEW new, t # s
  PROVE  Programmed(s, o, new)[t] = flash[t]
BY DEF Programmed

\* What programs a cell of the current sector keeps the next sector empty.
LEMMA ProgramKeepsTail ==
  ASSUME TypeOK, TailErased, sectorIndex' = sectorIndex, NEW o, NEW new,
         flash' = Programmed(sectorIndex, o, new)
  PROVE  TailErased'
<1>1. /\ flash \in [Sectors -> [Offsets -> Cell]] /\ sectorIndex \in Sectors
      /\ TailSector \in Sectors /\ TailSector # sectorIndex
  BY NextSectorType, NextSectorOther DEF TypeOK, TailSector
<1>2. flash'[TailSector] = flash[TailSector]
  BY <1>1, ProgrammedOther
<1> QED
  BY <1>2 DEF TailErased, TailSector

\* What leaves the flash and the current sector alone keeps the next one empty.
LEMMA SameKeepsTail ==
  ASSUME TailErased, UNCHANGED <<flash, sectorIndex>> PROVE TailErased'
BY DEF TailErased, TailSector

\* The flash is being started at first.
LEMMA InitErased == Init => ErasedInv
BY DEF Init, InitWith, ErasedInv

\* The recovery erases the sector behind the one it found, before it goes on.
LEMMA RecoveryErased ==
  ASSUME TypeOK, ErasedInv, Boot \/ Format \/ DetectEntry \/ DetectData PROVE ErasedInv'
<1>0. /\ flash \in [Sectors -> [Offsets -> Cell]] /\ sectorIndex \in Sectors
      /\ TailSector \in Sectors /\ TailSector # sectorIndex
  BY NextSectorType, NextSectorOther DEF TypeOK, TailSector
<1>1. CASE Boot
  <2>1. PICK head \in Sectors :
          /\ flash' = Erased(NextSector(head))
          /\ LET state == FoundState(flash, head)
             IN /\ Enter(IF state = "CLOSED" THEN NextSector(head) ELSE head)
                /\ pc' = CASE state = "EMPTY" -> "format"
                           [] state = "OPEN" -> "detect"
                           [] state = "CLOSED" -> "gc"
    BY <1>1 DEF Boot
  <2>2. FoundState(flash, head) \in {"EMPTY", "OPEN", "CLOSED"}
    BY DEF FoundState, SectorState
  <2>3. CASE FoundState(flash, head) = "CLOSED"
    <3>1. pc' = "gc"
      BY <2>1, <2>3
    <3> QED
      BY <3>1 DEF ErasedInv
  <2>4. CASE FoundState(flash, head) # "CLOSED"
    <3>1. pc' \in {"format", "detect"} /\ sectorIndex' = head
      BY <2>1, <2>2, <2>4 DEF Enter
    <3>2. \A o \in Offsets : flash'[NextSector(head)][o] = Empty
      BY <1>0, <2>1, NextSectorType, ErasedIsEmpty
    <3>3. TailErased'
      BY <3>1, <3>2 DEF TailErased, TailSector
    <3> QED
      BY <3>1, <3>3 DEF ErasedInv
  <2> QED
    BY <2>3, <2>4
<1>2. CASE Format
  <2>1. TailErased /\ sectorIndex' = sectorIndex /\ flash' = Erased(sectorIndex) /\ pc' = "ready"
    BY <1>2 DEF Format, ram, ErasedInv
  <2>2. flash'[TailSector] = flash[TailSector]
    BY <1>0, <2>1, ErasedOther
  <2>3. TailErased'
    BY <2>1, <2>2 DEF TailErased, TailSector
  <2> QED
    BY <2>1, <2>3 DEF ErasedInv
<1>3. CASE DetectEntry
  BY <1>3, SameKeepsTail DEF DetectEntry, ErasedInv
<1>4. CASE DetectData
  BY <1>4, SameKeepsTail DEF DetectData, ErasedInv
<1> QED
  BY <1>1, <1>2, <1>3, <1>4

\* writeBlocking and the appending of its record write to the current sector only.
LEMMA WriteErased ==
  ASSUME TypeOK, ErasedInv,
         \/ Call \/ WriteFits \/ OutOfMemory \/ CloseFirst \/ CloseSecond
         \/ AppendData \/ AppendEntryFirst \/ AppendEntrySecond
  PROVE  ErasedInv'
<1>1. CASE \E i \in Ids, c \in Contents : BeginWrite(i, c)
  BY <1>1, SameKeepsTail DEF BeginWrite, Idle, ErasedInv
<1>2. CASE BeginClear
  <2>1. pc' = "clear" /\ gcCount' = 0
    BY <1>2 DEF BeginClear
  <2>2. \A s \in Sectors : ~(s < gcCount')
    BY <2>1, FlashAssumption DEF Sectors
  <2> QED
    BY <2>1, <2>2 DEF ErasedInv
<1>3. CASE WriteFits
  <2>1. TailErased /\ pc' = "append" /\ UNCHANGED <<flash, sectorIndex>>
    BY <1>3 DEF WriteFits, StartAppend, ErasedInv
  <2> QED
    BY <2>1, SameKeepsTail DEF ErasedInv
<1>4. CASE OutOfMemory
  BY <1>4, SameKeepsTail DEF OutOfMemory, ErasedInv
<1>5. CASE CloseFirst
  <2>1. /\ TailErased /\ pc' = "close" /\ sectorIndex' = sectorIndex
        /\ flash' = Programmed(sectorIndex, 0, Torn)
    BY <1>5 DEF CloseFirst, ErasedInv
  <2> QED
    BY <2>1, ProgramKeepsTail DEF ErasedInv
<1>6. CASE CloseSecond
  BY <1>6 DEF CloseSecond, ErasedInv
<1>7. CASE AppendData
  <2>1. /\ rec \in Record /\ pc = "append" /\ pc' = "append" /\ sectorIndex' = sectorIndex
        /\ flash' = Programmed(sectorIndex, dataWriteOffset + rec.part, rec.cells[rec.part + 1])
        /\ rec' = [rec EXCEPT !.part = @ + 1]
    BY <1>7 DEF AppendData, ram, TypeOK
  <2>2. rec'.copy = rec.copy
    BY <2>1, RecordStep
  <2>3. rec.copy \/ TailErased'
    BY <2>1, ProgramKeepsTail DEF ErasedInv
  <2> QED
    BY <2>1, <2>2, <2>3 DEF ErasedInv
<1>8. CASE AppendEntryFirst
  <2>1. /\ pc = "append" /\ pc' = "entry" /\ sectorIndex' = sectorIndex /\ rec' = rec
        /\ flash' = Programmed(sectorIndex, entryWriteOffset, Torn)
    BY <1>8 DEF AppendEntryFirst, ram
  <2>2. rec.copy \/ TailErased'
    BY <2>1, ProgramKeepsTail DEF ErasedInv
  <2> QED
    BY <2>1, <2>2 DEF ErasedInv
<1>9. CASE AppendEntrySecond
  <2>1. /\ pc = "entry" /\ sectorIndex' = sectorIndex
        /\ flash' = Programmed(sectorIndex, entryWriteOffset,
                               Entry(rec.id, Len(rec.cells), dataWriteOffset))
        /\ (rec.copy /\ pc' = "gc") \/ (~rec.copy /\ pc' = "ready")
    BY <1>9 DEF AppendEntrySecond
  <2>2. rec.copy \/ TailErased'
    BY <2>1, ProgramKeepsTail DEF ErasedInv
  <2> QED
    BY <2>1, <2>2 DEF ErasedInv
<1> QED
  BY <1>1, <1>2, <1>3, <1>4, <1>5, <1>6, <1>7, <1>8, <1>9 DEF Call

\* A collection ends with the erasure of the tail, and what it copies is marked.
LEMMA GcErased ==
  ASSUME TypeOK, ErasedInv, GcEntry \/ GcErase PROVE ErasedInv'
<1>1. CASE GcEntry
  <2> DEFINE c == flash[TailSector][gcEntry]
  <2>1. \/ pc' = "gc"
        \/ StartAppend([id |-> c.id, cells |-> Content(flash[TailSector], gcEntry),
                        part |-> 0, copy |-> TRUE], c.size)
    BY <1>1 DEF GcEntry
  <2>2. pc' = "gc" \/ (pc' = "append" /\ rec'.copy)
    BY <2>1 DEF StartAppend
  <2> QED
    BY <2>2 DEF ErasedInv
<1>2. CASE GcErase
  <2>1. flash' = Erased(TailSector) /\ sectorIndex' = sectorIndex /\ pc' \in {"ready", "fit"}
    BY <1>2 DEF GcErase
  <2>2. flash \in [Sectors -> [Offsets -> Cell]] /\ TailSector \in Sectors
    BY NextSectorType DEF TypeOK, TailSector
  <2>3. \A o \in Offsets : flash'[TailSector][o] = Empty
    BY <2>1, <2>2, ErasedIsEmpty
  <2>4. TailErased'
    BY <2>1, <2>3 DEF TailErased, TailSector
  <2> QED
    BY <2>1, <2>4 DEF ErasedInv
<1> QED
  BY <1>1, <1>2

\* Clearing empties one sector after the other; a power failure starts anew.
LEMMA ClearErased ==
  ASSUME TypeOK, ErasedInv, ClearSector \/ EndClear \/ PowerFail PROVE ErasedInv'
<1>0. flash \in [Sectors -> [Offsets -> Cell]] /\ gcCount \in Nat
  BY FlashAssumption DEF TypeOK
<1>1. CASE ClearSector
  <2>1. /\ pc = "clear" /\ pc' = "clear" /\ gcCount \in Sectors
        /\ flash' = Erased(gcCount) /\ gcCount' = gcCount + 1
    BY <1>0, <1>1, FlashAssumption DEF ClearSector, Sectors
  <2>2. ASSUME NEW s \in Sectors, s < gcCount', NEW o \in Offsets
        PROVE  flash'[s][o] = Empty
    <3>1. CASE s = gcCount
      BY <1>0, <2>1, <3>1, ErasedIsEmpty
    <3>2. CASE s # gcCount
      <4>1. s < gcCount
        BY <1>0, <2>1, <2>2, <3>2 DEF Sectors
      <4>2. flash'[s] = flash[s]
        BY <1>0, <2>1, <3>2, ErasedOther
      <4> QED
        BY <2>1, <4>1, <4>2 DEF ErasedInv
    <3> QED
      BY <3>1, <3>2
  <2> QED
    BY <2>1, <2>2 DEF ErasedInv
<1>2. CASE EndClear
  <2>1. /\ pc = "clear" /\ pc' = "ready" /\ gcCount = SectorCount
        /\ sectorIndex' = 0 /\ flash' = flash
    BY <1>2 DEF EndClear, Enter
  <2>2. NextSector(0) \in Sectors
    BY NextSectorType, FlashAssumption DEF Sectors
  <2>3. NextSector(0) < gcCount
    BY <2>1, <2>2, FlashAssumption DEF Sectors
  <2>4. TailErased'
    BY <2>1, <2>2, <2>3 DEF ErasedInv, TailErased, TailSector
  <2> QED
    BY <2>1, <2>4 DEF ErasedInv
<1>3. CASE PowerFail
  <2>1. pc' = "boot"
    BY <1>3 DEF PowerFail
  <2> QED
    BY <2>1 DEF ErasedInv
<1> QED
  BY <1>1, <1>2, <1>3

\* Every step keeps what is known of the next sector.
LEMMA StepErased == TypeOK /\ ErasedInv /\ [Next]_vars => ErasedInv'
<1> SUFFICES ASSUME TypeOK, ErasedInv, [Next]_vars PROVE ErasedInv'
  OBVIOUS
<1>1. CASE Next
  BY <1>1, RecoveryErased, WriteErased, GcErased, ClearErased DEF Next, Work
<1>2. CASE UNCHANGED vars
  BY <1>2, SameKeepsTail DEF vars, ram, ErasedInv
<1> QED
  BY <1>1, <1>2

\* Wherever writeBlocking goes to the next sector, that sector is erased, whatever
\* calls and power failures came before (the comment at FlashStorage.cpp:199).
THEOREM FlashNextIsErased == Spec => []NextIsErased
<1>1. ErasedInv => NextIsErased
  BY DEF ErasedInv, NextIsErased, TailErased, Idle
<1> QED
  BY InitErased, StepErased, FlashTypeCorrect, <1>1, PTL DEF Spec
=============================================================================
