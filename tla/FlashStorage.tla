---------------------------- MODULE FlashStorage ----------------------------
(***************************************************************************)
(* The log-structured store on internal flash (system/src/FlashStorage.cpp)*)
(* together with the flash it drives.  Every call is synchronous, so the   *)
(* only concurrency is with the power supply: it may fail between any two  *)
(* flash operations, and the constructor then has to find the state again. *)
(*                                                                         *)
(* A sector is an array of cells.  A cell is as large as an entry of the   *)
(* allocation table (entrySize) and data is counted in cells, so that the  *)
(* rounding to blocks disappears.  Cell 0 holds the close entry, the       *)
(* allocation table grows upwards from cell 1 and the data downwards from  *)
(* the end.  Writing an entry takes two flash operations; a cell where     *)
(* only the first was done is torn.  A checksum is abstracted to what it   *)
(* is for: only a completely written entry is taken for an entry.          *)
(***************************************************************************)
EXTENDS Integers, Sequences, FiniteSets

CONSTANTS
  SectorCount,  (* info.sectorCount                                        *)
  SectorSize,   (* info.sectorSize in cells                                *)
  PageSize,     (* what one flash erase operation covers, in cells         *)
  Ids,          (* ids of elements                                         *)
  Contents,     (* data the callers write                                  *)
  Size,         (* the number of cells of each content                     *)
  BitsOnlyClear,(* TRUE: programming can only clear bits (nrf52, stm32f0); *)
                (* FALSE: it replaces the bytes (posix file)               *)
  ClearMayFail  (* whether the power may fail during clearBlocking         *)

ASSUME FlashAssumption ==
  /\ SectorCount \in Nat /\ SectorCount >= 2
  /\ SectorSize \in Nat /\ SectorSize >= 3
  /\ PageSize \in 1..SectorSize
  /\ Size \in [Contents -> 0..SectorSize - 2]
  /\ BitsOnlyClear \in BOOLEAN
  /\ ClearMayFail \in BOOLEAN

VARIABLES
  flash,            (* contents of the flash                               *)
  sectorIndex,      (* current sector                                      *)
  entryWriteOffset, (* cell of the next entry                              *)
  dataWriteOffset,  (* lowest cell used for data                           *)
  pc,               (* where the code is                                   *)
  op,               (* the call in progress                                *)
  gcCount,          (* writeBlocking: sectors collected by this call       *)
  gcEntry,          (* gc: entryOffset in the tail sector                  *)
  gcData,           (* gc: dataOffset in the tail sector                   *)
  rec               (* the record that is being appended                   *)

ram == <<sectorIndex, entryWriteOffset, dataWriteOffset, gcCount, gcEntry, gcData>>
vars == <<flash, ram, pc, op, rec>>

-----------------------------------------------------------------------------
(* Cells *)

Sectors == 0..SectorCount - 1
Offsets == 0..SectorSize - 1

Empty == [kind |-> "empty"]
Torn == [kind |-> "torn"]
Garbage == [kind |-> "garbage"]
Close(last) == [kind |-> "close", offset |-> last]
Data(c, n) == [kind |-> "data", of |-> c, part |-> n]
Entry(i, size, offset) ==
  [kind |-> "entry", id |-> i, size |-> size, offset |-> offset]

Cell ==
  {Empty, Torn, Garbage} \cup {Close(n) : n \in 0..SectorSize}
    \cup {Data(c, n) : c \in Contents, n \in 1..SectorSize}
    \cup {Entry(i, n, o) : i \in Ids, n \in 0..SectorSize, o \in 0..SectorSize}

NextSector(s) == IF s + 1 = SectorCount THEN 0 ELSE s + 1
Before(s, n) == (s + SectorCount - n) % SectorCount

Payload(c) == [n \in 1..Size[c] |-> Data(c, n)]

\* what a cell holds after programming it
Program(old, new) ==
  IF ~BitsOnlyClear \/ old = Empty \/ old = new \/ (old = Torn /\ new.kind \in {"entry", "close"})
  THEN new ELSE Garbage

Programmed(s, o, new) == [flash EXCEPT ![s][o] = Program(@, new)]

\* a sector of which the cells of the set are erased
Wiped(sector, cells) == [o \in Offsets |-> IF o \in cells THEN Empty ELSE sector[o]]

\* mutant of Erased: only the first page of the sector is erased
ErasedFirstPage(s) == [flash EXCEPT ![s] = Wiped(@, 0..PageSize - 1)]

Erased(s) == [flash EXCEPT ![s] = Wiped(@, Offsets)]

-----------------------------------------------------------------------------
(* Reading the allocation tables *)

SectorState(f, s) ==
  IF f[s][0] # Empty THEN "CLOSED" ELSE IF f[s][1] # Empty THEN "OPEN" ELSE "EMPTY"

isEntryValid(entryOffset, dataOffset, c) ==
  /\ c.kind = "entry"
  /\ c.offset >= entryOffset + 1
  /\ c.offset + c.size <= dataOffset

\* The valid entries of a sector.  A scan starts at cell 1 and ends at an empty
\* entry; an entry is valid when its data lies behind the table and before the
\* data of the last valid entry, which is the lowest data so far.
Table(sector) ==
  LET scanned == {o \in 1..SectorSize - 1 :
                    /\ \A p \in 1..o : sector[p] # Empty
                    /\ isEntryValid(o, SectorSize, sector[o])}
  IN UNION {V \in SUBSET scanned :
              \A o \in scanned : o \in V <=>
                \A p \in V : p < o => isEntryValid(o, sector[p].offset, sector[o])}

isCloseEntryValid(c) ==
  /\ c.kind = "close"
  /\ ~(c.offset >= 1 /\ c.offset < SectorSize)

\* entries of a sector up to getLastEntry
ClosedTable(sector) ==
  IF sector[0] = Empty THEN {}
  ELSE IF isCloseEntryValid(sector[0]) THEN {o \in Table(sector) : o <= sector[0].offset}
  ELSE Table(sector)

\* mutant of contains: the entry itself counts as a later one
ContainsItself(tail, o) ==
  \/ \E p \in ClosedTable(flash[tail]) : p >= o /\ flash[tail][p].id = flash[tail][o].id
  \/ \E n \in 1..SectorCount - 2 :
       LET s == (tail + n) % SectorCount
       IN \E p \in ClosedTable(flash[s]) : flash[s][p].id = flash[tail][o].id

\* tail entry at offset o is outdated: a later entry of the tail or an entry of
\* a sector between the tail and the empty sector has the same id
contains(tail, o) ==
  \/ \E p \in ClosedTable(flash[tail]) : p > o /\ flash[tail][p].id = flash[tail][o].id
  \/ \E n \in 1..SectorCount - 2 :
       LET s == (tail + n) % SectorCount
       IN \E p \in ClosedTable(flash[s]) : flash[s][p].id = flash[tail][o].id

Content(sector, o) == [n \in 1..sector[o].size |-> sector[sector[o].offset + n - 1]]

\* The newest of the entries for an id; entries[n] are those of the sector n
\* before the first.
Newest(f, i, first, entries) ==
  LET all == UNION {{<<n, o>> : o \in entries[n]} : n \in 0..SectorCount - 2}
      found == {e \in all : f[Before(first, e[1])][e[2]].id = i}
      newest == {e \in found : \A g \in found :
                   e[1] < g[1] \/ (e[1] = g[1] /\ e[2] >= g[2])}
  IN IF found = {} THEN << >>
     ELSE LET e == CHOOSE e \in newest : TRUE
          IN Content(f[Before(first, e[1])], e[2])

\* mutant of Read: the entry that getLastEntry returns is not searched
ReadWithoutLast(i) ==
  LET candidates == [n \in 0..SectorCount - 2 |->
        LET sector == flash[Before(sectorIndex, n)]
        IN {o \in 1..SectorSize - 1 :
              /\ IF n = 0 THEN o < entryWriteOffset
                 ELSE \E p \in ClosedTable(sector) : o < p
              /\ isEntryValid(o, SectorSize, sector[o])}]
  IN Newest(flash, i, sectorIndex, candidates)

\* result of readBlocking
Read(i) ==
  LET candidates == [n \in 0..SectorCount - 2 |->
        LET sector == flash[Before(sectorIndex, n)]
        IN {o \in 1..SectorSize - 1 :
              /\ IF n = 0 THEN o < entryWriteOffset
                 ELSE \E p \in ClosedTable(sector) : o <= p
              /\ isEntryValid(o, SectorSize, sector[o])}]
  IN Newest(flash, i, sectorIndex, candidates)

-----------------------------------------------------------------------------
(* The constructor *)

FoundEmpty(f, s) ==
  SectorState(f, s) # "EMPTY" /\ SectorState(f, NextSector(s)) = "EMPTY"
FoundClosed(f, s) ==
  SectorState(f, s) = "CLOSED" /\ SectorState(f, NextSector(s)) = "OPEN"

\* the head of the last pair of adjacent sectors in the order of the loop
IsHead(f, s) ==
  LET empty == {t \in Sectors : FoundEmpty(f, t)}
      found == IF empty # {} THEN empty ELSE {t \in Sectors : FoundClosed(f, t)}
  IN IF found = {} THEN s = 0
     ELSE s \in found /\ \A t \in found : NextSector(t) <= NextSector(s)

FoundState(f, s) ==
  IF FoundEmpty(f, s) \/ FoundClosed(f, s) THEN SectorState(f, s) ELSE "EMPTY"

NoOp == [kind |-> "none"]
ClearOp == [kind |-> "clear"]
NoRec == [kind |-> "none"]

\* go to an erased sector
Enter(s) ==
  /\ sectorIndex' = s
  /\ entryWriteOffset' = 1
  /\ dataWriteOffset' = SectorSize

StartGc ==
  /\ gcEntry' = 1
  /\ gcData' = SectorSize

\* mutant of Boot: the collection that a crash interrupted is not taken up again
BootWithoutGc ==
  /\ pc = "boot"
  /\ \E head \in Sectors :
       /\ IsHead(flash, head)
       /\ flash' = Erased(NextSector(head))
       /\ LET state == FoundState(flash, head)
          IN /\ Enter(IF state = "CLOSED" THEN NextSector(head) ELSE head)
             /\ pc' = CASE state = "EMPTY" -> "format"
                        [] state = "OPEN" -> "detect"
                        [] state = "CLOSED" -> "ready"
  /\ UNCHANGED <<op, gcCount, gcEntry, gcData, rec>>

Boot ==
  /\ pc = "boot"
  /\ \E head \in Sectors :
       /\ IsHead(flash, head)
       /\ flash' = Erased(NextSector(head))
       /\ LET state == FoundState(flash, head)
          IN /\ Enter(IF state = "CLOSED" THEN NextSector(head) ELSE head)
             /\ pc' = CASE state = "EMPTY" -> "format"
                        [] state = "OPEN" -> "detect"
                        [] state = "CLOSED" -> "gc"
  /\ UNCHANGED <<op, gcCount, gcEntry, gcData, rec>>

\* the flash was empty: make sure the sector is really empty
Format ==
  /\ pc = "format"
  /\ flash' = Erased(sectorIndex)
  /\ pc' = "ready"
  /\ UNCHANGED <<op, ram, rec>>

\* detectOffsets, first loop: an entry of the open sector.  The entry behind the
\* last cell is the first cell of the next sector, which was erased just before,
\* or, in the last sector, whatever follows the flash.
DetectEntry ==
  /\ pc = "detect"
  /\ entryWriteOffset <= dataWriteOffset
  /\ \/ /\ entryWriteOffset < SectorSize
        /\ LET c == flash[sectorIndex][entryWriteOffset]
           IN /\ c # Empty
              /\ dataWriteOffset' = IF isEntryValid(entryWriteOffset, dataWriteOffset, c)
                                    THEN c.offset ELSE dataWriteOffset
     \/ /\ entryWriteOffset = SectorSize
        /\ sectorIndex = SectorCount - 1
        /\ UNCHANGED dataWriteOffset
  /\ entryWriteOffset' = entryWriteOffset + 1
  /\ UNCHANGED <<flash, pc, op, sectorIndex, gcCount, gcEntry, gcData, rec>>

\* detectOffsets, second loop: of the dirty cells between table and data the
\* last one determines the data offset
DetectData ==
  /\ pc = "detect"
  /\ (entryWriteOffset <= dataWriteOffset /\ entryWriteOffset < SectorSize)
        => flash[sectorIndex][entryWriteOffset] = Empty
  /\ LET dirty == {o \in entryWriteOffset..dataWriteOffset - 1 : flash[sectorIndex][o] # Empty}
     IN \/ dirty = {} /\ UNCHANGED dataWriteOffset
        \/ \E o \in dirty : (\A p \in dirty : p <= o) /\ dataWriteOffset' = o
  /\ pc' = "ready"
  /\ UNCHANGED <<flash, op, sectorIndex, entryWriteOffset, gcCount, gcEntry, gcData, rec>>

-----------------------------------------------------------------------------
(* writeBlocking *)

Idle == pc \in {"ready", "full"}

BeginWrite(i, c) ==
  /\ Idle
  /\ op' = [kind |-> "write", id |-> i, content |-> c]
  /\ gcCount' = 0
  /\ pc' = "fit"
  /\ UNCHANGED <<flash, sectorIndex, entryWriteOffset, dataWriteOffset, gcEntry, gcData, rec>>

\* mutant of Fits: the entry is not counted
FitsDataOnly(size) == entryWriteOffset + size <= dataWriteOffset

Fits(size) == entryWriteOffset + 1 + size <= dataWriteOffset

StartAppend(record, size) ==
  /\ rec' = record
  /\ dataWriteOffset' = dataWriteOffset - size
  /\ pc' = "append"

WriteFits ==
  /\ pc = "fit"
  /\ Fits(Size[op.content])
  /\ StartAppend([id |-> op.id, cells |-> Payload(op.content), part |-> 0, copy |-> FALSE],
                 Size[op.content])
  /\ UNCHANGED <<flash, op, sectorIndex, entryWriteOffset, gcCount, gcEntry, gcData>>

\* mutant of OutOfMemory: one sector fewer is collected
OutOfMemoryEarly ==
  /\ pc = "fit"
  /\ ~Fits(Size[op.content])
  /\ gcCount + 2 >= SectorCount
  /\ gcCount' = 0
  /\ pc' = "full"
  /\ UNCHANGED <<flash, op, sectorIndex, entryWriteOffset, dataWriteOffset, gcEntry, gcData, rec>>

OutOfMemory ==
  /\ pc = "fit"
  /\ ~Fits(Size[op.content])
  /\ gcCount + 1 >= SectorCount
  /\ gcCount' = 0
  /\ pc' = "full"
  /\ UNCHANGED <<flash, op, sectorIndex, entryWriteOffset, dataWriteOffset, gcEntry, gcData, rec>>

\* mutant of CloseFirst: the collected sectors are not counted
CloseFirstUncounted ==
  /\ pc = "fit"
  /\ ~Fits(Size[op.content])
  /\ gcCount + 1 < SectorCount
  /\ flash' = Programmed(sectorIndex, 0, Torn)
  /\ pc' = "close"
  /\ UNCHANGED <<op, sectorIndex, entryWriteOffset, dataWriteOffset, gcCount, gcEntry, gcData, rec>>

\* closeSector, first half of the close entry
CloseFirst ==
  /\ pc = "fit"
  /\ ~Fits(Size[op.content])
  /\ gcCount + 1 < SectorCount
  /\ gcCount' = gcCount + 1
  /\ flash' = Programmed(sectorIndex, 0, Torn)
  /\ pc' = "close"
  /\ UNCHANGED <<op, sectorIndex, entryWriteOffset, dataWriteOffset, gcEntry, gcData, rec>>

CloseSecond ==
  /\ pc = "close"
  /\ flash' = Programmed(sectorIndex, 0, Close(entryWriteOffset - 1))
  /\ Enter(NextSector(sectorIndex))
  /\ StartGc
  /\ pc' = "gc"
  /\ UNCHANGED <<op, gcCount, rec>>

-----------------------------------------------------------------------------
(* Appending a record, for writeBlocking and for copyEntry *)

AppendData ==
  /\ pc = "append"
  /\ rec.part < Len(rec.cells)
  /\ flash' = Programmed(sectorIndex, dataWriteOffset + rec.part, rec.cells[rec.part + 1])
  /\ rec' = [rec EXCEPT !.part = @ + 1]
  /\ UNCHANGED <<pc, op, ram>>

AppendEntryFirst ==
  /\ pc = "append"
  /\ rec.part = Len(rec.cells)
  /\ flash' = Programmed(sectorIndex, entryWriteOffset, Torn)
  /\ pc' = "entry"
  /\ UNCHANGED <<op, ram, rec>>

AppendEntrySecond ==
  /\ pc = "entry"
  /\ flash' = Programmed(sectorIndex, entryWriteOffset,
                         Entry(rec.id, Len(rec.cells), dataWriteOffset))
  /\ entryWriteOffset' = entryWriteOffset + 1
  /\ \/ rec.copy /\ pc' = "gc" /\ UNCHANGED <<op, gcCount>>
     \/ ~rec.copy /\ pc' = "ready" /\ op' = NoOp /\ gcCount' = 0
  /\ rec' = NoRec
  /\ UNCHANGED <<sectorIndex, dataWriteOffset, gcEntry, gcData>>

-----------------------------------------------------------------------------
(* gc *)

TailSector == NextSector(sectorIndex)

MoreEntries == \E o \in ClosedTable(flash[TailSector]) : gcEntry <= o

\* mutant of GcEntry: an outdated entry is not passed
GcEntryStuck ==
  /\ pc = "gc"
  /\ MoreEntries
  /\ LET c == flash[TailSector][gcEntry]
     IN \/ /\ ~isEntryValid(gcEntry, gcData, c)
           /\ gcEntry' = gcEntry + 1
           /\ UNCHANGED <<gcData, pc, rec, dataWriteOffset>>
        \/ /\ isEntryValid(gcEntry, gcData, c)
           /\ \/ contains(TailSector, gcEntry)
                 /\ UNCHANGED <<gcEntry, gcData, pc, rec, dataWriteOffset>>
              \/ /\ ~contains(TailSector, gcEntry)
                 /\ gcEntry' = gcEntry + 1
                 /\ gcData' = c.offset
                 /\ StartAppend([id |-> c.id, cells |-> Content(flash[TailSector], gcEntry),
                                 part |-> 0, copy |-> TRUE], c.size)
  /\ UNCHANGED <<flash, op, sectorIndex, entryWriteOffset, gcCount>>

\* one entry of the tail: skip it when it is invalid or outdated, else copy it
GcEntry ==
  /\ pc = "gc"
  /\ MoreEntries
  /\ gcEntry' = gcEntry + 1
  /\ LET c == flash[TailSector][gcEntry]
     IN \/ /\ ~isEntryValid(gcEntry, gcData, c)
           /\ UNCHANGED <<gcData, pc, rec, dataWriteOffset>>
        \/ /\ isEntryValid(gcEntry, gcData, c)
           /\ gcData' = c.offset
           /\ \/ contains(TailSector, gcEntry) /\ UNCHANGED <<pc, rec, dataWriteOffset>>
              \/ /\ ~contains(TailSector, gcEntry)
                 /\ StartAppend([id |-> c.id, cells |-> Content(flash[TailSector], gcEntry),
                                 part |-> 0, copy |-> TRUE], c.size)
  /\ UNCHANGED <<flash, op, sectorIndex, entryWriteOffset, gcCount>>

\* mutant of GcErase: the write is not tried again after a collection
GcEraseReturns ==
  /\ pc = "gc"
  /\ ~MoreEntries
  /\ flash' = Erased(TailSector)
  /\ StartGc
  /\ pc' = "ready"
  /\ UNCHANGED <<op, sectorIndex, entryWriteOffset, dataWriteOffset, gcCount, rec>>

GcErase ==
  /\ pc = "gc"
  /\ ~MoreEntries
  /\ flash' = Erased(TailSector)
  /\ StartGc
  /\ pc' = IF op = NoOp THEN "ready" ELSE "fit"
  /\ UNCHANGED <<op, sectorIndex, entryWriteOffset, dataWriteOffset, gcCount, rec>>

-----------------------------------------------------------------------------
(* clearBlocking: gcCount counts the erased sectors *)

BeginClear ==
  /\ Idle
  /\ op' = ClearOp
  /\ gcCount' = 0
  /\ pc' = "clear"
  /\ UNCHANGED <<flash, sectorIndex, entryWriteOffset, dataWriteOffset, gcEntry, gcData, rec>>

ClearSector ==
  /\ pc = "clear"
  /\ gcCount < SectorCount
  /\ flash' = Erased(gcCount)
  /\ gcCount' = gcCount + 1
  /\ UNCHANGED <<pc, op, sectorIndex, entryWriteOffset, dataWriteOffset, gcEntry, gcData, rec>>

EndClear ==
  /\ pc = "clear"
  /\ gcCount = SectorCount
  /\ Enter(0)
  /\ gcCount' = 0
  /\ pc' = "ready"
  /\ op' = NoOp
  /\ UNCHANGED <<flash, gcEntry, gcData, rec>>

-----------------------------------------------------------------------------
(* The power supply *)

\* the sector the next flash operation erases, if it is an erasure
Erasing(s) ==
  \/ pc = "boot" /\ \E head \in Sectors : IsHead(flash, head) /\ s = NextSector(head)
  \/ pc = "format" /\ s = sectorIndex
  \/ pc = "gc" /\ ~MoreEntries /\ s = TailSector
  \/ pc = "clear" /\ gcCount < SectorCount /\ s = gcCount

\* the power fails between two flash operations or, when a sector consists of
\* several pages, after the first page of an erasure
PowerFail ==
  /\ pc = "clear" => ClearMayFail
  /\ \/ UNCHANGED flash /\ pc # "boot"
     \/ \E s \in Sectors : Erasing(s) /\ flash' = [flash EXCEPT ![s] = Wiped(@, 0..PageSize - 1)]
  /\ Enter(0)
  /\ StartGc
  /\ gcCount' = 0
  /\ pc' = "boot"
  /\ op' = NoOp
  /\ rec' = NoRec

-----------------------------------------------------------------------------

\* just switched on, with the given contents of the flash
InitWith(f) ==
  /\ flash = f
  /\ sectorIndex = 0
  /\ entryWriteOffset = 1
  /\ dataWriteOffset = SectorSize
  /\ gcCount = 0
  /\ gcEntry = 1
  /\ gcData = SectorSize
  /\ pc = "boot"
  /\ op = NoOp
  /\ rec = NoRec

Init == InitWith([s \in Sectors |-> [o \in Offsets |-> Empty]])

Call ==
  \/ \E i \in Ids, c \in Contents : BeginWrite(i, c)
  \/ BeginClear

\* the steps of the code once it was called
Work ==
  \/ Boot \/ Format \/ DetectEntry \/ DetectData
  \/ WriteFits \/ OutOfMemory \/ CloseFirst \/ CloseSecond
  \/ AppendData \/ AppendEntryFirst \/ AppendEntrySecond
  \/ GcEntry \/ GcErase
  \/ ClearSector \/ EndClear

Next == Call \/ Work \/ PowerFail

Spec == Init /\ [][Next]_vars

\* the code runs on while there is power, and the power stays on some day
LiveSpec == Spec /\ WF_vars(Work) /\ <>[][Call \/ Work]_vars

-----------------------------------------------------------------------------
(* Properties *)

Record == [id : Ids, cells : Seq(Cell), part : Nat, copy : BOOLEAN]
WriteOps == [kind : {"write"}, id : Ids, content : Contents]

\* the calls that may be in progress where the code is
OpsAt(p) ==
  CASE p \in {"boot", "format", "detect", "ready"} -> {NoOp}
    [] p \in {"fit", "close", "full"} -> WriteOps
    [] p \in {"gc", "append", "entry"} -> {NoOp} \cup WriteOps
    [] p = "clear" -> {ClearOp}

\* The variables keep their types: every offset stays inside its sector, and
\* the record in hand is one while a record is appended.
TypeOK ==
  /\ flash \in [Sectors -> [Offsets -> Cell]]
  /\ sectorIndex \in Sectors
  /\ entryWriteOffset \in 1..SectorSize + 1
  /\ dataWriteOffset \in 0..SectorSize
  /\ gcCount \in 0..SectorCount
  /\ gcEntry \in 1..SectorSize
  /\ gcData \in 0..SectorSize
  /\ pc \in {"boot", "format", "detect", "ready", "full", "fit", "close",
             "append", "entry", "gc", "clear"}
  /\ op \in OpsAt(pc)
  /\ rec \in IF pc \in {"append", "entry"} THEN Record ELSE {NoRec}

\* The allocation table never grows into the data, and gc never puts more into
\* the new sector than the tail held.  copyEntry (FlashStorage.cpp:444) checks
\* no space: it relies on the entries of the tail having fitted into a sector,
\* so that table and data of the new sector stay behind those of the tail.
TableBelowData ==
  /\ entryWriteOffset <= dataWriteOffset + 1
  /\ pc = "gc" => entryWriteOffset <= gcEntry /\ gcData <= dataWriteOffset
  /\ pc \in {"append", "entry"} =>
       /\ entryWriteOffset < dataWriteOffset
       /\ dataWriteOffset + Len(rec.cells) <= SectorSize
       /\ rec.part <= Len(rec.cells)
       /\ rec.copy => entryWriteOffset < gcEntry /\ gcData <= dataWriteOffset

\* Where the code enters a sector it relies on the sector being erased
\* ("go to next sector (which is erased)", FlashStorage.cpp:199).
NextIsErased ==
  (Idle \/ pc \in {"fit", "close"}) => \A o \in Offsets : flash[TailSector][o] = Empty

\* What the flash holds for an id: the newest entry from the head on, as the
\* constructor would find it after a restart at this moment.
StoredIn(f) ==
  LET head == CHOOSE s \in Sectors : IsHead(f, s)
      table == [n \in 0..SectorCount - 2 |-> Table(f[Before(head, n)])]
  IN IF FoundState(f, head) = "EMPTY" THEN [i \in Ids |-> << >>]
     ELSE [i \in Ids |-> Newest(f, i, head, table)]

\* Whenever the storage can be called, readBlocking returns for every id what a
\* restart at this moment would return: nothing lives only in RAM.
ReadIsDurable == Idle => [i \in Ids |-> Read(i)] = StoredIn(flash)

\* OUT_OF_MEMORY_ERROR is only returned when every sector but the empty one is
\* down to entries that are still current and has no room for the new data.
OutOfMemoryIsReal ==
  pc = "full" =>
    \A n \in 0..SectorCount - 2 :
      LET sector(m) == flash[Before(sectorIndex, m)]
          table(m) == Table(sector(m))
          idAt(m, o) == sector(m)[o].id
      IN /\ \E end \in {SectorSize} \cup {sector(n)[o].offset : o \in table(n)} :
              Cardinality(table(n)) + 2 + Size[op.content] > end
         /\ \A o \in table(n) :
              /\ \A p \in table(n) : p > o => idAt(n, p) # idAt(n, o)
              /\ \A m \in 0..n - 1 : \A p \in table(m) : idAt(m, p) # idAt(n, o)

\* Every write returns, with or without success: the collection of sectors
\* ends (the loop at FlashStorage.cpp:191), and so does the recovery.
WritesReturn == (pc = "fit") ~> Idle
RecoveryEnds == (pc = "boot") ~> Idle
=============================================================================
