----------------------- MODULE FlashDurabilityProofs -----------------------
(***************************************************************************)
(* For every geometry of a flash whose cells may be programmed again, as   *)
(* the posix file, and whose pages hold at least two cells (with more than *)
(* three sectors as long as no clear is interrupted): FlashStorage         *)
(* implements KeyValueStore, what readBlocking returns is what a restart   *)
(* would find, and OUT_OF_MEMORY_ERROR means that nothing is left.         *)
(***************************************************************************)
EXTENDS FlashDurability, FlashStorageProofs, FiniteSetTheorems

-----------------------------------------------------------------------------
(* Numbers *)

\* A set of numbers that is not empty has a least element.
LEMMA LeastExists ==
  ASSUME NEW S, S \subseteq Nat, S # {}
  PROVE  \E i \in S : \A j \in S : i <= j
<1>1. PICK i \in S : \A j \in S : <<j, i>> \notin OpToRel(<, Nat)
  BY WFMin, NatLessThanWellFounded, Zenon
<1>2. ASSUME NEW j \in S
      PROVE  i <= j
  <2>1. j < i => <<j, i>> \in OpToRel(<, Nat)
    BY Zenon DEF OpToRel
  <2>2. ~(j < i)
    BY <1>1, <2>1
  <2> QED
    BY <2>2
<1> QED BY <1>2

\* A bounded set of numbers that is not empty has a greatest element.
LEMMA GreatestExists ==
  ASSUME NEW S, NEW N \in Nat, S \subseteq 0..N, S # {}
  PROVE  \E i \in S : \A j \in S : j <= i
<1> DEFINE D == {d \in 0..N : N - d \in S}
<1>1. D \subseteq Nat
  OBVIOUS
<1>2. D # {}
  <2>1. PICK i \in S : TRUE
    OBVIOUS
  <2>2. N - i \in 0..N /\ N - (N - i) = i
    BY <2>1
  <2> QED
    BY <2>1, <2>2
<1>3. PICK d \in D : \A e \in D : d <= e
  <2> HIDE DEF D
  <2> QED
    BY <1>1, <1>2, LeastExists
<1>4. ASSUME NEW j \in S PROVE j <= N - d
  <2>1. N - j \in 0..N /\ N - (N - j) = j
    BY <1>4
  <2>2. N - j \in D
    BY <2>1
  <2>3. d <= N - j /\ d \in 0..N /\ j \in 0..N
    BY <1>3, <2>2
  <2> QED
    BY <2>3
<1> QED
  BY <1>3, <1>4

\* The remainder of a number below twice the modulus.
LEMMA Modulus ==
  ASSUME NEW n \in Nat, n > 0, NEW x \in 0..n + n - 1
  PROVE  x % n = IF x < n THEN x ELSE x - n
OBVIOUS

-----------------------------------------------------------------------------
(* The ring of sectors *)

\* What the assumptions say about the counts.
LEMMA Counts ==
  /\ SectorCount \in Nat /\ SectorCount >= 2
  /\ SectorSize \in Nat /\ SectorSize >= 3
BY FlashAssumption

\* Going back a number of sectors without the modulus.
LEMMA BeforeIs ==
  ASSUME NEW s \in Sectors, NEW n \in 0..SectorCount - 1
  PROVE  Before(s, n) = IF s < n THEN s + SectorCount - n ELSE s - n
<1> DEFINE x == s + SectorCount - n
<1>1. x \in 0..SectorCount + SectorCount - 1 /\ (s < n <=> x < SectorCount)
  BY Counts DEF Sectors
<1>2. SectorCount \in Nat /\ SectorCount > 0
  BY Counts
<1>3. x % SectorCount = IF x < SectorCount THEN x ELSE x - SectorCount
  <2> HIDE DEF x
  <2> QED
    BY <1>1, <1>2, Modulus
<1>4. x - SectorCount = s - n
  BY Counts DEF Sectors
<1> QED
  BY <1>1, <1>3, <1>4 DEF Before

\* The sectors at the places of the ring, seen from one of them: every sector has one
\* place, the last place is that of the next sector.
LEMMA BeforeType ==
  ASSUME NEW s \in Sectors, NEW n \in 0..SectorCount - 1
  PROVE  Before(s, n) \in Sectors
BY BeforeIs, Counts DEF Sectors

\* Going back no sector stays in the sector.
LEMMA BeforeZero ==
  ASSUME NEW s \in Sectors PROVE Before(s, 0) = s
<1>1. 0 \in 0..SectorCount - 1
  BY Counts
<1> QED
  BY <1>1, BeforeIs, Counts DEF Sectors

\* Going back all but one sector reaches the next one.
LEMMA BeforeLast ==
  ASSUME NEW s \in Sectors PROVE Before(s, SectorCount - 1) = NextSector(s)
<1>1. SectorCount - 1 \in 0..SectorCount - 1
  BY Counts
<1> QED
  BY <1>1, BeforeIs, Counts DEF Sectors, NextSector

\* From the next sector it is one sector more.
LEMMA BeforeNext ==
  ASSUME NEW s \in Sectors, NEW n \in 0..SectorCount - 2
  PROVE  Before(NextSector(s), n + 1) = Before(s, n)
<1>1. n \in 0..SectorCount - 1 /\ n + 1 \in 0..SectorCount - 1
  BY Counts
<1>2. NextSector(s) \in Sectors
  BY NextSectorType
<1>3. /\ Before(s, n) = IF s < n THEN s + SectorCount - n ELSE s - n
      /\ Before(NextSector(s), n + 1) =
           IF NextSector(s) < n + 1 THEN NextSector(s) + SectorCount - (n + 1)
           ELSE NextSector(s) - (n + 1)
  BY <1>1, <1>2, BeforeIs
<1> QED
  BY <1>1, <1>3, Counts DEF Sectors, NextSector

\* Different distances reach different sectors.
LEMMA BeforeOther ==
  ASSUME NEW s \in Sectors, NEW n \in 0..SectorCount - 1, NEW m \in 0..SectorCount - 1,
         Before(s, n) = Before(s, m)
  PROVE  n = m
<1>1. /\ Before(s, n) = IF s < n THEN s + SectorCount - n ELSE s - n
      /\ Before(s, m) = IF s < m THEN s + SectorCount - m ELSE s - m
  BY BeforeIs
<1>2. /\ SectorCount \in Nat /\ s \in 0..SectorCount - 1
      /\ n \in 0..SectorCount - 1 /\ m \in 0..SectorCount - 1
  BY Counts DEF Sectors
<1>3. (IF s < n THEN s + SectorCount - n ELSE s - n)
        = (IF s < m THEN s + SectorCount - m ELSE s - m)
  BY <1>1
<1> QED
  BY <1>2, <1>3

\* Different sectors have different successors.
LEMMA NextSectorInjective ==
  ASSUME NEW s \in Sectors, NEW t \in Sectors, NextSector(s) = NextSector(t)
  PROVE  s = t
BY Counts DEF NextSector, Sectors

\* the oldest place
LEMMA BeforeTail ==
  ASSUME NEW h \in Sectors
  PROVE  Before(h, SectorCount - 2) = NextSector(NextSector(h))
<1>1. SectorCount - 2 \in 0..SectorCount - 2 /\ SectorCount - 2 + 1 = SectorCount - 1
  BY Counts
<1>2. NextSector(h) \in Sectors
  BY NextSectorType
<1>3. Before(NextSector(h), SectorCount - 1) = Before(h, SectorCount - 2)
  BY <1>1, BeforeNext
<1> QED
  BY <1>2, <1>3, BeforeLast

\* counting on from the tail
LEMMA AfterTail ==
  ASSUME NEW h \in Sectors, NEW n \in 0..SectorCount - 2
  PROVE  (NextSector(NextSector(h)) + n) % SectorCount = Before(h, SectorCount - 2 - n)
<1> DEFINE t == NextSector(NextSector(h))
<1>0. SectorCount \in Nat /\ SectorCount > 0
  BY Counts
<1>1. NextSector(h) \in Sectors /\ t \in Sectors
  BY NextSectorType
<1> DEFINE x == t + n
<1>2. x \in 0..SectorCount + SectorCount - 1
  BY <1>1, Counts DEF Sectors
<1>3. x % SectorCount = IF x < SectorCount THEN x ELSE x - SectorCount
  <2> HIDE DEF x
  <2> QED
    BY <1>0, <1>2, Modulus
<1>4. SectorCount - 2 - n \in 0..SectorCount - 1 /\ SectorCount - 2 \in 0..SectorCount - 1
  BY Counts
<1>5. /\ Before(h, SectorCount - 2 - n) =
           IF h < SectorCount - 2 - n THEN h + SectorCount - (SectorCount - 2 - n)
           ELSE h - (SectorCount - 2 - n)
      /\ Before(h, SectorCount - 2) =
           IF h < SectorCount - 2 THEN h + SectorCount - (SectorCount - 2)
           ELSE h - (SectorCount - 2)
  BY <1>4, BeforeIs
<1>6. t = Before(h, SectorCount - 2)
  BY BeforeTail
<1> HIDE DEF t
<1>7. h \in Nat /\ h < SectorCount /\ SectorCount \in Nat /\ n \in Nat
      /\ n <= SectorCount - 2
  BY Counts DEF Sectors
<1>8. (t + n) % SectorCount = Before(h, SectorCount - 2 - n)
  BY <1>3, <1>5, <1>6, <1>7
<1> QED
  BY <1>8 DEF t

-----------------------------------------------------------------------------
(* Sectors *)

\* the contents of a sector
Sector == [Offsets -> Cell]

\* the completely written entries of a sector
Entries(x) == {o \in 1..SectorSize - 1 : x[o].kind = "entry"}

\* the cells of a sector that has not been entered, but for data of a torn write
Unused(x) == x[0] = Empty /\ x[1] = Empty

\* The table of a sector lies in one piece behind the close entry, the data in the
\* opposite order before the end, and the data of an entry is that of a call.
Neat(x) ==
  \A o \in Entries(x) :
    /\ \A p \in 1..o : x[p] # Empty
    /\ isEntryValid(o, SectorSize, x[o])
    /\ \A p \in Entries(x) : p < o => isEntryValid(o, x[p].offset, x[o])
    /\ \E c \in Contents : Content(x, o) = Payload(c)

\* no entry is behind the one that the close entry names
CloseFits(x) == x[0].kind = "close" /\ x[0].offset = 0 => Entries(x) = {}

\* a sector in use is neat
Sound(x) == ~Unused(x) => Neat(x) /\ CloseFits(x)

\* the entries that a scan finds
Live(x) == IF Unused(x) THEN {} ELSE Entries(x)

\* The entries a scan finds are entries, behind the close entry.
LEMMA LiveRange ==
  ASSUME NEW x
  PROVE  Live(x) \subseteq Entries(x) /\ Entries(x) \subseteq 1..SectorSize - 1
BY DEF Live, Entries

\* An entry is no empty cell.
LEMMA EntryNotEmpty ==
  ASSUME NEW x, NEW o \in Entries(x) PROVE x[o] # Empty
BY DEF Entries, Empty

\* Where the first cell of the table is empty, there is no entry.
LEMMA NeatEmpty ==
  ASSUME NEW x, Neat(x), x[1] = Empty PROVE Entries(x) = {}
<1>1. ASSUME NEW o \in Entries(x) PROVE FALSE
  <2>1. 1 \in 1..o
    BY Counts DEF Entries
  <2> QED
    BY <2>1 DEF Neat
<1> QED
  BY <1>1

\* What the scan of a sector finds is what is there.
LEMMA TableIsLive ==
  ASSUME NEW x, Sound(x) PROVE Table(x) = Live(x)
<1> DEFINE scanned == {o \in 1..SectorSize - 1 :
                         /\ \A p \in 1..o : x[p] # Empty
                         /\ isEntryValid(o, SectorSize, x[o])}
<1> DEFINE Picks(V) == \A o \in scanned : o \in V <=>
                         \A p \in V : p < o => isEntryValid(o, x[p].offset, x[o])
<1>1. Table(x) = UNION {V \in SUBSET scanned : Picks(V)}
  BY DEF Table
<1>2. CASE x[1] = Empty
  <2>1. scanned = {}
    <3>1. ASSUME NEW o \in scanned PROVE FALSE
      <4>1. 1 \in 1..o
        BY Counts
      <4> QED
        BY <1>2, <4>1
    <3> QED
      BY <3>1
  <2>2. Live(x) = {}
    BY <1>2, NeatEmpty DEF Live, Sound
  <2> HIDE DEF scanned, Picks
  <2> QED
    BY <1>1, <2>1, <2>2
<1>3. CASE x[1] # Empty
  <2>1. Neat(x) /\ Live(x) = Entries(x)
    BY <1>3 DEF Live, Sound, Unused
  <2>2. scanned = Entries(x)
    BY <2>1 DEF Neat, Entries, isEntryValid
  <2>3. Picks(scanned)
    <3> SUFFICES ASSUME NEW o \in scanned
                 PROVE  o \in scanned <=>
                          \A p \in scanned : p < o => isEntryValid(o, x[p].offset, x[o])
      OBVIOUS
    <3> HIDE DEF scanned
    <3> QED
      BY <2>1, <2>2 DEF Neat
  <2> HIDE DEF scanned, Picks
  <2> QED
    BY <1>1, <2>1, <2>2, <2>3
<1> QED
  BY <1>2, <1>3

\* The same holds for a scan that ends at the close entry.
LEMMA ClosedTableIsLive ==
  ASSUME NEW x, Sound(x), x[0] # Empty \/ x[1] = Empty, x \in Sector
  PROVE  ClosedTable(x) = Live(x)
<1>1. CASE x[0] = Empty
  BY <1>1 DEF ClosedTable, Live, Unused
<1>2. CASE x[0] # Empty
  <2>1. Table(x) = Live(x) /\ Live(x) = Entries(x) /\ CloseFits(x)
    BY <1>2, TableIsLive DEF Live, Sound, Unused
  <2>2. CASE isCloseEntryValid(x[0])
    <3>1. x[0].kind = "close" /\ x[0] \in Cell /\ ~(x[0].offset >= 1 /\ x[0].offset < SectorSize)
      BY <2>2, Counts DEF isCloseEntryValid, Sector, Offsets
    <3>2. x[0].offset \in 0..SectorSize
      BY <3>1 DEF Cell, Empty, Torn, Garbage, Close, Data, Entry
    <3>3. x[0].offset = 0 \/ x[0].offset = SectorSize
      BY <3>1, <3>2, Counts
    <3>4. \A o \in Entries(x) : o <= x[0].offset
      BY <2>1, <3>1, <3>3, Counts DEF CloseFits, Entries
    <3> QED
      BY <1>2, <2>1, <2>2, <3>4 DEF ClosedTable
  <2>3. CASE ~isCloseEntryValid(x[0])
    BY <1>2, <2>1, <2>3 DEF ClosedTable
  <2> QED
    BY <2>2, <2>3
<1> QED
  BY <1>1, <1>2

\* The data of an entry depends on the cells from its offset on.
LEMMA SameContent ==
  ASSUME NEW x, NEW y, NEW o, y[o] = x[o], x[o].size \in Nat, x[o].offset \in Nat,
         \A p \in x[o].offset..x[o].offset + x[o].size - 1 : y[p] = x[p]
  PROVE  Content(y, o) = Content(x, o)
<1>1. \A n \in 1..x[o].size :
        x[o].offset + n - 1 \in x[o].offset..x[o].offset + x[o].size - 1
  OBVIOUS
<1>2. \A n \in 1..x[o].size : y[x[o].offset + n - 1] = x[x[o].offset + n - 1]
  BY <1>1
<1> QED
  BY <1>2 DEF Content

\* An entry of a sound sector lies in the sector, its data behind the table.
LEMMA EntryBounds ==
  ASSUME NEW x \in Sector, Neat(x), NEW o \in Entries(x)
  PROVE  /\ x[o].id \in Ids /\ x[o].size \in Nat /\ x[o].offset \in Nat
         /\ x[o].offset >= o + 1 /\ x[o].offset + x[o].size <= SectorSize
         /\ o \in 1..SectorSize - 1
<1>1. o \in Offsets /\ o \in 1..SectorSize - 1 /\ x[o].kind = "entry"
  BY Counts DEF Entries, Offsets
<1>2. x[o] \in Cell
  BY <1>1 DEF Sector
<1>3. x[o].id \in Ids /\ x[o].size \in 0..SectorSize /\ x[o].offset \in 0..SectorSize
  BY <1>1, <1>2, EntryFields
<1>4. isEntryValid(o, SectorSize, x[o])
  BY DEF Neat
<1> QED
  BY <1>1, <1>3, <1>4 DEF isEntryValid

\* What writes between the table and the data of a sector changes no entry: the cells
\* that stay are those of the table up to e and of the data from w on.
LEMMA WriteBetween ==
  ASSUME NEW x \in Sector, NEW y \in Sector, Neat(x), NEW e, NEW w,
         Entries(y) = Entries(x),
         \A o \in Entries(x) : o <= e /\ w <= x[o].offset,
         e \in Nat, w \in Nat,
         \A p \in 1..SectorSize - 1 : p <= e \/ w <= p => y[p] = x[p]
  PROVE  /\ Neat(y)
         /\ \A o \in Entries(x) : y[o] = x[o] /\ Content(y, o) = Content(x, o)
<1>1. ASSUME NEW o \in Entries(x) PROVE y[o] = x[o] /\ Content(y, o) = Content(x, o)
  <2>1. /\ x[o].size \in Nat /\ x[o].offset \in Nat
        /\ x[o].offset >= o + 1 /\ x[o].offset + x[o].size <= SectorSize
        /\ o \in 1..SectorSize - 1
    BY EntryBounds
  <2>2. y[o] = x[o]
    BY <2>1
  <2>3. ASSUME NEW p \in x[o].offset..x[o].offset + x[o].size - 1 PROVE y[p] = x[p]
    <3>1. p \in 1..SectorSize - 1 /\ w <= p
      BY <2>1, Counts
    <3> QED
      BY <3>1
  <2> QED
    BY <2>1, <2>2, <2>3, SameContent
<1>2. ASSUME NEW o \in Entries(y)
      PROVE  /\ \A p \in 1..o : y[p] # Empty
             /\ isEntryValid(o, SectorSize, y[o])
             /\ \A p \in Entries(y) : p < o => isEntryValid(o, y[p].offset, y[o])
             /\ \E c \in Contents : Content(y, o) = Payload(c)
  <2>1. o \in Entries(x) /\ y[o] = x[o] /\ Content(y, o) = Content(x, o)
    BY <1>1
  <2>2. o \in 1..SectorSize - 1 /\ o <= e
    BY <2>1, EntryBounds
  <2>3. ASSUME NEW p \in 1..o PROVE y[p] # Empty
    <3>1. p \in 1..SectorSize - 1 /\ p <= e
      BY <2>2, Counts
    <3>2. y[p] = x[p]
      BY <3>1
    <3> QED
      BY <2>1, <3>2 DEF Neat
  <2>4. \A p \in Entries(y) : p < o => isEntryValid(o, y[p].offset, y[o])
    BY <1>1, <2>1 DEF Neat
  <2> QED
    BY <2>1, <2>3, <2>4 DEF Neat
<1> QED
  BY <1>1, <1>2 DEF Neat

-----------------------------------------------------------------------------
(* The newest entry *)

\* how far a sector in use may lie behind the head
Places == 0..SectorCount - 2

\* the contents of a flash of which every sector is sound
Sounds == {f \in [Sectors -> Sector] : \A s \in Sectors : Sound(f[s])}

\* seen from sector h there is an entry for id i at place n in cell o
Holds(f, h, i, n, o) ==
  /\ n \in Places
  /\ o \in Live(f[Before(h, n)])
  /\ f[Before(h, n)][o].id = i

\* ... and no entry for the id is newer
IsNewest(f, h, i, n, o) ==
  /\ Holds(f, h, i, n, o)
  /\ \A m \in Places, p \in 1..SectorSize - 1 :
       Holds(f, h, i, m, p) => n < m \/ (n = m /\ p <= o)

\* there is no entry for id i
None(f, h, i) == \A n \in Places, o \in 1..SectorSize - 1 : ~Holds(f, h, i, n, o)

\* the data of each id as it is found from sector h
Lives(f, h) == [n \in Places |-> Live(f[Before(h, n)])]
At(f, h, i) == Newest(f, i, h, Lives(f, h))
Stored(f, h) == [i \in Ids |-> At(f, h, i)]

\* An entry that is held is at a place and in a cell of the table.
LEMMA HoldsRange ==
  ASSUME NEW f, NEW h, NEW i, NEW n, NEW o, Holds(f, h, i, n, o)
  PROVE  n \in Places /\ o \in 1..SectorSize - 1
BY LiveRange DEF Holds

\* Where there is no entry, nothing is found.
LEMMA NoneAt ==
  ASSUME NEW f, NEW h, NEW i, None(f, h, i) PROVE At(f, h, i) = << >>
<1> DEFINE all == UNION {{<<n, o>> : o \in Lives(f, h)[n]} : n \in 0..SectorCount - 2}
<1> DEFINE found == {e \in all : f[Before(h, e[1])][e[2]].id = i}
<1>1. ASSUME NEW e \in found PROVE FALSE
  <2>1. PICK n \in Places : \E o \in Lives(f, h)[n] : e = <<n, o>>
    BY DEF Places
  <2>2. PICK o \in Lives(f, h)[n] : e = <<n, o>>
    BY <2>1
  <2>3. o \in Live(f[Before(h, n)]) /\ f[Before(h, n)][o].id = i
    BY <2>2 DEF Lives
  <2>4. Holds(f, h, i, n, o)
    BY <2>3 DEF Holds
  <2> QED
    BY <2>4, HoldsRange DEF None
<1>2. found = {}
  BY <1>1
<1> QED
  BY <1>2 DEF At, Newest

\* The newest entry is the one that is found.
LEMMA NewestAt ==
  ASSUME NEW f, NEW h, NEW i, NEW n, NEW o, IsNewest(f, h, i, n, o)
  PROVE  At(f, h, i) = Content(f[Before(h, n)], o)
<1> DEFINE all == UNION {{<<m, p>> : p \in Lives(f, h)[m]} : m \in 0..SectorCount - 2}
<1> DEFINE found == {e \in all : f[Before(h, e[1])][e[2]].id = i}
<1> DEFINE newest == {e \in found : \A g \in found :
                        e[1] < g[1] \/ (e[1] = g[1] /\ e[2] >= g[2])}
<1>0. n \in Places /\ o \in 1..SectorSize - 1
  BY HoldsRange DEF IsNewest
<1>1. ASSUME NEW e \in found
      PROVE  \E m \in Places, p \in 1..SectorSize - 1 : e = <<m, p>> /\ Holds(f, h, i, m, p)
  <2>1. PICK m \in Places : \E p \in Lives(f, h)[m] : e = <<m, p>>
    BY DEF Places
  <2>2. PICK p \in Lives(f, h)[m] : e = <<m, p>>
    BY <2>1
  <2>3. p \in Live(f[Before(h, m)]) /\ f[Before(h, m)][p].id = i
    BY <2>2 DEF Lives
  <2>4. Holds(f, h, i, m, p)
    BY <2>3 DEF Holds
  <2> QED
    BY <2>2, <2>4, HoldsRange
<1>2. <<n, o>> \in found
  <2>1. o \in Lives(f, h)[n] /\ f[Before(h, n)][o].id = i
    BY <1>0 DEF IsNewest, Holds, Lives
  <2>2. <<n, o>> \in all
    BY <1>0, <2>1 DEF Places
  <2> QED
    BY <2>1, <2>2
<1> HIDE DEF found
<1>3. <<n, o>> \in newest
  <2>1. ASSUME NEW g \in found PROVE n < g[1] \/ (n = g[1] /\ o >= g[2])
    <3>1. PICK m \in Places, p \in 1..SectorSize - 1 : g = <<m, p>> /\ Holds(f, h, i, m, p)
      BY <1>1
    <3> QED
      BY <1>0, <3>1 DEF IsNewest
  <2> QED
    BY <1>2, <2>1
<1>4. ASSUME NEW e \in newest PROVE e = <<n, o>>
  <2>1. PICK m \in Places, p \in 1..SectorSize - 1 : e = <<m, p>>
    BY <1>1
  <2>2. m < n \/ (m = n /\ p >= o)
    BY <1>2, <2>1
  <2>3. n < m \/ (n = m /\ o >= p)
    BY <1>3, <2>1
  <2> QED
    BY <1>0, <2>1, <2>2, <2>3, Counts DEF Places
<1>5. newest = {<<n, o>>}
  BY <1>3, <1>4
<1> DEFINE first == CHOOSE e \in newest : TRUE
<1>6. first = <<n, o>>
  BY <1>5
<1>7. At(f, h, i) = Content(f[Before(h, first[1])], first[2])
  BY <1>2 DEF At, Newest, found
<1> HIDE DEF first
<1> QED
  BY <1>6, <1>7

\* Among the entries for an id there is a newest one.
LEMMA SomeNewest ==
  ASSUME NEW f, NEW h, NEW i, ~None(f, h, i)
  PROVE  \E n \in Places, o \in 1..SectorSize - 1 : IsNewest(f, h, i, n, o)
<1> DEFINE Ages == {n \in Places : \E o \in 1..SectorSize - 1 : Holds(f, h, i, n, o)}
<1>1. Ages # {} /\ Ages \subseteq Nat
  <2>1. PICK n \in Places, o \in 1..SectorSize - 1 : Holds(f, h, i, n, o)
    BY DEF None
  <2>2. n \in Ages
    BY <2>1
  <2>3. Places \subseteq Nat
    BY Counts DEF Places
  <2> QED
    BY <2>2, <2>3
<1>2. PICK n \in Ages : \A m \in Ages : n <= m
  <2> HIDE DEF Ages
  <2> QED
    BY <1>1, LeastExists
<1> DEFINE Cells == {o \in 1..SectorSize - 1 : Holds(f, h, i, n, o)}
<1>3. Cells # {} /\ Cells \subseteq 0..SectorSize /\ SectorSize \in Nat
  BY Counts
<1>4. PICK o \in Cells : \A p \in Cells : p <= o
  <2> HIDE DEF Cells
  <2> QED
    BY <1>3, GreatestExists
<1>5. ASSUME NEW m \in Places, NEW p \in 1..SectorSize - 1, Holds(f, h, i, m, p)
      PROVE  n < m \/ (n = m /\ p <= o)
  <2>1. n <= m
    BY <1>2, <1>5
  <2>2. n = m => p \in Cells
    BY <1>5
  <2>3. n = m => p <= o
    <3> HIDE DEF Cells
    <3> QED
      BY <1>4, <2>2
  <2> QED
    BY <2>1, <2>3, Counts DEF Places
<1> QED
  BY <1>4, <1>5 DEF IsNewest

\* What is found for an id is nothing or the data of a call.
LEMMA AtType ==
  ASSUME NEW f \in Sounds, NEW h \in Sectors, NEW i
  PROVE  At(f, h, i) \in {<< >>} \cup {Payload(c) : c \in Contents}
<1>1. CASE None(f, h, i)
  BY <1>1, NoneAt
<1>2. CASE ~None(f, h, i)
  <2>1. PICK n \in Places, o \in 1..SectorSize - 1 : IsNewest(f, h, i, n, o)
    BY <1>2, SomeNewest
  <2>2. Before(h, n) \in Sectors
    BY Counts, BeforeType DEF Places
  <2>3. o \in Live(f[Before(h, n)]) /\ Sound(f[Before(h, n)])
    BY <2>1, <2>2 DEF IsNewest, Holds, Sounds
  <2>4. \E c \in Contents : Content(f[Before(h, n)], o) = Payload(c)
    BY <2>3 DEF Live, Sound, Neat
  <2> QED
    BY <2>1, <2>4, NewestAt
<1> QED
  BY <1>1, <1>2

\* What is found from two sectors in two contents of the flash is the same, when the
\* newest entry of the one has its like in the other.
LEMMA SameAt ==
  ASSUME NEW f, NEW h, NEW g, NEW k, NEW i,
         None(f, h, i) => None(g, k, i),
         \A n \in Places, o \in 1..SectorSize - 1 :
           IsNewest(f, h, i, n, o) =>
             \E m, p : /\ IsNewest(g, k, i, m, p)
                       /\ Content(g[Before(k, m)], p) = Content(f[Before(h, n)], o)
  PROVE  At(g, k, i) = At(f, h, i)
<1>1. CASE None(f, h, i)
  BY <1>1, NoneAt
<1>2. CASE ~None(f, h, i)
  <2>1. PICK n \in Places, o \in 1..SectorSize - 1 : IsNewest(f, h, i, n, o)
    BY <1>2, SomeNewest
  <2>2. PICK m, p : /\ IsNewest(g, k, i, m, p)
                    /\ Content(g[Before(k, m)], p) = Content(f[Before(h, n)], o)
    BY <2>1
  <2>3. At(f, h, i) = Content(f[Before(h, n)], o)
    BY <2>1, NewestAt
  <2>4. At(g, k, i) = Content(g[Before(k, m)], p)
    BY <2>2, NewestAt
  <2> QED
    BY <2>2, <2>3, <2>4
<1> QED
  BY <1>1, <1>2

\* sector y has the entries of sector x and their data
SameEntries(x, y) ==
  /\ Live(y) = Live(x)
  /\ \A o \in Live(x) : y[o] = x[o] /\ Content(y, o) = Content(x, o)

\* What is found stays when the entries of the sectors in reach stay.
LEMMA SameTables ==
  ASSUME NEW f, NEW g, NEW h,
         \A n \in Places : SameEntries(f[Before(h, n)], g[Before(h, n)])
  PROVE  Stored(g, h) = Stored(f, h)
<1>1. ASSUME NEW i, NEW n, NEW o PROVE Holds(g, h, i, n, o) <=> Holds(f, h, i, n, o)
  BY DEF Holds, SameEntries
<1>2. ASSUME NEW i \in Ids PROVE At(g, h, i) = At(f, h, i)
  <2>1. None(f, h, i) => None(g, h, i)
    BY <1>1 DEF None
  <2>2. ASSUME NEW n \in Places, NEW o \in 1..SectorSize - 1, IsNewest(f, h, i, n, o)
        PROVE  /\ IsNewest(g, h, i, n, o)
               /\ Content(g[Before(h, n)], o) = Content(f[Before(h, n)], o)
    <3>1. IsNewest(g, h, i, n, o)
      BY <1>1, <2>2 DEF IsNewest
    <3>2. o \in Live(f[Before(h, n)])
      BY <2>2 DEF IsNewest, Holds
    <3> QED
      BY <3>1, <3>2 DEF SameEntries
  <2> QED
    BY <2>1, <2>2, SameAt
<1> QED
  BY <1>2 DEF Stored

\* What is found from sector h is found from the next one, too, when that and the one
\* behind it hold no entries.
LEMMA StepOn ==
  ASSUME NEW f, NEW h \in Sectors,
         Live(f[NextSector(h)]) = {}, Live(f[NextSector(NextSector(h))]) = {}
  PROVE  Stored(f, NextSector(h)) = Stored(f, h)
<1> DEFINE k == NextSector(h)
<1>0. k \in Sectors /\ Before(k, 0) = k /\ Before(h, SectorCount - 2) = NextSector(k)
  BY NextSectorType, BeforeZero, BeforeTail
<1>1. ASSUME NEW i, NEW n, NEW o, Holds(f, h, i, n, o)
      PROVE  n + 1 \in Places /\ Holds(f, k, i, n + 1, o)
  <2>1. n \in Places /\ n # SectorCount - 2
    BY <1>0, <1>1 DEF Holds
  <2>2. n + 1 \in Places /\ n \in 0..SectorCount - 2
    BY <2>1, Counts DEF Places
  <2>3. Before(k, n + 1) = Before(h, n)
    BY <2>2, BeforeNext
  <2> QED
    BY <1>1, <2>2, <2>3 DEF Holds
<1>2. ASSUME NEW i, NEW m, NEW o, Holds(f, k, i, m, o)
      PROVE  m - 1 \in Places /\ Holds(f, h, i, m - 1, o) /\ m \in Places
  <2>1. m \in Places /\ m # 0
    BY <1>0, <1>2 DEF Holds
  <2>2. m - 1 \in Places /\ m - 1 \in 0..SectorCount - 2 /\ m - 1 + 1 = m
    BY <2>1, Counts DEF Places
  <2>3. Before(k, m) = Before(h, m - 1)
    BY <2>2, BeforeNext
  <2> QED
    BY <1>2, <2>1, <2>2, <2>3 DEF Holds
<1> HIDE DEF k
<1>3. ASSUME NEW i \in Ids PROVE At(f, k, i) = At(f, h, i)
  <2>1. None(f, h, i) => None(f, k, i)
    BY <1>2 DEF None
  <2>2. ASSUME NEW n \in Places, NEW o \in 1..SectorSize - 1, IsNewest(f, h, i, n, o)
        PROVE  /\ IsNewest(f, k, i, n + 1, o)
               /\ Content(f[Before(k, n + 1)], o) = Content(f[Before(h, n)], o)
    <3>1. Holds(f, h, i, n, o)
      BY <2>2 DEF IsNewest
    <3>2. n + 1 \in Places /\ Holds(f, k, i, n + 1, o)
      BY <1>1, <3>1
    <3>3. ASSUME NEW m \in Places, NEW p \in 1..SectorSize - 1, Holds(f, k, i, m, p)
          PROVE  n + 1 < m \/ (n + 1 = m /\ p <= o)
      <4>1. m - 1 \in Places /\ Holds(f, h, i, m - 1, p)
        BY <1>2, <3>3
      <4>2. n < m - 1 \/ (n = m - 1 /\ p <= o)
        BY <2>2, <4>1 DEF IsNewest
      <4> QED
        BY <4>2, Counts DEF Places
    <3>4. Before(k, n + 1) = Before(h, n)
      <4>1. n \in 0..SectorCount - 2
        BY DEF Places
      <4> QED
        BY <4>1, BeforeNext DEF k
    <3> QED
      BY <3>2, <3>3, <3>4 DEF IsNewest
  <2> QED
    BY <2>1, <2>2, SameAt
<1> QED
  BY <1>3 DEF Stored, k

-----------------------------------------------------------------------------
(* The shapes of the ring *)

\* the states of a sector as the constructor tells them apart
InUse(f, s) == ~Unused(f[s])
Closed(f, s) == f[s][0] # Empty

\* no sector is in use
Blank(f) == \A s \in Sectors : ~InUse(f, s)

\* the sectors in use end with h, the only one that may be open
Headed(f, h) ==
  /\ InUse(f, h) /\ ~InUse(f, NextSector(h))
  /\ \A s \in Sectors : s # h /\ InUse(f, s) => Closed(f, s) /\ InUse(f, NextSector(s))

\* the sector behind h is open, and every other one in use is closed
Full(f, h) ==
  /\ Closed(f, h) /\ InUse(f, NextSector(h)) /\ ~Closed(f, NextSector(h))
  /\ \A s \in Sectors : InUse(f, s) =>
       InUse(f, NextSector(s)) /\ (s # NextSector(h) => Closed(f, s))

\* What the state of a sector says about its use.
LEMMA StateIs ==
  ASSUME NEW f, NEW s
  PROVE  /\ SectorState(f, s) = "EMPTY" <=> ~InUse(f, s)
         /\ SectorState(f, s) = "CLOSED" <=> Closed(f, s)
         /\ SectorState(f, s) = "OPEN" <=> InUse(f, s) /\ ~Closed(f, s)
         /\ Closed(f, s) => InUse(f, s)
BY DEF SectorState, InUse, Closed, Unused

\* What the loop of the constructor looks for.
LEMMA FoundIs ==
  ASSUME NEW f, NEW s
  PROVE  /\ FoundEmpty(f, s) <=> InUse(f, s) /\ ~InUse(f, NextSector(s))
         /\ FoundClosed(f, s) <=>
              Closed(f, s) /\ InUse(f, NextSector(s)) /\ ~Closed(f, NextSector(s))
BY StateIs DEF FoundEmpty, FoundClosed

\* The constructor finds the head.
LEMMA HeadFound ==
  ASSUME NEW f, NEW h \in Sectors, Headed(f, h) \/ Full(f, h)
  PROVE  /\ \A s \in Sectors : IsHead(f, s) <=> s = h
         /\ FoundState(f, h) = SectorState(f, h)
         /\ FoundState(f, h) # "EMPTY"
<1>1. CASE Headed(f, h)
  <2>1. {t \in Sectors : FoundEmpty(f, t)} = {h}
    BY <1>1, FoundIs DEF Headed
  <2>2. NextSector(h) <= NextSector(h)
    BY NextSectorType, Counts DEF Sectors
  <2>3. FoundEmpty(f, h) /\ SectorState(f, h) # "EMPTY"
    BY <1>1, FoundIs, StateIs DEF Headed
  <2> QED
    BY <2>1, <2>2, <2>3 DEF IsHead, FoundState
<1>2. CASE Full(f, h)
  <2>1. {t \in Sectors : FoundEmpty(f, t)} = {}
    BY <1>2, FoundIs DEF Full
  <2>2. ASSUME NEW t \in Sectors, FoundClosed(f, t) PROVE t = h
    <3>1. NextSector(t) \in Sectors /\ InUse(f, NextSector(t)) /\ ~Closed(f, NextSector(t))
      BY <2>2, FoundIs, NextSectorType
    <3>2. NextSector(t) = NextSector(h)
      BY <1>2, <3>1 DEF Full
    <3> QED
      BY <3>2, NextSectorInjective
  <2>3. FoundClosed(f, h) /\ SectorState(f, h) # "EMPTY"
    BY <1>2, FoundIs, StateIs DEF Full
  <2>4. {t \in Sectors : FoundClosed(f, t)} = {h}
    BY <2>2, <2>3
  <2>5. NextSector(h) <= NextSector(h)
    BY NextSectorType, Counts DEF Sectors
  <2> QED
    BY <2>1, <2>3, <2>4, <2>5 DEF IsHead, FoundState
<1> QED
  BY <1>1, <1>2

\* On an empty flash it starts at the first sector.
LEMMA BlankFound ==
  ASSUME NEW f, Blank(f)
  PROVE  /\ \A s \in Sectors : IsHead(f, s) <=> s = 0
         /\ \A s \in Sectors : FoundState(f, s) = "EMPTY"
<1>1. \A s \in Sectors : ~FoundEmpty(f, s) /\ ~FoundClosed(f, s)
  BY FoundIs, StateIs DEF Blank
<1>2. {t \in Sectors : FoundEmpty(f, t)} = {} /\ {t \in Sectors : FoundClosed(f, t)} = {}
  BY <1>1
<1> QED
  BY <1>1, <1>2 DEF IsHead, FoundState

\* What a restart scans is what the sectors hold.
LEMMA TablesAreLives ==
  ASSUME NEW f \in Sounds, NEW h \in Sectors
  PROVE  [n \in 0..SectorCount - 2 |-> Table(f[Before(h, n)])] = Lives(f, h)
<1>1. ASSUME NEW n \in Places PROVE Table(f[Before(h, n)]) = Live(f[Before(h, n)])
  <2>1. Before(h, n) \in Sectors
    BY BeforeType, Counts DEF Places
  <2> QED
    BY <2>1, TableIsLive DEF Sounds
<1> QED
  BY <1>1 DEF Lives, Places

\* What the flash holds is what is found from the head.
LEMMA StoredByHead ==
  ASSUME NEW f \in Sounds, NEW h \in Sectors, Headed(f, h) \/ Full(f, h)
  PROVE  StoredIn(f) = Stored(f, h)
<1> DEFINE head == CHOOSE s \in Sectors : IsHead(f, s)
<1>1. head = h
  BY HeadFound
<1>2. FoundState(f, head) # "EMPTY"
  BY <1>1, HeadFound
<1>3. StoredIn(f) = [i \in Ids |-> Newest(f, i, head,
                                         [n \in 0..SectorCount - 2 |-> Table(f[Before(head, n)])])]
  BY <1>2 DEF StoredIn
<1> HIDE DEF head
<1> QED
  BY <1>1, <1>3, TablesAreLives DEF Stored, At

\* An empty flash holds nothing.
LEMMA StoredBlank ==
  ASSUME NEW f, Blank(f)
  PROVE  /\ StoredIn(f) = [i \in Ids |-> << >>]
         /\ \A h \in Sectors : Stored(f, h) = [i \in Ids |-> << >>]
<1>1. StoredIn(f) = [i \in Ids |-> << >>]
  <2> DEFINE head == CHOOSE s \in Sectors : IsHead(f, s)
  <2>1. head \in Sectors
    <3>1. 0 \in Sectors
      BY Counts DEF Sectors
    <3> QED
      BY <3>1, BlankFound
  <2>2. FoundState(f, head) = "EMPTY"
    <3> HIDE DEF head
    <3> QED
      BY <2>1, BlankFound
  <2> QED
    BY <2>2 DEF StoredIn
<1>2. ASSUME NEW h \in Sectors, NEW i PROVE At(f, h, i) = << >>
  <2>1. ASSUME NEW n \in Places, NEW o, Holds(f, h, i, n, o) PROVE FALSE
    <3>1. Before(h, n) \in Sectors
      BY BeforeType, Counts DEF Places
    <3> QED
      BY <2>1, <3>1 DEF Blank, InUse, Holds, Live
  <2> QED
    BY <2>1, NoneAt DEF None
<1> QED
  BY <1>1, <1>2 DEF Stored

\* Whatever the shape, a restart finds a value for every id: a head is always found.
LEMMA StoredType ==
  ASSUME NEW f \in Sounds
  PROVE  StoredIn(f) \in [Ids -> {<< >>} \cup {Payload(c) : c \in Contents}]
<1> DEFINE head == CHOOSE s \in Sectors : IsHead(f, s)
<1> DEFINE empty == {t \in Sectors : FoundEmpty(f, t)}
<1> DEFINE found == IF empty # {} THEN empty ELSE {t \in Sectors : FoundClosed(f, t)}
<1>1. \E s \in Sectors : IsHead(f, s)
  <2>1. CASE found = {}
    <3>1. 0 \in Sectors
      BY Counts DEF Sectors
    <3> QED
      BY <2>1, <3>1 DEF IsHead
  <2>2. CASE found # {}
    <3> DEFINE nexts == {NextSector(t) : t \in found}
    <3>0. found \subseteq Sectors
      OBVIOUS
    <3>1. nexts # {} /\ nexts \subseteq 0..SectorCount /\ SectorCount \in Nat
      <4> HIDE DEF found
      <4>1. \A t \in found : NextSector(t) \in 0..SectorCount - 1
        BY <3>0, NextSectorType DEF Sectors
      <4> QED
        BY <2>2, <4>1, Counts
    <3>2. PICK m \in nexts : \A n \in nexts : n <= m
      <4> HIDE DEF nexts
      <4> QED
        BY <3>1, GreatestExists
    <3>3. PICK s \in found : m = NextSector(s)
      BY <3>2
    <3>4. \A t \in found : NextSector(t) <= NextSector(s)
      <4>1. \A t \in found : NextSector(t) \in nexts
        OBVIOUS
      <4> HIDE DEF nexts, found
      <4> QED
        BY <3>2, <3>3, <4>1
    <3> QED
      BY <2>2, <3>0, <3>3, <3>4 DEF IsHead
  <2> QED
    BY <2>1, <2>2
<1>2. head \in Sectors
  BY <1>1
<1>3. StoredIn(f) = IF FoundState(f, head) = "EMPTY" THEN [i \in Ids |-> << >>]
                    ELSE [i \in Ids |-> Newest(f, i, head,
                                [n \in 0..SectorCount - 2 |-> Table(f[Before(head, n)])])]
  BY DEF StoredIn
<1> HIDE DEF head
<1>4. [n \in 0..SectorCount - 2 |-> Table(f[Before(head, n)])] = Lives(f, head)
  BY <1>2, TablesAreLives
<1>5. \A i : At(f, head, i) \in {<< >>} \cup {Payload(c) : c \in Contents}
  BY <1>2, AtType
<1> QED
  BY <1>3, <1>4, <1>5 DEF At

\* the shapes the sectors can have while the storage is not being cleared
Ring(f) == Blank(f) \/ \E h \in Sectors : Headed(f, h) \/ Full(f, h)

\* ... and while no collection has begun to fill the sector behind the head
Short(f) == Blank(f) \/ \E h \in Sectors : Headed(f, h)

\* the current sector is the head, or the unused one behind it
Settled(f, s) ==
  \/ ~InUse(f, s) /\ Blank(f)
  \/ \E h \in Sectors : NextSector(h) = s /\ Closed(f, h) /\ Headed(f, h)
  \/ Headed(f, s)

\* h is closed and the next sector takes the entries that are collected
Gathering(f, h) == Closed(f, h) /\ (Headed(f, h) \/ Full(f, h))

\* only sector s may differ
SameBut(f, g, s) == \A t \in Sectors : t # s => g[t] = f[t]

\* No place in reach is that of the next sector.
LEMMA ReachOther ==
  ASSUME NEW h \in Sectors, NEW n \in Places
  PROVE  Before(h, n) \in Sectors /\ Before(h, n) # NextSector(h)
<1>1. n \in 0..SectorCount - 1 /\ SectorCount - 1 \in 0..SectorCount - 1 /\ n # SectorCount - 1
  BY Counts DEF Places
<1> QED
  BY <1>1, BeforeType, BeforeLast, BeforeOther

\* A place in reach other than the first is not that of the sector itself.
LEMMA ReachBehind ==
  ASSUME NEW h \in Sectors, NEW n \in Places, n # 0
  PROVE  Before(h, n) # h
<1>1. n \in 0..SectorCount - 1 /\ 0 \in 0..SectorCount - 1
  BY Counts DEF Places
<1> QED
  BY <1>1, BeforeZero, BeforeOther

\* Sectors that keep their states keep the shape.
LEMMA SameShape ==
  ASSUME NEW f, NEW g,
         \A s \in Sectors : (InUse(g, s) <=> InUse(f, s)) /\ (Closed(g, s) <=> Closed(f, s))
  PROVE  /\ Blank(g) <=> Blank(f)
         /\ \A h \in Sectors : (Headed(g, h) <=> Headed(f, h)) /\ (Full(g, h) <=> Full(f, h))
         /\ \A s \in Sectors : Settled(g, s) <=> Settled(f, s)
         /\ Ring(g) <=> Ring(f)
<1>0. \A s \in Sectors : NextSector(s) \in Sectors
  BY NextSectorType
<1>1. Blank(g) <=> Blank(f)
  BY DEF Blank
<1>2. ASSUME NEW h \in Sectors
      PROVE  (Headed(g, h) <=> Headed(f, h)) /\ (Full(g, h) <=> Full(f, h))
  BY <1>0 DEF Headed, Full
<1> QED
  BY <1>1, <1>2 DEF Settled, Ring

\* Using the current sector makes it the head.
LEMMA UseHere ==
  ASSUME NEW f, NEW g, NEW s \in Sectors, Settled(f, s), ~InUse(f, NextSector(s)),
         SameBut(f, g, s), InUse(g, s)
  PROVE  Headed(g, s)
<1>0. NextSector(s) \in Sectors /\ NextSector(s) # s
  BY NextSectorType, NextSectorOther
<1>1. \A t \in Sectors : t # s =>
        (InUse(g, t) <=> InUse(f, t)) /\ (Closed(g, t) <=> Closed(f, t))
  BY DEF SameBut, InUse, Closed
<1>2. ~InUse(g, NextSector(s))
  BY <1>0, <1>1
<1>3. ASSUME NEW t \in Sectors, t # s, InUse(g, t)
      PROVE  Closed(g, t) /\ InUse(g, NextSector(t))
  <2>1. InUse(f, t) /\ NextSector(t) \in Sectors
    BY <1>1, <1>3, NextSectorType
  <2>2. Closed(f, t) /\ (InUse(f, NextSector(t)) \/ NextSector(t) = s)
    BY <1>3, <2>1 DEF Settled, Blank, Headed
  <2> QED
    BY <1>1, <1>3, <2>1, <2>2
<1> QED
  BY <1>2, <1>3 DEF Headed

\* Copying an entry of the tail opens the sector behind the head.
LEMMA UseBehind ==
  ASSUME NEW f, NEW g, NEW h \in Sectors, Gathering(f, h),
         InUse(f, NextSector(NextSector(h))), SameBut(f, g, NextSector(h)),
         InUse(g, NextSector(h)), ~Closed(g, NextSector(h))
  PROVE  Gathering(g, h) /\ Full(g, h)
<1> DEFINE s == NextSector(h)
<1>0. s \in Sectors /\ s # h /\ NextSector(s) \in Sectors /\ NextSector(s) # s
  BY NextSectorType, NextSectorOther
<1>1. \A t \in Sectors : t # s =>
        (InUse(g, t) <=> InUse(f, t)) /\ (Closed(g, t) <=> Closed(f, t))
  BY DEF SameBut, InUse, Closed
<1>2. ASSUME NEW t \in Sectors, InUse(g, t)
      PROVE  InUse(g, NextSector(t)) /\ (t # s => Closed(g, t))
  <2>0. NextSector(t) \in Sectors
    BY NextSectorType
  <2>1. CASE t = s
    BY <1>0, <1>1, <2>1
  <2>2. CASE t # s
    <3>1. InUse(f, t)
      BY <1>1, <1>2, <2>2
    <3>2. Closed(f, t) /\ (InUse(f, NextSector(t)) \/ NextSector(t) = s)
      BY <2>2, <3>1 DEF Gathering, Headed, Full
    <3> QED
      BY <1>1, <2>0, <2>2, <3>2
  <2> QED
    BY <2>1, <2>2
<1>3. Closed(g, h)
  BY <1>0, <1>1 DEF Gathering
<1> QED
  BY <1>2, <1>3 DEF Gathering, Full

\* Emptying a sector keeps an empty flash empty.
LEMMA EmptyBlank ==
  ASSUME NEW f, NEW g, NEW e \in Sectors, Blank(f), SameBut(f, g, e), ~InUse(g, e)
  PROVE  Blank(g)
BY DEF Blank, SameBut, InUse

\* Of three sectors, the one that is neither the head nor behind it is before the head.
LEMMA ThirdSector ==
  ASSUME SectorCount <= 3, NEW h \in Sectors, NEW s \in Sectors, s # h, s # NextSector(h)
  PROVE  NextSector(s) = h
BY Counts DEF Sectors, NextSector

\* Of three sectors any may be emptied: what remains has a head, if anything remains.
LEMMA EmptyAny ==
  ASSUME SectorCount <= 3, NEW f, NEW g, NEW e \in Sectors, Short(f), SameBut(f, g, e),
         ~InUse(g, e)
  PROVE  Short(g)
<1>1. \A t \in Sectors : t # e => (InUse(g, t) <=> InUse(f, t)) /\ (Closed(g, t) <=> Closed(f, t))
  BY DEF SameBut, InUse, Closed
<1>2. CASE Blank(f)
  BY <1>2, EmptyBlank DEF Short
<1>3. ASSUME NEW h \in Sectors, Headed(f, h) PROVE Short(g)
  <2>1. /\ InUse(f, h) /\ ~InUse(f, NextSector(h)) /\ NextSector(h) \in Sectors
        /\ \A s \in Sectors : s # h /\ InUse(f, s) => Closed(f, s) /\ NextSector(s) = h
    BY <1>3, NextSectorType, ThirdSector DEF Headed
  <2>2. CASE e # h
    <3>1. Headed(g, h)
      BY <1>1, <2>1, <2>2 DEF Headed
    <3> QED
      BY <3>1 DEF Short
  <2>3. CASE e = h /\ \E s \in Sectors : InUse(g, s)
    <3>1. PICK s \in Sectors : InUse(g, s)
      BY <2>3
    <3>2. NextSector(s) = h /\ s # h
      BY <1>1, <2>1, <2>3, <3>1
    <3>3. \A t \in Sectors : t # s => ~InUse(g, t)
      <4>1. ASSUME NEW t \in Sectors, InUse(g, t) PROVE t = s
        <5>1. NextSector(t) = h
          BY <1>1, <2>1, <2>3, <4>1
        <5> QED
          BY <3>2, <5>1, NextSectorInjective
      <4> QED
        BY <4>1
    <3>4. Headed(g, s)
      BY <2>3, <3>1, <3>2, <3>3 DEF Headed
    <3> QED
      BY <3>4 DEF Short
  <2>4. CASE \A s \in Sectors : ~InUse(g, s)
    BY <2>4 DEF Short, Blank
  <2> QED
    BY <2>2, <2>3, <2>4
<1> QED
  BY <1>2, <1>3 DEF Short

\* Emptying the sector behind the head, which the constructor does, leaves the head.
LEMMA EmptyBehind ==
  ASSUME NEW f, NEW g, NEW h \in Sectors, Headed(f, h) \/ Full(f, h),
         SameBut(f, g, NextSector(h)), ~InUse(g, NextSector(h))
  PROVE  Headed(g, h) /\ (Closed(g, h) <=> Closed(f, h))
<1> DEFINE e == NextSector(h)
<1>0. e \in Sectors /\ e # h
  BY NextSectorType, NextSectorOther
<1>1. \A t \in Sectors : t # e =>
        (InUse(g, t) <=> InUse(f, t)) /\ (Closed(g, t) <=> Closed(f, t))
  BY DEF SameBut, InUse, Closed
<1>2. InUse(g, h) /\ (Closed(g, h) <=> Closed(f, h))
  <2>1. InUse(f, h)
    BY StateIs DEF Headed, Full
  <2> QED
    BY <1>0, <1>1, <2>1
<1>3. ASSUME NEW t \in Sectors, t # h, InUse(g, t)
      PROVE  Closed(g, t) /\ InUse(g, NextSector(t))
  <2>1. t # e
    BY <1>3
  <2>2. NextSector(t) \in Sectors /\ NextSector(t) # e
    BY <1>3, NextSectorType, NextSectorInjective
  <2>3. Closed(f, t) /\ InUse(f, NextSector(t))
    BY <1>1, <1>3, <2>1 DEF Headed, Full
  <2> QED
    BY <1>1, <2>1, <2>2, <2>3
<1> QED
  BY <1>2, <1>3 DEF Headed

\* Emptying the tail makes the sector that took its entries the head, or leaves the
\* head when there was nothing to take.
LEMMA EmptyTail ==
  ASSUME NEW f, NEW g, NEW h \in Sectors, Gathering(f, h),
         SameBut(f, g, NextSector(NextSector(h))), ~InUse(g, NextSector(NextSector(h)))
  PROVE  /\ Settled(g, NextSector(h))
         /\ Full(f, h) => Headed(g, NextSector(h))
         /\ Headed(f, h) => Headed(g, h) \/ Blank(g)
<1> DEFINE s == NextSector(h)
<1> DEFINE e == NextSector(s)
<1>0. s \in Sectors /\ s # h /\ e \in Sectors /\ e # s
  BY NextSectorType, NextSectorOther
<1>1. \A t \in Sectors : t # e =>
        (InUse(g, t) <=> InUse(f, t)) /\ (Closed(g, t) <=> Closed(f, t))
  BY DEF SameBut, InUse, Closed
<1>2. CASE Full(f, h)
  <2>1. InUse(g, s) /\ ~InUse(g, e) /\ ~Closed(f, s)
    BY <1>0, <1>1, <1>2 DEF Full
  <2>2. ASSUME NEW t \in Sectors, t # s, InUse(g, t)
        PROVE  Closed(g, t) /\ InUse(g, NextSector(t))
    <3>1. t # e
      BY <2>1, <2>2
    <3>2. NextSector(t) \in Sectors /\ NextSector(t) # e
      BY <1>0, <2>2, NextSectorType, NextSectorInjective
    <3>3. Closed(f, t) /\ InUse(f, NextSector(t))
      BY <1>1, <1>2, <2>2, <3>1 DEF Full
    <3> QED
      BY <1>1, <3>1, <3>2, <3>3
  <2>3. Headed(g, s)
    BY <2>1, <2>2 DEF Headed
  <2>4. ~Headed(f, h)
    BY <1>2 DEF Full, Headed
  <2> QED
    BY <2>3, <2>4 DEF Settled
<1>3. CASE Headed(f, h) /\ e = h
  <2>1. ASSUME NEW t \in Sectors, InUse(g, t) PROVE FALSE
    <3>1. t # h
      BY <1>3, <2>1
    <3>2. InUse(f, t)
      BY <1>1, <1>3, <2>1, <3>1
    <3>3. SectorCount = 2
      BY <1>0, <1>3, Counts DEF NextSector, Sectors
    <3>4. t = s
      BY <1>0, <3>1, <3>3 DEF Sectors
    <3> QED
      BY <1>3, <3>2, <3>4 DEF Headed
  <2>2. Blank(g) /\ ~InUse(g, s) /\ ~Full(f, h)
    BY <1>0, <1>3, <2>1 DEF Blank, Full, Headed
  <2> QED
    BY <2>2 DEF Settled
<1>4. CASE Headed(f, h) /\ e # h
  <2>1. InUse(g, h) /\ Closed(g, h) /\ ~InUse(g, s) /\ ~InUse(f, s)
    BY <1>0, <1>1, <1>4 DEF Gathering, Headed
  <2>2. ASSUME NEW t \in Sectors, t # h, InUse(g, t)
        PROVE  Closed(g, t) /\ InUse(g, NextSector(t))
    <3>1. t # e
      BY <2>1, <2>2
    <3>2. InUse(f, t) /\ Closed(f, t) /\ InUse(f, NextSector(t))
      BY <1>1, <1>4, <2>2, <3>1 DEF Headed
    <3>3. NextSector(t) \in Sectors /\ NextSector(t) # e
      <4>1. NextSector(t) = e => t = s
        BY <1>0, NextSectorInjective
      <4> QED
        BY <2>1, <3>2, <4>1, NextSectorType
    <3> QED
      BY <1>1, <3>1, <3>2, <3>3
  <2>3. Headed(g, h)
    BY <2>1, <2>2 DEF Headed
  <2>4. ~Full(f, h)
    BY <2>1 DEF Full
  <2> QED
    BY <2>1, <2>3, <2>4 DEF Settled
<1> QED
  BY <1>2, <1>3, <1>4 DEF Gathering

-----------------------------------------------------------------------------
(* What the steps do to the stored data *)

\* Seen from the current sector the data is that which a restart finds.
LEMMA SettledStored ==
  ASSUME NEW f \in Sounds, NEW s \in Sectors, Settled(f, s), ~InUse(f, NextSector(s))
  PROVE  StoredIn(f) = Stored(f, s)
<1>1. CASE Blank(f)
  BY <1>1, StoredBlank
<1>2. CASE Headed(f, s)
  BY <1>2, StoredByHead
<1>3. ASSUME NEW h \in Sectors, NextSector(h) = s, Headed(f, h)
      PROVE  StoredIn(f) = Stored(f, s)
  <2>1. Live(f[s]) = {} /\ Live(f[NextSector(s)]) = {}
    BY <1>3 DEF Headed, InUse, Live
  <2>2. Stored(f, s) = Stored(f, h)
    BY <1>3, <2>1, StepOn
  <2> QED
    BY <1>3, <2>2, StoredByHead
<1> QED
  BY <1>1, <1>2, <1>3 DEF Settled

\* A scan up to the close entry finds all entries of the sectors behind the head.
LEMMA ScanInReach ==
  ASSUME NEW f \in Sounds, NEW h \in Sectors, Headed(f, h) \/ Full(f, h), NEW n \in Places,
         n # 0 \/ Closed(f, h)
  PROVE  ClosedTable(f[Before(h, n)]) = Live(f[Before(h, n)])
<1> DEFINE s == Before(h, n)
<1>1. s \in Sectors /\ s # NextSector(h)
  BY ReachOther
<1>2. s = h => Closed(f, h)
  BY ReachBehind
<1>3. InUse(f, s) => Closed(f, s)
  BY <1>1, <1>2 DEF Headed, Full
<1>4. f[s][0] # Empty \/ f[s][1] = Empty
  BY <1>3 DEF InUse, Closed, Unused
<1>5. f[s] \in Sector /\ Sound(f[s])
  BY <1>1 DEF Sounds
<1> HIDE DEF s
<1>6. ClosedTable(f[s]) = Live(f[s])
  BY <1>4, <1>5, ClosedTableIsLive
<1> QED
  BY <1>6 DEF s

\* What keeps the entries of all sectors but the one behind the head keeps the data.
LEMMA SameInReach ==
  ASSUME NEW f \in Sounds, NEW g \in Sounds, NEW h \in Sectors,
         Headed(f, h) \/ Full(f, h), Headed(g, h) \/ Full(g, h),
         \A s \in Sectors : s # NextSector(h) => SameEntries(f[s], g[s])
  PROVE  StoredIn(g) = StoredIn(f)
<1>1. \A n \in Places : SameEntries(f[Before(h, n)], g[Before(h, n)])
  BY ReachOther
<1>2. Stored(g, h) = Stored(f, h)
  BY <1>1, SameTables
<1> QED
  BY <1>2, StoredByHead

\* A sector has the same entries as itself.
LEMMA SameIsSame ==
  ASSUME NEW x PROVE SameEntries(x, x)
BY DEF SameEntries

\* Writing to the current sector without a new entry keeps the data.
LEMMA SameHere ==
  ASSUME NEW f \in Sounds, NEW g \in Sounds, NEW s \in Sectors,
         Settled(f, s), ~InUse(f, NextSector(s)), Settled(g, s), SameBut(f, g, s),
         SameEntries(f[s], g[s])
  PROVE  StoredIn(g) = StoredIn(f)
<1>1. \A t \in Sectors : SameEntries(f[t], g[t])
  BY SameIsSame DEF SameBut
<1>2. \A n \in Places : SameEntries(f[Before(s, n)], g[Before(s, n)])
  BY <1>1, ReachOther
<1>3. Stored(g, s) = Stored(f, s)
  BY <1>2, SameTables
<1>4. ~InUse(g, NextSector(s))
  BY NextSectorType, NextSectorOther DEF SameBut, InUse
<1> QED
  BY <1>3, <1>4, SettledStored

\* A new entry at the end of the current sector changes the data of its id.
LEMMA NewEntry ==
  ASSUME NEW f \in Sounds, NEW g \in Sounds, NEW s \in Sectors,
         Headed(f, s), Headed(g, s), SameBut(f, g, s), NEW o \in 1..SectorSize - 1,
         Live(g[s]) = Live(f[s]) \cup {o},
         \A p \in Live(f[s]) : p < o /\ g[s][p] = f[s][p] /\ Content(g[s], p) = Content(f[s], p)
  PROVE  StoredIn(g) = [StoredIn(f) EXCEPT ![g[s][o].id] = Content(g[s], o)]
<1>0. /\ 0 \in Places /\ Before(s, 0) = s
      /\ \A n \in Places : n # 0 => g[Before(s, n)] = f[Before(s, n)]
  <2>1. \A n \in Places : n # 0 => Before(s, n) \in Sectors /\ Before(s, n) # s
    BY ReachOther, ReachBehind
  <2> QED
    BY <2>1, BeforeZero, Counts DEF Places, SameBut
<1>1. ASSUME NEW i, NEW n \in Places, NEW p
      PROVE  Holds(g, s, i, n, p) <=>
               Holds(f, s, i, n, p) \/ (n = 0 /\ p = o /\ g[s][o].id = i)
  <2>1. CASE n = 0
    BY <1>0, <2>1 DEF Holds
  <2>2. CASE n # 0
    BY <1>0, <2>2 DEF Holds
  <2> QED
    BY <2>1, <2>2
<1>2. ASSUME NEW i, NEW n \in Places, NEW p, Holds(f, s, i, n, p)
      PROVE  n = 0 => p < o /\ p \in 1..SectorSize - 1
  BY <1>0, <1>2, LiveRange DEF Holds
<1>3. ASSUME NEW i \in Ids, i = g[s][o].id PROVE At(g, s, i) = Content(g[s], o)
  <2>1. Holds(g, s, i, 0, o)
    BY <1>0, <1>1, <1>3
  <2>2. ASSUME NEW m \in Places, NEW p \in 1..SectorSize - 1, Holds(g, s, i, m, p)
        PROVE  0 < m \/ (0 = m /\ p <= o)
    <3>1. m = 0 => p = o \/ p < o
      BY <1>1, <1>2, <2>2
    <3> QED
      BY <3>1, Counts DEF Places
  <2>3. IsNewest(g, s, i, 0, o)
    BY <2>1, <2>2 DEF IsNewest
  <2> QED
    BY <1>0, <2>3, NewestAt
<1>4. ASSUME NEW i \in Ids, i # g[s][o].id PROVE At(g, s, i) = At(f, s, i)
  <2>1. \A n \in Places : \A p : Holds(g, s, i, n, p) <=> Holds(f, s, i, n, p)
    BY <1>1, <1>4
  <2>2. None(f, s, i) => None(g, s, i)
    BY <2>1 DEF None
  <2>3. ASSUME NEW n \in Places, NEW p \in 1..SectorSize - 1, IsNewest(f, s, i, n, p)
        PROVE  /\ IsNewest(g, s, i, n, p)
               /\ Content(g[Before(s, n)], p) = Content(f[Before(s, n)], p)
    <3>1. IsNewest(g, s, i, n, p)
      BY <2>1, <2>3 DEF IsNewest
    <3>2. p \in Live(f[Before(s, n)])
      BY <2>3 DEF IsNewest, Holds
    <3>3. Content(g[Before(s, n)], p) = Content(f[Before(s, n)], p)
      BY <1>0, <3>2
    <3> QED
      BY <3>1, <3>3
  <2> QED
    BY <2>2, <2>3, SameAt
<1>5. StoredIn(f) = Stored(f, s) /\ StoredIn(g) = Stored(g, s)
  BY StoredByHead
<1> QED
  BY <1>3, <1>4, <1>5 DEF Stored

\* seen from h, the entry in cell o of the tail is followed by one for its id
Outdated(f, h, o) ==
  LET tail == f[NextSector(NextSector(h))]
  IN \/ \E p \in Live(tail) : p > o /\ tail[p].id = tail[o].id
     \/ \E m \in Places : /\ m # SectorCount - 2
                          /\ \E p \in Live(f[Before(h, m)]) : f[Before(h, m)][p].id = tail[o].id

\* An outdated entry is not the newest one; the others are.
LEMMA OutdatedIsOld ==
  ASSUME NEW f, NEW h \in Sectors, NEW o \in Live(f[NextSector(NextSector(h))])
  PROVE  LET i == f[NextSector(NextSector(h))][o].id
         IN Outdated(f, h, o) <=> ~IsNewest(f, h, i, SectorCount - 2, o)
<1> DEFINE last == SectorCount - 2
<1> DEFINE tail == NextSector(NextSector(h))
<1> DEFINE i == f[tail][o].id
<1>0. last \in Places /\ Before(h, last) = tail /\ \A m \in Places : m = last \/ m < last
  BY BeforeTail, Counts DEF Places
<1> HIDE DEF last, tail
<1>1. Holds(f, h, i, last, o)
  BY <1>0 DEF Holds, tail
<1>2. ASSUME Outdated(f, h, o), IsNewest(f, h, i, last, o) PROVE FALSE
  <2>1. CASE \E p \in Live(f[tail]) : p > o /\ f[tail][p].id = i
    <3>1. PICK p \in Live(f[tail]) : p > o /\ f[tail][p].id = i
      BY <2>1
    <3>2. Holds(f, h, i, last, p)
      BY <1>0, <3>1 DEF Holds
    <3>3. p \in 1..SectorSize - 1 /\ o \in 1..SectorSize - 1
      BY <1>1, <3>2, HoldsRange
    <3>4. last < last \/ (last = last /\ p <= o)
      BY <1>0, <1>2, <3>2, <3>3 DEF IsNewest
    <3>5. last \in Int
      BY Counts DEF last
    <3> QED
      BY <3>1, <3>3, <3>4, <3>5
  <2>2. CASE \E m \in Places : /\ m # last
                               /\ \E p \in Live(f[Before(h, m)]) : f[Before(h, m)][p].id = i
    <3>1. PICK m \in Places : /\ m # last
                              /\ \E p \in Live(f[Before(h, m)]) : f[Before(h, m)][p].id = i
      BY <2>2
    <3>2. PICK p \in Live(f[Before(h, m)]) : f[Before(h, m)][p].id = i
      BY <3>1
    <3>3. Holds(f, h, i, m, p)
      BY <3>2 DEF Holds
    <3>4. last < m \/ (last = m /\ p <= o)
      BY <1>2, <3>3, HoldsRange DEF IsNewest
    <3>5. last \in Int /\ m \in Int
      BY Counts DEF last, Places
    <3> QED
      BY <1>0, <3>1, <3>4, <3>5
  <2> QED
    BY <1>2, <2>1, <2>2 DEF Outdated, last, tail
<1>3. ASSUME ~Outdated(f, h, o) PROVE IsNewest(f, h, i, last, o)
  <2>1. ASSUME NEW m \in Places, NEW p \in 1..SectorSize - 1, Holds(f, h, i, m, p)
        PROVE  last < m \/ (last = m /\ p <= o)
    <3>1. CASE m = last
      <4>1. p \in Live(f[tail]) /\ f[tail][p].id = i
        BY <1>0, <2>1, <3>1 DEF Holds
      <4>2. ~(p > o)
        BY <1>3, <4>1 DEF Outdated, tail
      <4>3. o \in 1..SectorSize - 1
        BY <1>1, HoldsRange
      <4> QED
        BY <3>1, <4>2, <4>3
    <3>2. CASE m # last
      BY <1>3, <2>1, <3>2 DEF Outdated, Holds, last, tail
    <3> QED
      BY <3>1, <3>2
  <2> QED
    BY <1>1, <2>1 DEF IsNewest
<1> QED
  BY <1>2, <1>3 DEF last, tail

\* what the collection of the tail seen from h has done: the entries it wrote hold the
\* current data, and the entries of the tail below g are outdated or written
Collected(f, h, g) ==
  LET here == f[NextSector(h)]
      tail == f[NextSector(NextSector(h))]
  IN /\ \A p \in Live(here) : Content(here, p) = At(f, h, here[p].id)
     /\ \A o \in Live(tail) :
          o < g => Outdated(f, h, o) \/ \E p \in Live(here) : here[p].id = tail[o].id

\* When all entries of the tail are outdated or copied, emptying it keeps the data.
LEMMA EmptyTailStored ==
  ASSUME NEW f \in Sounds, NEW g \in Sounds, NEW h \in Sectors, Gathering(f, h),
         Collected(f, h, SectorSize),
         SameBut(f, g, NextSector(NextSector(h))), ~InUse(g, NextSector(NextSector(h)))
  PROVE  StoredIn(g) = StoredIn(f)
<1> DEFINE s == NextSector(h)
<1> DEFINE e == NextSector(s)
<1> DEFINE last == SectorCount - 2
<1>0. /\ s \in Sectors /\ e \in Sectors /\ e # s /\ s # h
      /\ last \in Places /\ Before(h, last) = e
      /\ \A m \in Places : m # last => m < last /\ m + 1 \in Places
  BY NextSectorType, NextSectorOther, BeforeTail, Counts DEF Places
<1>1. StoredIn(f) = Stored(f, h)
  BY StoredByHead DEF Gathering
<1>2. Live(g[e]) = {} /\ \A t \in Sectors : t # e => g[t] = f[t]
  BY DEF SameBut, InUse, Live
<1>3. ASSUME NEW n \in Places, n # last
      PROVE  Before(h, n) \in Sectors /\ Before(h, n) # e /\ g[Before(h, n)] = f[Before(h, n)]
  <2>1. n \in 0..SectorCount - 1 /\ last \in 0..SectorCount - 1
    BY Counts DEF Places
  <2>2. Before(h, n) # e
    BY <1>0, <1>3, <2>1, BeforeOther
  <2>3. Before(h, n) \in Sectors
    BY <2>1, BeforeType
  <2> QED
    BY <1>2, <2>2, <2>3
<1>4. \A o \in Live(f[e]) : Outdated(f, h, o) \/ \E p \in Live(f[s]) : f[s][p].id = f[e][o].id
  <2>1. \A o \in Live(f[e]) : o < SectorSize
    BY LiveRange, Counts
  <2> QED
    BY <2>1 DEF Collected
<1>5. ASSUME NEW i, NEW o, IsNewest(f, h, i, last, o)
      PROVE  \E p \in Live(f[s]) : f[s][p].id = i
  <2>1. o \in Live(f[e]) /\ f[e][o].id = i
    BY <1>0, <1>5 DEF IsNewest, Holds
  <2>2. ~Outdated(f, h, o)
    BY <1>5, <2>1, OutdatedIsOld
  <2> QED
    BY <1>4, <2>1, <2>2
<1>6. CASE Headed(f, h)
  <2>1. Live(f[s]) = {}
    BY <1>6 DEF Headed, InUse, Live
  <2>2. ASSUME NEW i, NEW n \in Places, NEW p, n # last
        PROVE  Holds(g, h, i, n, p) <=> Holds(f, h, i, n, p)
    BY <1>3, <2>2 DEF Holds
  <2>3. ASSUME NEW i, NEW p PROVE ~Holds(g, h, i, last, p)
    BY <1>0, <1>2 DEF Holds
  <2>4. ASSUME NEW i \in Ids PROVE At(g, h, i) = At(f, h, i)
    <3>1. None(f, h, i) => None(g, h, i)
      BY <2>2, <2>3 DEF None
    <3>2. ASSUME NEW n \in Places, NEW o \in 1..SectorSize - 1, IsNewest(f, h, i, n, o)
          PROVE  /\ IsNewest(g, h, i, n, o)
                 /\ Content(g[Before(h, n)], o) = Content(f[Before(h, n)], o)
      <4>1. n # last
        BY <1>5, <2>1, <3>2
      <4>2. IsNewest(g, h, i, n, o)
        BY <2>2, <2>3, <3>2, <4>1 DEF IsNewest
      <4> QED
        BY <1>3, <4>1, <4>2
    <3> QED
      BY <3>1, <3>2, SameAt
  <2>5. Stored(g, h) = Stored(f, h)
    BY <2>4 DEF Stored
  <2>6. Headed(g, h) \/ Blank(g)
    BY <1>6, EmptyTail
  <2>7. StoredIn(g) = Stored(g, h)
    BY <2>6, StoredByHead, StoredBlank
  <2> QED
    BY <1>1, <2>5, <2>7
<1>7. CASE Full(f, h)
  <2>1. StoredIn(g) = Stored(g, s)
    <3>1. Headed(g, s)
      BY <1>7, EmptyTail
    <3> QED
      BY <1>0, <3>1, StoredByHead
  <2>2. 0 \in Places /\ Before(s, 0) = s /\ g[s] = f[s]
    BY <1>0, <1>2, BeforeZero, Counts DEF Places
  <2>3. ASSUME NEW n \in Places, n # last
        PROVE  n + 1 \in Places /\ Before(s, n + 1) = Before(h, n)
    BY <1>0, <2>3, BeforeNext, Counts DEF Places
  <2>4. ASSUME NEW n \in Places, n # 0
        PROVE  n - 1 \in Places /\ n - 1 # last /\ n - 1 + 1 = n
    BY <2>4, Counts DEF Places
  <2>5. ASSUME NEW i, NEW n \in Places, n # last, NEW p
        PROVE  Holds(g, s, i, n + 1, p) <=> Holds(f, h, i, n, p)
    BY <1>3, <2>3, <2>5 DEF Holds
  <2>6. ASSUME NEW i, NEW p PROVE Holds(g, s, i, 0, p) <=> p \in Live(f[s]) /\ f[s][p].id = i
    BY <2>2 DEF Holds
  <2>7. ASSUME NEW i \in Ids PROVE At(g, s, i) = At(f, h, i)
    <3>1. CASE None(g, s, i)
      <4>1. ASSUME ~None(f, h, i) PROVE FALSE
        <5>1. PICK n \in Places, o \in 1..SectorSize - 1 : IsNewest(f, h, i, n, o)
          BY <4>1, SomeNewest
        <5>2. CASE n = last
          <6>1. PICK p \in Live(f[s]) : f[s][p].id = i
            BY <1>5, <5>1, <5>2
          <6>2. Holds(g, s, i, 0, p)
            BY <2>6, <6>1
          <6> QED
            BY <3>1, <6>2, HoldsRange DEF None
        <5>3. CASE n # last
          <6>1. Holds(g, s, i, n + 1, o) /\ n + 1 \in Places
            BY <2>3, <2>5, <5>1, <5>3 DEF IsNewest
          <6> QED
            BY <3>1, <6>1 DEF None
        <5> QED
          BY <5>2, <5>3
      <4> QED
        BY <3>1, <4>1, NoneAt
    <3>2. CASE ~None(g, s, i)
      <4>1. PICK n \in Places, o \in 1..SectorSize - 1 : IsNewest(g, s, i, n, o)
        BY <3>2, SomeNewest
      <4>2. At(g, s, i) = Content(g[Before(s, n)], o)
        BY <4>1, NewestAt
      <4>3. CASE n = 0
        <5>1. o \in Live(f[s]) /\ f[s][o].id = i
          BY <2>6, <4>1, <4>3 DEF IsNewest
        <5>2. Content(f[s], o) = At(f, h, i)
          BY <5>1 DEF Collected
        <5> QED
          BY <2>2, <4>2, <4>3, <5>2
      <4>4. CASE n # 0
        <5> DEFINE k == n - 1
        <5>1. k \in Places /\ k # last /\ n = k + 1 /\ Before(s, n) = Before(h, k)
          BY <2>3, <2>4, <4>4
        <5> HIDE DEF k
        <5>2. Holds(f, h, i, k, o)
          BY <2>5, <4>1, <5>1 DEF IsNewest
        <5>3. ASSUME NEW m \in Places, NEW p \in 1..SectorSize - 1, Holds(f, h, i, m, p)
              PROVE  k < m \/ (k = m /\ p <= o)
          <6>1. CASE m = last
            BY <1>0, <5>1, <6>1
          <6>2. CASE m # last
            <7>1. m + 1 \in Places /\ Holds(g, s, i, m + 1, p)
              BY <2>3, <2>5, <5>3, <6>2
            <7>2. n < m + 1 \/ (n = m + 1 /\ p <= o)
              BY <4>1, <7>1 DEF IsNewest
            <7>3. k \in Int /\ m \in Int
              BY <5>1, Counts DEF Places
            <7> QED
              BY <5>1, <7>2, <7>3
          <6> QED
            BY <6>1, <6>2
        <5>4. IsNewest(f, h, i, k, o)
          BY <5>2, <5>3 DEF IsNewest
        <5>5. At(f, h, i) = Content(f[Before(h, k)], o)
          BY <5>4, NewestAt
        <5>6. g[Before(h, k)] = f[Before(h, k)]
          BY <1>3, <5>1
        <5> QED
          BY <4>2, <5>1, <5>5, <5>6
      <4> QED
        BY <4>3, <4>4
    <3> QED
      BY <3>1, <3>2
  <2>8. Stored(g, s) = Stored(f, h)
    BY <2>7 DEF Stored
  <2> QED
    BY <1>1, <2>1, <2>8
<1> QED
  BY <1>6, <1>7 DEF Gathering

\* What the code asks about an entry of the tail is whether it is outdated.
LEMMA ContainsIsOutdated ==
  ASSUME flash \in Sounds, NEW h \in Sectors, Gathering(flash, h), sectorIndex = NextSector(h),
         NEW o
  PROVE  contains(TailSector, o) <=> Outdated(flash, h, o)
<1> DEFINE tail == NextSector(NextSector(h))
<1> DEFINE last == SectorCount - 2
<1>0. /\ TailSector = tail /\ last \in Places /\ Before(h, last) = tail
      /\ last = 0 => Closed(flash, h)
  BY BeforeTail, Counts DEF TailSector, Places, Gathering
<1>1. \A n \in Places : ClosedTable(flash[Before(h, n)]) = Live(flash[Before(h, n)])
  BY ScanInReach DEF Gathering
<1>2. ClosedTable(flash[tail]) = Live(flash[tail])
  BY <1>0, <1>1
<1>3. ASSUME NEW n \in 1..SectorCount - 2
      PROVE  /\ last - n \in Places /\ last - n # last
             /\ (tail + n) % SectorCount = Before(h, last - n)
  BY AfterTail, Counts DEF Places
<1>4. ASSUME NEW m \in Places, m # last
      PROVE  last - m \in 1..SectorCount - 2 /\ last - (last - m) = m
  BY <1>4, Counts DEF Places
<1> DEFINE Other(s) == \E p \in Live(flash[s]) : flash[s][p].id = flash[tail][o].id
<1>5. contains(TailSector, o) <=>
        \/ \E p \in Live(flash[tail]) : p > o /\ flash[tail][p].id = flash[tail][o].id
        \/ \E n \in 1..SectorCount - 2 : Other(Before(h, last - n))
  <2>1. \A n \in 1..SectorCount - 2 :
          ClosedTable(flash[(tail + n) % SectorCount]) = Live(flash[Before(h, last - n)])
          /\ (tail + n) % SectorCount = Before(h, last - n)
    BY <1>1, <1>3
  <2> HIDE DEF tail, last
  <2> QED
    BY <1>0, <1>2, <2>1 DEF contains
<1>6. Outdated(flash, h, o) <=>
        \/ \E p \in Live(flash[tail]) : p > o /\ flash[tail][p].id = flash[tail][o].id
        \/ \E m \in Places : m # last /\ Other(Before(h, m))
  BY DEF Outdated
<1> HIDE DEF tail, last, Other
<1>7. (\E n \in 1..SectorCount - 2 : Other(Before(h, last - n)))
        <=> (\E m \in Places : m # last /\ Other(Before(h, m)))
  BY <1>3, <1>4
<1> QED
  BY <1>5, <1>6, <1>7

-----------------------------------------------------------------------------
(* The invariant *)

\* What the theorems are about: cells can be programmed again, a page erases more than
\* the close entry, and with more than three sectors the power does not fail while
\* clearBlocking runs.
Reusable == ~BitsOnlyClear /\ PageSize >= 2 /\ (ClearMayFail => SectorCount <= 3)

\* the current sector
Here == flash[sectorIndex]

\* what the code is doing: appending a record, collecting the tail, or anything but
\* recovering and clearing
Writing == pc \in {"append", "entry"}
Collecting == pc = "gc" \/ (Writing /\ rec.copy)
Steady == {"ready", "full", "fit", "close", "append", "entry", "gc"}

\* where the data ends that is completely written
DataEnd == dataWriteOffset + (IF Writing THEN Len(rec.cells) ELSE 0)

\* the table of x goes up to e, and its data begins at w
Laid(x, e, w) ==
  /\ \A p \in 1..SectorSize - 1 : p < e => x[p] # Empty
  /\ \A o \in Entries(x) : o < e /\ w <= x[o].offset

\* The sectors hold what was written, in one of the shapes of a ring.
SectorsInv ==
  /\ flash \in Sounds
  /\ pc # "clear" => Ring(flash)

\* The current sector is at the end of the ring.
RingInv ==
  /\ pc = "format" => Blank(flash)
  /\ pc \in {"detect", "close"} => Headed(flash, sectorIndex)
  /\ pc \in {"ready", "full", "fit"} \/ (Writing /\ ~rec.copy) => Settled(flash, sectorIndex)
  /\ pc = "clear" /\ ClearMayFail => Short(flash)

\* The offsets are those of the current sector.
HereInv ==
  /\ pc \in Steady => Laid(Here, entryWriteOffset, DataEnd)
  /\ pc \in Steady \cup {"detect"} /\ pc # "close" => Here[0] = Empty
  /\ pc = "detect" =>
       /\ \A p \in 1..SectorSize - 1 : p < entryWriteOffset => Here[p] # Empty
       /\ \A o \in Entries(Here) : o < entryWriteOffset => dataWriteOffset <= Here[o].offset
       /\ \/ dataWriteOffset = SectorSize
          \/ \E o \in Entries(Here) : o < entryWriteOffset /\ dataWriteOffset = Here[o].offset
  /\ pc = "format" => entryWriteOffset = 1 /\ dataWriteOffset = SectorSize

\* The record in hand is that of the call or of the tail, and its cells are written up
\* to part.
RecInv ==
  Writing =>
    /\ \A n \in 1..rec.part : Here[dataWriteOffset + n - 1] = rec.cells[n]
    /\ \E c \in Contents : rec.cells = Payload(c)
    /\ pc = "entry" => rec.part = Len(rec.cells) /\ Here[entryWriteOffset] # Empty
    /\ ~rec.copy => op \in WriteOps /\ rec.id = op.id /\ rec.cells = Payload(op.content)

\* how far the collection of the tail behind h is
Gathered(h) ==
  LET tail == flash[TailSector]
  IN /\ NextSector(h) = sectorIndex
     /\ Gathering(flash, h)
     /\ Collected(flash, h, IF Writing THEN gcEntry - 1 ELSE gcEntry)
     /\ \/ gcData = SectorSize
        \/ \E o \in Live(tail) : o < gcEntry /\ gcData = tail[o].offset
     /\ Writing => /\ gcEntry - 1 \in Live(tail)
                   /\ rec.id = tail[gcEntry - 1].id
                   /\ rec.cells = Content(tail, gcEntry - 1)
                   /\ ~Outdated(flash, h, gcEntry - 1)

\* The collection keeps the newest entries.
GatherInv ==
  /\ pc = "boot" => gcEntry = 1 /\ gcData = SectorSize
  /\ Collecting => \E h \in Sectors : Gathered(h)

\* what makes durability inductive
DurableInv == SectorsInv /\ RingInv /\ HereInv /\ RecInv /\ GatherInv

-----------------------------------------------------------------------------
(* Every step keeps the invariant *)

\* The types the steps need.
LEMMA Context ==
  ASSUME IInv
  PROVE  /\ flash \in [Sectors -> Sector] /\ Here \in Sector
         /\ sectorIndex \in Sectors /\ TailSector \in Sectors /\ TailSector # sectorIndex
         /\ entryWriteOffset \in Nat /\ dataWriteOffset \in 0..SectorSize
         /\ 0 \in Offsets /\ 1 \in Offsets
  <1>1. flash \in [Sectors -> Sector] /\ sectorIndex \in Sectors
    BY DEF IInv, TypeOK, Sector
  <1>2. entryWriteOffset \in Nat /\ dataWriteOffset \in 0..SectorSize
    BY Counts DEF IInv, TypeOK
  <1> QED
    BY <1>1, <1>2, NextSectorType, NextSectorOther, Counts DEF TailSector, Here, Offsets

\* The next sector, where it is erased, is unused.
LEMMA TailUnused ==
  ASSUME IInv, TailErased PROVE ~InUse(flash, NextSector(sectorIndex))
BY Context DEF TailErased, TailSector, InUse, Unused

\* The table of the current sector is neat whether it is used or not.
LEMMA HereNeat ==
  ASSUME NEW x, Sound(x), NEW e \in Nat, NEW w, Laid(x, e, w)
  PROVE  Neat(x) /\ Live(x) = Entries(x)
<1>1. CASE Unused(x)
  <2>1. x[1] = Empty /\ 1 \in 1..SectorSize - 1
    BY <1>1, Counts DEF Unused
  <2>2. e <= 1
    BY <2>1 DEF Laid
  <2>3. Entries(x) = {}
    <3>1. ASSUME NEW o \in Entries(x) PROVE FALSE
      <4>1. o \in 1..SectorSize - 1 /\ o < e
        BY DEF Laid, Entries
      <4> QED
        BY <2>2, <4>1
    <3> QED
      BY <3>1
  <2> QED
    BY <1>1, <2>3 DEF Neat, Live
<1>2. CASE ~Unused(x)
  BY <1>2 DEF Sound, Live
<1> QED
  BY <1>1, <1>2

\* A sector of a sound flash may be replaced by a sound one.
LEMMA SoundBut ==
  ASSUME NEW f \in Sounds, NEW g \in [Sectors -> Sector], NEW s \in Sectors,
         SameBut(f, g, s), Sound(g[s])
  PROVE  g \in Sounds
BY DEF Sounds, SameBut

\* Programming a cell of the current sector, which may be used again.
LEMMA ProgramHere ==
  ASSUME IInv, Reusable, NEW o \in Offsets, NEW c \in Cell,
         flash' = Programmed(sectorIndex, o, c)
  PROVE  /\ SameBut(flash, flash', sectorIndex)
         /\ flash' \in [Sectors -> Sector] /\ flash'[sectorIndex] \in Sector
         /\ flash'[sectorIndex][o] = c
         /\ \A p \in Offsets : p # o => flash'[sectorIndex][p] = Here[p]
<1>1. Program(flash[sectorIndex][o], c) = c
  BY DEF Program, Reusable
<1>2. flash' = [flash EXCEPT ![sectorIndex][o] = c]
  BY <1>1 DEF Programmed
<1> QED
  BY <1>2, Context DEF SameBut, Here, Sector

\* A call and the search for room.
LEMMA CallDurable ==
  ASSUME IInv, DurableInv, Call \/ WriteFits \/ OutOfMemory PROVE DurableInv'
<1> USE DEF DurableInv, SectorsInv, RingInv, HereInv, RecInv, GatherInv, Writing, Collecting,
            Steady
<1>1. CASE \E i \in Ids, c \in Contents : BeginWrite(i, c)
  <2>1. /\ pc \in {"ready", "full"} /\ pc' = "fit"
        /\ UNCHANGED <<flash, sectorIndex, entryWriteOffset, dataWriteOffset, rec>>
    BY <1>1 DEF BeginWrite, Idle
  <2>2. Here' = Here /\ DataEnd' = DataEnd
    BY <2>1 DEF Here, DataEnd
  <2> QED
    BY <2>1, <2>2
<1>2. CASE BeginClear
  <2>1. pc \in {"ready", "full"} /\ pc' = "clear" /\ flash' = flash
    BY <1>2 DEF BeginClear, Idle
  <2>2. Short(flash)
    BY <2>1, Context DEF Settled, Short
  <2> QED
    BY <2>1, <2>2
<1>3. CASE WriteFits
  <2>1. /\ pc = "fit" /\ pc' = "append" /\ UNCHANGED <<flash, op, sectorIndex, entryWriteOffset>>
        /\ rec' = [id |-> op.id, cells |-> Payload(op.content), part |-> 0, copy |-> FALSE]
        /\ dataWriteOffset' = dataWriteOffset - Size[op.content]
        /\ op \in WriteOps
    BY <1>3 DEF WriteFits, StartAppend, IInv, TypeOK, OpsAt
  <2>2. op.content \in Contents
    BY <2>1 DEF WriteOps
  <2>3. Here' = Here /\ DataEnd' = DataEnd
    <3>1. /\ Len(Payload(op.content)) = Size[op.content] /\ Size[op.content] \in Int
          /\ rec'.cells = Payload(op.content)
      BY <2>1, <2>2, PayloadType, FlashAssumption
    <3>2. dataWriteOffset \in Int
      BY Context
    <3> QED
      BY <2>1, <3>1, <3>2 DEF Here, DataEnd
  <2>4. rec'.copy = FALSE /\ rec'.part = 0 /\ rec'.id = op.id /\ rec'.cells = Payload(op.content)
    BY <2>1
  <2> QED
    BY <2>1, <2>2, <2>3, <2>4
<1>4. CASE OutOfMemory
  <2>1. /\ pc = "fit" /\ pc' = "full"
        /\ UNCHANGED <<flash, sectorIndex, entryWriteOffset, dataWriteOffset, rec>>
    BY <1>4 DEF OutOfMemory
  <2>2. Here' = Here /\ DataEnd' = DataEnd
    BY <2>1 DEF Here, DataEnd
  <2> QED
    BY <2>1, <2>2
<1> QED
  BY <1>1, <1>2, <1>3, <1>4 DEF Call

\* Writing the close entry, either half, changes no other entry.
LEMMA CloseHere ==
  ASSUME IInv, Reusable, flash \in Sounds, TailErased, Settled(flash, sectorIndex),
         NEW e \in Nat, NEW w \in Nat, Laid(Here, e, w),
         NEW c \in Cell, c # Empty, c.kind = "close" /\ c.offset = 0 => Entries(Here) = {},
         flash' = Programmed(sectorIndex, 0, c)
  PROVE  /\ flash' \in Sounds
         /\ Headed(flash', sectorIndex) /\ Closed(flash', sectorIndex)
         /\ Laid(flash'[sectorIndex], e, w)
         /\ SameBut(flash, flash', sectorIndex) /\ SameEntries(Here, flash'[sectorIndex])
         /\ StoredIn(flash') = StoredIn(flash)
<1> DEFINE x == Here
<1> DEFINE y == flash'[sectorIndex]
<1>0. /\ flash \in [Sectors -> Sector] /\ x \in Sector /\ sectorIndex \in Sectors /\ 0 \in Offsets
      /\ ~InUse(flash, NextSector(sectorIndex))
  BY Context, TailUnused
<1>1. /\ SameBut(flash, flash', sectorIndex) /\ flash' \in [Sectors -> Sector] /\ y \in Sector
      /\ y[0] = c /\ \A p \in 1..SectorSize - 1 : y[p] = x[p]
  <2>1. \A p \in 1..SectorSize - 1 : p \in Offsets /\ p # 0
    BY Counts DEF Offsets
  <2> QED
    BY <1>0, <2>1, ProgramHere
<1>2. Sound(x)
  BY <1>0 DEF Sounds, Here
<1>3. Neat(x) /\ Live(x) = Entries(x)
  BY <1>2, HereNeat
<1> HIDE DEF x, y
<1>4. Entries(y) = Entries(x)
  BY <1>1 DEF Entries
<1>5. /\ Neat(y)
      /\ \A o \in Entries(x) : y[o] = x[o] /\ Content(y, o) = Content(x, o)
  <2>1. \A o \in Entries(x) : o <= e /\ w <= x[o].offset
    <3>1. \A o \in Entries(x) : o \in Nat
      BY DEF Entries
    <3> QED
      BY <3>1 DEF Laid, x
  <2> QED
    BY <1>0, <1>1, <1>3, <1>4, <2>1, WriteBetween
<1>6. Sound(y) /\ Live(y) = Entries(x)
  BY <1>1, <1>4, <1>5 DEF Sound, CloseFits, Live, Unused, x
<1>7. flash' \in Sounds
  BY <1>0, <1>1, <1>6, SoundBut DEF y
<1>8. InUse(flash', sectorIndex) /\ Closed(flash', sectorIndex)
  BY <1>1 DEF InUse, Closed, Unused, y
<1>9. Headed(flash', sectorIndex)
  BY <1>0, <1>1, <1>8, UseHere
<1>10. SameEntries(x, y)
  BY <1>3, <1>5, <1>6 DEF SameEntries
<1>11. StoredIn(flash') = StoredIn(flash)
  BY <1>0, <1>1, <1>7, <1>9, <1>10, SameHere DEF x, y, Here, Settled
<1>12. Laid(y, e, w)
  BY <1>1, <1>4, <1>5 DEF Laid, x
<1> QED
  BY <1>1, <1>7, <1>8, <1>9, <1>10, <1>11, <1>12 DEF x, y

\* Closing the current sector makes it the head, and its successor the current one.
LEMMA CloseDurable ==
  ASSUME IInv, ErasedInv, DurableInv, Reusable, CloseFirst \/ CloseSecond
  PROVE  /\ DurableInv' /\ StoredIn(flash') = StoredIn(flash)
         /\ SameBut(flash, flash', sectorIndex) /\ SameEntries(Here, flash'[sectorIndex])
<1>0. /\ flash \in [Sectors -> Sector] /\ sectorIndex \in Sectors /\ TailSector \in Sectors
      /\ entryWriteOffset \in Nat /\ dataWriteOffset \in Nat /\ TailSector # sectorIndex
  BY Context
<1>1. CASE CloseFirst
  <2>1. /\ pc = "fit" /\ pc' = "close" /\ flash' = Programmed(sectorIndex, 0, Torn)
        /\ UNCHANGED <<sectorIndex, entryWriteOffset, dataWriteOffset, rec>>
    BY <1>1 DEF CloseFirst
  <2>2. /\ flash \in Sounds /\ TailErased /\ Settled(flash, sectorIndex)
        /\ Laid(Here, entryWriteOffset, dataWriteOffset)
    BY <1>0, <2>1 DEF DurableInv, SectorsInv, RingInv, HereInv, ErasedInv, Steady, DataEnd, Writing
  <2>3. Torn \in Cell /\ Torn # Empty /\ Torn.kind # "close"
    BY DEF Cell, Torn, Empty
  <2>4. /\ flash' \in Sounds /\ Headed(flash', sectorIndex)
        /\ Laid(flash'[sectorIndex], entryWriteOffset, dataWriteOffset)
        /\ SameBut(flash, flash', sectorIndex) /\ SameEntries(Here, flash'[sectorIndex])
        /\ StoredIn(flash') = StoredIn(flash)
    BY <1>0, <2>1, <2>2, <2>3, CloseHere
  <2>5. Here' = flash'[sectorIndex] /\ DataEnd' = dataWriteOffset
    BY <1>0, <2>1 DEF Here, DataEnd, Writing
  <2>6. SectorsInv' /\ RingInv'
    BY <1>0, <2>1, <2>4 DEF SectorsInv, RingInv, Ring, Writing
  <2>7. HereInv' /\ RecInv' /\ GatherInv'
    BY <2>1, <2>4, <2>5 DEF HereInv, RecInv, GatherInv, Writing, Collecting
  <2> QED
    BY <2>4, <2>6, <2>7 DEF DurableInv
<1>2. CASE CloseSecond
  <2>1. /\ pc = "close" /\ pc' = "gc"
        /\ flash' = Programmed(sectorIndex, 0, Close(entryWriteOffset - 1))
        /\ sectorIndex' = TailSector /\ entryWriteOffset' = 1 /\ dataWriteOffset' = SectorSize
        /\ gcEntry' = 1 /\ gcData' = SectorSize
    BY <1>2 DEF CloseSecond, Enter, StartGc, TailSector
  <2>2. /\ flash \in Sounds /\ TailErased /\ Headed(flash, sectorIndex)
        /\ Laid(Here, entryWriteOffset, dataWriteOffset)
    BY <1>0, <2>1 DEF DurableInv, SectorsInv, RingInv, HereInv, ErasedInv, Steady, DataEnd, Writing
  <2> DEFINE c == Close(entryWriteOffset - 1)
  <2>3. c \in Cell /\ c # Empty /\ c.offset = entryWriteOffset - 1
    <3>1. entryWriteOffset - 1 \in 0..SectorSize
      BY Counts DEF IInv, TypeOK
    <3> QED
      BY <3>1 DEF Cell, Close, Empty
  <2>4. c.offset = 0 => Entries(Here) = {}
    <3>1. ASSUME NEW o \in Entries(Here), c.offset = 0 PROVE FALSE
      <4>1. o \in 1..SectorSize - 1 /\ o < entryWriteOffset
        BY <2>2 DEF Laid, Entries
      <4> HIDE DEF c
      <4> QED
        BY <1>0, <2>3, <3>1, <4>1
    <3> QED
      BY <3>1
  <2> HIDE DEF c
  <2>5. /\ flash' \in Sounds /\ Headed(flash', sectorIndex) /\ Closed(flash', sectorIndex)
        /\ SameBut(flash, flash', sectorIndex) /\ SameEntries(Here, flash'[sectorIndex])
        /\ StoredIn(flash') = StoredIn(flash)
    <3>1. Settled(flash, sectorIndex) /\ flash' = Programmed(sectorIndex, 0, c)
      BY <2>1, <2>2 DEF Settled, c
    <3> QED
      BY <1>0, <2>2, <2>3, <2>4, <3>1, CloseHere
  <2>6. \A o \in Offsets : Here'[o] = Empty
    BY <1>0, <2>1, <2>2, <2>5 DEF Here, SameBut, TailErased
  <2>7. Entries(Here') = {} /\ Live(Here') = {} /\ Here'[0] = Empty
    <3>1. \A o \in 1..SectorSize - 1 : o \in Offsets
      BY Counts DEF Offsets
    <3> QED
      BY <2>6, <3>1, Context DEF Entries, Live, Empty
  <2>8. SectorsInv' /\ RingInv'
    BY <1>0, <2>1, <2>5 DEF SectorsInv, RingInv, Ring, Writing
  <2>9. Laid(Here', 1, SectorSize)
    BY <2>7 DEF Laid
  <2>10. DataEnd' = SectorSize
    BY <2>1, Counts DEF DataEnd, Writing
  <2>11. HereInv' /\ RecInv'
    BY <2>1, <2>7, <2>9, <2>10 DEF HereInv, RecInv, Writing
  <2>h. PICK h \in Sectors : h = sectorIndex
    BY <1>0
  <2>12. Gathered(h)'
    <3>1. Collected(flash', h, 1)
      <4>1. flash'[NextSector(h)] = Here'
        BY <2>1, <2>h DEF TailSector, Here
      <4>2. \A t : \A o \in Live(t) : ~(o < 1)
        BY LiveRange
      <4> QED
        BY <2>7, <4>1, <4>2 DEF Collected
    <3> QED
      BY <2>1, <2>5, <2>h, <3>1 DEF Gathered, Gathering, TailSector, Writing
  <2>13. GatherInv'
    BY <2>1, <2>12 DEF GatherInv
  <2> QED
    BY <2>5, <2>8, <2>11, <2>13 DEF DurableInv
<1> QED
  BY <1>1, <1>2

\* While the sector behind h is written, what is found from h stays.
LEMMA KeepGathered ==
  ASSUME NEW f \in Sounds, NEW g \in Sounds, NEW h \in Sectors,
         Gathering(f, h), Gathering(g, h), SameBut(f, g, NextSector(h))
  PROVE  /\ StoredIn(g) = StoredIn(f)
         /\ \A i \in Ids : At(g, h, i) = At(f, h, i)
         /\ \A o : Outdated(g, h, o) <=> Outdated(f, h, o)
         /\ g[NextSector(NextSector(h))] = f[NextSector(NextSector(h))]
<1>1. \A n \in Places : g[Before(h, n)] = f[Before(h, n)]
  BY ReachOther DEF SameBut
<1>2. g[NextSector(NextSector(h))] = f[NextSector(NextSector(h))]
  BY NextSectorType, NextSectorOther DEF SameBut
<1>3. Stored(g, h) = Stored(f, h)
  BY <1>1, SameIsSame, SameTables
<1>4. StoredIn(g) = Stored(g, h) /\ StoredIn(f) = Stored(f, h)
  BY StoredByHead DEF Gathering
<1>5. \A i \in Ids : At(g, h, i) = Stored(g, h)[i] /\ At(f, h, i) = Stored(f, h)[i]
  BY DEF Stored
<1>6. \A o : Outdated(g, h, o) <=> Outdated(f, h, o)
  BY <1>1, <1>2 DEF Outdated
<1> QED
  BY <1>2, <1>3, <1>4, <1>5, <1>6

\* The collection is as far as it was while the current sector is written without a new
\* entry.
LEMMA KeepCollected ==
  ASSUME NEW f \in Sounds, NEW g \in Sounds, NEW h \in Sectors, NEW n,
         Gathering(f, h), Gathering(g, h), SameBut(f, g, NextSector(h)),
         SameEntries(f[NextSector(h)], g[NextSector(h)]), Collected(f, h, n)
  PROVE  Collected(g, h, n)
<1> DEFINE x == f[NextSector(h)]
<1> DEFINE y == g[NextSector(h)]
<1> DEFINE tail == NextSector(NextSector(h))
<1>1. /\ \A i \in Ids : At(g, h, i) = At(f, h, i)
      /\ \A o : Outdated(g, h, o) <=> Outdated(f, h, o)
      /\ g[tail] = f[tail]
  BY KeepGathered
<1>2. Live(y) = Live(x) /\ \A p \in Live(x) : y[p] = x[p] /\ Content(y, p) = Content(x, p)
  BY DEF SameEntries
<1>3. ASSUME NEW p \in Live(x) PROVE x[p].id \in Ids
  <2>1. x \in Sector /\ Sound(x)
    BY NextSectorType DEF Sounds
  <2>2. Neat(x) /\ p \in Entries(x)
    BY <2>1 DEF Live, Sound
  <2> QED
    BY <2>1, <2>2, EntryBounds
<1>4. /\ \A p \in Live(x) : Content(x, p) = At(f, h, x[p].id)
      /\ \A o \in Live(f[tail]) : o < n =>
           Outdated(f, h, o) \/ \E p \in Live(x) : x[p].id = f[tail][o].id
  BY DEF Collected
<1> HIDE DEF x, y, tail
<1>5. \A p \in Live(y) : Content(y, p) = At(g, h, y[p].id)
  BY <1>1, <1>2, <1>3, <1>4
<1>6. \A o \in Live(g[tail]) : o < n =>
        Outdated(g, h, o) \/ \E p \in Live(y) : y[p].id = g[tail][o].id
  BY <1>1, <1>2, <1>4
<1> QED
  BY <1>5, <1>6 DEF Collected, x, y, tail

\* A cell of the record is not an entry.
LEMMA PayloadCell ==
  ASSUME NEW c \in Contents, NEW n \in 1..Len(Payload(c))
  PROVE  Payload(c)[n] \in Cell /\ Payload(c)[n].kind # "entry"
<1>1. Payload(c) \in Seq(Cell) /\ Len(Payload(c)) = Size[c] /\ Size[c] \in Nat
  BY PayloadType, FlashAssumption
<1>2. Payload(c)[n] = Data(c, n)
  BY <1>1 DEF Payload
<1> QED
  BY <1>1, <1>2 DEF Data

\* What is known while a record is written.
LEMMA WritingContext ==
  ASSUME IInv, ErasedInv, DurableInv, Writing
  PROVE  /\ rec \in Record /\ Len(rec.cells) \in Nat /\ rec.part \in Nat
         /\ rec.part <= Len(rec.cells) /\ rec.copy \in BOOLEAN /\ rec.id \in Ids
         /\ entryWriteOffset < dataWriteOffset
         /\ dataWriteOffset + Len(rec.cells) <= SectorSize
         /\ entryWriteOffset \in 1..SectorSize - 1 /\ dataWriteOffset \in Nat
         /\ flash \in Sounds /\ Here \in Sector /\ Here[0] = Empty
         /\ Laid(Here, entryWriteOffset, dataWriteOffset + Len(rec.cells))
         /\ Neat(Here) /\ Live(Here) = Entries(Here)
         /\ ~rec.copy => Settled(flash, sectorIndex) /\ ~InUse(flash, NextSector(sectorIndex))
         /\ rec.copy => \E h \in Sectors : Gathered(h)
<1>1. rec \in Record
  BY DEF IInv, TypeOK, Writing
<1>2. /\ Len(rec.cells) \in Nat /\ rec.part \in Nat /\ rec.copy \in BOOLEAN /\ rec.id \in Ids
  BY <1>1, RecordFields
<1>3. /\ entryWriteOffset < dataWriteOffset
      /\ dataWriteOffset + Len(rec.cells) <= SectorSize
      /\ rec.part <= Len(rec.cells)
      /\ entryWriteOffset \in 1..SectorSize + 1 /\ dataWriteOffset \in 0..SectorSize
  BY DEF IInv, TypeOK, TableBelowData, Writing
<1>4. entryWriteOffset \in 1..SectorSize - 1 /\ dataWriteOffset \in Nat
  BY <1>2, <1>3, Counts
<1>5. /\ flash \in Sounds /\ Here[0] = Empty
      /\ Laid(Here, entryWriteOffset, dataWriteOffset + Len(rec.cells))
      /\ ~rec.copy => Settled(flash, sectorIndex) /\ TailErased
      /\ rec.copy => \E h \in Sectors : Gathered(h)
  BY DEF Writing, DurableInv, SectorsInv, RingInv, HereInv, GatherInv, ErasedInv, Steady,
     DataEnd, Collecting
<1>6. Here \in Sector /\ Sound(Here)
  BY <1>5, Context DEF Sounds, Here
<1>7. Neat(Here) /\ Live(Here) = Entries(Here)
  BY <1>4, <1>5, <1>6, HereNeat
<1> QED
  BY <1>1, <1>2, <1>3, <1>4, <1>5, <1>6, <1>7, TailUnused

\* Writing the data changes no entry.
LEMMA AppendDataDurable ==
  ASSUME IInv, ErasedInv, DurableInv, Reusable, AppendData
  PROVE  /\ DurableInv' /\ StoredIn(flash') = StoredIn(flash)
         /\ SameBut(flash, flash', sectorIndex) /\ SameEntries(Here, flash'[sectorIndex])
<1> DEFINE s == sectorIndex
<1> DEFINE x == Here
<1> DEFINE y == flash'[s]
<1> DEFINE e == entryWriteOffset
<1> DEFINE w == dataWriteOffset
<1> DEFINE o == w + rec.part
<1> DEFINE c == rec.cells[rec.part + 1]
<1>1. /\ pc = "append" /\ pc' = "append" /\ Writing /\ Writing'
      /\ rec.part < Len(rec.cells)
      /\ flash' = Programmed(s, o, c)
      /\ rec' = [rec EXCEPT !.part = @ + 1]
      /\ UNCHANGED <<op, sectorIndex, entryWriteOffset, dataWriteOffset, gcEntry, gcData>>
  BY DEF AppendData, ram, Writing
<1>2. /\ rec \in Record /\ Len(rec.cells) \in Nat /\ rec.part \in Nat
      /\ rec.part <= Len(rec.cells) /\ rec.copy \in BOOLEAN
      /\ e < w /\ w + Len(rec.cells) <= SectorSize
      /\ e \in 1..SectorSize - 1 /\ w \in Nat
      /\ flash \in Sounds /\ x \in Sector /\ x[0] = Empty
      /\ Laid(x, e, w + Len(rec.cells))
      /\ Neat(x) /\ Live(x) = Entries(x)
      /\ ~rec.copy => Settled(flash, s) /\ ~InUse(flash, NextSector(s))
      /\ rec.copy => \E h \in Sectors : Gathered(h)
  BY <1>1, WritingContext
<1>3. /\ rec'.part = rec.part + 1 /\ rec'.cells = rec.cells /\ rec'.copy = rec.copy
      /\ rec'.id = rec.id
  BY <1>1, <1>2 DEF Record
<1>4. /\ \A n \in 1..rec.part : x[w + n - 1] = rec.cells[n]
      /\ \E k \in Contents : rec.cells = Payload(k)
      /\ ~rec.copy => op \in WriteOps /\ rec.id = op.id /\ rec.cells = Payload(op.content)
  BY <1>1 DEF DurableInv, RecInv
<1>5. c \in Cell /\ c.kind # "entry"
  <2>1. rec.part + 1 \in 1..Len(rec.cells)
    BY <1>1, <1>2
  <2> QED
    BY <1>4, <2>1, PayloadCell
<1>6. /\ o \in Offsets /\ o # 0 /\ o # 1 /\ o > e /\ o < w + Len(rec.cells)
      /\ s \in Sectors /\ flash \in [Sectors -> Sector]
  BY <1>1, <1>2, Context, Counts DEF Offsets
<1>7. /\ SameBut(flash, flash', s) /\ flash' \in [Sectors -> Sector] /\ y \in Sector
      /\ y[o] = c /\ \A p \in Offsets : p # o => y[p] = x[p]
  BY <1>1, <1>5, <1>6, ProgramHere
<1>8. x = flash[s] /\ Here' = y
  BY <1>1 DEF Here
<1> HIDE DEF x, y, e, w, o, c, s
<1>9. Entries(y) = Entries(x)
  <2>1. ASSUME NEW p \in 1..SectorSize - 1 PROVE y[p].kind = "entry" <=> x[p].kind = "entry"
    <3>1. CASE p = o
      <4>1. x[p].kind # "entry"
        BY <1>2, <1>6, <3>1 DEF Laid, Entries
      <4> QED
        BY <1>5, <1>7, <3>1, <4>1
    <3>2. CASE p # o
      BY <1>7, <3>2, Counts DEF Offsets
    <3> QED
      BY <3>1, <3>2
  <2> QED
    BY <2>1 DEF Entries
<1>10. Neat(y) /\ \A p \in Entries(x) : y[p] = x[p] /\ Content(y, p) = Content(x, p)
  <2> DEFINE v == w + Len(rec.cells)
  <2>1. \A p \in Entries(x) : p <= e /\ v <= x[p].offset
    <3>1. \A p \in Entries(x) : p \in Int
      BY DEF Entries
    <3> QED
      BY <1>2, <3>1 DEF Laid
  <2>2. \A p \in 1..SectorSize - 1 : p <= e \/ v <= p => y[p] = x[p]
    <3>1. \A p \in 1..SectorSize - 1 : p \in Offsets
      BY Counts DEF Offsets
    <3>2. \A p \in 1..SectorSize - 1 : p <= e \/ v <= p => p # o
      BY <1>2, <1>6, Counts DEF Offsets
    <3> QED
      BY <1>7, <3>1, <3>2
  <2>3. v \in Nat /\ e \in Nat
    BY <1>2
  <2> HIDE DEF v
  <2> QED
    BY <1>2, <1>7, <1>9, <2>1, <2>2, <2>3, WriteBetween
<1>11. y[0] = x[0] /\ y[1] = x[1]
  BY <1>6, <1>7, Context
<1>12. Sound(y) /\ SameEntries(x, y)
  <2>1. Live(y) = Live(x)
    BY <1>9, <1>11 DEF Live, Unused
  <2>2. Sound(x)
    BY <1>2, <1>6, <1>8 DEF Sounds
  <2> QED
    BY <1>2, <1>9, <1>10, <1>11, <2>1, <2>2, LiveRange DEF Sound, CloseFits, SameEntries, Unused
<1>13. flash' \in Sounds
  BY <1>2, <1>6, <1>7, <1>12, SoundBut DEF y
<1>14. \A t \in Sectors : (InUse(flash', t) <=> InUse(flash, t))
                          /\ (Closed(flash', t) <=> Closed(flash, t))
  <2>1. ASSUME NEW t \in Sectors, t # s PROVE flash'[t] = flash[t]
    BY <1>7, <2>1 DEF SameBut
  <2>2. flash'[s][0] = flash[s][0] /\ flash'[s][1] = flash[s][1]
    BY <1>8, <1>11 DEF y
  <2> QED
    BY <2>1, <2>2 DEF InUse, Closed, Unused
<1>15. /\ Ring(flash') <=> Ring(flash)
       /\ Settled(flash', s) <=> Settled(flash, s)
       /\ \A h \in Sectors : Gathering(flash', h) <=> Gathering(flash, h)
  <2>1. /\ Ring(flash') <=> Ring(flash)
        /\ Settled(flash', s) <=> Settled(flash, s)
        /\ \A h \in Sectors : (Headed(flash', h) <=> Headed(flash, h))
                              /\ (Full(flash', h) <=> Full(flash, h))
    BY <1>6, <1>14, SameShape
  <2> QED
    BY <1>14, <2>1 DEF Gathering
<1>16. SectorsInv' /\ RingInv'
  <2>1. Ring(flash)
    BY <1>1 DEF DurableInv, SectorsInv
  <2>2. SectorsInv'
    BY <1>1, <1>13, <1>15, <2>1 DEF SectorsInv
  <2>3. ~rec'.copy => Settled(flash', sectorIndex')
    BY <1>1, <1>2, <1>3, <1>15 DEF s
  <2> QED
    BY <1>1, <2>2, <2>3 DEF RingInv
<1>17. HereInv'
  <2>1. Laid(y, e, w + Len(rec.cells))
    <3>1. \A p \in 1..SectorSize - 1 : p < e => p \in Offsets /\ p # o
      BY <1>2, <1>6, Counts DEF Offsets
    <3>2. \A p \in 1..SectorSize - 1 : p < e => y[p] # Empty
      BY <1>2, <1>7, <3>1 DEF Laid
    <3> QED
      BY <1>2, <1>9, <1>10, <3>2 DEF Laid
  <2>2. DataEnd' = w + Len(rec.cells) /\ entryWriteOffset' = e
    BY <1>1, <1>3 DEF DataEnd, w, e
  <2> QED
    BY <1>1, <1>2, <1>8, <1>11, <2>1, <2>2 DEF HereInv
<1>18. RecInv'
  <2>1. ASSUME NEW n \in 1..rec.part + 1 PROVE y[w + n - 1] = rec.cells[n]
    <3>1. CASE n = rec.part + 1
      <4>1. w + n - 1 = o
        BY <1>2, <3>1 DEF o
      <4> QED
        BY <1>7, <3>1, <4>1 DEF c
    <3>2. CASE n # rec.part + 1
      <4>0. /\ rec.part \in Nat /\ Len(rec.cells) \in Nat /\ w \in Nat /\ SectorSize \in Nat
            /\ rec.part < Len(rec.cells) /\ w + Len(rec.cells) <= SectorSize
        BY <1>1, <1>2, Counts
      <4>1. n \in 1..rec.part
        BY <3>2, <4>0
      <4>2. w + n - 1 \in Offsets /\ w + n - 1 # o
        BY <4>0, <4>1 DEF Offsets, o
      <4> QED
        BY <1>4, <1>7, <4>1, <4>2
    <3> QED
      BY <3>1, <3>2
  <2> QED
    BY <1>1, <1>3, <1>4, <1>8, <2>1 DEF RecInv, w
<1>19. ASSUME NEW h \in Sectors, Gathered(h), rec.copy
       PROVE  Gathered(h)' /\ StoredIn(flash') = StoredIn(flash)
  <2>1. /\ NextSector(h) = s /\ Gathering(flash, h) /\ Collected(flash, h, gcEntry - 1)
        /\ \/ gcData = SectorSize
           \/ \E p \in Live(flash[TailSector]) : p < gcEntry /\ gcData = flash[TailSector][p].offset
        /\ gcEntry - 1 \in Live(flash[TailSector])
        /\ rec.id = flash[TailSector][gcEntry - 1].id
        /\ rec.cells = Content(flash[TailSector], gcEntry - 1)
        /\ ~Outdated(flash, h, gcEntry - 1)
        /\ TailSector = NextSector(NextSector(h))
    BY <1>1, <1>19 DEF Gathered, s, TailSector
  <2>2. Gathering(flash', h)
    BY <1>15, <2>1
  <2>3. /\ StoredIn(flash') = StoredIn(flash)
        /\ \A p : Outdated(flash', h, p) <=> Outdated(flash, h, p)
        /\ flash'[TailSector] = flash[TailSector]
    BY <1>2, <1>7, <1>13, <2>1, <2>2, KeepGathered
  <2>4. Collected(flash', h, gcEntry - 1)
    BY <1>2, <1>7, <1>8, <1>12, <1>13, <2>1, <2>2, KeepCollected DEF y
  <2>5. TailSector' = TailSector /\ sectorIndex' = s
    BY <1>1 DEF TailSector, s
  <2> QED
    BY <1>1, <1>3, <2>1, <2>2, <2>3, <2>4, <2>5 DEF Gathered
<1>20. GatherInv'
  BY <1>1, <1>2, <1>3, <1>19 DEF GatherInv, Collecting
<1>21. StoredIn(flash') = StoredIn(flash)
  <2>1. CASE rec.copy
    BY <1>2, <1>19, <2>1
  <2>2. CASE ~rec.copy
    BY <1>2, <1>6, <1>7, <1>8, <1>12, <1>13, <1>15, <2>2, SameHere DEF y
  <2> QED
    BY <2>1, <2>2
<1>22. SameBut(flash, flash', sectorIndex) /\ SameEntries(Here, flash'[sectorIndex])
  BY <1>7, <1>12 DEF s, x, y
<1> QED
  BY <1>16, <1>17, <1>18, <1>20, <1>21, <1>22 DEF DurableInv

\* The first half of an entry is no entry yet, but makes the sector a used one.
LEMMA AppendEntryFirstDurable ==
  ASSUME IInv, ErasedInv, DurableInv, Reusable, AppendEntryFirst
  PROVE  /\ DurableInv' /\ StoredIn(flash') = StoredIn(flash)
         /\ SameBut(flash, flash', sectorIndex) /\ SameEntries(Here, flash'[sectorIndex])
<1> DEFINE s == sectorIndex
<1> DEFINE x == Here
<1> DEFINE y == flash'[s]
<1> DEFINE e == entryWriteOffset
<1> DEFINE w == dataWriteOffset
<1> DEFINE v == w + Len(rec.cells)
<1>1. /\ pc = "append" /\ pc' = "entry" /\ Writing /\ Writing'
      /\ rec.part = Len(rec.cells)
      /\ flash' = Programmed(s, e, Torn)
      /\ UNCHANGED <<op, sectorIndex, entryWriteOffset, dataWriteOffset, gcEntry, gcData, rec>>
  BY DEF AppendEntryFirst, ram, Writing
<1>2. /\ Len(rec.cells) \in Nat /\ rec.copy \in BOOLEAN
      /\ e < w /\ v <= SectorSize
      /\ e \in 1..SectorSize - 1 /\ w \in Nat /\ v \in Nat /\ v >= w
      /\ flash \in Sounds /\ x \in Sector /\ x[0] = Empty
      /\ Laid(x, e, v)
      /\ Neat(x) /\ Live(x) = Entries(x)
      /\ ~rec.copy => Settled(flash, s) /\ ~InUse(flash, NextSector(s))
      /\ rec.copy => \E h \in Sectors : Gathered(h)
  BY <1>1, WritingContext
<1>3. /\ \A n \in 1..rec.part : x[w + n - 1] = rec.cells[n]
      /\ \E k \in Contents : rec.cells = Payload(k)
      /\ ~rec.copy => op \in WriteOps /\ rec.id = op.id /\ rec.cells = Payload(op.content)
  BY <1>1 DEF DurableInv, RecInv
<1>4. Torn \in Cell /\ Torn.kind # "entry" /\ Torn # Empty
  BY DEF Cell, Torn, Empty
<1>5. e \in Offsets /\ s \in Sectors /\ flash \in [Sectors -> Sector] /\ 0 \in Offsets /\ e # 0
  BY <1>2, Context, Counts DEF Offsets
<1>6. /\ SameBut(flash, flash', s) /\ flash' \in [Sectors -> Sector] /\ y \in Sector
      /\ y[e] = Torn /\ \A p \in Offsets : p # e => y[p] = x[p]
  BY <1>1, <1>4, <1>5, ProgramHere
<1>7. x = flash[s] /\ Here' = y
  BY <1>1 DEF Here
<1> HIDE DEF x, y, e, w, v, s
<1>8. \A p \in 1..SectorSize - 1 : p # e => y[p] = x[p]
  <2>1. \A p \in 1..SectorSize - 1 : p \in Offsets
    BY Counts DEF Offsets
  <2> QED
    BY <1>6, <2>1
<1>9. Entries(y) = Entries(x)
  <2>1. e \notin Entries(x) /\ e \notin Entries(y)
    BY <1>2, <1>4, <1>6 DEF Laid, Entries
  <2> QED
    BY <1>8, <2>1 DEF Entries
<1>10. Neat(y) /\ \A p \in Entries(x) : y[p] = x[p] /\ Content(y, p) = Content(x, p)
  <2>1. \A p \in Entries(x) : p <= e - 1 /\ v <= x[p].offset
    <3>1. \A p \in Entries(x) : p \in Int
      BY DEF Entries
    <3> QED
      BY <1>2, <3>1 DEF Laid
  <2>2. \A p \in 1..SectorSize - 1 : p <= e - 1 \/ v <= p => y[p] = x[p]
    <3>1. \A p \in 1..SectorSize - 1 : p <= e - 1 \/ v <= p => p # e
      BY <1>2, Counts
    <3> QED
      BY <1>8, <3>1
  <2>3. v \in Nat /\ e - 1 \in Nat
    BY <1>2
  <2> QED
    BY <1>2, <1>6, <1>9, <2>1, <2>2, <2>3, WriteBetween
<1>11. y[0] = Empty /\ \A p \in 1..SectorSize - 1 : p < e + 1 => y[p] # Empty
  <2>1. ASSUME NEW p \in 1..SectorSize - 1, p < e + 1 PROVE y[p] # Empty
    <3>1. CASE p = e
      BY <1>4, <1>6, <3>1
    <3>2. CASE p # e
      <4>1. p < e
        BY <1>2, <2>1, <3>2
      <4> QED
        BY <1>2, <1>8, <3>2, <4>1 DEF Laid
    <3> QED
      BY <3>1, <3>2
  <2> QED
    BY <1>2, <1>5, <1>6, <2>1
<1>12. y[1] # Empty
  <2>1. 1 \in 1..SectorSize - 1 /\ 1 < e + 1
    BY <1>2, Counts
  <2> QED
    BY <1>11, <2>1
<1>13. Sound(y) /\ SameEntries(x, y) /\ ~Unused(y)
  <2>1. ~Unused(y) /\ Live(y) = Live(x)
    BY <1>2, <1>9, <1>12 DEF Live, Unused
  <2>2. CloseFits(y)
    BY <1>11 DEF CloseFits, Empty
  <2> QED
    BY <1>2, <1>10, <2>1, <2>2 DEF Sound, SameEntries
<1>14. flash' \in Sounds
  BY <1>2, <1>5, <1>6, <1>13, SoundBut DEF y
<1>15. InUse(flash', s) /\ ~Closed(flash', s)
  BY <1>11, <1>13 DEF InUse, Closed, y
<1>16. ASSUME ~rec.copy
       PROVE  SectorsInv' /\ RingInv' /\ GatherInv' /\ StoredIn(flash') = StoredIn(flash)
  <2>1. Headed(flash', s)
    BY <1>2, <1>5, <1>6, <1>15, <1>16, UseHere
  <2>2. Settled(flash', s) /\ Ring(flash')
    BY <1>5, <2>1 DEF Settled, Ring
  <2>3. StoredIn(flash') = StoredIn(flash)
    BY <1>2, <1>5, <1>6, <1>7, <1>13, <1>14, <1>16, <2>2, SameHere DEF y
  <2>4. SectorsInv' /\ RingInv' /\ GatherInv'
    BY <1>1, <1>14, <1>16, <2>2 DEF SectorsInv, RingInv, GatherInv, Collecting, s
  <2> QED
    BY <2>3, <2>4
<1>17. ASSUME rec.copy
       PROVE  SectorsInv' /\ RingInv' /\ GatherInv' /\ StoredIn(flash') = StoredIn(flash)
  <2>1. PICK h \in Sectors : Gathered(h)
    BY <1>2, <1>17
  <2>2. /\ NextSector(h) = s /\ Gathering(flash, h) /\ Collected(flash, h, gcEntry - 1)
        /\ \/ gcData = SectorSize
           \/ \E p \in Live(flash[TailSector]) : p < gcEntry /\ gcData = flash[TailSector][p].offset
        /\ gcEntry - 1 \in Live(flash[TailSector])
        /\ rec.id = flash[TailSector][gcEntry - 1].id
        /\ rec.cells = Content(flash[TailSector], gcEntry - 1)
        /\ ~Outdated(flash, h, gcEntry - 1)
        /\ TailSector = NextSector(NextSector(h))
    BY <1>1, <2>1 DEF Gathered, s, TailSector
  <2>3. Gathering(flash', h)
    <3>1. InUse(flash, NextSector(NextSector(h)))
      BY <2>2 DEF Live, InUse
    <3> QED
      BY <1>6, <1>15, <2>2, <3>1, UseBehind
  <2>4. /\ StoredIn(flash') = StoredIn(flash)
        /\ \A p : Outdated(flash', h, p) <=> Outdated(flash, h, p)
        /\ flash'[TailSector] = flash[TailSector]
    BY <1>2, <1>6, <1>14, <2>2, <2>3, KeepGathered
  <2>5. Collected(flash', h, gcEntry - 1)
    BY <1>2, <1>6, <1>7, <1>13, <1>14, <2>2, <2>3, KeepCollected DEF y
  <2>6. TailSector' = TailSector /\ sectorIndex' = s
    BY <1>1 DEF TailSector, s
  <2>7. Gathered(h)'
    BY <1>1, <2>2, <2>3, <2>4, <2>5, <2>6 DEF Gathered
  <2>8. GatherInv'
    BY <1>1, <2>7 DEF GatherInv
  <2>9. SectorsInv' /\ RingInv'
    BY <1>1, <1>14, <1>17, <2>3 DEF SectorsInv, RingInv, Ring, Gathering
  <2> QED
    BY <2>4, <2>8, <2>9
<1>18. HereInv'
  <2>1. Laid(y, e, v)
    <3>1. \A p \in 1..SectorSize - 1 : p < e => p < e + 1
      BY <1>2
    <3> QED
      BY <1>2, <1>9, <1>10, <1>11, <3>1 DEF Laid
  <2>2. DataEnd' = v /\ entryWriteOffset' = e
    BY <1>1 DEF DataEnd, v, w, e
  <2> QED
    BY <1>1, <1>7, <1>11, <2>1, <2>2 DEF HereInv
<1>19. RecInv'
  <2>1. ASSUME NEW n \in 1..rec.part PROVE y[w + n - 1] = rec.cells[n]
    <3>1. /\ Len(rec.cells) \in Nat /\ w \in Nat /\ SectorSize \in Nat /\ e \in Nat
          /\ rec.part = Len(rec.cells) /\ w + Len(rec.cells) <= SectorSize /\ e < w
      BY <1>1, <1>2, Counts DEF v
    <3>2. w + n - 1 \in Offsets /\ w + n - 1 # e
      BY <3>1 DEF Offsets
    <3> QED
      BY <1>3, <1>6, <3>2
  <2>2. y[e] # Empty
    BY <1>4, <1>6
  <2> QED
    BY <1>1, <1>3, <1>7, <2>1, <2>2 DEF RecInv, w, e
<1>20. SameBut(flash, flash', sectorIndex) /\ SameEntries(Here, flash'[sectorIndex])
  BY <1>6, <1>13 DEF s, x, y
<1> QED
  BY <1>16, <1>17, <1>18, <1>19, <1>20 DEF DurableInv

\* A sector with one more entry, behind the others and with its data before theirs.
LEMMA AddEntry ==
  ASSUME NEW x \in Sector, NEW y \in Sector, Neat(x), NEW e \in 1..SectorSize - 1, NEW w \in Nat,
         NEW c \in Contents, NEW i \in Ids,
         e < w, w + Len(Payload(c)) <= SectorSize,
         Laid(x, e, w + Len(Payload(c))),
         \A n \in 1..Len(Payload(c)) : x[w + n - 1] = Payload(c)[n],
         y[e] = Entry(i, Len(Payload(c)), w),
         \A p \in Offsets : p # e => y[p] = x[p]
  PROVE  /\ Neat(y)
         /\ Entries(y) = Entries(x) \cup {e}
         /\ \A p \in Entries(x) : p < e /\ y[p] = x[p] /\ Content(y, p) = Content(x, p)
         /\ Content(y, e) = Payload(c)
         /\ Laid(y, e + 1, w)
<1> DEFINE n == Len(Payload(c))
<1> DEFINE v == w + n
<1>0. /\ n \in Nat /\ v \in Nat /\ e \in Nat /\ v <= SectorSize /\ SectorSize \in Nat
      /\ Payload(c) \in Seq(Cell)
  BY PayloadType, FlashAssumption
<1>1. /\ y[e].kind = "entry" /\ y[e].id = i /\ y[e].size = n /\ y[e].offset = w /\ y[e] # Empty
  BY DEF Entry, Empty
<1>2. \A p \in 1..SectorSize - 1 : p # e => y[p] = x[p]
  <2>1. \A p \in 1..SectorSize - 1 : p \in Offsets
    BY Counts DEF Offsets
  <2> QED
    BY <2>1
<1>3. Entries(y) = Entries(x) \cup {e}
  BY <1>1, <1>2 DEF Entries
<1>4. \A p \in Entries(x) : p < e /\ v <= x[p].offset /\ p \in 1..SectorSize - 1
  BY DEF Laid, Entries
<1> HIDE DEF n, v
<1>5. ASSUME NEW p \in Entries(x) PROVE y[p] = x[p] /\ Content(y, p) = Content(x, p)
  <2>1. /\ x[p].size \in Nat /\ x[p].offset \in Nat
        /\ x[p].offset >= p + 1 /\ x[p].offset + x[p].size <= SectorSize
        /\ p \in 1..SectorSize - 1
    BY EntryBounds
  <2>2. p < e /\ y[p] = x[p]
    BY <1>2, <1>4, <2>1
  <2>3. ASSUME NEW q \in x[p].offset..x[p].offset + x[p].size - 1 PROVE y[q] = x[q]
    <3>1. v <= x[p].offset /\ e < v
      <4>1. e < w /\ w <= v
        BY <1>0 DEF v
      <4> QED
        BY <1>0, <1>4, <4>1
    <3>2. q \in 1..SectorSize - 1 /\ q # e
      BY <1>0, <2>1, <3>1
    <3> QED
      BY <1>2, <3>2
  <2> QED
    BY <2>1, <2>2, <2>3, SameContent
<1>6. Content(y, e) = Payload(c)
  <2>1. ASSUME NEW k \in 1..n PROVE y[w + k - 1] = Payload(c)[k]
    <3>1. w + k - 1 \in Offsets /\ w + k - 1 # e
      BY <1>0 DEF Offsets, v
    <3>2. x[w + k - 1] = Payload(c)[k]
      BY DEF n
    <3> QED
      BY <3>1, <3>2
  <2>2. Content(y, e) = [k \in 1..n |-> y[w + k - 1]]
    BY <1>1 DEF Content
  <2>3. Payload(c) = [k \in 1..n |-> Payload(c)[k]]
    BY <1>0 DEF n
  <2> HIDE DEF n
  <2> QED
    BY <2>1, <2>2, <2>3
<1>7. ASSUME NEW o \in Entries(y)
      PROVE  /\ \A p \in 1..o : y[p] # Empty
             /\ isEntryValid(o, SectorSize, y[o])
             /\ \A p \in Entries(y) : p < o => isEntryValid(o, y[p].offset, y[o])
             /\ \E k \in Contents : Content(y, o) = Payload(k)
  <2>1. CASE o = e
    <3>1. ASSUME NEW p \in 1..o PROVE y[p] # Empty
      <4>1. CASE p = e
        BY <1>1, <4>1
      <4>2. CASE p # e
        <5>1. p \in 1..SectorSize - 1 /\ p < e
          BY <2>1, <4>2, Counts
        <5> QED
          BY <1>2, <4>2, <5>1 DEF Laid
      <4> QED
        BY <4>1, <4>2
    <3>2. isEntryValid(o, SectorSize, y[o])
      BY <1>0, <1>1, <2>1 DEF isEntryValid, v
    <3>3. ASSUME NEW p \in Entries(y), p < o PROVE isEntryValid(o, y[p].offset, y[o])
      <4>1. p \in Entries(x) /\ y[p] = x[p]
        BY <1>0, <1>3, <1>5, <2>1, <3>3
      <4>2. v <= y[p].offset
        BY <1>4, <4>1
      <4> QED
        BY <1>0, <1>1, <2>1, <4>2 DEF isEntryValid, v
    <3> QED
      BY <1>6, <2>1, <3>1, <3>2, <3>3
  <2>2. CASE o # e
    <3>1. o \in Entries(x) /\ y[o] = x[o] /\ Content(y, o) = Content(x, o) /\ o < e
      BY <1>3, <1>4, <1>5, <2>2
    <3>2. ASSUME NEW p \in 1..o PROVE y[p] # Empty
      <4>1. p \in 1..SectorSize - 1 /\ p # e
        BY <1>4, <3>1, Counts
      <4> QED
        BY <1>2, <3>1, <4>1 DEF Neat
    <3>3. ASSUME NEW p \in Entries(y), p < o PROVE isEntryValid(o, y[p].offset, y[o])
      <4>1. p \in Entries(x) /\ y[p] = x[p]
        <5>1. o \in Nat
          BY <1>4, <3>1
        <5>2. p # e
          BY <1>0, <3>1, <3>3, <5>1
        <5> QED
          BY <1>3, <1>5, <5>2
      <4> QED
        BY <3>1, <3>3, <4>1 DEF Neat
    <3> QED
      BY <3>1, <3>2, <3>3 DEF Neat
  <2> QED
    BY <2>1, <2>2
<1>8. Laid(y, e + 1, w)
  <2>1. ASSUME NEW p \in 1..SectorSize - 1, p < e + 1 PROVE y[p] # Empty
    <3>1. CASE p = e
      BY <1>1, <3>1
    <3>2. CASE p # e
      <4>1. p < e
        BY <2>1, <3>2
      <4> QED
        BY <1>2, <3>2, <4>1 DEF Laid
    <3> QED
      BY <3>1, <3>2
  <2>2. ASSUME NEW o \in Entries(y) PROVE o < e + 1 /\ w <= y[o].offset
    <3>1. CASE o = e
      BY <1>1, <3>1
    <3>2. CASE o # e
      <4>1. o \in Entries(x) /\ y[o] = x[o] /\ o < e /\ v <= x[o].offset /\ x[o].offset \in Nat
        BY <1>3, <1>4, <1>5, <3>2, EntryBounds
      <4>2. o \in Nat /\ w <= v
        BY <1>0, <1>4, <4>1 DEF v
      <4> QED
        BY <1>0, <4>1, <4>2
    <3> QED
      BY <3>1, <3>2
  <2> QED
    BY <2>1, <2>2 DEF Laid
<1> QED
  BY <1>3, <1>4, <1>5, <1>6, <1>7, <1>8 DEF Neat

\* The second half of the entry completes a write, or keeps the data when the entry is a
\* copy of the newest one.
LEMMA AppendEntrySecondDurable ==
  ASSUME IInv, ErasedInv, DurableInv, Reusable, AppendEntrySecond
  PROVE  /\ DurableInv'
         /\ rec.copy => StoredIn(flash') = StoredIn(flash)
         /\ ~rec.copy => /\ op \in WriteOps
                         /\ StoredIn(flash') =
                              [StoredIn(flash) EXCEPT ![op.id] = Payload(op.content)]
         /\ SameBut(flash, flash', sectorIndex)
         /\ Live(flash'[sectorIndex]) = Live(Here) \cup {entryWriteOffset}
         /\ \A p \in Live(Here) : p < entryWriteOffset /\ flash'[sectorIndex][p] = Here[p]
         /\ flash'[sectorIndex][entryWriteOffset].id = rec.id
         /\ flash'[sectorIndex][entryWriteOffset].offset = dataWriteOffset
<1> DEFINE s == sectorIndex
<1> DEFINE x == Here
<1> DEFINE y == flash'[s]
<1> DEFINE e == entryWriteOffset
<1> DEFINE w == dataWriteOffset
<1> DEFINE v == w + Len(rec.cells)
<1> DEFINE c == Entry(rec.id, Len(rec.cells), w)
<1>1. /\ pc = "entry" /\ Writing
      /\ (rec.copy /\ pc' = "gc") \/ (~rec.copy /\ pc' = "ready")
      /\ flash' = Programmed(s, e, c)
      /\ entryWriteOffset' = e + 1
      /\ UNCHANGED <<sectorIndex, dataWriteOffset, gcEntry, gcData>>
  BY DEF AppendEntrySecond, Writing
<1>2. /\ Len(rec.cells) \in Nat /\ rec.copy \in BOOLEAN /\ rec.id \in Ids
      /\ e < w /\ v <= SectorSize
      /\ e \in 1..SectorSize - 1 /\ w \in Nat /\ v \in Nat /\ v >= w
      /\ flash \in Sounds /\ x \in Sector /\ x[0] = Empty
      /\ Laid(x, e, v)
      /\ Neat(x) /\ Live(x) = Entries(x)
      /\ ~rec.copy => Settled(flash, s) /\ ~InUse(flash, NextSector(s))
      /\ rec.copy => \E h \in Sectors : Gathered(h)
  BY <1>1, WritingContext
<1>3. /\ \A n \in 1..Len(rec.cells) : x[w + n - 1] = rec.cells[n]
      /\ x[e] # Empty
      /\ ~rec.copy => op \in WriteOps /\ rec.id = op.id /\ rec.cells = Payload(op.content)
  BY <1>1 DEF DurableInv, RecInv
<1>4. PICK k \in Contents : rec.cells = Payload(k)
  BY <1>1 DEF DurableInv, RecInv
<1>5. e \in Offsets /\ s \in Sectors /\ flash \in [Sectors -> Sector] /\ 0 \in Offsets /\ e # 0
  BY <1>2, Context, Counts DEF Offsets
<1>6. c \in Cell
  <2>1. Len(rec.cells) \in 0..SectorSize /\ w \in 0..SectorSize
    BY <1>2, Counts
  <2> QED
    BY <1>2, <2>1, EntryType
<1>7. /\ SameBut(flash, flash', s) /\ flash' \in [Sectors -> Sector] /\ y \in Sector
      /\ y[e] = c /\ \A p \in Offsets : p # e => y[p] = x[p]
  BY <1>1, <1>5, <1>6, ProgramHere
<1>8. x = flash[s] /\ Here' = y
  BY <1>1 DEF Here
<1> HIDE DEF x, y, e, w, v, s
<1>9. /\ Neat(y) /\ Entries(y) = Entries(x) \cup {e}
      /\ \A p \in Entries(x) : p < e /\ y[p] = x[p] /\ Content(y, p) = Content(x, p)
      /\ Content(y, e) = rec.cells
      /\ Laid(y, e + 1, w)
  <2>1. w + Len(Payload(k)) = v /\ y[e] = Entry(rec.id, Len(Payload(k)), w)
    BY <1>4, <1>7 DEF v
  <2>2. \A n \in 1..Len(Payload(k)) : x[w + n - 1] = Payload(k)[n]
    BY <1>3, <1>4
  <2> QED
    BY <1>2, <1>4, <1>7, <2>1, <2>2, AddEntry
<1>10. x[1] # Empty /\ y[1] # Empty /\ y[0] = Empty
  <2>1. 1 \in 1..SectorSize - 1 /\ 1 \in Offsets /\ 1 < e + 1
    BY <1>2, Counts DEF Offsets
  <2>2. x[1] # Empty
    <3>1. 1 = e \/ 1 < e
      BY <1>2
    <3> QED
      BY <1>2, <1>3, <2>1, <3>1 DEF Laid
  <2> QED
    BY <1>2, <1>5, <1>7, <1>9, <2>1, <2>2 DEF Laid
<1>11. Sound(y) /\ Live(y) = Live(x) \cup {e} /\ Live(x) = Entries(x) /\ ~Unused(y) /\ ~Unused(x)
  <2>1. CloseFits(y)
    BY <1>10 DEF CloseFits, Empty
  <2> QED
    BY <1>9, <1>10, <2>1 DEF Sound, Live, Unused
<1>12. flash' \in Sounds
  BY <1>2, <1>5, <1>7, <1>11, SoundBut DEF y
<1>13. /\ InUse(flash, s) /\ InUse(flash', s) /\ ~Closed(flash', s)
       /\ y[e].id = rec.id
  BY <1>7, <1>8, <1>10, <1>11 DEF InUse, Closed, y, c, Entry
<1>14. HereInv' /\ RecInv'
  <2>1. DataEnd' = w /\ entryWriteOffset' = e + 1 /\ ~Writing'
    BY <1>1, <1>2 DEF DataEnd, w, Writing
  <2> QED
    BY <1>1, <1>8, <1>9, <1>10, <2>1 DEF HereInv, RecInv
<1>15. ASSUME ~rec.copy
       PROVE  /\ SectorsInv' /\ RingInv' /\ GatherInv' /\ op \in WriteOps
              /\ StoredIn(flash') = [StoredIn(flash) EXCEPT ![op.id] = Payload(op.content)]
  <2>1. Headed(flash', s)
    BY <1>2, <1>5, <1>7, <1>13, <1>15, UseHere
  <2>2. Headed(flash, s)
    BY <1>2, <1>13, <1>15 DEF Settled, Headed
  <2>3. \A p \in Live(flash[s]) : /\ p < e /\ flash'[s][p] = flash[s][p]
                                 /\ Content(flash'[s], p) = Content(flash[s], p)
    BY <1>8, <1>9, <1>11 DEF y
  <2>4. StoredIn(flash') = [StoredIn(flash) EXCEPT ![y[e].id] = Content(y, e)]
    BY <1>2, <1>5, <1>7, <1>8, <1>11, <1>12, <2>1, <2>2, <2>3, NewEntry DEF y
  <2>5. SectorsInv' /\ RingInv' /\ GatherInv'
    <3>1. Settled(flash', s) /\ Ring(flash')
      BY <1>5, <2>1 DEF Settled, Ring
    <3> QED
      BY <1>1, <1>12, <1>15, <3>1 DEF SectorsInv, RingInv, GatherInv, Collecting, Writing, s
  <2> QED
    BY <1>3, <1>9, <1>13, <1>15, <2>4, <2>5
<1>16. ASSUME rec.copy
       PROVE  /\ SectorsInv' /\ RingInv' /\ GatherInv' /\ StoredIn(flash') = StoredIn(flash)
  <2> DEFINE tail == flash[TailSector]
  <2>1. PICK h \in Sectors : Gathered(h)
    BY <1>2, <1>16
  <2>2. /\ NextSector(h) = s /\ Gathering(flash, h) /\ Collected(flash, h, gcEntry - 1)
        /\ \/ gcData = SectorSize
           \/ \E p \in Live(tail) : p < gcEntry /\ gcData = tail[p].offset
        /\ gcEntry - 1 \in Live(tail)
        /\ rec.id = tail[gcEntry - 1].id
        /\ rec.cells = Content(tail, gcEntry - 1)
        /\ ~Outdated(flash, h, gcEntry - 1)
        /\ TailSector = NextSector(NextSector(h))
    BY <1>1, <2>1 DEF Gathered, s, TailSector
  <2>3. Gathering(flash', h)
    <3>1. InUse(flash, NextSector(NextSector(h)))
      BY <2>2 DEF Live, InUse
    <3> QED
      BY <1>7, <1>13, <2>2, <3>1, UseBehind
  <2>4. /\ StoredIn(flash') = StoredIn(flash)
        /\ \A i \in Ids : At(flash', h, i) = At(flash, h, i)
        /\ \A p : Outdated(flash', h, p) <=> Outdated(flash, h, p)
        /\ flash'[TailSector] = tail
    BY <1>2, <1>7, <1>12, <2>2, <2>3, KeepGathered
  <2>5. At(flash, h, rec.id) = rec.cells
    <3>1. IsNewest(flash, h, rec.id, SectorCount - 2, gcEntry - 1)
      BY <2>2, OutdatedIsOld
    <3>2. At(flash, h, rec.id) = Content(flash[Before(h, SectorCount - 2)], gcEntry - 1)
      BY <3>1, NewestAt
    <3> QED
      BY <2>2, <3>2, BeforeTail
  <2>6. \A p \in Live(y) : Content(y, p) = At(flash', h, y[p].id)
    <3>1. ASSUME NEW p \in Live(x) PROVE Content(y, p) = At(flash', h, y[p].id)
      <4>1. Content(x, p) = At(flash, h, x[p].id)
        BY <1>8, <2>2 DEF Collected
      <4>2. x[p].id \in Ids
        BY <1>2, <1>11, EntryBounds
      <4> QED
        BY <1>9, <1>11, <2>4, <4>1, <4>2
    <3>2. Content(y, e) = At(flash', h, y[e].id)
      BY <1>2, <1>9, <1>13, <2>4, <2>5
    <3> QED
      BY <1>11, <3>1, <3>2
  <2>7. ASSUME NEW o \in Live(tail), o < gcEntry
        PROVE  Outdated(flash', h, o) \/ \E p \in Live(y) : y[p].id = tail[o].id
    <3>1. CASE o = gcEntry - 1
      BY <1>11, <1>13, <2>2, <3>1
    <3>2. CASE o # gcEntry - 1
      <4>1. o < gcEntry - 1
        <5>1. o \in Int /\ gcEntry \in Int
          BY LiveRange DEF Entries, IInv, TypeOK
        <5> QED
          BY <2>7, <3>2, <5>1
      <4>2. Outdated(flash, h, o) \/ \E p \in Live(x) : x[p].id = tail[o].id
        BY <1>8, <2>2, <4>1 DEF Collected
      <4> QED
        BY <1>9, <1>11, <2>4, <4>2
    <3> QED
      BY <3>1, <3>2
  <2>8. Collected(flash', h, gcEntry)
    BY <2>2, <2>4, <2>6, <2>7 DEF Collected, y
  <2>9. TailSector' = TailSector /\ sectorIndex' = s /\ ~Writing'
    BY <1>1, <1>16 DEF TailSector, s, Writing
  <2>10. Gathered(h)'
    BY <1>1, <2>2, <2>3, <2>4, <2>8, <2>9 DEF Gathered
  <2>11. GatherInv'
    BY <1>1, <1>16, <2>10 DEF GatherInv
  <2>12. SectorsInv' /\ RingInv'
    BY <1>1, <1>12, <1>16, <2>3, <2>9 DEF SectorsInv, RingInv, Ring, Gathering
  <2> QED
    BY <2>4, <2>11, <2>12
<1>17. /\ SameBut(flash, flash', sectorIndex)
       /\ Live(flash'[sectorIndex]) = Live(Here) \cup {entryWriteOffset}
       /\ \A p \in Live(Here) : p < entryWriteOffset /\ flash'[sectorIndex][p] = Here[p]
  BY <1>7, <1>9, <1>11 DEF s, x, y, e
<1>18. /\ flash'[sectorIndex][entryWriteOffset].id = rec.id
       /\ flash'[sectorIndex][entryWriteOffset].offset = dataWriteOffset
  BY <1>7 DEF s, y, e, w, c, Entry
<1> QED
  BY <1>1, <1>14, <1>15, <1>16, <1>17, <1>18 DEF DurableInv

\* One entry of the tail is passed: it is outdated, or it is taken.
LEMMA GcEntryDurable ==
  ASSUME IInv, ErasedInv, DurableInv, GcEntry PROVE DurableInv'
<1> DEFINE tail == flash[TailSector]
<1> DEFINE g == gcEntry
<1> DEFINE c == tail[g]
<1>1. /\ pc = "gc" /\ MoreEntries /\ gcEntry' = g + 1
      /\ UNCHANGED <<flash, op, sectorIndex, entryWriteOffset, gcCount>>
      /\ \/ /\ ~isEntryValid(g, gcData, c)
            /\ UNCHANGED <<gcData, pc, rec, dataWriteOffset>>
         \/ /\ isEntryValid(g, gcData, c) /\ gcData' = c.offset /\ contains(TailSector, g)
            /\ UNCHANGED <<pc, rec, dataWriteOffset>>
         \/ /\ isEntryValid(g, gcData, c) /\ gcData' = c.offset /\ ~contains(TailSector, g)
            /\ rec' = [id |-> c.id, cells |-> Content(tail, g), part |-> 0, copy |-> TRUE]
            /\ dataWriteOffset' = dataWriteOffset - c.size
            /\ pc' = "append"
  BY DEF GcEntry, StartAppend
<1>2. PICK h \in Sectors : Gathered(h)
  BY <1>1 DEF DurableInv, GatherInv, Collecting
<1>3. /\ NextSector(h) = sectorIndex /\ Gathering(flash, h) /\ Collected(flash, h, g)
      /\ \/ gcData = SectorSize
         \/ \E o \in Live(tail) : o < g /\ gcData = tail[o].offset
      /\ TailSector = NextSector(NextSector(h))
  BY <1>1, <1>2 DEF Gathered, Writing, TailSector
<1>4. /\ flash \in Sounds /\ Ring(flash) /\ Here[0] = Empty
      /\ Laid(Here, entryWriteOffset, dataWriteOffset)
  BY <1>1, Context DEF DurableInv, SectorsInv, HereInv, Steady, DataEnd, Writing
<1>5. ClosedTable(tail) = Live(tail)
  <2>1. SectorCount - 2 \in Places /\ Before(h, SectorCount - 2) = TailSector
    BY <1>3, BeforeTail, Counts DEF Places
  <2> QED
    BY <1>3, <1>4, <2>1, ScanInReach DEF Gathering
<1>6. tail \in Sector /\ Neat(tail) /\ Live(tail) = Entries(tail)
  <2>1. TailSector \in Sectors
    BY Context
  <2>2. Live(tail) # {}
    BY <1>1, <1>5 DEF MoreEntries
  <2> QED
    BY <1>4, <2>1, <2>2 DEF Live, Sounds, Sound
<1>7. g \in 1..SectorSize - 1
  <2>1. PICK o \in Live(tail) : g <= o
    BY <1>1, <1>5 DEF MoreEntries
  <2>2. o \in 1..SectorSize - 1 /\ g \in 1..SectorSize
    BY <2>1, LiveRange DEF IInv, TypeOK
  <2> QED
    BY <2>1, <2>2, Counts
<1>8. isEntryValid(g, gcData, c) <=> g \in Live(tail)
  <2>1. ASSUME g \in Live(tail) PROVE isEntryValid(g, gcData, c)
    BY <1>3, <1>6, <2>1 DEF Neat
  <2>2. ASSUME isEntryValid(g, gcData, c) PROVE g \in Live(tail)
    BY <1>6, <1>7, <2>2 DEF isEntryValid, Entries
  <2> QED
    BY <2>1, <2>2
<1>9. contains(TailSector, g) <=> Outdated(flash, h, g)
  BY <1>3, <1>4, ContainsIsOutdated
<1>10. Here' = Here /\ TailSector' = TailSector /\ flash'[TailSector'] = tail
  BY <1>1 DEF Here, TailSector
<1> HIDE DEF c, tail
<1>11. ASSUME UNCHANGED <<pc, rec, dataWriteOffset>>,
              g \in Live(tail) => Outdated(flash, h, g),
              gcData' = gcData \/ (g \in Live(tail) /\ gcData' = tail[g].offset)
       PROVE  DurableInv'
  <2>1. Collected(flash, h, g + 1)
    <3>1. \A o \in Live(tail) : o < g + 1 => o < g \/ o = g
      <4>1. \A o \in Live(tail) : o \in Int
        BY LiveRange DEF Entries
      <4> QED
        BY <1>7, <4>1
    <3> QED
      BY <1>3, <1>11, <3>1 DEF Collected, tail
  <2>2. \/ gcData' = SectorSize
        \/ \E o \in Live(tail) : o < g + 1 /\ gcData' = tail[o].offset
    <3>1. \A o \in Live(tail) : o < g => o < g + 1
      <4>1. \A o \in Live(tail) : o \in Int
        BY LiveRange DEF Entries
      <4> QED
        BY <1>7, <4>1
    <3>2. g < g + 1
      BY <1>7
    <3> QED
      BY <1>3, <1>11, <3>1, <3>2
  <2>3. Gathered(h)'
    BY <1>1, <1>3, <1>10, <1>11, <2>1, <2>2 DEF Gathered, Writing
  <2>4. SectorsInv' /\ RingInv' /\ RecInv' /\ GatherInv'
    BY <1>1, <1>4, <1>11, <2>3 DEF SectorsInv, RingInv, RecInv, GatherInv, Writing
  <2>5. HereInv'
    <3>1. DataEnd' = dataWriteOffset
      BY <1>1, <1>11, Context DEF DataEnd, Writing
    <3> QED
      BY <1>1, <1>4, <1>10, <1>11, <3>1 DEF HereInv
  <2> QED
    BY <2>4, <2>5 DEF DurableInv
<1>12. ASSUME g \in Live(tail), ~Outdated(flash, h, g), gcData' = tail[g].offset,
              rec' = [id |-> tail[g].id, cells |-> Content(tail, g), part |-> 0, copy |-> TRUE],
              dataWriteOffset' = dataWriteOffset - tail[g].size,
              pc' = "append"
       PROVE  DurableInv'
  <2>1. /\ rec'.id = tail[g].id /\ rec'.cells = Content(tail, g) /\ rec'.part = 0 /\ rec'.copy
        /\ Writing'
    BY <1>12 DEF Writing
  <2>2. PICK k \in Contents : Content(tail, g) = Payload(k)
    BY <1>6, <1>12 DEF Neat
  <2>3. tail[g].size \in Nat /\ Len(Content(tail, g)) = tail[g].size
    <3>1. tail[g].size \in Nat
      BY <1>6, <1>12, EntryBounds
    <3>2. isEntryValid(g, SectorSize, tail[g])
      BY <1>6, <1>12 DEF Neat
    <3>3. g \in Offsets /\ SectorSize \in 0..SectorSize /\ g >= 1 /\ tail \in [Offsets -> Cell]
      BY <1>6, <1>7, Counts DEF Offsets, Sector
    <3> QED
      BY <3>1, <3>2, <3>3, ContentType
  <2>4. DataEnd' = dataWriteOffset
    <3>1. dataWriteOffset \in Int
      BY Context
    <3> QED
      BY <1>12, <2>1, <2>3, <3>1 DEF DataEnd
  <2>5. gcEntry' - 1 = g
    BY <1>1, <1>7
  <2>6. \E o \in Live(tail) : o < gcEntry' /\ gcData' = tail[o].offset
    BY <1>1, <1>7, <1>12
  <2>7. Gathered(h)'
    BY <1>1, <1>3, <1>10, <1>12, <2>1, <2>5, <2>6 DEF Gathered
  <2>8. SectorsInv' /\ RingInv' /\ GatherInv'
    BY <1>1, <1>4, <1>12, <2>1, <2>7 DEF SectorsInv, RingInv, GatherInv
  <2>9. HereInv'
    BY <1>1, <1>4, <1>10, <1>12, <2>4 DEF HereInv
  <2>10. RecInv'
    BY <1>12, <2>1, <2>2 DEF RecInv
  <2> QED
    BY <2>8, <2>9, <2>10 DEF DurableInv
<1> QED
  BY <1>1, <1>8, <1>9, <1>11, <1>12 DEF c

\* Erasing a sector, or the first page of it, makes it an unused one.
LEMMA WipedUnused ==
  ASSUME IInv, flash \in Sounds, NEW t \in Sectors, NEW cells, 0 \in cells, 1 \in cells,
         flash' = [flash EXCEPT ![t] = Wiped(@, cells)]
  PROVE  flash' \in Sounds /\ SameBut(flash, flash', t) /\ ~InUse(flash', t)
<1>1. flash \in [Sectors -> Sector] /\ flash[t] \in Sector /\ 0 \in Offsets /\ 1 \in Offsets
  BY Context
<1>2. flash' \in [Sectors -> Sector] /\ flash'[t] = Wiped(flash[t], cells)
  BY <1>1, WipedType DEF Sector
<1>3. SameBut(flash, flash', t)
  BY <1>1 DEF SameBut
<1>4. Unused(flash'[t])
  BY <1>1, <1>2 DEF Unused, Wiped
<1>5. flash' \in Sounds
  BY <1>2, <1>3, <1>4, SoundBut DEF Sound
<1> QED
  BY <1>3, <1>4, <1>5 DEF InUse

\* Emptying the tail after its last entry keeps the data.
LEMMA TailWiped ==
  ASSUME IInv, DurableInv, pc = "gc", ~MoreEntries, NEW cells, 0 \in cells, 1 \in cells,
         flash' = [flash EXCEPT ![TailSector] = Wiped(@, cells)]
  PROVE  /\ flash' \in Sounds /\ Ring(flash') /\ Settled(flash', sectorIndex)
         /\ StoredIn(flash') = StoredIn(flash)
         /\ flash'[sectorIndex] = Here
<1>1. PICK h \in Sectors : Gathered(h)
  BY DEF DurableInv, GatherInv, Collecting
<1>2. /\ NextSector(h) = sectorIndex /\ Gathering(flash, h) /\ Collected(flash, h, gcEntry)
      /\ TailSector = NextSector(NextSector(h))
  BY <1>1 DEF Gathered, Writing, TailSector
<1>3. /\ flash \in Sounds /\ sectorIndex \in Sectors
      /\ TailSector \in Sectors /\ TailSector # sectorIndex
  BY Context DEF DurableInv, SectorsInv
<1>4. flash' \in Sounds /\ SameBut(flash, flash', TailSector) /\ ~InUse(flash', TailSector)
  BY <1>3, WipedUnused
<1>5. ClosedTable(flash[TailSector]) = Live(flash[TailSector])
  <2>1. SectorCount - 2 \in Places /\ Before(h, SectorCount - 2) = TailSector
    BY <1>2, BeforeTail, Counts DEF Places
  <2> QED
    BY <1>2, <1>3, <2>1, ScanInReach DEF Gathering
<1>6. \A o \in Live(flash[TailSector]) : o < gcEntry
  <2>1. \A o \in Live(flash[TailSector]) : o \in Int /\ ~(gcEntry <= o)
    BY <1>5, LiveRange DEF MoreEntries, Entries
  <2>2. gcEntry \in Int
    BY Counts DEF IInv, TypeOK
  <2> QED
    BY <2>1, <2>2
<1>7. Collected(flash, h, SectorSize)
  BY <1>2, <1>6 DEF Collected
<1>8. StoredIn(flash') = StoredIn(flash)
  BY <1>2, <1>3, <1>4, <1>7, EmptyTailStored
<1>9. Settled(flash', sectorIndex)
  BY <1>2, <1>4, EmptyTail
<1>10. Ring(flash')
  BY <1>3, <1>9 DEF Ring, Settled
<1> QED
  BY <1>3, <1>4, <1>8, <1>9, <1>10 DEF SameBut, Here

\* The end of a collection.
LEMMA GcEraseDurable ==
  ASSUME IInv, ErasedInv, DurableInv, GcErase
  PROVE  DurableInv' /\ StoredIn(flash') = StoredIn(flash)
<1>1. /\ pc = "gc" /\ ~MoreEntries /\ flash' = Erased(TailSector) /\ pc' \in {"ready", "fit"}
      /\ UNCHANGED <<op, sectorIndex, entryWriteOffset, dataWriteOffset, gcCount, rec>>
  BY DEF GcErase
<1>2. flash' = [flash EXCEPT ![TailSector] = Wiped(@, Offsets)] /\ 0 \in Offsets /\ 1 \in Offsets
  BY <1>1, Context DEF Erased
<1>3. /\ flash' \in Sounds /\ Ring(flash') /\ Settled(flash', sectorIndex)
      /\ StoredIn(flash') = StoredIn(flash)
      /\ flash'[sectorIndex] = Here
  BY <1>1, <1>2, TailWiped
<1>4. Here' = Here /\ DataEnd' = DataEnd /\ ~Writing'
  BY <1>1, <1>3 DEF Here, DataEnd, Writing
<1>5. SectorsInv' /\ RingInv' /\ RecInv' /\ GatherInv'
  BY <1>1, <1>3, <1>4 DEF SectorsInv, RingInv, RecInv, GatherInv, Collecting
<1>6. Laid(Here, entryWriteOffset, DataEnd) /\ Here[0] = Empty
  BY <1>1 DEF DurableInv, HereInv, Steady
<1>7. HereInv'
  BY <1>1, <1>4, <1>6 DEF HereInv
<1> QED
  BY <1>3, <1>5, <1>7 DEF DurableInv

\* An erased sector has no entry.
LEMMA ErasedLaid ==
  ASSUME NEW x, \A o \in Offsets : x[o] = Empty
  PROVE  Entries(x) = {} /\ Live(x) = {} /\ x[0] = Empty /\ Laid(x, 1, SectorSize)
<1>1. 0 \in Offsets /\ \A o \in 1..SectorSize - 1 : o \in Offsets
  BY Counts DEF Offsets
<1>2. Entries(x) = {} /\ x[0] = Empty
  BY <1>1 DEF Entries, Empty
<1> QED
  BY <1>2 DEF Live, Laid

\* Emptying the sector behind the head keeps head and data.
LEMMA HeadWiped ==
  ASSUME IInv, DurableInv, pc = "boot", NEW head \in Sectors, IsHead(flash, head),
         NEW cells, 0 \in cells, 1 \in cells,
         flash' = [flash EXCEPT ![NextSector(head)] = Wiped(@, cells)]
  PROVE  /\ flash' \in Sounds /\ Ring(flash')
         /\ StoredIn(flash') = StoredIn(flash)
         /\ ~InUse(flash', NextSector(head))
         /\ \/ FoundState(flash, head) = "EMPTY" /\ Blank(flash')
            \/ /\ FoundState(flash, head) \in {"OPEN", "CLOSED"}
               /\ Headed(flash', head)
               /\ FoundState(flash, head) = "CLOSED" <=> Closed(flash', head)
<1> DEFINE t == NextSector(head)
<1>1. flash \in Sounds /\ Ring(flash) /\ t \in Sectors
  BY NextSectorType DEF DurableInv, SectorsInv
<1>2. flash' \in Sounds /\ SameBut(flash, flash', t) /\ ~InUse(flash', t)
  BY <1>1, WipedUnused
<1> HIDE DEF t
<1>3. ASSUME Blank(flash)
      PROVE  /\ Ring(flash') /\ StoredIn(flash') = StoredIn(flash)
             /\ FoundState(flash, head) = "EMPTY" /\ Blank(flash')
  <2>1. Blank(flash')
    BY <1>1, <1>2, <1>3, EmptyBlank
  <2> QED
    BY <1>3, <2>1, BlankFound, StoredBlank DEF Ring
<1>4. ASSUME NEW h \in Sectors, Headed(flash, h) \/ Full(flash, h)
      PROVE  /\ Ring(flash') /\ StoredIn(flash') = StoredIn(flash)
             /\ FoundState(flash, head) \in {"OPEN", "CLOSED"}
             /\ Headed(flash', head)
             /\ FoundState(flash, head) = "CLOSED" <=> Closed(flash', head)
  <2>1. h = head /\ FoundState(flash, head) = SectorState(flash, head)
        /\ FoundState(flash, head) # "EMPTY"
    BY <1>4, HeadFound
  <2>2. Headed(flash', head) /\ (Closed(flash', head) <=> Closed(flash, head))
    BY <1>2, <1>4, <2>1, EmptyBehind DEF t
  <2>3. \A s \in Sectors : s # t => SameEntries(flash[s], flash'[s])
    BY <1>2, SameIsSame DEF SameBut
  <2>4. StoredIn(flash') = StoredIn(flash)
    BY <1>1, <1>2, <1>4, <2>1, <2>2, <2>3, SameInReach DEF t
  <2>5. SectorState(flash, head) \in {"OPEN", "CLOSED"}
    BY <2>1 DEF SectorState
  <2> QED
    BY <2>1, <2>2, <2>4, <2>5, StateIs DEF Ring
<1> QED
  BY <1>1, <1>2, <1>3, <1>4 DEF Ring, t

\* The constructor finds the ring again.
LEMMA BootDurable ==
  ASSUME IInv, DurableInv, Boot PROVE DurableInv' /\ StoredIn(flash') = StoredIn(flash)
<1>1. PICK head \in Sectors :
        /\ IsHead(flash, head)
        /\ flash' = Erased(NextSector(head))
        /\ LET state == FoundState(flash, head)
           IN /\ Enter(IF state = "CLOSED" THEN NextSector(head) ELSE head)
              /\ pc' = CASE state = "EMPTY" -> "format"
                         [] state = "OPEN" -> "detect"
                         [] state = "CLOSED" -> "gc"
  BY DEF Boot
<1>2. /\ pc = "boot" /\ UNCHANGED <<op, gcCount, gcEntry, gcData, rec>>
      /\ gcEntry = 1 /\ gcData = SectorSize
  BY DEF Boot, DurableInv, GatherInv
<1>3. /\ flash' = [flash EXCEPT ![NextSector(head)] = Wiped(@, Offsets)]
      /\ 0 \in Offsets /\ 1 \in Offsets
  BY <1>1, Context DEF Erased
<1>4. /\ flash' \in Sounds /\ Ring(flash')
      /\ StoredIn(flash') = StoredIn(flash)
      /\ ~InUse(flash', NextSector(head))
      /\ \/ FoundState(flash, head) = "EMPTY" /\ Blank(flash')
         \/ /\ FoundState(flash, head) \in {"OPEN", "CLOSED"}
            /\ Headed(flash', head)
            /\ FoundState(flash, head) = "CLOSED" <=> Closed(flash', head)
  BY <1>1, <1>2, <1>3, HeadWiped
<1>5. entryWriteOffset' = 1 /\ dataWriteOffset' = SectorSize
  BY <1>1 DEF Enter
<1>6. CASE FoundState(flash, head) = "EMPTY"
  <2>1. pc' = "format" /\ Blank(flash')
    BY <1>1, <1>4, <1>6
  <2>2. DurableInv'
    BY <1>4, <1>5, <2>1
       DEF DurableInv, SectorsInv, RingInv, HereInv, RecInv, GatherInv, Writing, Collecting, Steady
  <2> QED
    BY <1>4, <2>2
<1>7. CASE FoundState(flash, head) = "OPEN"
  <2>1. /\ pc' = "detect" /\ sectorIndex' = head /\ Headed(flash', head) /\ ~Closed(flash', head)
    BY <1>1, <1>4, <1>7 DEF Enter
  <2>2. Here'[0] = Empty
    BY <2>1 DEF Here, Closed
  <2>3. HereInv'
    <3>1. \A o \in Entries(Here') : ~(o < 1)
      BY DEF Entries
    <3> QED
      BY <1>5, <2>1, <2>2, <3>1 DEF HereInv, Steady
  <2>4. SectorsInv' /\ RingInv' /\ RecInv' /\ GatherInv'
    BY <1>4, <2>1 DEF SectorsInv, RingInv, RecInv, GatherInv, Writing, Collecting
  <2> QED
    BY <1>4, <2>3, <2>4 DEF DurableInv
<1>8. CASE FoundState(flash, head) = "CLOSED"
  <2>1. /\ pc' = "gc" /\ sectorIndex' = NextSector(head)
        /\ Headed(flash', head) /\ Closed(flash', head)
    BY <1>1, <1>4, <1>8 DEF Enter
  <2>2. \A o \in Offsets : Here'[o] = Empty
    BY <1>1, <2>1, Context, NextSectorType, ErasedIsEmpty DEF Here, Sector
  <2>3. Entries(Here') = {} /\ Live(Here') = {} /\ Here'[0] = Empty /\ Laid(Here', 1, SectorSize)
    BY <2>2, ErasedLaid
  <2>4. DataEnd' = SectorSize /\ ~Writing'
    BY <1>5, <2>1, Counts DEF DataEnd, Writing
  <2>5. HereInv' /\ RecInv'
    BY <1>5, <2>1, <2>3, <2>4 DEF HereInv, RecInv
  <2>6. SectorsInv' /\ RingInv'
    BY <1>4, <2>1, <2>4 DEF SectorsInv, RingInv
  <2>7. Gathered(head)'
    <3>1. Collected(flash', head, 1)
      <4>1. flash'[NextSector(head)] = Here'
        BY <2>1 DEF Here
      <4>2. \A t : \A o \in Live(t) : ~(o < 1)
        BY LiveRange
      <4> QED
        BY <2>3, <4>1, <4>2 DEF Collected
    <3> QED
      BY <1>2, <2>1, <2>4, <3>1 DEF Gathered, Gathering
  <2>8. GatherInv'
    BY <2>1, <2>7 DEF GatherInv
  <2> QED
    BY <1>4, <2>5, <2>6, <2>8 DEF DurableInv
<1> QED
  BY <1>4, <1>6, <1>7, <1>8

\* An empty flash is formatted.
LEMMA FormatDurable ==
  ASSUME IInv, DurableInv, Format PROVE DurableInv' /\ StoredIn(flash') = StoredIn(flash)
<1>1. /\ pc = "format" /\ pc' = "ready" /\ flash' = Erased(sectorIndex)
      /\ UNCHANGED <<sectorIndex, entryWriteOffset, dataWriteOffset>>
      /\ entryWriteOffset = 1 /\ dataWriteOffset = SectorSize
      /\ Blank(flash) /\ flash \in Sounds
  BY DEF Format, ram, DurableInv, HereInv, RingInv, SectorsInv
<1>2. flash' = [flash EXCEPT ![sectorIndex] = Wiped(@, Offsets)] /\ 0 \in Offsets /\ 1 \in Offsets
      /\ sectorIndex \in Sectors
  BY <1>1, Context DEF Erased
<1>3. flash' \in Sounds /\ SameBut(flash, flash', sectorIndex) /\ ~InUse(flash', sectorIndex)
  BY <1>1, <1>2, WipedUnused
<1>4. Blank(flash')
  BY <1>1, <1>2, <1>3, EmptyBlank
<1>5. \A o \in Offsets : Here'[o] = Empty
  BY <1>1, <1>2, Context, ErasedIsEmpty DEF Here, Sector
<1>6. Here'[0] = Empty /\ Laid(Here', 1, SectorSize)
  BY <1>5, ErasedLaid
<1>7. DataEnd' = SectorSize /\ ~Writing'
  BY <1>1, Counts DEF DataEnd, Writing
<1>8. HereInv' /\ RecInv'
  BY <1>1, <1>6, <1>7 DEF HereInv, RecInv
<1>9. SectorsInv' /\ RingInv' /\ GatherInv'
  BY <1>1, <1>2, <1>3, <1>4, <1>7 DEF SectorsInv, Ring, RingInv, Settled, GatherInv, Collecting
<1> QED
  BY <1>1, <1>4, <1>8, <1>9, StoredBlank DEF DurableInv

\* detectOffsets finds the end of the table and of the data.
LEMMA DetectDurable ==
  ASSUME IInv, DurableInv, DetectEntry \/ DetectData PROVE DurableInv'
<1> DEFINE x == Here
<1> DEFINE e == entryWriteOffset
<1> DEFINE w == dataWriteOffset
<1>0. pc = "detect" /\ UNCHANGED <<flash, sectorIndex>>
  BY DEF DetectEntry, DetectData
<1>1. /\ flash \in Sounds /\ Ring(flash) /\ Headed(flash, sectorIndex) /\ x[0] = Empty
      /\ \A p \in 1..SectorSize - 1 : p < e => x[p] # Empty
      /\ \A o \in Entries(x) : o < e => w <= x[o].offset
      /\ \/ w = SectorSize
         \/ \E o \in Entries(x) : o < e /\ w = x[o].offset
  BY <1>0 DEF DurableInv, SectorsInv, RingInv, HereInv
<1>2. x \in Sector /\ Neat(x)
  <2>1. x \in Sector /\ x = flash[sectorIndex] /\ sectorIndex \in Sectors
    BY Context DEF Here
  <2> QED
    BY <1>1, <2>1 DEF Sounds, Sound, Headed, InUse
<1>3. /\ e \in 1..SectorSize + 1 /\ w \in 0..SectorSize /\ e <= w + 1 /\ e \in Int
  BY Counts DEF IInv, TypeOK, TableBelowData
<1>4. Here' = x
  BY <1>0 DEF Here
<1>5. \A o \in Entries(x) : /\ x[o].size \in Nat /\ x[o].offset \in Nat
                            /\ x[o].offset >= o + 1 /\ x[o].offset + x[o].size <= SectorSize
                            /\ o \in 1..SectorSize - 1
  BY <1>2, EntryBounds
<1>6. \A o \in Entries(x) : (\A p \in Entries(x) : p < e => p < o) => isEntryValid(o, w, x[o])
  BY <1>1, <1>2 DEF Neat
<1> HIDE DEF x
<1>7. CASE DetectEntry
  <2>1. /\ pc' = "detect" /\ entryWriteOffset' = e + 1 /\ e <= w
        /\ \/ /\ e < SectorSize /\ x[e] # Empty
              /\ dataWriteOffset' = IF isEntryValid(e, w, x[e]) THEN x[e].offset ELSE w
           \/ e = SectorSize /\ dataWriteOffset' = w
    BY <1>0, <1>7 DEF DetectEntry, Here, x
  <2>2. \A p \in 1..SectorSize - 1 : p < e + 1 => x[p] # Empty
    <3>1. ASSUME NEW p \in 1..SectorSize - 1, p < e + 1 PROVE x[p] # Empty
      <4>1. CASE p < e
        BY <1>1, <4>1
      <4>2. CASE ~(p < e)
        <5>1. p = e /\ e < SectorSize
          BY <1>3, <3>1, <4>2, Counts
        <5> QED
          BY <1>3, <2>1, <5>1
      <4> QED
        BY <4>1, <4>2
    <3> QED
      BY <3>1
  <2>3. CASE e \in Entries(x)
    <3>1. e \in 1..SectorSize - 1
      BY <1>5, <2>3
    <3>2. isEntryValid(e, w, x[e])
      BY <1>6, <2>3
    <3>3. dataWriteOffset' = x[e].offset /\ x[e].offset + x[e].size <= w
      BY <2>1, <3>1, <3>2, Counts DEF isEntryValid
    <3>4. ASSUME NEW o \in Entries(x), o < e + 1 PROVE x[e].offset <= x[o].offset
      <4>1. CASE o = e
        BY <1>5, <2>3, <4>1
      <4>2. CASE o # e
        <5>1. o \in Int /\ o < e /\ x[o].offset \in Nat /\ x[e].offset \in Nat /\ x[e].size \in Nat
          BY <1>3, <1>5, <2>3, <3>4, <4>2
        <5>2. w <= x[o].offset
          BY <1>1, <5>1
        <5> QED
          BY <1>3, <3>3, <5>1, <5>2
      <4> QED
        BY <4>1, <4>2
    <3>5. e < e + 1
      BY <1>3
    <3>6. HereInv'
      BY <1>1, <1>4, <2>1, <2>2, <2>3, <3>3, <3>4, <3>5 DEF HereInv, Steady
    <3>7. SectorsInv' /\ RingInv' /\ RecInv' /\ GatherInv'
      BY <1>0, <1>1, <2>1 DEF SectorsInv, RingInv, RecInv, GatherInv, Writing, Collecting
    <3> QED
      BY <3>6, <3>7 DEF DurableInv
  <2>4. CASE e \notin Entries(x)
    <3>1. dataWriteOffset' = w
      <4>1. e < SectorSize => ~isEntryValid(e, w, x[e])
        BY <1>3, <2>4, Counts DEF isEntryValid, Entries
      <4> QED
        BY <2>1, <4>1
    <3>2. \A o \in Entries(x) : o < e + 1 <=> o < e
      <4>1. \A o \in Entries(x) : o \in Int /\ o # e
        BY <1>5, <2>4
      <4> QED
        BY <1>3, <4>1
    <3>3. HereInv'
      BY <1>1, <1>4, <2>1, <2>2, <3>1, <3>2 DEF HereInv, Steady
    <3>4. SectorsInv' /\ RingInv' /\ RecInv' /\ GatherInv'
      BY <1>0, <1>1, <2>1 DEF SectorsInv, RingInv, RecInv, GatherInv, Writing, Collecting
    <3> QED
      BY <3>3, <3>4 DEF DurableInv
  <2> QED
    BY <2>3, <2>4
<1>8. CASE DetectData
  <2>1. /\ pc' = "ready" /\ entryWriteOffset' = e
        /\ (e <= w /\ e < SectorSize) => x[e] = Empty
    BY <1>8 DEF DetectData, Here, x
  <2>2. dataWriteOffset' = w \/ \E o \in e..w - 1 : dataWriteOffset' = o
    BY <1>8 DEF DetectData
  <2>3. dataWriteOffset' \in Int /\ dataWriteOffset' <= w
    BY <1>3, <2>2
  <2>4. ASSUME NEW o \in Entries(x) PROVE o < e
    <3>1. o \in 1..SectorSize - 1 /\ x[o].offset \in Nat
      BY <1>5
    <3>2. CASE e <= w /\ e < SectorSize
      <4>1. x[e] = Empty
        BY <2>1, <3>2
      <4>2. o >= e => e \in 1..o
        BY <1>3, <3>1
      <4>3. ~(o >= e)
        BY <1>2, <4>1, <4>2 DEF Neat
      <4> QED
        BY <1>3, <3>1, <4>3
    <3>3. CASE e <= w /\ ~(e < SectorSize)
      BY <1>3, <3>1, <3>3, Counts
    <3>4. CASE ~(e <= w)
      <4>1. e = w + 1
        BY <1>3, <3>4
      <4>2. CASE w = SectorSize
        BY <3>1, <4>1, <4>2, Counts
      <4>3. CASE w # SectorSize
        <5>1. PICK q \in Entries(x) : q < e /\ w = x[q].offset
          BY <1>1, <4>3
        <5>2. ASSUME o >= e PROVE FALSE
          <6>1. q < o
            BY <1>3, <1>5, <3>1, <5>1, <5>2
          <6>2. isEntryValid(o, w, x[o])
            BY <1>2, <5>1, <6>1 DEF Neat
          <6>3. x[o].offset >= o + 1 /\ x[o].offset + x[o].size <= w /\ x[o].size \in Nat
            BY <1>5, <6>2 DEF isEntryValid
          <6> QED
            BY <1>3, <3>1, <4>1, <5>2, <6>3
        <5> QED
          BY <1>3, <3>1, <5>2
      <4> QED
        BY <4>2, <4>3
    <3> QED
      BY <3>2, <3>3, <3>4
  <2>5. Laid(x, e, dataWriteOffset')
    <3>1. ASSUME NEW o \in Entries(x) PROVE dataWriteOffset' <= x[o].offset
      <4>1. w <= x[o].offset /\ x[o].offset \in Nat
        BY <1>1, <1>5, <2>4
      <4> QED
        BY <1>3, <2>3, <4>1
    <3> QED
      BY <1>1, <2>4, <3>1 DEF Laid
  <2>6. DataEnd' = dataWriteOffset' /\ ~Writing'
    <3>1. ~Writing'
      BY <2>1 DEF Writing
    <3>2. PICK d \in Int : d = dataWriteOffset'
      BY <2>3
    <3>3. DataEnd' = dataWriteOffset'
      <4>1. DataEnd' = d + 0
        BY <2>1, <3>2 DEF DataEnd, Writing
      <4>2. d + 0 = d
        OBVIOUS
      <4> QED
        BY <3>2, <4>1, <4>2
    <3> QED
      BY <3>1, <3>3
  <2>7. HereInv' /\ RecInv'
    BY <1>1, <1>4, <2>1, <2>5, <2>6 DEF HereInv, RecInv
  <2>8. SectorsInv' /\ RingInv' /\ GatherInv'
    BY <1>0, <1>1, <2>1, <2>6 DEF SectorsInv, RingInv, Settled, GatherInv, Collecting
  <2> QED
    BY <2>7, <2>8 DEF DurableInv
<1> QED
  BY <1>7, <1>8

\* Clearing empties the sectors; when it ends there is nothing left.
LEMMA ClearDurable ==
  ASSUME IInv, ErasedInv, DurableInv, Reusable, ClearSector \/ EndClear
  PROVE  /\ DurableInv'
         /\ EndClear => StoredIn(flash') = [i \in Ids |-> << >>]
<1>1. ASSUME ClearSector PROVE DurableInv' /\ pc' = "clear"
  <2>1. /\ pc = "clear" /\ pc' = "clear" /\ flash' = Erased(gcCount) /\ gcCount \in Sectors
    BY <1>1, Counts DEF ClearSector, IInv, TypeOK, Sectors
  <2>2. flash' = [flash EXCEPT ![gcCount] = Wiped(@, Offsets)] /\ 0 \in Offsets /\ 1 \in Offsets
        /\ flash \in Sounds
    BY <2>1, Context DEF Erased, DurableInv, SectorsInv
  <2>3. flash' \in Sounds /\ SameBut(flash, flash', gcCount) /\ ~InUse(flash', gcCount)
    BY <2>1, <2>2, WipedUnused
  <2>4. ClearMayFail => Short(flash')
    BY <2>1, <2>3, EmptyAny DEF Reusable, DurableInv, RingInv
  <2>5. ClearMayFail => Ring(flash')
    BY <2>4 DEF Short, Ring
  <2> QED
    BY <2>1, <2>3, <2>4, <2>5
       DEF DurableInv, SectorsInv, RingInv, HereInv, RecInv, GatherInv, Writing, Collecting, Steady
<1>2. ASSUME EndClear PROVE DurableInv' /\ StoredIn(flash') = [i \in Ids |-> << >>]
  <2>1. /\ pc = "clear" /\ pc' = "ready" /\ gcCount = SectorCount /\ flash' = flash
        /\ sectorIndex' = 0 /\ entryWriteOffset' = 1 /\ dataWriteOffset' = SectorSize
        /\ 0 \in Sectors /\ flash \in Sounds
    BY <1>2, Counts DEF EndClear, Enter, Sectors, DurableInv, SectorsInv
  <2>2. \A s \in Sectors : \A o \in Offsets : flash[s][o] = Empty
    <3>1. \A s \in Sectors : s < gcCount
      BY <2>1, Counts DEF Sectors
    <3> QED
      BY <2>1, <3>1 DEF ErasedInv
  <2>3. Blank(flash)
    BY <2>2, Context DEF Blank, InUse, Unused
  <2>4. Here'[0] = Empty /\ Laid(Here', 1, SectorSize)
    <3>1. \A o \in Offsets : Here'[o] = Empty
      BY <2>1, <2>2 DEF Here
    <3> QED
      BY <3>1, ErasedLaid
  <2>5. DataEnd' = SectorSize /\ ~Writing'
    BY <2>1, Counts DEF DataEnd, Writing
  <2>6. HereInv' /\ RecInv'
    BY <2>1, <2>4, <2>5 DEF HereInv, RecInv
  <2>7. SectorsInv' /\ RingInv' /\ GatherInv'
    BY <2>1, <2>3, <2>5 DEF SectorsInv, Ring, RingInv, Settled, Blank, GatherInv, Collecting
  <2> QED
    BY <2>1, <2>3, <2>6, <2>7, StoredBlank DEF DurableInv
<1> QED
  BY <1>1, <1>2 DEF ClearSector, EndClear

\* A power failure, also during an erasure, leaves a ring with the same data, unless it
\* is the sectors being cleared that are erased.
LEMMA PowerFailDurable ==
  ASSUME IInv, ErasedInv, DurableInv, Reusable, PowerFail
  PROVE  DurableInv' /\ (pc # "clear" => StoredIn(flash') = StoredIn(flash))
<1>1. /\ pc' = "boot" /\ gcEntry' = 1 /\ gcData' = SectorSize
      /\ flash \in Sounds
      /\ pc # "clear" => Ring(flash)
      /\ pc = "clear" => Short(flash) /\ SectorCount <= 3
  BY DEF PowerFail, Reusable, StartGc, DurableInv, SectorsInv, RingInv
<1>2. ASSUME pc # "clear"
      PROVE  flash' \in Sounds /\ Ring(flash') /\ StoredIn(flash') = StoredIn(flash)
  <2>1. CASE UNCHANGED flash
    BY <1>1, <1>2, <2>1
  <2>2. ASSUME NEW s \in Sectors, Erasing(s),
               flash' = [flash EXCEPT ![s] = Wiped(@, 0..PageSize - 1)]
        PROVE  flash' \in Sounds /\ Ring(flash') /\ StoredIn(flash') = StoredIn(flash)
    <3>0. 0 \in 0..PageSize - 1 /\ 1 \in 0..PageSize - 1
      BY FlashAssumption DEF Reusable
    <3>1. CASE pc = "boot"
      <4>1. PICK head \in Sectors : IsHead(flash, head) /\ s = NextSector(head)
        BY <2>2, <3>1 DEF Erasing
      <4> QED
        BY <2>2, <3>0, <3>1, <4>1, HeadWiped
    <3>2. CASE pc = "format"
      <4>1. s = sectorIndex /\ Blank(flash)
        BY <2>2, <3>2 DEF Erasing, DurableInv, RingInv
      <4>2. flash' \in Sounds /\ SameBut(flash, flash', s) /\ ~InUse(flash', s)
        BY <1>1, <2>2, <3>0, WipedUnused
      <4>3. Blank(flash')
        BY <4>1, <4>2, EmptyBlank
      <4> QED
        BY <4>1, <4>2, <4>3, StoredBlank DEF Ring
    <3>3. CASE pc = "gc"
      <4>1. ~MoreEntries /\ s = TailSector
        BY <2>2, <3>3 DEF Erasing
      <4> QED
        BY <2>2, <3>0, <3>3, <4>1, TailWiped
    <3> QED
      BY <1>1, <1>2, <2>2, <3>1, <3>2, <3>3 DEF Erasing
  <2> QED
    BY <2>1, <2>2 DEF PowerFail
<1>3. ASSUME pc = "clear" PROVE flash' \in Sounds /\ Ring(flash')
  <2>1. CASE UNCHANGED flash
    BY <1>1, <1>3, <2>1 DEF Short, Ring
  <2>2. ASSUME NEW s \in Sectors, flash' = [flash EXCEPT ![s] = Wiped(@, 0..PageSize - 1)]
        PROVE  flash' \in Sounds /\ Ring(flash')
    <3>1. 0 \in 0..PageSize - 1 /\ 1 \in 0..PageSize - 1
      BY FlashAssumption DEF Reusable
    <3>2. flash' \in Sounds /\ SameBut(flash, flash', s) /\ ~InUse(flash', s)
      BY <1>1, <2>2, <3>1, WipedUnused
    <3>3. Short(flash')
      BY <1>1, <1>3, <3>2, EmptyAny
    <3> QED
      BY <3>2, <3>3 DEF Short, Ring
  <2> QED
    BY <2>1, <2>2 DEF PowerFail
<1>4. DurableInv'
  BY <1>1, <1>2, <1>3
     DEF DurableInv, SectorsInv, RingInv, HereInv, RecInv, GatherInv, Writing, Collecting, Steady
<1> QED
  BY <1>2, <1>4

\* At the start the flash is empty.
LEMMA InitDurable ==
  Init => DurableInv /\ StoredIn(flash) = [i \in Ids |-> << >>]
<1> SUFFICES ASSUME Init PROVE DurableInv /\ StoredIn(flash) = [i \in Ids |-> << >>]
  OBVIOUS
<1>1. /\ flash = [s \in Sectors |-> [o \in Offsets |-> Empty]]
      /\ pc = "boot" /\ gcEntry = 1 /\ gcData = SectorSize
  BY DEF Init, InitWith
<1>2. \A s \in Sectors : flash[s] \in Sector /\ Unused(flash[s])
  <2>1. Empty \in Cell /\ 0 \in Offsets /\ 1 \in Offsets
    BY Counts DEF Cell, Offsets
  <2> QED
    BY <1>1, <2>1 DEF Sector, Unused
<1>3. flash \in Sounds /\ Blank(flash)
  BY <1>1, <1>2 DEF Sounds, Sound, Blank, InUse
<1>4. DurableInv
  BY <1>1, <1>3
     DEF DurableInv, SectorsInv, Ring, RingInv, HereInv, RecInv, GatherInv, Writing, Collecting,
         Steady
<1> QED
  BY <1>3, <1>4, StoredBlank

\* Every step keeps the invariant.
LEMMA StepDurable ==
  Reusable => (IInv /\ ErasedInv /\ DurableInv /\ [Next]_vars => DurableInv')
<1> SUFFICES ASSUME Reusable, IInv, ErasedInv, DurableInv, [Next]_vars PROVE DurableInv'
  OBVIOUS
<1>1. CASE Call \/ WriteFits \/ OutOfMemory
  BY <1>1, CallDurable
<1>2. CASE Boot \/ Format
  BY <1>2, BootDurable, FormatDurable
<1>3. CASE DetectEntry \/ DetectData
  BY <1>3, DetectDurable
<1>4. CASE CloseFirst \/ CloseSecond
  BY <1>4, CloseDurable
<1>5. CASE AppendData \/ AppendEntryFirst \/ AppendEntrySecond
  BY <1>5, AppendDataDurable, AppendEntryFirstDurable, AppendEntrySecondDurable
<1>6. CASE GcEntry \/ GcErase
  BY <1>6, GcEntryDurable, GcEraseDurable
<1>7. CASE ClearSector \/ EndClear
  BY <1>7, ClearDurable
<1>8. CASE PowerFail
  BY <1>8, PowerFailDurable
<1>9. CASE UNCHANGED vars
  <2>1. UNCHANGED <<flash, sectorIndex, entryWriteOffset, dataWriteOffset, gcCount, gcEntry,
                    gcData, pc, op, rec>>
    BY <1>9 DEF vars, ram
  <2> QED
    BY <2>1
       DEF DurableInv, SectorsInv, RingInv, HereInv, RecInv, GatherInv, Gathered, Writing,
           Collecting, Here, DataEnd, TailSector
<1> QED
  BY <1>1, <1>2, <1>3, <1>4, <1>5, <1>6, <1>7, <1>8, <1>9 DEF Next, Work

-----------------------------------------------------------------------------
(* What readBlocking returns *)

\* the cells where readBlocking looks n sectors back
Searched(n) ==
  LET sector == flash[Before(sectorIndex, n)]
  IN {o \in 1..SectorSize - 1 :
        /\ IF n = 0 THEN o < entryWriteOffset
           ELSE \E p \in ClosedTable(sector) : o <= p
        /\ isEntryValid(o, SectorSize, sector[o])}

\* In the current sector it finds all entries.
LEMMA SearchedHere ==
  ASSUME IInv, DurableInv, Idle PROVE Searched(0) = Live(flash[Before(sectorIndex, 0)])
<1>1. Before(sectorIndex, 0) = sectorIndex /\ flash[sectorIndex] = Here
  BY Context, BeforeZero DEF Here
<1>2. Sound(Here) /\ Laid(Here, entryWriteOffset, DataEnd) /\ entryWriteOffset \in Nat
  BY Context DEF DurableInv, SectorsInv, HereInv, Sounds, Steady, Idle, Here
<1>3. Neat(Here) /\ Live(Here) = Entries(Here)
  <2> HIDE DEF Here
  <2> QED
    BY <1>2, HereNeat
<1>4. Searched(0) = {o \in 1..SectorSize - 1 :
                       o < entryWriteOffset /\ isEntryValid(o, SectorSize, Here[o])}
  BY <1>1 DEF Searched
<1>5. \A o \in 1..SectorSize - 1 :
        o \in Entries(Here) <=> o < entryWriteOffset /\ isEntryValid(o, SectorSize, Here[o])
  BY <1>2, <1>3 DEF Laid, Neat, Entries, isEntryValid
<1>6. Searched(0) = Entries(Here)
  BY <1>4, <1>5, LiveRange
<1> QED
  BY <1>1, <1>3, <1>6

\* In a sector behind it, which is closed when it is in use, it finds all entries.
LEMMA SearchedBehind ==
  ASSUME IInv, DurableInv, Idle, NEW n \in Places, n # 0
  PROVE  Searched(n) = Live(flash[Before(sectorIndex, n)])
<1> DEFINE s == Before(sectorIndex, n)
<1> DEFINE x == flash[s]
<1>1. s \in Sectors /\ s # sectorIndex
  BY Context, ReachOther, ReachBehind
<1>2. x \in Sector /\ Sound(x) /\ Settled(flash, sectorIndex)
  BY <1>1, Context DEF DurableInv, SectorsInv, RingInv, Sounds, Idle
<1>3. InUse(flash, s) => Closed(flash, s)
  BY <1>1, <1>2 DEF Settled, Headed, Blank
<1>4. x[0] # Empty \/ x[1] = Empty
  BY <1>3 DEF InUse, Closed, Unused
<1> HIDE DEF s
<1>5. Searched(n) = {o \in 1..SectorSize - 1 :
                       (\E p \in ClosedTable(x) : o <= p) /\ isEntryValid(o, SectorSize, x[o])}
  BY DEF Searched, s
<1> HIDE DEF x
<1>6. ClosedTable(x) = Live(x)
  BY <1>2, <1>4, ClosedTableIsLive
<1>7. CASE Unused(x)
  BY <1>5, <1>6, <1>7 DEF Live, s, x
<1>8. CASE ~Unused(x)
  <2>1. Live(x) = Entries(x) /\ Neat(x)
    BY <1>2, <1>8 DEF Live, Sound
  <2>2. ASSUME NEW o \in 1..SectorSize - 1
        PROVE  o \in Entries(x) <=>
                 (\E p \in Entries(x) : o <= p) /\ isEntryValid(o, SectorSize, x[o])
    <3>1. o <= o
      BY Counts
    <3>2. isEntryValid(o, SectorSize, x[o]) => o \in Entries(x)
      BY DEF isEntryValid, Entries
    <3> QED
      BY <2>1, <3>1, <3>2 DEF Neat
  <2>3. Searched(n) = Entries(x)
    BY <1>5, <1>6, <2>1, <2>2, LiveRange
  <2> QED
    BY <2>1, <2>3 DEF s, x
<1> QED
  BY <1>7, <1>8

\* So it finds what is found from the current sector, which is what a restart finds.
LEMMA ReadInv ==
  ASSUME IInv, ErasedInv, DurableInv PROVE ReadIsDurable
<1> SUFFICES ASSUME Idle PROVE [i \in Ids |-> Read(i)] = StoredIn(flash)
  BY DEF ReadIsDurable
<1>1. [n \in 0..SectorCount - 2 |-> Searched(n)] = Lives(flash, sectorIndex)
  <2>1. ASSUME NEW n \in Places PROVE Searched(n) = Live(flash[Before(sectorIndex, n)])
    BY SearchedHere, SearchedBehind
  <2> QED
    BY <2>1 DEF Lives, Places
<1>2. ASSUME NEW i \in Ids PROVE Read(i) = At(flash, sectorIndex, i)
  <2>1. Read(i) = Newest(flash, i, sectorIndex, [n \in 0..SectorCount - 2 |-> Searched(n)])
    BY DEF Read, Searched
  <2> QED
    BY <1>1, <2>1 DEF At
<1>3. StoredIn(flash) = Stored(flash, sectorIndex)
  <2>1. flash \in Sounds /\ Settled(flash, sectorIndex)
    BY DEF DurableInv, SectorsInv, RingInv, Idle
  <2>2. ~InUse(flash, NextSector(sectorIndex))
    BY TailUnused DEF ErasedInv, Idle
  <2> QED
    BY <2>1, <2>2, Context, SettledStored
<1> QED
  BY <1>2, <1>3 DEF Stored

\* Whenever the storage can be called, readBlocking returns what a restart at this moment
\* would find, for every geometry, whatever the calls and the power failures before.
THEOREM FlashReadIsDurable ==
  ASSUME Reusable PROVE Spec => []ReadIsDurable
<1>1. Init => IInv /\ ErasedInv /\ DurableInv
  BY InitInv, InitErased, InitDurable
<1>2. IInv /\ ErasedInv /\ DurableInv /\ [Next]_vars => (IInv /\ ErasedInv /\ DurableInv)'
  BY StepInv, StepErased, StepDurable DEF IInv
<1>3. IInv /\ ErasedInv /\ DurableInv => ReadIsDurable
  BY ReadInv
<1> QED
  BY <1>1, <1>2, <1>3, PTL DEF Spec

-----------------------------------------------------------------------------
(* The refinement *)

\* the operation as the abstract map sees it: refused when the storage is full
Visible == IF pc = "full" THEN NoOp ELSE op

\* the history variable is what a restart would find
StoredInv == stored = StoredIn(flash)

\* The calls of the storage are those of the map.
LEMMA CallMaps ==
  ASSUME IInv, StoredInv, stored' = StoredIn(flash'), Call PROVE KVS!Next
<1>1. Visible = NoOp /\ stored' = stored
  <2>1. Idle /\ flash' = flash
    BY DEF Call, BeginWrite, BeginClear
  <2>2. pc # "full" => op = NoOp
    BY <2>1 DEF Idle, IInv, TypeOK, OpsAt
  <2> QED
    BY <2>1, <2>2 DEF Visible, StoredInv
<1>2. ASSUME NEW i \in Ids, NEW c \in Contents, BeginWrite(i, c) PROVE KVS!Next
  <2>1. Visible' = [kind |-> "write", id |-> i, content |-> c]
    BY <1>2 DEF BeginWrite, Visible
  <2>2. KVS!BeginWrite(i, c)
    BY <1>1, <2>1 DEF KVS!BeginWrite, KVS!NoOp, KVS!WriteOp, NoOp, Visible
  <2> QED
    BY <2>2 DEF KVS!Next
<1>3. CASE BeginClear
  <2>1. Visible' = ClearOp
    BY <1>3 DEF BeginClear, Visible
  <2>2. KVS!BeginClear
    BY <1>1, <2>1 DEF KVS!BeginClear, KVS!NoOp, KVS!ClearOp, NoOp, ClearOp, Visible
  <2> QED
    BY <2>2 DEF KVS!Next
<1> QED
  BY <1>2, <1>3 DEF Call

\* A write that is refused is abandoned.
LEMMA OutOfMemoryMaps ==
  ASSUME IInv, StoredInv, stored' = StoredIn(flash'), OutOfMemory PROVE KVS!Next
<1>1. pc = "fit" /\ pc' = "full" /\ flash' = flash
  BY DEF OutOfMemory
<1>2. Visible = op /\ op.kind = "write" /\ Visible' = NoOp
  BY <1>1 DEF Visible, IInv, TypeOK, OpsAt, WriteOps
<1>3. Visible # NoOp
  BY <1>2 DEF NoOp
<1>4. stored' = stored
  BY <1>1 DEF StoredInv
<1>5. KVS!Abandon
  BY <1>2, <1>3, <1>4 DEF KVS!Abandon, KVS!NoOp, NoOp, Visible
<1> QED
  BY <1>5 DEF KVS!Next

\* A power failure abandons the call in progress, and otherwise nothing happens.
LEMMA PowerFailMaps ==
  ASSUME IInv, ErasedInv, DurableInv, Reusable, StoredInv, stored' = StoredIn(flash'), PowerFail
  PROVE  KVS!Next \/ UNCHANGED KVS!kvVars
<1>1. /\ Visible' = NoOp
      /\ pc # "clear" => stored' = stored
      /\ stored' \in [Ids -> {<< >>} \cup {Payload(c) : c \in Contents}]
  <2>1. DurableInv' /\ (pc # "clear" => StoredIn(flash') = StoredIn(flash))
    BY PowerFailDurable
  <2>2. pc' = "boot" /\ op' = NoOp
    BY DEF PowerFail
  <2>3. stored' \in [Ids -> {<< >>} \cup {Payload(c) : c \in Contents}]
    BY <2>1, StoredType DEF DurableInv, SectorsInv
  <2> QED
    BY <2>1, <2>2, <2>3 DEF StoredInv, Visible
<1>2. CASE pc = "clear"
  <2>1. Visible = ClearOp
    BY <1>2 DEF Visible, IInv, TypeOK, OpsAt
  <2>2. KVS!CutClear
    BY <1>1, <2>1 DEF KVS!CutClear, KVS!ClearOp, KVS!NoOp, ClearOp, NoOp, Visible
  <2> QED
    BY <2>2 DEF KVS!Next
<1>3. CASE pc # "clear" /\ Visible = NoOp
  BY <1>1, <1>3 DEF KVS!kvVars, Visible
<1>4. CASE pc # "clear" /\ Visible # NoOp
  <2>1. KVS!Abandon
    BY <1>1, <1>4 DEF KVS!Abandon, KVS!NoOp, NoOp, Visible
  <2> QED
    BY <2>1 DEF KVS!Next
<1> QED
  BY <1>2, <1>3, <1>4

\* A write takes effect when the second half of its entry is written; the copy of an
\* entry of the tail changes nothing.
LEMMA EntryMaps ==
  ASSUME IInv, ErasedInv, DurableInv, Reusable, StoredInv, stored' = StoredIn(flash'),
         AppendEntrySecond
  PROVE  KVS!Next \/ UNCHANGED KVS!kvVars
<1>1. /\ pc = "entry" /\ rec.copy \in BOOLEAN
      /\ rec.copy => StoredIn(flash') = StoredIn(flash)
      /\ ~rec.copy => /\ op \in WriteOps
                      /\ StoredIn(flash') = [StoredIn(flash) EXCEPT ![op.id] = Payload(op.content)]
  BY AppendEntrySecondDurable DEF AppendEntrySecond, IInv, TypeOK, Record
<1>2. Visible = op
  BY <1>1 DEF Visible
<1>3. CASE rec.copy
  <2>1. Visible' = op /\ stored' = stored
    BY <1>1, <1>3 DEF AppendEntrySecond, Visible, StoredInv
  <2> QED
    BY <1>2, <2>1 DEF KVS!kvVars, Visible
<1>4. CASE ~rec.copy
  <2>1. Visible' = NoOp
    BY <1>4 DEF AppendEntrySecond, Visible
  <2>2. Visible.kind = "write"
    BY <1>1, <1>2, <1>4 DEF WriteOps
  <2>3. stored' = [stored EXCEPT ![Visible.id] = Payload(Visible.content)]
    BY <1>1, <1>2, <1>4 DEF StoredInv
  <2>4. KVS!Commit
    BY <2>1, <2>2, <2>3 DEF KVS!Commit, KVS!NoOp, NoOp, Visible
  <2> QED
    BY <2>4 DEF KVS!Next
<1> QED
  BY <1>1, <1>3, <1>4

\* While the storage is cleared an id may hold any data of the map; in the end nothing.
LEMMA ClearMaps ==
  ASSUME IInv, ErasedInv, DurableInv, Reusable, StoredInv, stored' = StoredIn(flash'),
         ClearSector \/ EndClear
  PROVE  KVS!Next
<1>1. pc = "clear" /\ Visible = ClearOp
  BY DEF ClearSector, EndClear, Visible, IInv, TypeOK, OpsAt
<1>2. CASE ClearSector
  <2>1. Visible' = ClearOp
    BY <1>1, <1>2 DEF ClearSector, Visible
  <2>2. stored' \in [Ids -> {<< >>} \cup {Payload(c) : c \in Contents}]
    <3>1. DurableInv'
      BY ClearDurable
    <3>2. flash' \in Sounds
      BY <3>1 DEF DurableInv, SectorsInv
    <3> QED
      BY <3>2, StoredType
  <2>3. KVS!ClearSome
    BY <1>1, <2>1, <2>2 DEF KVS!ClearSome, KVS!ClearOp, ClearOp, Visible
  <2> QED
    BY <2>3 DEF KVS!Next
<1>3. CASE EndClear
  <2>1. Visible' = NoOp
    BY <1>3 DEF EndClear, Visible
  <2>2. stored' = [i \in Ids |-> << >>]
    BY <1>3, ClearDurable
  <2>3. KVS!EndClear
    BY <1>1, <2>1, <2>2 DEF KVS!EndClear, KVS!ClearOp, KVS!NoOp, ClearOp, NoOp, Visible
  <2> QED
    BY <2>3 DEF KVS!Next
<1> QED
  BY <1>2, <1>3

\* Nothing else changes the map: neither searching, closing, collecting and erasing
\* sectors nor recovering them.
LEMMA QuietMaps ==
  ASSUME IInv, ErasedInv, DurableInv, Reusable, StoredInv, stored' = StoredIn(flash'),
         \/ Boot \/ Format \/ DetectEntry \/ DetectData \/ WriteFits \/ CloseFirst
         \/ CloseSecond \/ AppendData \/ AppendEntryFirst \/ GcEntry \/ GcErase
  PROVE  UNCHANGED KVS!kvVars
<1>1. StoredIn(flash') = StoredIn(flash)
  <2>1. CASE DetectEntry \/ DetectData \/ WriteFits \/ GcEntry
    BY <2>1 DEF DetectEntry, DetectData, WriteFits, GcEntry
  <2>2. CASE Boot \/ Format
    BY <2>2, BootDurable, FormatDurable
  <2>3. CASE CloseFirst \/ CloseSecond
    BY <2>3, CloseDurable
  <2>4. CASE AppendData \/ AppendEntryFirst
    BY <2>4, AppendDataDurable, AppendEntryFirstDurable
  <2>5. CASE GcErase
    BY <2>5, GcEraseDurable
  <2> QED
    BY <2>1, <2>2, <2>3, <2>4, <2>5
<1>2. Visible' = Visible
  <2>1. CASE Boot
    <3>1. PICK head \in Sectors :
            pc' = CASE FoundState(flash, head) = "EMPTY" -> "format"
                    [] FoundState(flash, head) = "OPEN" -> "detect"
                    [] FoundState(flash, head) = "CLOSED" -> "gc"
      BY <2>1 DEF Boot
    <3>2. FoundState(flash, head) \in {"EMPTY", "OPEN", "CLOSED"}
      BY DEF FoundState, SectorState
    <3>3. pc = "boot" /\ pc' # "full" /\ op' = op
      BY <2>1, <3>1, <3>2 DEF Boot
    <3> QED
      BY <3>3 DEF Visible
  <2>2. CASE Format \/ DetectEntry \/ DetectData
    BY <2>2 DEF Format, DetectEntry, DetectData, Visible
  <2>3. CASE WriteFits \/ CloseFirst \/ CloseSecond
    BY <2>3 DEF WriteFits, StartAppend, CloseFirst, CloseSecond, Visible
  <2>4. CASE AppendData \/ AppendEntryFirst
    BY <2>4 DEF AppendData, AppendEntryFirst, Visible
  <2>5. CASE GcEntry \/ GcErase
    BY <2>5 DEF GcEntry, StartAppend, GcErase, Visible
  <2> QED
    BY <2>1, <2>2, <2>3, <2>4, <2>5
<1>3. stored' = stored
  BY <1>1 DEF StoredInv
<1> QED
  BY <1>2, <1>3 DEF KVS!kvVars, Visible

\* Every step of the storage is a step of the map or none.
LEMMA StepMaps ==
  Reusable => (IInv /\ ErasedInv /\ DurableInv /\ StoredInv /\ [DurabilityNext]_<<vars, stored>>
                 => [KVS!Next]_(KVS!kvVars) /\ StoredInv')
<1> SUFFICES ASSUME Reusable, IInv, ErasedInv, DurableInv, StoredInv,
                    [DurabilityNext]_<<vars, stored>>
             PROVE  (KVS!Next \/ UNCHANGED KVS!kvVars) /\ StoredInv'
  OBVIOUS
<1>1. CASE DurabilityNext
  <2>1. Next /\ stored' = StoredIn(flash')
    BY <1>1 DEF DurabilityNext
  <2>2. KVS!Next \/ UNCHANGED KVS!kvVars
    BY <2>1, CallMaps, OutOfMemoryMaps, PowerFailMaps, EntryMaps, ClearMaps, QuietMaps
       DEF Next, Work
  <2> QED
    BY <2>1, <2>2 DEF StoredInv
<1>2. CASE UNCHANGED <<vars, stored>>
  BY <1>2 DEF vars, ram, StoredInv, KVS!kvVars
<1> QED
  BY <1>1, <1>2

\* The storage implements the map: a crash loses nothing that was acknowledged and never
\* leaves half of a write, and collecting and recovering sectors changes no data.
THEOREM FlashIsAtomicDurableMap ==
  ASSUME Reusable PROVE DurabilitySpec => AtomicDurableMap
<1>1. DurabilityInit => IInv /\ ErasedInv /\ DurableInv /\ StoredInv /\ KVS!Init
  <2> SUFFICES ASSUME DurabilityInit PROVE IInv /\ ErasedInv /\ DurableInv /\ StoredInv /\ KVS!Init
    OBVIOUS
  <2>1. IInv /\ ErasedInv /\ DurableInv /\ StoredInv /\ stored = [i \in Ids |-> << >>]
    BY InitInv, InitErased, InitDurable DEF DurabilityInit, StoredInv
  <2>2. Visible = NoOp
    BY DEF DurabilityInit, Init, InitWith, Visible
  <2>3. KVS!Init
    BY <2>1, <2>2 DEF KVS!Init, KVS!NoOp, NoOp, Visible
  <2> QED
    BY <2>1, <2>3
<1>2. [DurabilityNext]_<<vars, stored>> => [Next]_vars
  BY DEF DurabilityNext
<1>3. IInv /\ ErasedInv /\ DurableInv /\ [Next]_vars => (IInv /\ ErasedInv /\ DurableInv)'
  BY StepInv, StepErased, StepDurable DEF IInv
<1>4. IInv /\ ErasedInv /\ DurableInv /\ StoredInv /\ [DurabilityNext]_<<vars, stored>>
        => [KVS!Next]_(KVS!kvVars) /\ StoredInv'
  BY StepMaps
<1> QED
  BY <1>1, <1>2, <1>3, <1>4, PTL DEF DurabilitySpec, AtomicDurableMap, KVS!Spec

-----------------------------------------------------------------------------
(* Out of memory *)

\* no id is twice in the n sectors up to s
Distinct(f, s, n) ==
  \A m \in Places, k \in Places : m < n /\ k < n =>
    \A o \in Live(f[Before(s, m)]), p \in Live(f[Before(s, k)]) :
      f[Before(s, m)][o].id = f[Before(s, k)][p].id => m = k /\ o = p

\* the entries fill the table up to e, and their data the sector from w on
Dense(x, e, w) ==
  /\ Live(x) = 1..e - 1
  /\ w = SectorSize \/ \E o \in Live(x) : w = x[o].offset

\* there is no room for data of size z beside the entries of a sector
Crowded(x, z) ==
  \E end \in {SectorSize} \cup {x[o].offset : o \in Live(x)} : Cardinality(Live(x)) + 2 + z > end

AllCrowded(f, s, z, m, n) ==
  \A k \in Places : m <= k /\ k < n => Crowded(f[Before(s, k)], z)

\* the entries that were collected are copies of the newest ones in the tail below g
Copies(f, h, g) ==
  LET here == f[NextSector(h)]
      tail == f[NextSector(NextSector(h))]
  IN \A q \in Live(here) :
       \E p \in Live(tail) : p < g /\ tail[p].id = here[q].id /\ ~Outdated(f, h, p)

\* The sectors that the call has collected hold each id once, and those that it has closed
\* again have no room for its data.
MemoryInv ==
  op \in WriteOps =>
    /\ pc = "fit" \/ Collecting =>
         /\ gcCount < SectorCount
         /\ Distinct(flash, sectorIndex, gcCount)
         /\ AllCrowded(flash, sectorIndex, Size[op.content], 1, gcCount)
         /\ gcCount >= 1 => Dense(Here, entryWriteOffset, DataEnd)
    /\ Collecting =>
         /\ gcCount >= 1
         /\ \A h \in Sectors : NextSector(h) = sectorIndex =>
              Copies(flash, h, IF Writing THEN gcEntry - 1 ELSE gcEntry)
    /\ pc = "close" =>
         /\ gcCount >= 1 /\ gcCount < SectorCount
         /\ Distinct(flash, sectorIndex, gcCount - 1)
         /\ AllCrowded(flash, sectorIndex, Size[op.content], 0, gcCount - 1)
    /\ pc = "full" =>
         /\ Distinct(flash, sectorIndex, SectorCount - 1)
         /\ AllCrowded(flash, sectorIndex, Size[op.content], 0, SectorCount - 1)

\* Sectors that keep their entries stay as distinct and as crowded.
LEMMA KeepDistinct ==
  ASSUME NEW f, NEW g, NEW s, NEW n,
         \A k \in Places : k < n => SameEntries(f[Before(s, k)], g[Before(s, k)])
  PROVE  /\ Distinct(f, s, n) => Distinct(g, s, n)
         /\ \A z, m : AllCrowded(f, s, z, m, n) => AllCrowded(g, s, z, m, n)
<1>1. ASSUME NEW k \in Places, k < n
      PROVE  /\ Live(g[Before(s, k)]) = Live(f[Before(s, k)])
             /\ \A o \in Live(f[Before(s, k)]) : g[Before(s, k)][o] = f[Before(s, k)][o]
  BY <1>1 DEF SameEntries
<1>2. ASSUME Distinct(f, s, n) PROVE Distinct(g, s, n)
  <2> SUFFICES ASSUME NEW m \in Places, NEW k \in Places, m < n, k < n,
                      NEW o \in Live(g[Before(s, m)]), NEW p \in Live(g[Before(s, k)]),
                      g[Before(s, m)][o].id = g[Before(s, k)][p].id
               PROVE  m = k /\ o = p
    BY DEF Distinct
  <2>1. /\ o \in Live(f[Before(s, m)]) /\ p \in Live(f[Before(s, k)])
        /\ f[Before(s, m)][o].id = f[Before(s, k)][p].id
    BY <1>1
  <2> QED
    BY <1>2, <2>1 DEF Distinct
<1>3. ASSUME NEW z, NEW m, AllCrowded(f, s, z, m, n) PROVE AllCrowded(g, s, z, m, n)
  <2> SUFFICES ASSUME NEW k \in Places, m <= k, k < n PROVE Crowded(g[Before(s, k)], z)
    BY DEF AllCrowded
  <2> DEFINE x == f[Before(s, k)]
  <2> DEFINE y == g[Before(s, k)]
  <2>1. Live(y) = Live(x) /\ \A o \in Live(x) : y[o] = x[o]
    BY <1>1
  <2>2. Crowded(x, z)
    BY <1>3 DEF AllCrowded
  <2> HIDE DEF x, y
  <2>3. {y[o].offset : o \in Live(y)} = {x[o].offset : o \in Live(x)}
    BY <2>1
  <2>4. Crowded(y, z)
    BY <2>1, <2>2, <2>3 DEF Crowded
  <2> QED
    BY <2>4 DEF y
<1> QED
  BY <1>2, <1>3

\* A dense sector in which the data does not fit is crowded.
LEMMA DenseIsCrowded ==
  ASSUME NEW x, NEW e \in Nat, e >= 1, NEW w \in Nat, NEW z \in Nat, Dense(x, e, w),
         ~(e + 1 + z <= w)
  PROVE  Crowded(x, z)
<1>1. Cardinality(Live(x)) = e - 1
  <2>1. 1 \in Int /\ e - 1 \in Int /\ Live(x) = 1..e - 1
    BY DEF Dense
  <2>2. Cardinality(1..e - 1) = IF 1 > e - 1 THEN 0 ELSE e - 1 - 1 + 1
    BY <2>1, FS_Interval
  <2> QED
    BY <2>1, <2>2
<1>2. w \in {SectorSize} \cup {x[o].offset : o \in Live(x)}
  BY DEF Dense
<1>3. e - 1 + 2 + z > w
  OBVIOUS
<1> QED
  BY <1>1, <1>2, <1>3 DEF Crowded

\* A sector that keeps its entries stays dense.
LEMMA KeepDense ==
  ASSUME NEW x, NEW y, NEW e, NEW w, SameEntries(x, y), Dense(x, e, w) PROVE Dense(y, e, w)
BY DEF SameEntries, Dense

\* In the next sector, which is empty, there is one sector more.
LEMMA EnterDistinct ==
  ASSUME NEW f, NEW s \in Sectors, NEW n \in 1..SectorCount - 1, Live(f[NextSector(s)]) = {},
         Distinct(f, s, n - 1), NEW z, AllCrowded(f, s, z, 0, n - 1)
  PROVE  Distinct(f, NextSector(s), n) /\ AllCrowded(f, NextSector(s), z, 1, n)
<1> DEFINE t == NextSector(s)
<1>0. t \in Sectors /\ Before(t, 0) = t
  BY NextSectorType, BeforeZero
<1>1. ASSUME NEW k \in Places, k # 0, k < n
      PROVE  k - 1 \in Places /\ 0 <= k - 1 /\ k - 1 < n - 1 /\ Before(t, k) = Before(s, k - 1)
  <2>1. k - 1 \in 0..SectorCount - 2 /\ k - 1 + 1 = k /\ k - 1 < n - 1 /\ 0 <= k - 1
    BY <1>1, Counts DEF Places
  <2>2. Before(t, k - 1 + 1) = Before(s, k - 1)
    BY <2>1, BeforeNext
  <2> QED
    BY <2>1, <2>2 DEF Places
<1> HIDE DEF t
<1>2. ASSUME NEW m \in Places, NEW k \in Places, m < n, k < n,
             NEW o \in Live(f[Before(t, m)]), NEW p \in Live(f[Before(t, k)]),
             f[Before(t, m)][o].id = f[Before(t, k)][p].id
      PROVE  m = k /\ o = p
  <2>1. m # 0 /\ k # 0
    BY <1>0, <1>2 DEF t
  <2>2. m - 1 = k - 1 /\ o = p
    BY <1>1, <1>2, <2>1 DEF Distinct
  <2> QED
    BY <2>2, Counts DEF Places
<1>3. ASSUME NEW k \in Places, 1 <= k, k < n PROVE Crowded(f[Before(t, k)], z)
  <2>1. k # 0
    BY <1>3
  <2> QED
    BY <1>1, <1>3, <2>1 DEF AllCrowded
<1> QED
  BY <1>2, <1>3 DEF Distinct, AllCrowded, t

\* While the sector behind h is written without a new entry, its entries stay copies.
LEMMA KeepCopies ==
  ASSUME NEW f \in Sounds, NEW g \in Sounds, NEW h \in Sectors, NEW n,
         Gathering(f, h), Gathering(g, h), SameBut(f, g, NextSector(h)),
         SameEntries(f[NextSector(h)], g[NextSector(h)]), Copies(f, h, n)
  PROVE  Copies(g, h, n)
<1>1. /\ \A o : Outdated(g, h, o) <=> Outdated(f, h, o)
      /\ g[NextSector(NextSector(h))] = f[NextSector(NextSector(h))]
  BY KeepGathered
<1>2. /\ Live(g[NextSector(h)]) = Live(f[NextSector(h)])
      /\ \A p \in Live(f[NextSector(h)]) : g[NextSector(h)][p] = f[NextSector(h)][p]
  BY DEF SameEntries
<1> QED
  BY <1>1, <1>2 DEF Copies

\* What is written to sector s alone leaves the sectors behind it as crowded.
LEMMA KeepCrowded ==
  ASSUME NEW f, NEW g, NEW s \in Sectors, SameBut(f, g, s),
         NEW z, NEW n, AllCrowded(f, s, z, 1, n)
  PROVE  AllCrowded(g, s, z, 1, n)
<1>1. ASSUME NEW k \in Places, 1 <= k PROVE g[Before(s, k)] = f[Before(s, k)]
  <2>1. k # 0
    BY <1>1
  <2> QED
    BY <2>1, ReachBehind, ReachOther DEF SameBut
<1> QED
  BY <1>1 DEF AllCrowded

\* An entry in cell e with an id that no sector has leaves the entries distinct.
LEMMA AddDistinct ==
  ASSUME NEW f, NEW g, NEW s \in Sectors, SameBut(f, g, s), NEW e, NEW n,
         Live(g[s]) = Live(f[s]) \cup {e},
         \A p \in Live(f[s]) : g[s][p] = f[s][p],
         Distinct(f, s, n),
         \A k \in Places : k < n =>
           \A p \in Live(f[Before(s, k)]) : f[Before(s, k)][p].id # g[s][e].id
  PROVE  Distinct(g, s, n)
<1>1. ASSUME NEW k \in Places, NEW p \in Live(g[Before(s, k)])
      PROVE  \/ k = 0 /\ p = e /\ g[Before(s, k)][p].id = g[s][e].id
             \/ p \in Live(f[Before(s, k)]) /\ g[Before(s, k)][p] = f[Before(s, k)][p]
  <2>1. CASE k = 0
    <3>1. Before(s, k) = s
      BY <2>1, BeforeZero
    <3> QED
      BY <1>1, <2>1, <3>1
  <2>2. CASE k # 0
    <3>1. g[Before(s, k)] = f[Before(s, k)]
      BY <2>2, ReachBehind, ReachOther DEF SameBut
    <3> QED
      BY <1>1, <3>1
  <2> QED
    BY <2>1, <2>2
<1> SUFFICES ASSUME NEW m \in Places, NEW k \in Places, m < n, k < n,
                    NEW o \in Live(g[Before(s, m)]), NEW p \in Live(g[Before(s, k)]),
                    g[Before(s, m)][o].id = g[Before(s, k)][p].id
             PROVE  m = k /\ o = p
  BY DEF Distinct
<1> DEFINE x == f[Before(s, m)]
<1> DEFINE y == f[Before(s, k)]
<1>2. \/ m = 0 /\ o = e /\ g[Before(s, m)][o].id = g[s][e].id
      \/ o \in Live(x) /\ g[Before(s, m)][o] = x[o]
  BY <1>1
<1>3. \/ k = 0 /\ p = e /\ g[Before(s, k)][p].id = g[s][e].id
      \/ p \in Live(y) /\ g[Before(s, k)][p] = y[p]
  BY <1>1
<1>4. ASSUME NEW q \in Live(x) PROVE x[q].id # g[s][e].id
  OBVIOUS
<1>5. ASSUME NEW q \in Live(y) PROVE y[q].id # g[s][e].id
  OBVIOUS
<1>6. ASSUME o \in Live(x), p \in Live(y), x[o].id = y[p].id PROVE m = k /\ o = p
  BY <1>6 DEF Distinct
<1> HIDE DEF x, y
<1> QED
  BY <1>2, <1>3, <1>4, <1>5, <1>6

\* When the data does not fit beside a dense sector, all the sectors collected are crowded.
LEMMA CollectedCrowded ==
  ASSUME IInv, MemoryInv, pc = "fit", ~Fits(Size[op.content])
  PROVE  /\ gcCount \in Nat /\ gcCount < SectorCount /\ op \in WriteOps
         /\ Distinct(flash, sectorIndex, gcCount)
         /\ AllCrowded(flash, sectorIndex, Size[op.content], 0, gcCount)
<1> DEFINE z == Size[op.content]
<1>1. op \in WriteOps /\ gcCount \in Nat /\ z \in Nat
  <2>1. op \in WriteOps /\ gcCount \in Nat
    BY Counts DEF IInv, TypeOK, OpsAt
  <2>2. op.content \in Contents
    BY <2>1 DEF WriteOps
  <2> QED
    BY <2>1, <2>2, FlashAssumption
<1>2. /\ gcCount < SectorCount /\ Distinct(flash, sectorIndex, gcCount)
      /\ AllCrowded(flash, sectorIndex, z, 1, gcCount)
      /\ gcCount >= 1 => Dense(Here, entryWriteOffset, DataEnd)
  BY <1>1 DEF MemoryInv
<1>3. DataEnd = dataWriteOffset /\ entryWriteOffset \in Nat /\ dataWriteOffset \in Nat
      /\ entryWriteOffset >= 1 /\ sectorIndex \in Sectors
  BY Context, Counts DEF DataEnd, Writing, IInv, TypeOK
<1>4. ~(entryWriteOffset + 1 + z <= dataWriteOffset)
  BY DEF Fits
<1> HIDE DEF z
<1>5. gcCount >= 1 => Crowded(Here, z)
  BY <1>1, <1>2, <1>3, <1>4, DenseIsCrowded
<1>6. ASSUME NEW k \in Places, k < gcCount PROVE Crowded(flash[Before(sectorIndex, k)], z)
  <2>1. CASE k = 0
    <3>1. Before(sectorIndex, k) = sectorIndex /\ gcCount >= 1
      BY <1>1, <1>3, <1>6, <2>1, BeforeZero
    <3> QED
      BY <1>5, <3>1 DEF Here
  <2>2. CASE k # 0
    <3>1. 1 <= k
      BY <2>2, Counts DEF Places
    <3> QED
      BY <1>2, <1>6, <3>1 DEF AllCrowded
  <2> QED
    BY <2>1, <2>2
<1> QED
  BY <1>1, <1>2, <1>6 DEF AllCrowded, z

\* A call, the check for room and the report that there is none.
LEMMA CallMemory ==
  ASSUME IInv, MemoryInv, Call \/ WriteFits \/ OutOfMemory PROVE MemoryInv'
<1>0. \A k \in Places : ~(k < 0)
  BY Counts DEF Places
<1>1. CASE \E i \in Ids, c \in Contents : BeginWrite(i, c)
  <2>1. pc' = "fit" /\ gcCount' = 0
    BY <1>1 DEF BeginWrite
  <2>2. Distinct(flash', sectorIndex', 0) /\ \A z : AllCrowded(flash', sectorIndex', z, 1, 0)
    BY <1>0 DEF Distinct, AllCrowded
  <2>3. 0 < SectorCount /\ ~(0 >= 1)
    BY Counts
  <2> QED
    BY <2>1, <2>2, <2>3 DEF MemoryInv, Collecting, Writing
<1>2. CASE BeginClear
  BY <1>2 DEF BeginClear, ClearOp, MemoryInv, WriteOps
<1>3. CASE WriteFits
  <2>1. pc' = "append" /\ ~rec'.copy
    BY <1>3 DEF WriteFits, StartAppend
  <2> QED
    BY <2>1 DEF MemoryInv, Collecting
<1>4. CASE OutOfMemory
  <2>1. /\ pc = "fit" /\ ~Fits(Size[op.content]) /\ gcCount + 1 >= SectorCount /\ pc' = "full"
        /\ flash' = flash /\ sectorIndex' = sectorIndex /\ op' = op
    BY <1>4 DEF OutOfMemory
  <2>2. /\ gcCount \in Nat /\ gcCount < SectorCount
        /\ Distinct(flash, sectorIndex, gcCount)
        /\ AllCrowded(flash, sectorIndex, Size[op.content], 0, gcCount)
    BY <2>1, CollectedCrowded
  <2>3. gcCount = SectorCount - 1
    BY <2>1, <2>2, Counts
  <2> QED
    BY <2>1, <2>2, <2>3 DEF MemoryInv, Collecting, Writing
<1> QED
  BY <1>1, <1>2, <1>3, <1>4 DEF Call

\* A crowded sector is closed, and the next one is entered.
LEMMA CloseMemory ==
  ASSUME IInv, ErasedInv, DurableInv, MemoryInv, Reusable, CloseFirst \/ CloseSecond
  PROVE  MemoryInv'
<1>0. /\ sectorIndex \in Sectors /\ flash \in [Sectors -> Sector] /\ 0 \in Places
      /\ SameBut(flash, flash', sectorIndex) /\ SameEntries(Here, flash'[sectorIndex])
  BY Context, CloseDurable, Counts DEF Places
<1>1. \A k \in Places : SameEntries(flash[Before(sectorIndex, k)], flash'[Before(sectorIndex, k)])
  <2> SUFFICES ASSUME NEW k \in Places
               PROVE  SameEntries(flash[Before(sectorIndex, k)], flash'[Before(sectorIndex, k)])
    OBVIOUS
  <2>1. CASE Before(sectorIndex, k) = sectorIndex
    BY <1>0, <2>1 DEF Here
  <2>2. CASE Before(sectorIndex, k) # sectorIndex
    <3>1. flash'[Before(sectorIndex, k)] = flash[Before(sectorIndex, k)]
      BY <1>0, <2>2, ReachOther DEF SameBut
    <3> QED
      BY <3>1, SameIsSame
  <2> QED
    BY <2>1, <2>2
<1>2. CASE CloseFirst
  <2>1. /\ pc = "fit" /\ ~Fits(Size[op.content]) /\ gcCount + 1 < SectorCount /\ pc' = "close"
        /\ gcCount' = gcCount + 1 /\ sectorIndex' = sectorIndex /\ op' = op
    BY <1>2 DEF CloseFirst
  <2>2. /\ gcCount \in Nat
        /\ Distinct(flash, sectorIndex, gcCount)
        /\ AllCrowded(flash, sectorIndex, Size[op.content], 0, gcCount)
    BY <2>1, CollectedCrowded
  <2>3. /\ Distinct(flash', sectorIndex, gcCount)
        /\ AllCrowded(flash', sectorIndex, Size[op.content], 0, gcCount)
    <3>1. \A k \in Places : k < gcCount =>
            SameEntries(flash[Before(sectorIndex, k)], flash'[Before(sectorIndex, k)])
      BY <1>1
    <3> QED
      BY <2>2, <3>1, KeepDistinct
  <2>4. gcCount' - 1 = gcCount /\ gcCount' >= 1 /\ gcCount' < SectorCount
    BY <2>1, <2>2
  <2> QED
    BY <2>1, <2>3, <2>4 DEF MemoryInv, Collecting, Writing
<1>3. CASE CloseSecond
  <2>1. /\ pc = "close" /\ pc' = "gc" /\ gcCount' = gcCount /\ op' = op
        /\ sectorIndex' = TailSector /\ entryWriteOffset' = 1 /\ dataWriteOffset' = SectorSize
    BY <1>3 DEF CloseSecond, Enter, TailSector
  <2>2. /\ op \in WriteOps /\ gcCount \in 1..SectorCount - 1
        /\ Distinct(flash, sectorIndex, gcCount - 1)
        /\ AllCrowded(flash, sectorIndex, Size[op.content], 0, gcCount - 1)
    <3>1. op \in WriteOps /\ gcCount \in Int
      BY <2>1, Counts DEF IInv, TypeOK, OpsAt
    <3>2. gcCount >= 1 /\ gcCount < SectorCount
      BY <2>1, <3>1 DEF MemoryInv
    <3>3. gcCount \in 1..SectorCount - 1
      BY <3>1, <3>2, Counts
    <3> QED
      BY <2>1, <3>1, <3>3 DEF MemoryInv
  <2>3. /\ Distinct(flash', sectorIndex, gcCount - 1)
        /\ AllCrowded(flash', sectorIndex, Size[op.content], 0, gcCount - 1)
    <3>1. \A k \in Places : k < gcCount - 1 =>
            SameEntries(flash[Before(sectorIndex, k)], flash'[Before(sectorIndex, k)])
      BY <1>1
    <3> QED
      BY <2>2, <3>1, KeepDistinct
  <2>4. Live(flash'[TailSector]) = {}
    <3>1. TailErased
      BY <2>1 DEF ErasedInv
    <3>2. flash'[TailSector] = flash[TailSector] /\ TailSector \in Sectors
      BY <1>0, Context DEF SameBut
    <3> QED
      BY <3>1, <3>2, ErasedLaid DEF TailErased
  <2>5. /\ Distinct(flash', TailSector, gcCount)
        /\ AllCrowded(flash', TailSector, Size[op.content], 1, gcCount)
    BY <1>0, <2>2, <2>3, <2>4, EnterDistinct DEF TailSector
  <2>6. Here' = flash'[TailSector] /\ DataEnd' = SectorSize
    <3>1. ~Writing'
      BY <2>1 DEF Writing
    <3> QED
      BY <2>1, <3>1, Counts DEF Here, DataEnd
  <2>7. Dense(Here', 1, SectorSize)
    BY <2>4, <2>6 DEF Dense
  <2>8. \A h, n : NextSector(h) = TailSector => Copies(flash', h, n)
    BY <2>4 DEF Copies
  <2>9. gcCount >= 1 /\ gcCount < SectorCount
    BY <2>2, Counts
  <2> QED
    BY <2>1, <2>5, <2>6, <2>7, <2>8, <2>9 DEF MemoryInv
<1> QED
  BY <1>2, <1>3

\* There is one head behind which the tail is collected.
LEMMA HeadOfCollection ==
  ASSUME IInv, DurableInv, Collecting, NEW h \in Sectors, NextSector(h) = sectorIndex
  PROVE  flash \in Sounds /\ Gathered(h) /\ TailSector = NextSector(NextSector(h))
<1>1. PICK k \in Sectors : Gathered(k)
  BY DEF DurableInv, GatherInv
<1>2. NextSector(k) = NextSector(h)
  BY <1>1 DEF Gathered
<1>3. k = h
  BY <1>2, NextSectorInjective
<1> QED
  BY <1>1, <1>3 DEF DurableInv, SectorsInv, TailSector

\* Data and the first half of an entry are no entry.
LEMMA AppendMemory ==
  ASSUME IInv, ErasedInv, DurableInv, MemoryInv, Reusable, AppendData \/ AppendEntryFirst
  PROVE  MemoryInv'
<1> SUFFICES ASSUME op' \in WriteOps, Collecting' PROVE MemoryInv'
  <2>1. pc' \in {"append", "entry"}
    BY DEF AppendData, AppendEntryFirst
  <2> QED
    BY <2>1 DEF MemoryInv
<1>1. /\ pc = "append" /\ pc' \in {"append", "entry"}
      /\ rec'.cells = rec.cells /\ rec'.copy = rec.copy
      /\ UNCHANGED <<op, sectorIndex, entryWriteOffset, dataWriteOffset, gcCount, gcEntry>>
  <2>1. CASE AppendData
    <3>1. rec \in Record /\ pc = "append" /\ rec' = [rec EXCEPT !.part = @ + 1]
      BY <2>1 DEF AppendData, IInv, TypeOK
    <3> QED
      BY <2>1, <3>1, RecordStep DEF AppendData, ram
  <2>2. CASE AppendEntryFirst
    BY <2>2 DEF AppendEntryFirst, ram
  <2> QED
    BY <2>1, <2>2
<1>2. Writing /\ Writing' /\ Collecting /\ op \in WriteOps
  BY <1>1 DEF Writing, Collecting
<1>3. /\ gcCount < SectorCount /\ gcCount >= 1
      /\ Distinct(flash, sectorIndex, gcCount)
      /\ AllCrowded(flash, sectorIndex, Size[op.content], 1, gcCount)
      /\ Dense(Here, entryWriteOffset, DataEnd)
      /\ \A h \in Sectors : NextSector(h) = sectorIndex => Copies(flash, h, gcEntry - 1)
  BY <1>2 DEF MemoryInv
<1>4. /\ sectorIndex \in Sectors /\ flash \in Sounds
      /\ SameBut(flash, flash', sectorIndex) /\ SameEntries(Here, flash'[sectorIndex])
      /\ DurableInv'
  BY Context, AppendDataDurable, AppendEntryFirstDurable DEF DurableInv, SectorsInv
<1>5. \A k \in Places : SameEntries(flash[Before(sectorIndex, k)], flash'[Before(sectorIndex, k)])
  <2> SUFFICES ASSUME NEW k \in Places
               PROVE  SameEntries(flash[Before(sectorIndex, k)], flash'[Before(sectorIndex, k)])
    OBVIOUS
  <2>1. CASE Before(sectorIndex, k) = sectorIndex
    BY <1>4, <2>1 DEF Here
  <2>2. CASE Before(sectorIndex, k) # sectorIndex
    <3>1. flash'[Before(sectorIndex, k)] = flash[Before(sectorIndex, k)]
      BY <1>4, <2>2, ReachOther DEF SameBut
    <3> QED
      BY <3>1, SameIsSame
  <2> QED
    BY <2>1, <2>2
<1>6. /\ Distinct(flash', sectorIndex, gcCount)
      /\ AllCrowded(flash', sectorIndex, Size[op.content], 1, gcCount)
  <2>1. \A k \in Places : k < gcCount =>
          SameEntries(flash[Before(sectorIndex, k)], flash'[Before(sectorIndex, k)])
    BY <1>5
  <2> QED
    BY <1>3, <2>1, KeepDistinct
<1>7. Here' = flash'[sectorIndex] /\ DataEnd' = DataEnd
  BY <1>1, <1>2 DEF Here, DataEnd
<1>8. Dense(Here', entryWriteOffset, DataEnd)
  BY <1>3, <1>4, <1>7, KeepDense
<1>9. ASSUME NEW h \in Sectors, NextSector(h) = sectorIndex
      PROVE  Copies(flash', h, gcEntry - 1)
  <2>1. Gathering(flash, h)
    BY <1>2, <1>9, HeadOfCollection DEF Gathered
  <2>2. flash' \in Sounds /\ Gathering(flash', h)
    <3>1. PICK k \in Sectors : Gathered(k)'
      BY <1>4 DEF DurableInv, GatherInv
    <3>2. NextSector(k) = sectorIndex' /\ Gathering(flash', k)
      BY <3>1 DEF Gathered
    <3>3. k = h
      BY <1>1, <1>9, <3>2, NextSectorInjective
    <3> QED
      BY <1>4, <3>2, <3>3 DEF DurableInv, SectorsInv
  <2>3. Copies(flash, h, gcEntry - 1)
    BY <1>3, <1>9
  <2>4. /\ SameEntries(flash[NextSector(h)], flash'[NextSector(h)])
        /\ SameBut(flash, flash', NextSector(h))
    BY <1>4, <1>9 DEF Here
  <2> QED
    BY <1>4, <2>1, <2>2, <2>3, <2>4, KeepCopies
<1> QED
  BY <1>1, <1>2, <1>3, <1>6, <1>7, <1>8, <1>9 DEF MemoryInv

\* The copy of an entry is the only one with its id, and lies next to the one before.
LEMMA CopyMemory ==
  ASSUME IInv, ErasedInv, DurableInv, MemoryInv, Reusable, AppendEntrySecond
  PROVE  MemoryInv'
<1> DEFINE e == entryWriteOffset
<1> DEFINE g == gcEntry - 1
<1>1. CASE ~rec.copy
  BY <1>1 DEF AppendEntrySecond, NoOp, MemoryInv, WriteOps
<1>2. CASE rec.copy /\ op \notin WriteOps
  BY <1>2 DEF AppendEntrySecond, MemoryInv
<1>3. CASE rec.copy /\ op \in WriteOps
  <2>1. /\ pc = "entry" /\ pc' = "gc" /\ Writing /\ ~Writing' /\ Collecting /\ Collecting'
        /\ entryWriteOffset' = e + 1
        /\ UNCHANGED <<op, sectorIndex, dataWriteOffset, gcCount, gcEntry>>
    BY <1>3 DEF AppendEntrySecond, Writing, Collecting
  <2>2. /\ gcCount < SectorCount /\ gcCount >= 1
        /\ Distinct(flash, sectorIndex, gcCount)
        /\ AllCrowded(flash, sectorIndex, Size[op.content], 1, gcCount)
        /\ Dense(Here, e, DataEnd)
        /\ \A h \in Sectors : NextSector(h) = sectorIndex => Copies(flash, h, g)
    BY <1>3, <2>1 DEF MemoryInv
  <2>3. /\ sectorIndex \in Sectors /\ flash \in Sounds /\ gcCount \in Nat /\ e \in Nat /\ e >= 1
        /\ SameBut(flash, flash', sectorIndex)
        /\ Live(flash'[sectorIndex]) = Live(Here) \cup {e}
        /\ \A p \in Live(Here) : p < e /\ flash'[sectorIndex][p] = Here[p]
        /\ flash'[sectorIndex][e].id = rec.id
        /\ flash'[sectorIndex][e].offset = dataWriteOffset
        /\ DurableInv'
    BY Context, AppendEntrySecondDurable, Counts DEF DurableInv, SectorsInv, IInv, TypeOK
  <2>h. PICK h \in Sectors : Gathered(h)
    BY <2>1 DEF DurableInv, GatherInv
  <2> DEFINE tail == flash[NextSector(NextSector(h))]
  <2>4. /\ NextSector(h) = sectorIndex /\ Gathering(flash, h)
        /\ g \in Live(tail) /\ rec.id = tail[g].id /\ ~Outdated(flash, h, g)
    BY <2>1, <2>h DEF Gathered, TailSector
  <2>5. \A p \in Live(tail) : p < g => tail[p].id # rec.id \/ Outdated(flash, h, p)
    BY <2>4 DEF Outdated
  <2>6. \A q \in Live(Here) : Here[q].id # rec.id
    <3>1. Copies(flash, h, g) /\ flash[NextSector(h)] = Here
      BY <2>2, <2>4 DEF Here
    <3> QED
      BY <2>5, <3>1 DEF Copies
  <2>7. ASSUME NEW k \in Places, k < gcCount, NEW p \in Live(flash[Before(sectorIndex, k)])
        PROVE  flash[Before(sectorIndex, k)][p].id # rec.id
    <3>1. CASE k = 0
      <4>1. Before(sectorIndex, k) = sectorIndex
        BY <2>3, <3>1, BeforeZero
      <4> QED
        BY <2>6, <2>7, <4>1 DEF Here
    <3>2. CASE k # 0
      <4>1. k - 1 \in 0..SectorCount - 2 /\ k - 1 + 1 = k /\ k - 1 # SectorCount - 2
        BY <2>2, <2>3, <2>7, <3>2, Counts DEF Places
      <4>2. Before(sectorIndex, k) = Before(h, k - 1)
        BY <2>4, <4>1, BeforeNext
      <4> HIDE DEF g
      <4>3. tail[g].id # flash[Before(h, k - 1)][p].id
        BY <2>4, <2>7, <4>1, <4>2 DEF Outdated, Places
      <4> QED
        BY <2>4, <4>2, <4>3
    <3> QED
      BY <3>1, <3>2
  <2>8. Distinct(flash', sectorIndex, gcCount)
    <3>1. flash[sectorIndex] = Here
      BY DEF Here
    <3>2. \A k \in Places : k < gcCount =>
            \A p \in Live(flash[Before(sectorIndex, k)]) :
               flash[Before(sectorIndex, k)][p].id # flash'[sectorIndex][e].id
      BY <2>3, <2>7
    <3> HIDE DEF e
    <3> QED
      BY <2>2, <2>3, <3>1, <3>2, AddDistinct
  <2>9. AllCrowded(flash', sectorIndex, Size[op.content], 1, gcCount)
    BY <2>2, <2>3, KeepCrowded
  <2>10. Here' = flash'[sectorIndex] /\ DataEnd' = dataWriteOffset
    BY <2>1, Context DEF Here, DataEnd
  <2>11. Dense(Here', e + 1, dataWriteOffset)
    <3>1. Live(Here') = 1..e
      <4>1. Live(Here') = (1..e - 1) \cup {e}
        BY <2>2, <2>3, <2>10 DEF Dense
      <4> HIDE DEF e
      <4> QED
        BY <2>3, <4>1
    <3>2. e + 1 - 1 = e
      BY <2>3
    <3>3. e \in Live(Here') /\ dataWriteOffset = Here'[e].offset
      BY <2>3, <2>10
    <3> HIDE DEF e
    <3> QED
      BY <3>1, <3>2, <3>3 DEF Dense
  <2>12. Copies(flash', h, gcEntry)
    <3>1. flash' \in Sounds /\ Gathering(flash', h)
      <4>1. PICK k \in Sectors : Gathered(k)'
        BY <2>1, <2>3 DEF DurableInv, GatherInv
      <4>2. NextSector(k) = sectorIndex' /\ Gathering(flash', k)
        BY <4>1 DEF Gathered
      <4>3. k = h
        BY <2>1, <2>4, <4>2, NextSectorInjective
      <4> QED
        BY <2>3, <4>2, <4>3 DEF DurableInv, SectorsInv
    <3>2. /\ \A o : Outdated(flash', h, o) <=> Outdated(flash, h, o)
          /\ flash'[NextSector(NextSector(h))] = tail
      BY <2>3, <2>4, <3>1, KeepGathered
    <3>3. \A p \in Live(tail) : p < g => p < gcEntry
      <4>1. gcEntry \in Int /\ \A p \in Live(tail) : p \in Int
        BY Counts, LiveRange DEF IInv, TypeOK, Entries
      <4> QED
        BY <4>1
    <3>4. g < gcEntry
      BY Counts DEF IInv, TypeOK
    <3>5. ASSUME NEW q \in Live(flash'[sectorIndex])
          PROVE  \E p \in Live(tail) : /\ p < gcEntry /\ tail[p].id = flash'[sectorIndex][q].id
                                       /\ ~Outdated(flash, h, p)
      <4>1. CASE q = e
        BY <2>3, <2>4, <3>4, <4>1
      <4>2. CASE q \in Live(Here)
        <5>1. Copies(flash, h, g) /\ flash[NextSector(h)] = Here
          BY <2>2, <2>4 DEF Here
        <5>2. \E p \in Live(tail) : p < g /\ tail[p].id = Here[q].id /\ ~Outdated(flash, h, p)
          BY <4>2, <5>1 DEF Copies
        <5> HIDE DEF g, tail
        <5> QED
          BY <2>3, <3>3, <4>2, <5>2
      <4> QED
        BY <2>3, <3>5, <4>1, <4>2
    <3> QED
      BY <2>4, <3>2, <3>5 DEF Copies
  <2>13. \A k \in Sectors : NextSector(k) = sectorIndex => k = h
    BY <2>4, NextSectorInjective
  <2> QED
    BY <2>1, <2>2, <2>8, <2>9, <2>10, <2>11, <2>12, <2>13 DEF MemoryInv
<1> QED
  BY <1>1, <1>2, <1>3

\* Passing an entry of the tail writes nothing.
LEMMA GcEntryMemory ==
  ASSUME IInv, DurableInv, MemoryInv, GcEntry PROVE MemoryInv'
<1> DEFINE tail == flash[TailSector]
<1> DEFINE c == tail[gcEntry]
<1>1. /\ pc = "gc" /\ MoreEntries /\ gcEntry' = gcEntry + 1
      /\ UNCHANGED <<flash, op, sectorIndex, entryWriteOffset, gcCount>>
      /\ \/ UNCHANGED <<pc, rec, dataWriteOffset>>
         \/ /\ isEntryValid(gcEntry, gcData, c)
            /\ rec' = [id |-> c.id, cells |-> Content(tail, gcEntry), part |-> 0, copy |-> TRUE]
            /\ dataWriteOffset' = dataWriteOffset - c.size
            /\ pc' = "append"
  BY DEF GcEntry, StartAppend
<1>2. /\ gcEntry \in 1..SectorSize - 1 /\ gcEntry \in Offsets /\ gcData \in 0..SectorSize
      /\ tail \in [Offsets -> Cell]
  <2>1. gcEntry \in 1..SectorSize /\ gcData \in 0..SectorSize
    BY DEF IInv, TypeOK
  <2>2. PICK o \in ClosedTable(tail) : gcEntry <= o
    BY <1>1 DEF MoreEntries
  <2>3. o \in 1..SectorSize - 1
    BY ClosedTableRange
  <2> HIDE DEF tail
  <2>4. gcEntry \in 1..SectorSize - 1
    BY <2>1, <2>2, <2>3, Counts
  <2> QED
    BY <2>1, <2>4, Context, Counts DEF Offsets, Sector, tail
<1> HIDE DEF tail, c
<1>3. DataEnd' = DataEnd
  <2>1. CASE UNCHANGED <<pc, rec, dataWriteOffset>>
    BY <2>1 DEF DataEnd, Writing
  <2>2. CASE /\ isEntryValid(gcEntry, gcData, c) /\ pc' = "append"
             /\ rec' = [id |-> c.id, cells |-> Content(tail, gcEntry), part |-> 0, copy |-> TRUE]
             /\ dataWriteOffset' = dataWriteOffset - c.size
    <3>1. Len(Content(tail, gcEntry)) = c.size
      BY <1>2, <2>2, ContentType DEF c
    <3>2. c.size \in 0..SectorSize
      BY <1>2, <2>2, EntryFields DEF c, isEntryValid
    <3>3. rec'.cells = Content(tail, gcEntry) /\ Writing' /\ ~Writing
      BY <1>1, <2>2 DEF Writing
    <3>4. DataEnd' = dataWriteOffset - c.size + c.size /\ DataEnd = dataWriteOffset + 0
      BY <2>2, <3>1, <3>3 DEF DataEnd
    <3>5. dataWriteOffset \in Int /\ c.size \in Int
      BY <3>2, Context, Counts
    <3> QED
      BY <3>4, <3>5
  <2> QED
    BY <1>1, <2>1, <2>2
<1> SUFFICES ASSUME op' \in WriteOps PROVE MemoryInv'
  BY DEF MemoryInv
<1>4. Collecting /\ ~Writing /\ op \in WriteOps /\ Here' = Here /\ pc' \in {"gc", "append"}
  BY <1>1 DEF Collecting, Writing, Here
<1>5. /\ gcCount < SectorCount /\ gcCount >= 1
      /\ Distinct(flash, sectorIndex, gcCount)
      /\ AllCrowded(flash, sectorIndex, Size[op.content], 1, gcCount)
      /\ Dense(Here, entryWriteOffset, DataEnd)
      /\ \A h \in Sectors : NextSector(h) = sectorIndex => Copies(flash, h, gcEntry)
  BY <1>4 DEF MemoryInv
<1>6. ASSUME NEW h \in Sectors, NextSector(h) = sectorIndex
      PROVE  Copies(flash, h, IF Writing' THEN gcEntry' - 1 ELSE gcEntry')
  <2>1. Copies(flash, h, gcEntry)
    BY <1>5, <1>6
  <2>2. CASE Writing'
    <3>1. gcEntry' - 1 = gcEntry
      BY <1>1, <1>2
    <3> QED
      BY <2>1, <2>2, <3>1
  <2>3. CASE ~Writing'
    <3>1. \A p \in Live(flash[NextSector(NextSector(h))]) : p < gcEntry => p < gcEntry + 1
      <4>1. \A p \in Live(flash[NextSector(NextSector(h))]) : p \in Int
        BY LiveRange DEF Entries
      <4> QED
        BY <1>2, <4>1
    <3>2. Copies(flash, h, gcEntry + 1)
      BY <2>1, <3>1 DEF Copies
    <3> QED
      BY <1>1, <2>3, <3>2
  <2> QED
    BY <2>2, <2>3
<1> QED
  BY <1>1, <1>3, <1>4, <1>5, <1>6 DEF MemoryInv

\* The tail that is erased is none of the sectors collected.
LEMMA GcEraseMemory ==
  ASSUME IInv, DurableInv, MemoryInv, GcErase PROVE MemoryInv'
<1>1. /\ pc = "gc" /\ flash' = Erased(TailSector) /\ pc' = IF op = NoOp THEN "ready" ELSE "fit"
      /\ UNCHANGED <<op, sectorIndex, entryWriteOffset, dataWriteOffset, gcCount, rec>>
  BY DEF GcErase
<1> SUFFICES ASSUME op' \in WriteOps PROVE MemoryInv'
  BY DEF MemoryInv
<1>2. Collecting /\ ~Writing /\ pc' = "fit" /\ ~Writing' /\ ~Collecting' /\ op \in WriteOps
  BY <1>1 DEF Collecting, Writing, NoOp, WriteOps
<1>3. /\ gcCount < SectorCount
      /\ Distinct(flash, sectorIndex, gcCount)
      /\ AllCrowded(flash, sectorIndex, Size[op.content], 1, gcCount)
      /\ Dense(Here, entryWriteOffset, DataEnd)
  BY <1>2 DEF MemoryInv
<1>4. \A s \in Sectors : s # TailSector => flash'[s] = flash[s]
  BY <1>1, Context DEF Erased
<1>5. Here' = Here /\ DataEnd' = DataEnd
  BY <1>1, <1>2, <1>4, Context DEF Here, DataEnd
<1>6. \A k \in Places : SameEntries(flash[Before(sectorIndex, k)], flash'[Before(sectorIndex, k)])
  <2> SUFFICES ASSUME NEW k \in Places
               PROVE  SameEntries(flash[Before(sectorIndex, k)], flash'[Before(sectorIndex, k)])
    OBVIOUS
  <2>1. flash'[Before(sectorIndex, k)] = flash[Before(sectorIndex, k)]
    BY <1>4, Context, ReachOther DEF TailSector
  <2> QED
    BY <2>1, SameIsSame
<1>7. /\ Distinct(flash', sectorIndex, gcCount)
      /\ AllCrowded(flash', sectorIndex, Size[op.content], 1, gcCount)
  <2>1. \A k \in Places : k < gcCount =>
          SameEntries(flash[Before(sectorIndex, k)], flash'[Before(sectorIndex, k)])
    BY <1>6
  <2> QED
    BY <1>3, <2>1, KeepDistinct
<1> QED
  BY <1>1, <1>2, <1>3, <1>5, <1>7 DEF MemoryInv

\* Every step keeps what is needed for out of memory.
LEMMA StepMemory ==
  Reusable => (IInv /\ ErasedInv /\ DurableInv /\ MemoryInv /\ [Next]_vars => MemoryInv')
<1> SUFFICES ASSUME Reusable, IInv, ErasedInv, DurableInv, MemoryInv, [Next]_vars PROVE MemoryInv'
  OBVIOUS
<1>1. CASE Call \/ WriteFits \/ OutOfMemory
  BY <1>1, CallMemory
<1>2. CASE Boot \/ Format \/ DetectEntry \/ DetectData
  <2>1. op = NoOp
    BY <1>2 DEF IInv, TypeOK, OpsAt, Boot, Format, DetectEntry, DetectData
  <2> QED
    BY <1>2, <2>1
       DEF MemoryInv, WriteOps, NoOp, Boot, Format, DetectEntry, DetectData
<1>3. CASE CloseFirst \/ CloseSecond
  BY <1>3, CloseMemory
<1>4. CASE AppendData \/ AppendEntryFirst
  BY <1>4, AppendMemory
<1>5. CASE AppendEntrySecond
  BY <1>5, CopyMemory
<1>6. CASE GcEntry
  BY <1>6, GcEntryMemory
<1>7. CASE GcErase
  BY <1>7, GcEraseMemory
<1>8. CASE ClearSector \/ EndClear
  <2>1. op = ClearOp
    BY <1>8 DEF IInv, TypeOK, OpsAt, ClearSector, EndClear
  <2> QED
    BY <1>8, <2>1 DEF MemoryInv, WriteOps, ClearOp, NoOp, ClearSector, EndClear
<1>9. CASE PowerFail
  BY <1>9 DEF PowerFail, MemoryInv, WriteOps, NoOp
<1>10. CASE UNCHANGED vars
  <2>1. UNCHANGED <<flash, sectorIndex, entryWriteOffset, dataWriteOffset, gcCount, gcEntry,
                    gcData, pc, op, rec>>
    BY <1>10 DEF vars, ram
  <2> QED
    BY <2>1 DEF MemoryInv, Collecting, Writing, Here, DataEnd
<1> QED
  BY <1>1, <1>2, <1>3, <1>4, <1>5, <1>6, <1>7, <1>8, <1>9, <1>10 DEF Next, Work

\* No call is in progress at the start.
LEMMA InitMemory == Init => MemoryInv
BY DEF Init, InitWith, MemoryInv, NoOp, WriteOps

\* When nothing is free, every sector holds each id once and has no room for the data.
LEMMA MemoryIsFull ==
  ASSUME IInv, DurableInv, MemoryInv PROVE OutOfMemoryIsReal
<1> SUFFICES ASSUME pc = "full" PROVE OutOfMemoryIsReal
  BY DEF OutOfMemoryIsReal
<1>1. /\ Distinct(flash, sectorIndex, SectorCount - 1)
      /\ AllCrowded(flash, sectorIndex, Size[op.content], 0, SectorCount - 1)
  BY DEF MemoryInv, IInv, TypeOK, OpsAt
<1>2. \A k \in Places : 0 <= k /\ k < SectorCount - 1
  BY Counts DEF Places
<1>3. ASSUME NEW k \in Places
      PROVE  Table(flash[Before(sectorIndex, k)]) = Live(flash[Before(sectorIndex, k)])
  <2>1. Before(sectorIndex, k) \in Sectors
    BY Context, ReachOther
  <2> QED
    BY <2>1, TableIsLive DEF DurableInv, SectorsInv, Sounds
<1>4. \A n \in Places : \A m \in 0..n - 1 : m \in Places /\ m # n
  BY Counts DEF Places
<1> DEFINE sector(m) == flash[Before(sectorIndex, m)]
<1>5. ASSUME NEW n \in Places PROVE Crowded(sector(n), Size[op.content])
  BY <1>1, <1>2 DEF AllCrowded
<1>6. ASSUME NEW n \in Places, NEW m \in Places,
             NEW o \in Live(sector(n)), NEW p \in Live(sector(m)),
             sector(m)[p].id = sector(n)[o].id
      PROVE  m = n /\ p = o
  BY <1>1, <1>2, <1>6 DEF Distinct
<1>7. ASSUME NEW n \in Places
      PROVE  /\ \E end \in {SectorSize} \cup {sector(n)[o].offset : o \in Table(sector(n))} :
                   Cardinality(Table(sector(n))) + 2 + Size[op.content] > end
             /\ \A o \in Table(sector(n)) :
                  /\ \A p \in Table(sector(n)) : p > o => sector(n)[p].id # sector(n)[o].id
                  /\ \A m \in 0..n - 1 : \A p \in Table(sector(m)) :
                       sector(m)[p].id # sector(n)[o].id
  <2>1. Table(sector(n)) = Live(sector(n))
    BY <1>3
  <2>2. \A m \in 0..n - 1 : m \in Places /\ m # n /\ Table(sector(m)) = Live(sector(m))
    BY <1>3, <1>4
  <2>3. \A o \in Live(sector(n)), p \in Live(sector(n)) :
          p > o => sector(n)[p].id # sector(n)[o].id
    <3>1. \A o \in Live(sector(n)) : ~(o > o)
      <4>1. \A x : \A o \in Live(x) : o \in Int
        BY LiveRange DEF Entries
      <4> QED
        BY <4>1
    <3> QED
      BY <1>6, <3>1
  <2>4. Crowded(sector(n), Size[op.content])
    BY <1>5
  <2> HIDE DEF sector
  <2> QED
    BY <1>6, <2>1, <2>2, <2>3, <2>4 DEF Crowded
<1> QED
  BY <1>7 DEF OutOfMemoryIsReal, Places

\* A write reports out of memory only when every sector but the empty one is down to
\* entries that are current and has no room for its data (writeBlocking).
THEOREM FlashOutOfMemoryIsReal ==
  ASSUME Reusable PROVE Spec => []OutOfMemoryIsReal
<1>1. Init => IInv /\ ErasedInv /\ DurableInv /\ MemoryInv
  BY InitInv, InitErased, InitDurable, InitMemory
<1>2. IInv /\ ErasedInv /\ DurableInv /\ MemoryInv /\ [Next]_vars
        => IInv' /\ ErasedInv' /\ DurableInv' /\ MemoryInv'
  BY StepInv, StepErased, StepDurable, StepMemory DEF IInv
<1>3. IInv /\ DurableInv /\ MemoryInv => OutOfMemoryIsReal
  BY MemoryIsFull
<1> QED
  BY <1>1, <1>2, <1>3, PTL DEF Spec
=============================================================================
