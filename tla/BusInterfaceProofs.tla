------------------------- MODULE BusInterfaceProofs -------------------------
(***************************************************************************)
(* What is proved of BusInterface for all numbers of nodes, elements,      *)
(* addresses and retries: the variables keep their types, the list of      *)
(* elements matches the devices (ElementsMatch), the device that a         *)
(* commissioning replaces stays (OldDeviceStays), the answers of nodes     *)
(* that give up a lost address reach the endpoint that was asked for       *)
(* (AnswersFit), a restart when nothing is left to write finds the list    *)
(* and the devices as they are (RestartAgrees), and one between two writes *)
(* finds the devices that are not being written (OthersSurvive).           *)
(*                                                                         *)
(* BusInv is the inductive invariant.  It says of a commissioning under    *)
(* way what ElementsMatch leaves out: the ids it has given are first those *)
(* of the old device and then those in the cells behind elementCount.      *)
(* RestartInv says on top of it what the storage will hold after the       *)
(* writes that are pending, OthersInv what it holds of the other devices   *)
(* until then.  Load and Keep are recursive functions on the places of a   *)
(* list: the induction over the places is done with the least place where  *)
(* something is wrong (LeastExists).                                       *)
(***************************************************************************)
EXTENDS BusInterface, SequenceTheorems, FunctionTheorems, FiniteSetTheorems,
        WellFoundedInduction, TLAPS

-----------------------------------------------------------------------------
(* Inductive invariants *)

\* the ids that a commissioning has given: those of the endpoints and, while it waits
\* for a name, one more
GivenIds(c) == IF c.attribute = "name" THEN Append(EndpointIds(c), c.id) ELSE EndpointIds(c)

\* only a commissioning that is enabled runs, it does not run while erase() does, and
\* cells are behind elementCount only while it runs
Separate ==
  /\ comm # NoComm => commissioning /\ comm \in CommType
  /\ erasing # 0 => ~commissioning
  /\ erasing # 0 => \E k \in 1..elementCount : elementIds[k] = erasing
  /\ comm = NoComm => elementCount = Len(elementIds)

\* there is space for the endpoint whose plug list is read, and an id for the one
\* whose name is read
Space ==
  comm # NoComm =>
    /\ comm.pc = "join" => comm.endpoints = << >> /\ comm.attribute = "plugs"
    /\ comm.pc # "join" /\ comm.attribute = "plugs" /\ Len(comm.old) <= Len(comm.endpoints) =>
         Len(elementIds) < MAX_ELEMENT_COUNT
    /\ comm.attribute = "name" => comm.id \in ElementIds /\ comm.plugs \in PlugsType

\* no id is twice in the cells, in the stored list or in a list that is to be stored
ListsInjective ==
  /\ IsInjective(elementIds)
  /\ IsInjective(storage.list)
  /\ \A n \in DOMAIN writes : writes[n].kind = "list" => IsInjective(writes[n].data)

\* the elements of the devices, in the words of their places
Apart(list) ==
  \A m, n \in DOMAIN list : \A j \in DOMAIN list[m].endpoints, k \in DOMAIN list[n].endpoints :
    list[m].endpoints[j].id = list[n].endpoints[k].id => m = n /\ j = k

DeviceList(list) ==
  /\ \A n \in DOMAIN list : list[n].endpoints # << >>
  /\ \A m, n \in DOMAIN list : list[m].id = list[n].id => m = n
  /\ Apart(list)

Listed(list, ids, count) ==
  /\ \A k \in 1..count : \E n \in DOMAIN list : \E j \in DOMAIN list[n].endpoints :
       list[n].endpoints[j].id = ids[k]
  /\ \A n \in DOMAIN list : \A j \in DOMAIN list[n].endpoints :
       \E k \in 1..count : list[n].endpoints[j].id = ids[k]

DevicesMatch == DeviceList(devices) /\ Listed(devices, elementIds, elementCount)

\* the device that joins again, if any, is there
OldStays(c, list) ==
  /\ c.old # << >> => \E n \in DOMAIN list :
       list[n].id = c.device /\ EndpointIds(list[n]) = c.old
  /\ c.old = << >> => \A n \in DOMAIN list : list[n].id # c.device

\* the given ids are first the old ones, then those in the cells behind count
Fits(given, old, ids, count) ==
  /\ Len(ids) = count + IF Len(given) > Len(old) THEN Len(given) - Len(old) ELSE 0
  /\ \A k \in 1..Len(given) :
       given[k] = IF k <= Len(old) THEN old[k] ELSE ids[count + k - Len(old)]

CommFits ==
  comm # NoComm => OldStays(comm, devices) /\ Fits(GivenIds(comm), comm.old, elementIds, elementCount)

BusInv == TypeOK /\ Separate /\ Space /\ ListsInjective /\ DevicesMatch /\ CommFits

\* the node of a commissioning is the only one with its address, and what was read
\* are its plugs
Addressed ==
  comm.pc \in {"request", "wait"} =>
    /\ \A n \in Nodes : node[n].address = comm.device - 1 <=> n = comm.node
    /\ comm.attribute = "name" => comm.plugs = Plugs(comm.node, Index(comm))

AnswerInv == Addressed /\ AnswersFit

\* Whatever is on the way into the storage for an element, a device or the list is
\* what is expected, and if nothing is, then that is stored already.
EndpointWillBe(id, data) ==
  /\ \A n \in DOMAIN writes :
       writes[n].kind = "endpoint" /\ writes[n].id = id => writes[n].data = data
  /\ (\A n \in DOMAIN writes : ~(writes[n].kind = "endpoint" /\ writes[n].id = id)) =>
       storage.endpoint[id] = data

DeviceWillBe(id, data) ==
  /\ \A n \in DOMAIN writes :
       writes[n].kind = "device" /\ writes[n].id = id => writes[n].data = data
  /\ (\A n \in DOMAIN writes : ~(writes[n].kind = "device" /\ writes[n].id = id)) =>
       storage.device[id] = data

ListWillBe(data) ==
  /\ \A n \in DOMAIN writes : writes[n].kind = "list" => writes[n].data = data
  /\ (\A n \in DOMAIN writes : writes[n].kind # "list") => storage.list = data

\* the records of the devices are stored, or will be
DevicesStored ==
  \A n \in DOMAIN devices :
    /\ DeviceWillBe(devices[n].id, devices[n].node)
    /\ \A j \in DOMAIN devices[n].endpoints :
         EndpointWillBe(devices[n].endpoints[j].id,
                        [device |-> devices[n].id, plugs |-> devices[n].endpoints[j].plugs])

\* the endpoints of a device are in the order of their elements in the list
InOrder(list, ids, count) ==
  \A n \in DOMAIN list : \A i, j \in DOMAIN list[n].endpoints : \A p, q \in 1..count :
    ids[p] = list[n].endpoints[i].id /\ ids[q] = list[n].endpoints[j].id /\ i < j => p < q

Agrees(l, list, ids) == l.ids = ids /\ ToSet(l.devices) = ToSet(list)

\* The list is stored, or will be, but after a power failure: then it may have
\* elements that were not loaded.
ListStored ==
  \/ ListWillBe(SubSeq(elementIds, 1, elementCount))
  \/ writes = << >> /\ Agrees(Load(storage), devices, SubSeq(elementIds, 1, elementCount))

RestartInv ==
  /\ erasing # 0 => writes = << >>
  /\ DevicesStored
  /\ InOrder(devices, elementIds, elementCount)
  /\ ListStored

\* of the writes that are pending, that of the record of a device is the last
DeviceLast ==
  /\ \A n \in DOMAIN writes : writes[n].kind = "device" => writes[n].device = writes[n].id
  /\ \A n \in DOMAIN writes : writes[n].data # None =>
       /\ writes[n].kind = "device" => n = Len(writes)
       /\ writes[n].kind = "endpoint" =>
            /\ writes[n].data.device = writes[n].device
            /\ \E m \in DOMAIN writes :
                 n < m /\ writes[m].kind = "device" /\ writes[m].id = writes[n].device

\* a write of the record of a device is pending
Busy(id) == \E n \in DOMAIN writes : writes[n].kind = "device" /\ writes[n].id = id

\* the elements of a device whose records are about to go
Gone(id) ==
  {x \in ElementIds : \E n \in DOMAIN writes :
     writes[n].kind = "endpoint" /\ writes[n].device = id /\ writes[n].data = None /\ writes[n].id = x}

IdsOf(d) == {d.endpoints[j].id : j \in DOMAIN d.endpoints}

HasRecords(s, d) ==
  /\ s.device[d.id] = d.node
  /\ \A j \in DOMAIN d.endpoints :
       s.endpoint[d.endpoints[j].id] = [device |-> d.id, plugs |-> d.endpoints[j].plugs]

\* the stored list has the elements of the device in their order
HasOrder(s, d) ==
  /\ \A j \in DOMAIN d.endpoints : \E p \in DOMAIN s.list : s.list[p] = d.endpoints[j].id
  /\ \A i, j \in DOMAIN d.endpoints : \A p, q \in DOMAIN s.list :
       s.list[p] = d.endpoints[i].id /\ s.list[q] = d.endpoints[j].id /\ i < j => p < q

\* what a restart would add to the device comes behind its own elements
HasFirst(s, d, gone) ==
  \A j \in DOMAIN d.endpoints : \A p, q \in DOMAIN s.list :
    /\ s.list[p] = d.endpoints[j].id
    /\ s.list[q] \notin gone \cup IdsOf(d)
    /\ s.endpoint[s.list[q]] # None
    /\ s.endpoint[s.list[q]].device = d.id
    => p < q

Whole(s, d, gone) == HasRecords(s, d) /\ HasOrder(s, d) /\ HasFirst(s, d, gone)

OthersWhole ==
  \A n \in DOMAIN devices :
    Busy(devices[n].id) \/ Whole(storage, devices[n], Gone(devices[n].id))

\* an element whose record is still that of another device is behind the elements of
\* all other devices
StaleLast(s, list, ids, count) ==
  \A m, n \in DOMAIN list :
    \A j \in DOMAIN list[m].endpoints, i \in DOMAIN list[n].endpoints : \A p, q \in 1..count :
      /\ m # n
      /\ ids[p] = list[n].endpoints[i].id
      /\ ids[q] = list[m].endpoints[j].id
      /\ s.endpoint[ids[q]] # None
      /\ s.endpoint[ids[q]].device # list[m].id
      => p < q

\* A device that is not being written is in the storage with all it has.
OthersInv == DeviceLast /\ OthersWhole /\ StaleLast(storage, devices, elementIds, elementCount)

-----------------------------------------------------------------------------
(* Numbers and recursive functions *)

LEMMA LeastExists ==
  ASSUME NEW S, S \subseteq Nat, S # {}
  PROVE  \E i \in S : \A j \in S : i <= j
<1>1. PICK i \in S : \A j \in S : <<j, i>> \notin OpToRel(<, Nat)
  BY WFMin, NatLessThanWellFounded, Zenon
<1>2. ASSUME NEW j \in S
      PROVE  i <= j
  <2>1. j < i => <<j, i>> \in OpToRel(<, Nat)
    BY Zenon DEF OpToRel
  <2>2. ~(j < i)
    BY <1>1, <2>1
  <2> QED
    BY <2>2
<1> QED BY <1>2

\* A function on 0..N may be defined by its value at 0 and a step.
Steps(f, base, step, N) == f[0] = base /\ \A n \in 1..N : f[n] = step[n][f[n - 1]]

LEMMA StepFunction ==
  ASSUME NEW S, NEW N \in Nat, NEW base \in S, NEW step \in [1..N -> [S -> S]]
  PROVE  \E f \in [0..N -> S] : Steps(f, base, step, N)
<1> DEFINE Good(n, f) == f[0] = base /\ \A k \in 1..n : f[k] = step[k][f[k - 1]]
<1> DEFINE Bad == {n \in 0..N : \A f \in [0..n -> S] : ~Good(n, f)}
<1>1. ASSUME NEW n \in 0..N, n \in Bad, \A j \in Bad : n <= j
      PROVE  FALSE
  <2>1. CASE n = 0
    <3>1. [k \in 0..0 |-> base] \in [0..n -> S] /\ Good(0, [k \in 0..0 |-> base])
      BY <2>1
    <3> QED
      BY <2>1, <3>1, <1>1
  <2>2. CASE n # 0
    <3>1. n - 1 \in 0..N /\ n - 1 \notin Bad
      <4>1. n - 1 \in 0..N /\ ~(n <= n - 1)
        BY <2>2
      <4> HIDE DEF Bad
      <4> QED
        BY <4>1, <1>1
    <3>2. PICK f \in [0..n - 1 -> S] : Good(n - 1, f)
      BY <3>1
    <3> DEFINE g == [k \in 0..n |-> IF k = n THEN step[n][f[n - 1]] ELSE f[k]]
    <3>3. n \in 1..N /\ f[n - 1] \in S
      BY <2>2
    <3>4. step[n][f[n - 1]] \in S
      BY <3>3
    <3>5. g \in [0..n -> S]
      BY <3>4
    <3>6. g[0] = base
      BY <3>2, <2>2
    <3>7. ASSUME NEW k \in 1..n
          PROVE  g[k] = step[k][g[k - 1]]
      <4>1. CASE k = n
        <5>1. n \in 0..n /\ n - 1 \in 0..n /\ n - 1 # n
          BY <2>2
        <5>2. g[n] = step[n][f[n - 1]] /\ g[n - 1] = f[n - 1]
          BY <5>1
        <5> QED
          BY <4>1, <5>2
      <4>2. CASE k # n
        <5>1. k \in 1..n - 1 /\ k \in 0..n /\ k - 1 \in 0..n /\ k - 1 # n
          BY <4>2
        <5>2. g[k] = f[k] /\ g[k - 1] = f[k - 1]
          BY <5>1, <4>2
        <5>3. f[k] = step[k][f[k - 1]]
          BY <5>1, <3>2
        <5> QED
          BY <5>2, <5>3
      <4> QED
        BY <4>1, <4>2
    <3>8. Good(n, g)
      BY <3>6, <3>7
    <3> QED
      BY <3>5, <3>8, <1>1
  <2> QED
    BY <2>1, <2>2
<1>2. Bad = {}
  <2>1. Bad \subseteq Nat
    OBVIOUS
  <2> QED
    BY <2>1, <1>1, LeastExists
<1>3. N \in 0..N
  OBVIOUS
<1> QED
  BY <1>2, <1>3 DEF Steps

-----------------------------------------------------------------------------
(* Lists *)

LEMMA KeepSteps ==
  ASSUME NEW S, NEW list \in Seq(S), NEW places
  PROVE  \E f \in [0..Len(list) -> Seq(S)] :
           /\ Keep(list, places) = f[Len(list)]
           /\ f[0] = << >>
           /\ \A n \in 1..Len(list) :
                f[n] = IF n \in places THEN Append(f[n - 1], list[n]) ELSE f[n - 1]
<1> DEFINE N == Len(list)
<1> DEFINE Is(f) == f = [n \in 0..N |->
                           IF n = 0 THEN << >>
                           ELSE IF n \in places THEN Append(f[n - 1], list[n]) ELSE f[n - 1]]
<1> DEFINE G == CHOOSE f : Is(f)
<1> DEFINE step == [n \in 1..N |-> [s \in Seq(S) |->
                      IF n \in places THEN Append(s, list[n]) ELSE s]]
<1>1. Keep(list, places) = G[N]
  BY DEF Keep
<1>2. step \in [1..N -> [Seq(S) -> Seq(S)]]
  OBVIOUS
<1>3. PICK f \in [0..N -> Seq(S)] : Steps(f, << >>, step, N)
  <2>1. N \in Nat /\ << >> \in Seq(S)
    OBVIOUS
  <2> HIDE DEF step, N
  <2> QED
    BY <1>2, <2>1, StepFunction, Zenon
<1>4. ASSUME NEW n \in 1..N
      PROVE  f[n] = IF n \in places THEN Append(f[n - 1], list[n]) ELSE f[n - 1]
  <2>1. f[n - 1] \in Seq(S)
    <3>1. n - 1 \in 0..N
      OBVIOUS
    <3> HIDE DEF N, step
    <3> QED
      BY <1>3, <3>1
  <2> QED
    BY <2>1, <1>3 DEF Steps
<1>5. Is(f)
  <2>1. ASSUME NEW n \in 0..N
        PROVE  f[n] = IF n = 0 THEN << >>
                      ELSE IF n \in places THEN Append(f[n - 1], list[n]) ELSE f[n - 1]
    <3>1. n = 0 \/ n \in 1..N
      OBVIOUS
    <3> QED
      BY <3>1, <1>3, <1>4 DEF Steps
  <2> QED
    BY <2>1
<1>6. Is(G)
  BY <1>5, Zenon
<1> HIDE DEF G
<1>7. /\ DOMAIN G = 0..N
      /\ G[0] = << >>
      /\ \A n \in 1..N : G[n] = IF n \in places THEN Append(G[n - 1], list[n]) ELSE G[n - 1]
  <2>1. DOMAIN G = 0..N
    BY <1>6
  <2>2. ASSUME NEW n \in 0..N
        PROVE  G[n] = IF n = 0 THEN << >>
                      ELSE IF n \in places THEN Append(G[n - 1], list[n]) ELSE G[n - 1]
    BY <1>6, Zenon
  <2>3. G[0] = << >>
    BY <2>2
  <2>4. ASSUME NEW n \in 1..N
        PROVE  G[n] = IF n \in places THEN Append(G[n - 1], list[n]) ELSE G[n - 1]
    <3>1. n \in 0..N /\ n # 0
      OBVIOUS
    <3> QED
      BY <2>2, <3>1
  <2> QED
    BY <2>1, <2>3, <2>4
<1>8. \A n \in 0..N : G[n] \in Seq(S)
  <2> DEFINE Bad == {n \in 0..N : G[n] \notin Seq(S)}
  <2>1. ASSUME NEW n \in Bad, \A j \in Bad : n <= j
        PROVE  FALSE
    <3>1. n # 0
      <4>1. << >> \in Seq(S)
        OBVIOUS
      <4> QED
        BY <4>1, <2>1, <1>7
    <3>2. n - 1 \in 0..N /\ n \in 1..N /\ n - 1 \notin Bad
      BY <3>1, <2>1
    <3>3. G[n - 1] \in Seq(S) /\ list[n] \in S
      BY <3>2
    <3>4. Append(G[n - 1], list[n]) \in Seq(S)
      BY <3>3
    <3> QED
      BY <3>2, <3>3, <3>4, <1>7
  <2>2. Bad \subseteq Nat
    OBVIOUS
  <2>3. Bad = {}
    BY <2>1, <2>2, LeastExists
  <2> QED
    BY <2>3
<1>9. G \in [0..N -> Seq(S)]
  <2>1. G = [n \in 0..N |-> G[n]]
    BY <1>6
  <2> QED
    BY <2>1, <1>8
<1> QED
  BY <1>1, <1>7, <1>9

LEMMA UpToCardinality ==
  ASSUME NEW n \in Nat
  PROVE  IsFiniteSet(1..n) /\ Cardinality(1..n) = n
<1>1. IsFiniteSet(1..n) /\ Cardinality(1..n) = IF 1 > n THEN 0 ELSE n - 1 + 1
  BY FS_Interval
<1> QED
  BY <1>1

\* pos tells where the elements of kept were in the first n places of list
Selects(pos, kept, list, n, places) ==
  /\ pos \in [1..Len(kept) -> (1..n) \cap places]
  /\ \A k \in 1..Len(kept) : kept[k] = list[pos[k]]
  /\ \A j, k \in 1..Len(kept) : j < k => pos[j] < pos[k]
  /\ \A m \in (1..n) \cap places : \E k \in 1..Len(kept) : pos[k] = m

LEMMA SelectsAppend ==
  ASSUME NEW S, NEW list \in Seq(S), NEW places, NEW n \in 1..Len(list), n \in places,
         NEW kept \in Seq(S), NEW pos, Selects(pos, kept, list, n - 1, places)
  PROVE  \E p : Selects(p, Append(kept, list[n]), list, n, places)
<1> DEFINE K == Len(kept)
           more == Append(kept, list[n])
           p == [k \in 1..K + 1 |-> IF k = K + 1 THEN n ELSE pos[k]]
<1>1. /\ K \in Nat
      /\ Len(more) = K + 1
      /\ more[K + 1] = list[n]
      /\ \A k \in 1..K : more[k] = kept[k]
  BY AppendProperties
<1>2. \A k \in 1..K : pos[k] \in (1..n - 1) \cap places
  BY DEF Selects
<1>3. \A k \in 1..K : p[k] = pos[k]
  BY <1>1
<1>4. p[K + 1] = n
  BY <1>1
<1>5. p \in [1..K + 1 -> (1..n) \cap places]
  <2>1. \A k \in 1..K + 1 : p[k] \in (1..n) \cap places
    BY <1>1, <1>2
  <2> QED
    BY <2>1
<1> HIDE DEF p, more
<1>6. ASSUME NEW k \in 1..K + 1
      PROVE  more[k] = list[p[k]]
  <2>1. k = K + 1 \/ k \in 1..K
    BY <1>1
  <2> QED
    BY <2>1, <1>1, <1>3, <1>4 DEF Selects
<1>7. ASSUME NEW j \in 1..K + 1, NEW k \in 1..K + 1, j < k
      PROVE  p[j] < p[k]
  <2>1. j \in 1..K /\ p[j] = pos[j] /\ pos[j] \in 1..n - 1
    BY <1>1, <1>2, <1>3, <1>7
  <2>2. CASE k = K + 1
    BY <2>1, <2>2, <1>4
  <2>3. CASE k # K + 1
    <3>1. k \in 1..K /\ p[k] = pos[k]
      BY <2>3, <1>1, <1>3
    <3> QED
      BY <2>1, <3>1, <1>7 DEF Selects
  <2> QED
    BY <2>2, <2>3
<1>8. ASSUME NEW m \in (1..n) \cap places
      PROVE  \E k \in 1..K + 1 : p[k] = m
  <2>1. CASE m = n
    <3>1. K + 1 \in 1..K + 1
      BY <1>1
    <3> QED
      BY <2>1, <3>1, <1>4
  <2>2. CASE m # n
    <3>1. m \in (1..n - 1) \cap places
      BY <2>2
    <3>2. PICK k \in 1..K : pos[k] = m
      BY <3>1 DEF Selects
    <3>3. k \in 1..K + 1
      BY <1>1
    <3> QED
      BY <3>2, <3>3, <1>3
  <2> QED
    BY <2>1, <2>2
<1>9. Selects(p, more, list, n, places)
  <2> HIDE DEF K
  <2> QED
    BY <1>1, <1>5, <1>6, <1>7, <1>8 DEF Selects
<1> QED
  BY <1>9 DEF more

LEMMA SelectsSkip ==
  ASSUME NEW S, NEW list \in Seq(S), NEW places, NEW n \in 1..Len(list), n \notin places,
         NEW kept \in Seq(S), NEW pos, Selects(pos, kept, list, n - 1, places)
  PROVE  Selects(pos, kept, list, n, places)
<1>1. (1..n) \cap places = (1..n - 1) \cap places
  OBVIOUS
<1> QED
  BY <1>1 DEF Selects

LEMMA KeepSelects ==
  ASSUME NEW S, NEW list \in Seq(S), NEW places
  PROVE  /\ Keep(list, places) \in Seq(S)
         /\ \E pos : Selects(pos, Keep(list, places), list, Len(list), places)
<1>1. PICK f \in [0..Len(list) -> Seq(S)] :
        /\ Keep(list, places) = f[Len(list)]
        /\ f[0] = << >>
        /\ \A n \in 1..Len(list) :
             f[n] = IF n \in places THEN Append(f[n - 1], list[n]) ELSE f[n - 1]
  BY KeepSteps
<1> DEFINE Bad == {n \in 0..Len(list) : \A pos : ~Selects(pos, f[n], list, n, places)}
<1>2. ASSUME NEW n \in 0..Len(list), n \in Bad, \A j \in Bad : n <= j
      PROVE  FALSE
  <2>1. CASE n = 0
    <3>1. Selects(<< >>, << >>, list, 0, places)
      BY DEF Selects
    <3> QED
      BY <2>1, <3>1, <1>1, <1>2
  <2>2. CASE n # 0
    <3>1. n - 1 \in 0..Len(list) /\ n \in 1..Len(list) /\ ~(n <= n - 1)
      BY <2>2
    <3>2. n - 1 \notin Bad
      <4> HIDE DEF Bad
      <4> QED
        BY <3>1, <1>2
    <3>3. PICK pos : Selects(pos, f[n - 1], list, n - 1, places)
      BY <3>1, <3>2
    <3>4. f[n - 1] \in Seq(S)
      BY <3>1
    <3>5. \E p : Selects(p, f[n], list, n, places)
      <4>1. CASE n \in places
        BY <4>1, <1>1, <3>1, <3>3, <3>4, SelectsAppend
      <4>2. CASE n \notin places
        BY <4>2, <1>1, <3>1, <3>3, <3>4, SelectsSkip
      <4> QED
        BY <4>1, <4>2
    <3> QED
      BY <3>5, <1>2
  <2> QED
    BY <2>1, <2>2
<1>3. Bad = {}
  <2>1. Bad \subseteq Nat
    OBVIOUS
  <2> QED
    BY <2>1, <1>2, LeastExists
<1>4. Len(list) \in 0..Len(list)
  OBVIOUS
<1> QED
  BY <1>1, <1>3, <1>4

KeptFrom(kept, list, places) ==
  /\ Len(kept) <= Len(list)
  /\ \A k \in 1..Len(kept) : \E n \in 1..Len(list) : n \in places /\ kept[k] = list[n]
  /\ \A n \in 1..Len(list) : n \in places => \E k \in 1..Len(kept) : kept[k] = list[n]
  /\ IsInjective(list) => IsInjective(kept)

\* What is kept of a list without repetition has none, and nothing else is in it.
LEMMA KeepFacts ==
  ASSUME NEW S, NEW list \in Seq(S), NEW places, NEW kept, kept = Keep(list, places)
  PROVE  /\ kept \in Seq(S)
         /\ KeptFrom(kept, list, places)
<1>1. kept \in Seq(S)
  BY KeepSelects
<1>2. PICK pos : Selects(pos, kept, list, Len(list), places)
  BY KeepSelects
<1>3. \A k \in 1..Len(kept) : pos[k] \in 1..Len(list) /\ pos[k] \in places /\ kept[k] = list[pos[k]]
  BY <1>2 DEF Selects
<1>4. \A j, k \in 1..Len(kept) : pos[j] = pos[k] => j = k
  <2>1. \A j, k \in 1..Len(kept) : j < k => pos[j] # pos[k]
    BY <1>2, <1>3 DEF Selects
  <2> QED
    BY <2>1, <1>1
<1>5. Len(kept) <= Len(list)
  <2>1. IsFiniteSet(1..Len(list)) /\ Cardinality(1..Len(list)) = Len(list)
    BY UpToCardinality
  <2>2. Cardinality(1..Len(kept)) = Len(kept)
    BY <1>1, UpToCardinality
  <2>3. pos \in [1..Len(kept) -> 1..Len(list)]
    BY <1>2 DEF Selects
  <2>4. pos \in Injection(1..Len(kept), 1..Len(list))
    BY <1>4, <2>3 DEF Injection, IsInjective
  <2> QED
    BY <2>1, <2>2, <2>4, FS_Injection, <1>1
<1>6. IsInjective(list) => IsInjective(kept)
  <2> SUFFICES ASSUME IsInjective(list), NEW j \in DOMAIN kept, NEW k \in DOMAIN kept, kept[j] = kept[k]
               PROVE  j = k
    BY DEF IsInjective
  <2>1. j \in 1..Len(kept) /\ k \in 1..Len(kept)
    BY <1>1
  <2>2. pos[j] = pos[k]
    BY <2>1, <1>3 DEF IsInjective
  <2> QED
    BY <2>1, <2>2, <1>4
<1> QED
  BY <1>1, <1>2, <1>3, <1>5, <1>6 DEF Selects, KeptFrom

LEMMA FirstFreeFacts ==
  ASSUME NEW used, used \subseteq Nat, IsFiniteSet(used)
  PROVE  FirstFree(used) \in 1..Cardinality(used) + 1 /\ FirstFree(used) \notin used
<1> DEFINE N == Cardinality(used) + 1
           free == {i \in 1..N : i \notin used}
<1>1. Cardinality(used) \in Nat /\ N \in Nat
  BY FS_CardinalityType
<1>2. free # {}
  <2>1. CASE free = {}
    <3>1. (1..N) \subseteq used
      BY <2>1
    <3>2. Cardinality(1..N) <= Cardinality(used)
      <4> HIDE DEF N
      <4> QED
        BY <3>1, FS_Subset
    <3>3. Cardinality(1..N) = N
      BY <1>1, UpToCardinality
    <3> QED
      BY <1>1, <3>2, <3>3
  <2> QED
    BY <2>1
<1>3. free \subseteq Nat
  BY <1>1
<1>4. PICK i \in free : \A j \in free : i <= j
  <2> HIDE DEF free
  <2> QED
    BY <1>2, <1>3, LeastExists
<1>5. 1..i - 1 \subseteq used
  <2> SUFFICES ASSUME NEW j \in 1..i - 1
               PROVE  j \in used
    OBVIOUS
  <2>1. j \in 1..N /\ ~(i <= j)
    BY <1>1
  <2> QED
    BY <2>1, <1>4
<1>6. \E k \in 1..N : k \notin used /\ 1..k - 1 \subseteq used
  BY <1>5
<1> QED
  BY <1>6 DEF FirstFree

LEMMA RangeCardinality ==
  ASSUME NEW S, NEW list \in Seq(S)
  PROVE  /\ ToSet(list) \subseteq S
         /\ IsFiniteSet(ToSet(list))
         /\ Cardinality(ToSet(list)) <= Len(list)
         /\ IsInjective(list) => Cardinality(ToSet(list)) = Len(list)
<1>1. list \in Surjection(1..Len(list), ToSet(list))
  BY DEF Surjection, ToSet
<1>2. IsFiniteSet(1..Len(list)) /\ Cardinality(1..Len(list)) = Len(list)
  BY UpToCardinality
<1>3. IsInjective(list) => list \in Injection(1..Len(list), ToSet(list))
  BY <1>1 DEF Surjection, Injection
<1>4. ToSet(list) \subseteq S
  BY DEF ToSet
<1> QED
  BY <1>1, <1>2, <1>3, <1>4, FS_Surjection

\* flat holds what is in the first n sequences, each element once
Flat(flat, seqs, n) ==
  /\ \A k \in 1..Len(flat) : \E m \in 1..n : \E j \in 1..Len(seqs[m]) : flat[k] = seqs[m][j]
  /\ \A m \in 1..n : \A j \in 1..Len(seqs[m]) : \E k \in 1..Len(flat) : flat[k] = seqs[m][j]
  /\ IsInjective(flat)

NoRepetition(seqs) ==
  \A m, n \in DOMAIN seqs : \A j \in 1..Len(seqs[m]), k \in 1..Len(seqs[n]) :
    seqs[m][j] = seqs[n][k] => m = n /\ j = k

LEMMA FlatOne ==
  ASSUME NEW S, NEW seqs \in Seq(Seq(S)), seqs # << >>, NoRepetition(seqs)
  PROVE  Flat(seqs[1], seqs, 1)
<1>1. 1 \in DOMAIN seqs /\ seqs[1] \in Seq(S)
  OBVIOUS
<1>2. IsInjective(seqs[1])
  BY <1>1 DEF NoRepetition, IsInjective
<1> QED
  BY <1>1, <1>2 DEF Flat

LEMMA FlatMore ==
  ASSUME NEW S, NEW seqs \in Seq(Seq(S)), NoRepetition(seqs), NEW n \in 2..Len(seqs),
         NEW flat \in Seq(S), Flat(flat, seqs, n - 1)
  PROVE  Flat(flat \o seqs[n], seqs, n)
<1> DEFINE more == seqs[n]
           L == Len(flat)
           all == flat \o more
<1>1. more \in Seq(S) /\ n \in DOMAIN seqs /\ L \in Nat /\ Len(more) \in Nat
  OBVIOUS
<1>2. /\ all \in Seq(S)
      /\ Len(all) = L + Len(more)
      /\ \A k \in 1..Len(all) : all[k] = IF k <= L THEN flat[k] ELSE more[k - L]
  BY <1>1, ConcatProperties
<1>a. \A k \in 1..Len(all) : \/ k \in 1..L /\ all[k] = flat[k]
                             \/ k - L \in 1..Len(more) /\ all[k] = more[k - L] /\ k > L
  BY <1>1, <1>2
<1>b. \A k \in 1..L : k \in 1..Len(all) /\ all[k] = flat[k]
  BY <1>1, <1>2
<1>c. \A k \in 1..Len(more) : k + L \in 1..Len(all) /\ all[k + L] = more[k]
  BY <1>1, <1>2
<1> HIDE DEF all
<1>3. ASSUME NEW k \in 1..Len(all)
      PROVE  \E m \in 1..n : \E j \in 1..Len(seqs[m]) : all[k] = seqs[m][j]
  <2>1. CASE k \in 1..L /\ all[k] = flat[k]
    <3>1. PICK m \in 1..n - 1 : \E j \in 1..Len(seqs[m]) : flat[k] = seqs[m][j]
      BY <2>1 DEF Flat
    <3>2. m \in 1..n
      OBVIOUS
    <3> QED
      BY <2>1, <3>1, <3>2
  <2>2. CASE k - L \in 1..Len(more) /\ all[k] = more[k - L]
    <3>1. n \in 1..n
      OBVIOUS
    <3> QED
      BY <2>2, <3>1
  <2> QED
    BY <2>1, <2>2, <1>a
<1>4. ASSUME NEW m \in 1..n, NEW j \in 1..Len(seqs[m])
      PROVE  \E k \in 1..Len(all) : all[k] = seqs[m][j]
  <2>1. CASE m = n
    BY <2>1, <1>c
  <2>2. CASE m # n
    <3>1. m \in 1..n - 1
      BY <2>2
    <3>2. PICK k \in 1..L : flat[k] = seqs[m][j]
      BY <3>1 DEF Flat
    <3> QED
      BY <3>2, <1>b
  <2> QED
    BY <2>1, <2>2
<1>5. \A j \in 1..L, k \in 1..Len(more) : flat[j] # more[k]
  <2> SUFFICES ASSUME NEW j \in 1..L, NEW k \in 1..Len(more), flat[j] = more[k]
               PROVE  FALSE
    OBVIOUS
  <2>1. PICK m \in 1..n - 1 : \E i \in 1..Len(seqs[m]) : flat[j] = seqs[m][i]
    BY DEF Flat
  <2>2. m \in DOMAIN seqs /\ m # n
    BY <1>1
  <2> QED
    BY <1>1, <2>1, <2>2 DEF NoRepetition
<1>6. \A j, k \in 1..Len(more) : more[j] = more[k] => j = k
  BY <1>1 DEF NoRepetition
<1>7. \A j, k \in 1..L : flat[j] = flat[k] => j = k
  BY DEF Flat, IsInjective
<1>8. ASSUME NEW j \in 1..Len(all), NEW k \in 1..Len(all), all[j] = all[k]
      PROVE  j = k
  <2> USE <1>8
  <2>1. CASE j \in 1..L /\ all[j] = flat[j] /\ k \in 1..L /\ all[k] = flat[k]
    BY <2>1, <1>7
  <2>2. CASE j \in 1..L /\ all[j] = flat[j] /\ k - L \in 1..Len(more) /\ all[k] = more[k - L]
    BY <2>2, <1>5
  <2>3. CASE j - L \in 1..Len(more) /\ all[j] = more[j - L] /\ k \in 1..L /\ all[k] = flat[k]
    BY <2>3, <1>5
  <2>4. CASE j - L \in 1..Len(more) /\ all[j] = more[j - L] /\ k - L \in 1..Len(more) /\ all[k] = more[k - L]
    <3>1. j - L = k - L
      BY <2>4, <1>6
    <3> QED
      BY <3>1, <1>1, <1>2
  <2> QED
    BY <1>a, <2>1, <2>2, <2>3, <2>4
<1>9. IsInjective(all)
  <2>1. DOMAIN all = 1..Len(all)
    BY <1>2
  <2> QED
    BY <1>8, <2>1 DEF IsInjective
<1> QED
  BY <1>3, <1>4, <1>9 DEF Flat, all

LEMMA FlattenSteps ==
  ASSUME NEW S, NEW seqs \in Seq(Seq(S)), seqs # << >>
  PROVE  \E f \in [1..Len(seqs) -> Seq(S)] :
           /\ FlattenSeq(seqs) = f[Len(seqs)]
           /\ f[1] = seqs[1]
           /\ \A n \in 2..Len(seqs) : f[n] = f[n - 1] \o seqs[n]
<1> DEFINE N == Len(seqs)
           Is(f) == f = [i \in 1..N |-> IF i = 1 THEN seqs[i] ELSE f[i-1] \o seqs[i]]
           G == CHOOSE f : Is(f)
           step == [n \in 1..N |-> [s \in Seq(S) |-> IF n = 1 THEN seqs[1] ELSE s \o seqs[n]]]
<1>1. FlattenSeq(seqs) = G[N]
  BY DEF FlattenSeq
<1>0. N \in Nat /\ 1 \in 1..N /\ \A n \in 1..N : seqs[n] \in Seq(S)
  OBVIOUS
<1>2. step \in [1..N -> [Seq(S) -> Seq(S)]]
  BY <1>0
<1>3. PICK g \in [0..N -> Seq(S)] : Steps(g, << >>, step, N)
  <2>1. << >> \in Seq(S)
    OBVIOUS
  <2> HIDE DEF step, N
  <2> QED
    BY <1>0, <1>2, <2>1, StepFunction, Zenon
<1> DEFINE h == [n \in 1..N |-> g[n]]
<1>4. \A n \in 1..N : g[n] = IF n = 1 THEN seqs[1] ELSE g[n - 1] \o seqs[n]
  <2> SUFFICES ASSUME NEW n \in 1..N
               PROVE  g[n] = IF n = 1 THEN seqs[1] ELSE g[n - 1] \o seqs[n]
    OBVIOUS
  <2>1. g[n - 1] \in Seq(S)
    <3>1. n - 1 \in 0..N
      BY <1>0
    <3> QED
      BY <3>1
  <2> QED
    BY <2>1, <1>3 DEF Steps
<1>5. Is(h)
  <2>1. ASSUME NEW n \in 1..N
        PROVE  h[n] = IF n = 1 THEN seqs[n] ELSE h[n-1] \o seqs[n]
    <3>1. CASE n = 1
      BY <3>1, <1>4
    <3>2. CASE n # 1
      <4>1. n - 1 \in 1..N
        BY <3>2, <1>0
      <4>2. h[n] = g[n] /\ h[n - 1] = g[n - 1]
        BY <4>1
      <4> QED
        BY <3>2, <4>2, <1>4
    <3> QED
      BY <3>1, <3>2
  <2> QED
    BY <2>1, Zenon
<1>6. Is(G)
  BY <1>5, Zenon
<1> HIDE DEF G
<1>7. \A n \in 1..N : G[n] = IF n = 1 THEN seqs[n] ELSE G[n-1] \o seqs[n]
  BY <1>6, Zenon
<1>8. \A n \in 1..N : G[n] \in Seq(S)
  <2> DEFINE Bad == {n \in 1..N : G[n] \notin Seq(S)}
  <2>1. ASSUME NEW n \in Bad, \A j \in Bad : n <= j
        PROVE  FALSE
    <3>1. CASE n = 1
      BY <3>1, <1>0, <1>7, <2>1
    <3>2. CASE n # 1
      <4>1. n - 1 \in 1..N /\ n \in 1..N /\ ~(n <= n - 1)
        BY <3>2, <1>0
      <4>2. n - 1 \notin Bad
        <5> HIDE DEF Bad
        <5> QED
          BY <4>1, <2>1
      <4>3. G[n - 1] \in Seq(S) /\ seqs[n] \in Seq(S)
        BY <4>1, <4>2, <1>0
      <4>4. G[n - 1] \o seqs[n] \in Seq(S)
        BY <4>3
      <4> QED
        BY <3>2, <4>1, <4>4, <1>7, <2>1
    <3> QED
      BY <3>1, <3>2
  <2>2. Bad \subseteq Nat
    BY <1>0
  <2>3. Bad = {}
    BY <2>1, <2>2, LeastExists
  <2> QED
    BY <2>3
<1>9. G \in [1..N -> Seq(S)]
  <2>1. G = [n \in 1..N |-> G[n]]
    BY <1>6, <1>7, Zenon
  <2> QED
    BY <2>1, <1>8
<1>10. G[1] = seqs[1]
  BY <1>0, <1>7
<1>11. \A n \in 2..N : G[n] = G[n-1] \o seqs[n]
  <2>1. \A n \in 2..N : n \in 1..N /\ n # 1
    BY <1>0
  <2> QED
    BY <2>1, <1>7
<1> QED
  BY <1>1, <1>9, <1>10, <1>11

LEMMA FlattenFacts ==
  ASSUME NEW S, NEW seqs \in Seq(Seq(S)), NoRepetition(seqs)
  PROVE  FlattenSeq(seqs) \in Seq(S) /\ Flat(FlattenSeq(seqs), seqs, Len(seqs))
<1>1. CASE seqs = << >>
  <2>1. FlattenSeq(seqs) = << >>
    BY <1>1 DEF FlattenSeq
  <2>2. << >> \in Seq(S) /\ Flat(<< >>, << >>, 0)
    BY DEF Flat, IsInjective
  <2> QED
    BY <1>1, <2>1, <2>2
<1>2. CASE seqs # << >>
  <2>1. PICK f \in [1..Len(seqs) -> Seq(S)] :
          /\ FlattenSeq(seqs) = f[Len(seqs)]
          /\ f[1] = seqs[1]
          /\ \A n \in 2..Len(seqs) : f[n] = f[n - 1] \o seqs[n]
    BY <1>2, FlattenSteps
  <2>0. Len(seqs) \in 1..Len(seqs)
    BY <1>2
  <2> DEFINE Bad == {n \in 1..Len(seqs) : ~Flat(f[n], seqs, n)}
  <2>2. ASSUME NEW n \in Bad, \A j \in Bad : n <= j
        PROVE  FALSE
    <3>1. CASE n = 1
      BY <3>1, <1>2, <2>1, <2>2, FlatOne
    <3>2. CASE n # 1
      <4>1. n - 1 \in 1..Len(seqs) /\ n \in 2..Len(seqs) /\ ~(n <= n - 1)
        BY <3>2
      <4>2. n - 1 \notin Bad
        <5> HIDE DEF Bad
        <5> QED
          BY <4>1, <2>2
      <4>3. f[n - 1] \in Seq(S) /\ Flat(f[n - 1], seqs, n - 1)
        BY <4>1, <4>2
      <4>4. Flat(f[n], seqs, n)
        BY <4>1, <4>3, <2>1, FlatMore
      <4> QED
        BY <4>4, <2>2
    <3> QED
      BY <3>1, <3>2
  <2>3. Bad \subseteq Nat
    OBVIOUS
  <2>4. Bad = {}
    BY <2>2, <2>3, LeastExists
  <2> QED
    BY <2>0, <2>1, <2>4
<1> QED
  BY <1>1, <1>2

LEMMA EndpointIdsFacts ==
  ASSUME NEW d, d.endpoints \in Seq(Endpoints)
  PROVE  /\ EndpointIds(d) \in Seq(ElementIds)
         /\ Len(EndpointIds(d)) = Len(d.endpoints)
         /\ \A k \in 1..Len(d.endpoints) : EndpointIds(d)[k] = d.endpoints[k].id
<1>1. DOMAIN d.endpoints = 1..Len(d.endpoints) /\ Len(d.endpoints) \in Nat
  OBVIOUS
<1>2. \A k \in 1..Len(d.endpoints) : d.endpoints[k].id \in ElementIds
  <2>1. \A k \in 1..Len(d.endpoints) : d.endpoints[k] \in Endpoints
    OBVIOUS
  <2> QED
    BY <2>1 DEF Endpoints
<1>3. EndpointIds(d) = [k \in 1..Len(d.endpoints) |-> d.endpoints[k].id]
  BY <1>1 DEF EndpointIds
<1>4. EndpointIds(d) \in Seq(ElementIds)
  BY <1>1, <1>2, <1>3
<1> QED
  BY <1>1, <1>3, <1>4

LEMMA FirstCells ==
  ASSUME NEW S, NEW list \in Seq(S), NEW n \in 0..Len(list)
  PROVE  /\ SubSeq(list, 1, n) \in Seq(S)
         /\ Len(SubSeq(list, 1, n)) = n
         /\ \A k \in 1..n : SubSeq(list, 1, n)[k] = list[k]
         /\ IsInjective(list) => IsInjective(SubSeq(list, 1, n))
<1>1. /\ SubSeq(list, 1, n) \in Seq(S)
      /\ Len(SubSeq(list, 1, n)) = n
      /\ \A k \in 1..n : SubSeq(list, 1, n)[k] = list[k]
  OBVIOUS
<1>2. DOMAIN SubSeq(list, 1, n) = 1..n /\ 1..n \subseteq DOMAIN list
  BY <1>1
<1> QED
  BY <1>1, <1>2 DEF IsInjective

\* Lists that agree in the words of ListMatch agree in the words of the property.
LEMMA MatchFacts ==
  ASSUME NEW list \in Seq(Devices), DeviceList(list),
         NEW ids \in Seq(ElementIds), NEW count \in 0..Len(ids), IsInjective(ids),
         Listed(list, ids, count),
         NEW endpoints, endpoints = FlattenSeq([n \in DOMAIN list |-> EndpointIds(list[n])])
  PROVE  /\ count = Len(endpoints)
         /\ IsInjective(endpoints)
         /\ ToSet(SubSeq(ids, 1, count)) = ToSet(endpoints)
<1> DEFINE seqs == [n \in DOMAIN list |-> EndpointIds(list[n])]
           first == SubSeq(ids, 1, count)
<1>1. /\ DOMAIN list = 1..Len(list) /\ Len(list) \in Nat
      /\ \A n \in 1..Len(list) : list[n].endpoints \in Seq(Endpoints)
  <2>1. \A n \in 1..Len(list) : list[n] \in Devices
    OBVIOUS
  <2>2. \A n \in 1..Len(list) : list[n].endpoints \in Seq(Endpoints)
    BY <2>1 DEF Devices
  <2> QED
    BY <2>2
<1>2. \A n \in 1..Len(list) :
        /\ seqs[n] \in Seq(ElementIds)
        /\ Len(seqs[n]) = Len(list[n].endpoints)
        /\ \A k \in 1..Len(list[n].endpoints) : seqs[n][k] = list[n].endpoints[k].id
  BY <1>1, EndpointIdsFacts
<1>3. seqs \in Seq(Seq(ElementIds)) /\ Len(seqs) = Len(list)
  <2>1. seqs = [n \in 1..Len(list) |-> seqs[n]]
    BY <1>1
  <2> HIDE DEF seqs
  <2> QED
    BY <1>1, <1>2, <2>1
<1> HIDE DEF seqs
<1>4. \A n \in 1..Len(list) : DOMAIN list[n].endpoints = 1..Len(list[n].endpoints)
  BY <1>1
<1>5. NoRepetition(seqs)
  <2>1. DOMAIN seqs = 1..Len(list)
    BY <1>3
  <2> SUFFICES ASSUME NEW m \in 1..Len(list), NEW n \in 1..Len(list),
                      NEW j \in 1..Len(seqs[m]), NEW k \in 1..Len(seqs[n]),
                      seqs[m][j] = seqs[n][k]
               PROVE  m = n /\ j = k
    BY <2>1 DEF NoRepetition
  <2>2. j \in DOMAIN list[m].endpoints /\ k \in DOMAIN list[n].endpoints
    BY <1>2, <1>4
  <2>3. list[m].endpoints[j].id = list[n].endpoints[k].id
    BY <1>2
  <2>4. m \in DOMAIN list /\ n \in DOMAIN list
    BY <1>1
  <2> QED
    BY <2>2, <2>3, <2>4 DEF DeviceList, Apart
<1>6. endpoints \in Seq(ElementIds) /\ Flat(endpoints, seqs, Len(list))
  BY <1>3, <1>5, FlattenFacts DEF seqs
<1>7. /\ first \in Seq(ElementIds) /\ Len(first) = count
      /\ \A k \in 1..count : first[k] = ids[k]
      /\ IsInjective(first)
  BY FirstCells
<1> HIDE DEF first
<1>8. ASSUME NEW k \in 1..count
      PROVE  \E i \in 1..Len(endpoints) : endpoints[i] = ids[k]
  <2>1. PICK n \in DOMAIN list : \E j \in DOMAIN list[n].endpoints : list[n].endpoints[j].id = ids[k]
    BY DEF Listed
  <2>2. PICK j \in DOMAIN list[n].endpoints : list[n].endpoints[j].id = ids[k]
    BY <2>1
  <2>3. n \in 1..Len(list) /\ j \in 1..Len(seqs[n])
    BY <1>1, <1>2, <1>4
  <2>4. seqs[n][j] = ids[k]
    BY <2>2, <2>3, <1>2
  <2>5. \E i \in 1..Len(endpoints) : endpoints[i] = seqs[n][j]
    BY <2>3, <1>6 DEF Flat
  <2> QED
    BY <2>4, <2>5
<1>9. ASSUME NEW i \in 1..Len(endpoints)
      PROVE  \E k \in 1..count : endpoints[i] = ids[k]
  <2>1. PICK n \in 1..Len(list) : \E j \in 1..Len(seqs[n]) : endpoints[i] = seqs[n][j]
    BY <1>6 DEF Flat
  <2>2. PICK j \in 1..Len(seqs[n]) : endpoints[i] = seqs[n][j]
    BY <2>1
  <2>3. n \in DOMAIN list /\ j \in DOMAIN list[n].endpoints
    BY <1>1, <1>2, <1>4
  <2>4. endpoints[i] = list[n].endpoints[j].id
    BY <2>2, <1>2
  <2>5. \E k \in 1..count : list[n].endpoints[j].id = ids[k]
    BY <2>3 DEF Listed
  <2> QED
    BY <2>4, <2>5
<1>10. ToSet(first) = ToSet(endpoints)
  <2>1. DOMAIN first = 1..count /\ DOMAIN endpoints = 1..Len(endpoints)
    BY <1>6, <1>7
  <2>2. ToSet(first) = {ids[k] : k \in 1..count}
    BY <2>1, <1>7 DEF ToSet
  <2>3. ToSet(endpoints) = {endpoints[i] : i \in 1..Len(endpoints)}
    BY <2>1 DEF ToSet
  <2>4. {ids[k] : k \in 1..count} \subseteq {endpoints[i] : i \in 1..Len(endpoints)}
    <3> SUFFICES ASSUME NEW k \in 1..count
                 PROVE  ids[k] \in {endpoints[i] : i \in 1..Len(endpoints)}
      OBVIOUS
    <3> QED
      BY <1>8
  <2>5. {endpoints[i] : i \in 1..Len(endpoints)} \subseteq {ids[k] : k \in 1..count}
    <3> SUFFICES ASSUME NEW i \in 1..Len(endpoints)
                 PROVE  endpoints[i] \in {ids[k] : k \in 1..count}
      OBVIOUS
    <3> QED
      BY <1>9
  <2> QED
    BY <2>2, <2>3, <2>4, <2>5
<1>11. count = Len(endpoints)
  <2>1. IsInjective(endpoints)
    BY <1>6 DEF Flat
  <2>2. Cardinality(ToSet(first)) = count
    BY <1>7, RangeCardinality
  <2>3. Cardinality(ToSet(endpoints)) = Len(endpoints)
    BY <1>6, <2>1, RangeCardinality
  <2> QED
    BY <1>10, <2>2, <2>3
<1> QED
  BY <1>6, <1>10, <1>11 DEF Flat, first

LEMMA BusInvElementsMatch ==
  ASSUME BusInv
  PROVE  ElementsMatch
<1> DEFINE endpoints == FlattenSeq([n \in DOMAIN devices |-> EndpointIds(devices[n])])
<1>1. /\ devices \in Seq(Devices) /\ DeviceList(devices)
      /\ elementIds \in Seq(ElementIds) /\ elementCount \in 0..Len(elementIds)
      /\ IsInjective(elementIds) /\ Listed(devices, elementIds, elementCount)
  BY DEF BusInv, TypeOK, ListsInjective, DevicesMatch
<1>2. /\ elementCount = Len(endpoints)
      /\ IsInjective(endpoints)
      /\ ToSet(SubSeq(elementIds, 1, elementCount)) = ToSet(endpoints)
  <2> HIDE DEF endpoints
  <2>1. endpoints = FlattenSeq([n \in DOMAIN devices |-> EndpointIds(devices[n])])
    BY DEF endpoints
  <2> QED
    BY <1>1, <2>1, MatchFacts
<1>3. \A d \in ToSet(devices) : d.endpoints # << >>
  BY <1>1 DEF DeviceList, ToSet
<1>4. \A m, n \in DOMAIN devices : devices[m].id = devices[n].id => m = n
  BY <1>1 DEF DeviceList
<1> HIDE DEF endpoints
<1> QED
  BY <1>2, <1>3, <1>4 DEF ElementsMatch, endpoints

LEMMA BusInvOldDeviceStays ==
  ASSUME BusInv
  PROVE  OldDeviceStays
<1> SUFFICES ASSUME comm.pc # "none"
             PROVE  /\ comm.old # << >> => \E d \in ToSet(devices) : d.id = comm.device /\ EndpointIds(d) = comm.old
                    /\ comm.old = << >> => \A d \in ToSet(devices) : d.id # comm.device
                    /\ IsInjective(elementIds)
  BY DEF OldDeviceStays
<1>1. comm # NoComm
  BY DEF NoComm
<1>2. OldStays(comm, devices)
  BY <1>1 DEF BusInv, CommFits
<1>3. \A n \in DOMAIN devices : devices[n] \in ToSet(devices)
  BY DEF ToSet
<1>4. \A d \in ToSet(devices) : \E n \in DOMAIN devices : d = devices[n]
  BY DEF ToSet
<1> QED
  BY <1>2, <1>3, <1>4 DEF OldStays, BusInv, ListsInjective

-----------------------------------------------------------------------------
(* The end of a commissioning *)

IsEnd(last, list, a) ==
  /\ Len(last) = Len(list) - a
  /\ \A i \in 1..Len(list) - a : last[i] = list[a + i]
  /\ last # << >>
  /\ Head(last) = list[a + 1]

LEMMA LastCells ==
  ASSUME NEW S, NEW list \in Seq(S), NEW a \in Nat, a < Len(list),
         NEW last, last = SubSeq(list, a + 1, Len(list))
  PROVE  last \in Seq(S) /\ IsEnd(last, list, a)
<1>1. Len(list) \in Nat /\ a + 1 \in 1..Len(list) /\ Len(list) - (a + 1) + 1 = Len(list) - a
  OBVIOUS
<1>2. \A i \in a + 1..Len(list) : list[i] \in S
  OBVIOUS
<1>3. /\ last \in Seq(S)
      /\ Len(last) = Len(list) - (a + 1) + 1
      /\ \A i \in 1..Len(list) - (a + 1) + 1 : last[i] = list[(a + 1) + i - 1]
  BY <1>1, <1>2, SubSeqProperties
<1>4. \A i \in 1..Len(list) - a : (a + 1) + i - 1 = a + i
  BY <1>1
<1>5. \A i \in 1..Len(list) - a : last[i] = list[a + i]
  BY <1>1, <1>3, <1>4
<1>6. Head(last) = list[a + 1]
  <2>1. Len(list) \in a + 1..Len(list)
    BY <1>1
  <2> QED
    BY <1>1, <2>1, HeadTailOfSubSeq
<1>7. last # << >>
  <2>1. Len(last) = Len(list) - a
    BY <1>1, <1>3
  <2>2. Len(list) - a # 0
    <3>1. \A x, y \in Nat : x < y => y - x # 0
      OBVIOUS
    <3> QED
      BY <3>1, <1>1
  <2>3. Len(<< >>) = 0
    OBVIOUS
  <2> QED
    BY <2>1, <2>2, <2>3
<1> QED
  BY <1>1, <1>3, <1>5, <1>6, <1>7 DEF IsEnd

LEMMA OldIdsFacts ==
  ASSUME NEW c, c.old \in Seq(ElementIds), c.endpoints \in Seq(Endpoints)
  PROVE  /\ \A x : x \in ToSet(OldIds(c)) <=>
                     \E j \in 1..Len(c.old) : j > Len(c.endpoints) /\ c.old[j] = x
         /\ OldIds(c) = << >> <=> Len(c.old) <= Len(c.endpoints)
         /\ OldIds(c) # << >> => Head(OldIds(c)) = c.old[Len(c.endpoints) + 1]
<1> DEFINE L == Len(c.endpoints)
           N == Len(c.old)
           s == SubSeq(c.old, L + 1, N)
<1>1. L \in Nat /\ N \in Nat
  OBVIOUS
<1>2. OldIds(c) = s
  BY DEF OldIds
<1>3. CASE N <= L
  <2>1. s = << >>
    <3>1. L + 1 \in Int /\ N \in Int /\ N < L + 1
      BY <1>1, <1>3
    <3> HIDE DEF L, N
    <3> QED
      BY <3>1, SubSeqEmpty
  <2>2. ToSet(s) = {}
    <3> HIDE DEF s
    <3>1. DOMAIN << >> = {}
      OBVIOUS
    <3> QED
      BY <2>1, <3>1 DEF ToSet
  <2> HIDE DEF s
  <2> QED
    BY <1>1, <1>2, <1>3, <2>1, <2>2
<1>4. CASE L < N
  <2>0. s = SubSeq(c.old, L + 1, Len(c.old)) /\ N = Len(c.old)
    OBVIOUS
  <2> HIDE DEF s, L, N
  <2>1. /\ s \in Seq(ElementIds) /\ Len(s) = N - L
        /\ \A i \in 1..N - L : s[i] = c.old[L + i]
        /\ s # << >> /\ Head(s) = c.old[L + 1]
    <3>1. s \in Seq(ElementIds) /\ IsEnd(s, c.old, L)
      BY <2>0, <1>1, <1>4, LastCells
    <3> QED
      BY <2>0, <3>1 DEF IsEnd
  <2>2. s # << >> /\ Head(s) = c.old[L + 1]
    BY <2>1
  <2>3. DOMAIN s = 1..N - L
    BY <2>1
  <2>4. ASSUME NEW x, x \in ToSet(s)
        PROVE  \E j \in 1..N : j > L /\ c.old[j] = x
    <3>1. PICK i \in 1..N - L : s[i] = x
      BY <2>3, <2>4 DEF ToSet
    <3>2. L + i \in 1..N /\ L + i > L
      BY <1>1
    <3> QED
      BY <2>1, <3>1, <3>2
  <2>5. ASSUME NEW x, NEW j \in 1..N, j > L, c.old[j] = x
        PROVE  x \in ToSet(s)
    <3>1. j - L \in 1..N - L /\ L + (j - L) = j
      BY <1>1, <2>5
    <3>2. s[j - L] = x
      BY <2>1, <2>5, <3>1
    <3> QED
      BY <2>3, <3>1, <3>2 DEF ToSet
  <2> QED
    BY <1>1, <1>2, <1>4, <2>2, <2>4, <2>5 DEF L, N
<1> QED
  BY <1>1, <1>3, <1>4

LEMMA WithoutIdsFacts ==
  ASSUME NEW ids \in Seq(ElementIds), NEW erased, NEW kept, kept = WithoutIds(ids, erased)
  PROVE  /\ kept \in Seq(ElementIds)
         /\ Len(kept) <= Len(ids)
         /\ \A k \in 1..Len(kept) : \E n \in 1..Len(ids) : ids[n] \notin erased /\ kept[k] = ids[n]
         /\ \A n \in 1..Len(ids) : ids[n] \notin erased => \E k \in 1..Len(kept) : kept[k] = ids[n]
         /\ IsInjective(ids) => IsInjective(kept)
<1> DEFINE places == {n \in DOMAIN ids : ids[n] \notin erased}
<1>1. kept = Keep(ids, places)
  BY DEF WithoutIds
<1>2. \A n \in 1..Len(ids) : n \in places <=> ids[n] \notin erased
  OBVIOUS
<1> HIDE DEF places
<1>3. kept \in Seq(ElementIds) /\ KeptFrom(kept, ids, places)
  BY <1>1, KeepFacts
<1> QED
  BY <1>2, <1>3 DEF KeptFrom

\* The devices but the one that is replaced.
LEMMA OthersFacts ==
  ASSUME NEW list \in Seq(Devices), DeviceList(list), NEW c, OldStays(c, list),
         NEW others, others = IF c.old = << >> THEN list ELSE WithoutDevice(list, c.device)
  PROVE  /\ others \in Seq(Devices)
         /\ DeviceList(others)
         /\ \A n \in DOMAIN others : \E m \in DOMAIN list :
              list[m].id # c.device /\ others[n] = list[m]
         /\ \A m \in DOMAIN list : list[m].id # c.device =>
              \E n \in DOMAIN others : others[n] = list[m]
<1>1. CASE c.old = << >>
  <2>1. others = list
    BY <1>1
  <2>2. \A m \in DOMAIN list : list[m].id # c.device
    BY <1>1 DEF OldStays
  <2> QED
    BY <2>1, <2>2
<1>2. CASE c.old # << >>
  <2> DEFINE places == {n \in DOMAIN list : list[n].id # c.device}
  <2>1. others = Keep(list, places)
    BY <1>2 DEF WithoutDevice
  <2>2. \A n \in 1..Len(list) : n \in places <=> list[n].id # c.device
    OBVIOUS
  <2> HIDE DEF places
  <2>3. DOMAIN list = 1..Len(list)
    OBVIOUS
  <2>4. IsInjective(list)
    BY DEF DeviceList, IsInjective
  <2>5. /\ others \in Seq(Devices)
        /\ \A k \in 1..Len(others) : \E n \in 1..Len(list) : n \in places /\ others[k] = list[n]
        /\ \A n \in 1..Len(list) : n \in places => \E k \in 1..Len(others) : others[k] = list[n]
        /\ IsInjective(others)
    <3>1. others \in Seq(Devices) /\ KeptFrom(others, list, places)
      BY <2>1, KeepFacts
    <3> QED
      BY <2>4, <3>1 DEF KeptFrom
  <2>6. DOMAIN others = 1..Len(others)
    BY <2>5
  <2>7. /\ \A n \in DOMAIN others : \E m \in DOMAIN list :
              list[m].id # c.device /\ others[n] = list[m]
        /\ \A m \in DOMAIN list : list[m].id # c.device =>
              \E n \in DOMAIN others : others[n] = list[m]
    <3>1. ASSUME NEW n \in DOMAIN others
          PROVE  \E m \in DOMAIN list : list[m].id # c.device /\ others[n] = list[m]
      <4>1. PICK m \in 1..Len(list) : m \in places /\ others[n] = list[m]
        BY <2>5, <2>6
      <4> QED
        BY <4>1, <2>2, <2>3
    <3>2. ASSUME NEW m \in DOMAIN list, list[m].id # c.device
          PROVE  \E n \in DOMAIN others : others[n] = list[m]
      <4>1. m \in 1..Len(list) /\ m \in places
        BY <2>2, <2>3, <3>2
      <4> QED
        BY <4>1, <2>5, <2>6
    <3> QED
      BY <3>1, <3>2
  <2>8. \A n \in DOMAIN others : others[n].endpoints # << >>
    BY <2>7 DEF DeviceList
  <2>9. \A m, n \in DOMAIN others : others[m] = others[n] => m = n
    BY <2>5 DEF IsInjective
  <2>10. ASSUME NEW m \in DOMAIN others, NEW n \in DOMAIN others, others[m].id = others[n].id
         PROVE  m = n
    <3>1. PICK a \in DOMAIN list : others[m] = list[a]
      BY <2>7
    <3>2. PICK b \in DOMAIN list : others[n] = list[b]
      BY <2>7
    <3>3. a = b
      BY <3>1, <3>2, <2>10 DEF DeviceList
    <3> QED
      BY <3>1, <3>2, <3>3, <2>9
  <2>11. ASSUME NEW m \in DOMAIN others, NEW n \in DOMAIN others,
                NEW j \in DOMAIN others[m].endpoints, NEW k \in DOMAIN others[n].endpoints,
                others[m].endpoints[j].id = others[n].endpoints[k].id
         PROVE  m = n /\ j = k
    <3>1. PICK a \in DOMAIN list : others[m] = list[a]
      BY <2>7
    <3>2. PICK b \in DOMAIN list : others[n] = list[b]
      BY <2>7
    <3>3. a = b /\ j = k
      BY <3>1, <3>2, <2>11 DEF DeviceList, Apart
    <3> QED
      BY <3>1, <3>2, <3>3, <2>9
  <2> QED
    BY <2>5, <2>7, <2>8, <2>10, <2>11 DEF DeviceList, Apart
<1> QED
  BY <1>1, <1>2

\* a new first element
LEMMA PutFirst ==
  ASSUME NEW S, NEW list \in Seq(S), NEW x \in S, NEW all, all = <<x>> \o list
  PROVE  /\ all \in Seq(S)
         /\ DOMAIN all = 1..Len(list) + 1
         /\ all[1] = x
         /\ \A n \in 1..Len(list) : all[n + 1] = list[n]
<1>1. <<x>> \in Seq(S) /\ Len(<<x>>) = 1 /\ <<x>>[1] = x /\ Len(list) \in Nat
  OBVIOUS
<1>2. /\ all \in Seq(S)
      /\ Len(all) = 1 + Len(list)
      /\ \A i \in 1..1 + Len(list) : all[i] = IF i <= 1 THEN <<x>>[i] ELSE list[i - 1]
  <2>1. /\ <<x>> \o list \in Seq(S)
        /\ Len(<<x>> \o list) = Len(<<x>>) + Len(list)
        /\ \A i \in 1..Len(<<x>>) + Len(list) :
             (<<x>> \o list)[i] = IF i <= Len(<<x>>) THEN <<x>>[i] ELSE list[i - Len(<<x>>)]
    BY <1>1, ConcatProperties
  <2> QED
    BY <1>1, <2>1
<1>3. DOMAIN all = 1..Len(list) + 1
  BY <1>1, <1>2
<1>4. all[1] = x
  BY <1>1, <1>2
<1>5. ASSUME NEW n \in 1..Len(list)
      PROVE  all[n + 1] = list[n]
  <2>1. n + 1 \in 1..1 + Len(list) /\ ~(n + 1 <= 1) /\ n + 1 - 1 = n
    BY <1>1
  <2> QED
    BY <1>2, <2>1
<1> QED
  BY <1>2, <1>3, <1>4, <1>5

\* one of the devices has the element x
Holds(list, x) ==
  \E n \in DOMAIN list : \E j \in DOMAIN list[n].endpoints : list[n].endpoints[j].id = x

\* what the old device has to do with the elements
OldElements(c, list) ==
  /\ \A m \in DOMAIN list : \A i \in DOMAIN list[m].endpoints : \A j \in 1..Len(c.old) :
       list[m].endpoints[i].id = c.old[j] => list[m].id = c.device /\ i = j
  /\ \A m \in DOMAIN list : list[m].id = c.device => \A i \in DOMAIN list[m].endpoints :
       i \in 1..Len(c.old) /\ list[m].endpoints[i].id = c.old[i]
  /\ IsInjective(c.old)
  /\ \A j \in 1..Len(c.old) : Holds(list, c.old[j])

LEMMA OldElementsFacts ==
  ASSUME NEW list \in Seq(Devices), DeviceList(list), NEW c \in CommType, OldStays(c, list)
  PROVE  OldElements(c, list)
<1>1. c.old \in Seq(ElementIds) /\ DOMAIN c.old = 1..Len(c.old) /\ Len(c.old) \in Nat
  BY DEF CommType
<1>2. CASE c.old = << >>
  <2>1. Len(c.old) = 0 /\ \A m \in DOMAIN list : list[m].id # c.device
    BY <1>2 DEF OldStays
  <2>2. IsInjective(c.old)
    BY <1>1, <2>1 DEF IsInjective
  <2> QED
    BY <2>1, <2>2 DEF OldElements
<1>3. CASE c.old # << >>
  <2>1. PICK o \in DOMAIN list : list[o].id = c.device /\ EndpointIds(list[o]) = c.old
    BY <1>3 DEF OldStays
  <2>2. list[o].endpoints \in Seq(Endpoints)
    <3>1. list[o] \in Devices
      BY <2>1
    <3> QED
      BY <3>1 DEF Devices
  <2>3. /\ Len(c.old) = Len(list[o].endpoints)
        /\ \A k \in 1..Len(c.old) : c.old[k] = list[o].endpoints[k].id
        /\ DOMAIN list[o].endpoints = 1..Len(c.old)
    BY <2>1, <2>2, EndpointIdsFacts
  <2>4. \A m \in DOMAIN list : list[m].id = c.device => m = o
    BY <2>1 DEF DeviceList
  <2>5. ASSUME NEW m \in DOMAIN list, NEW i \in DOMAIN list[m].endpoints, NEW j \in 1..Len(c.old),
               list[m].endpoints[i].id = c.old[j]
        PROVE  list[m].id = c.device /\ i = j
    <3>1. j \in DOMAIN list[o].endpoints /\ list[m].endpoints[i].id = list[o].endpoints[j].id
      BY <2>3, <2>5
    <3> QED
      BY <2>1, <3>1 DEF DeviceList, Apart
  <2>6. ASSUME NEW m \in DOMAIN list, list[m].id = c.device, NEW i \in DOMAIN list[m].endpoints
        PROVE  i \in 1..Len(c.old) /\ list[m].endpoints[i].id = c.old[i]
    BY <2>3, <2>4, <2>6
  <2>7. IsInjective(c.old)
    <3> SUFFICES ASSUME NEW i \in 1..Len(c.old), NEW j \in 1..Len(c.old), c.old[i] = c.old[j]
                 PROVE  i = j
      BY <1>1 DEF IsInjective
    <3>1. i \in DOMAIN list[o].endpoints /\ list[o].endpoints[i].id = c.old[j]
      BY <2>3
    <3> QED
      BY <2>1, <2>5, <3>1
  <2>8. \A j \in 1..Len(c.old) : Holds(list, c.old[j])
    BY <2>1, <2>3 DEF Holds
  <2> QED
    BY <2>5, <2>6, <2>7, <2>8 DEF OldElements
<1> QED
  BY <1>2, <1>3

\* where the ids of the endpoints come from
LEMMA GivenFacts ==
  ASSUME NEW c \in CommType, NEW ids \in Seq(ElementIds), NEW count \in 0..Len(ids),
         Fits(EndpointIds(c), c.old, ids, count)
  PROVE  /\ Len(ids) = count + IF Len(c.endpoints) > Len(c.old) THEN Len(c.endpoints) - Len(c.old) ELSE 0
         /\ \A k \in 1..Len(c.endpoints) : k <= Len(c.old) => c.endpoints[k].id = c.old[k]
         /\ \A k \in 1..Len(c.endpoints) : k > Len(c.old) =>
              /\ count + k - Len(c.old) \in 1..Len(ids)
              /\ c.endpoints[k].id = ids[count + k - Len(c.old)]
         /\ \A i \in 1..Len(ids) : i > count =>
              /\ i - count + Len(c.old) \in 1..Len(c.endpoints)
              /\ i - count + Len(c.old) > Len(c.old)
              /\ c.endpoints[i - count + Len(c.old)].id = ids[i]
<1> DEFINE L == Len(c.endpoints)
           N == Len(c.old)
<1>1. c.endpoints \in Seq(Endpoints) /\ c.old \in Seq(ElementIds)
  BY DEF CommType
<1>2. L \in Nat /\ N \in Nat /\ count \in Nat /\ Len(ids) \in Nat
  BY <1>1
<1>3. Len(EndpointIds(c)) = L /\ \A k \in 1..L : EndpointIds(c)[k] = c.endpoints[k].id
  BY <1>1, EndpointIdsFacts
<1>4. Len(ids) = count + IF L > N THEN L - N ELSE 0
  BY <1>3 DEF Fits
<1>5. \A k \in 1..L : c.endpoints[k].id = IF k <= N THEN c.old[k] ELSE ids[count + k - N]
  BY <1>3 DEF Fits
<1> HIDE DEF L, N
<1>6. \A k \in 1..L : k > N => count + k - N \in 1..Len(ids) /\ ~(k <= N)
  BY <1>2, <1>4
<1>7. ASSUME NEW i \in 1..Len(ids), i > count
      PROVE  /\ i - count + N \in 1..L
             /\ i - count + N > N
             /\ c.endpoints[i - count + N].id = ids[i]
  <2>1. i - count + N \in 1..L /\ i - count + N > N /\ ~(i - count + N <= N)
    BY <1>2, <1>4, <1>7
  <2>2. count + (i - count + N) - N = i
    BY <1>2
  <2> QED
    BY <1>5, <2>1, <2>2
<1> QED
  BY <1>2, <1>4, <1>5, <1>6, <1>7 DEF L, N

NewDevice(c) == [id |-> c.device, node |-> c.node, endpoints |-> c.endpoints]

\* the devices after the end of a commissioning
Others(c, list) == IF c.old = << >> THEN list ELSE WithoutDevice(list, c.device)
Replaced(c, list) ==
  IF c.endpoints = << >> THEN Others(c, list) ELSE <<NewDevice(c)>> \o Others(c, list)

\* the device at each place of the new list
LEMMA ReplacedPlaces ==
  ASSUME NEW list \in Seq(Devices), DeviceList(list), NEW c \in CommType, OldStays(c, list),
         NEW all, all = Replaced(c, list)
  PROVE  /\ all \in Seq(Devices)
         /\ \A n \in DOMAIN all :
              \/ n = 1 /\ all[n] = NewDevice(c) /\ c.endpoints # << >>
              \/ \E m \in DOMAIN list : list[m].id # c.device /\ all[n] = list[m]
         /\ \A m \in DOMAIN list : list[m].id # c.device => \E n \in DOMAIN all : all[n] = list[m]
         /\ c.endpoints # << >> => 1 \in DOMAIN all /\ all[1] = NewDevice(c)
         /\ \A m, n \in DOMAIN all : all[m].id = all[n].id => m = n
<1> DEFINE others == Others(c, list)
<1>1. /\ others \in Seq(Devices)
      /\ DeviceList(others)
      /\ \A n \in DOMAIN others : \E m \in DOMAIN list :
           list[m].id # c.device /\ others[n] = list[m]
      /\ \A m \in DOMAIN list : list[m].id # c.device =>
           \E n \in DOMAIN others : others[n] = list[m]
  <2>1. others = IF c.old = << >> THEN list ELSE WithoutDevice(list, c.device)
    BY DEF Others
  <2> HIDE DEF others
  <2> QED
    BY <2>1, OthersFacts
<1>0. all = IF c.endpoints = << >> THEN others ELSE <<NewDevice(c)>> \o others
  BY DEF Replaced
<1> HIDE DEF others
<1>2. CASE c.endpoints = << >>
  <2>1. all = others
    BY <1>0, <1>2
  <2>2. \A m, n \in DOMAIN all : all[m].id = all[n].id => m = n
    BY <1>1, <2>1 DEF DeviceList
  <2> QED
    BY <1>1, <1>2, <2>1, <2>2
<1>3. CASE c.endpoints # << >>
  <2>1. NewDevice(c) \in Devices
    BY DEF NewDevice, Devices, CommType
  <2>2. /\ all \in Seq(Devices)
        /\ DOMAIN all = 1..Len(others) + 1
        /\ all[1] = NewDevice(c)
        /\ \A n \in 1..Len(others) : all[n + 1] = others[n]
    BY <1>0, <1>1, <1>3, <2>1, PutFirst
  <2>3. DOMAIN others = 1..Len(others) /\ Len(others) \in Nat
    BY <1>1
  <2>4. ASSUME NEW n \in DOMAIN all, n # 1
        PROVE  n - 1 \in DOMAIN others /\ all[n] = others[n - 1]
    <3>1. n - 1 \in 1..Len(others) /\ n - 1 + 1 = n
      BY <2>2, <2>3, <2>4
    <3> QED
      BY <2>2, <2>3, <3>1
  <2>5. ASSUME NEW n \in DOMAIN all
        PROVE  \/ n = 1 /\ all[n] = NewDevice(c)
               \/ \E m \in DOMAIN list : list[m].id # c.device /\ all[n] = list[m]
    BY <1>1, <2>2, <2>4
  <2>6. ASSUME NEW m \in DOMAIN list, list[m].id # c.device
        PROVE  \E n \in DOMAIN all : all[n] = list[m]
    <3>1. PICK n \in DOMAIN others : others[n] = list[m]
      BY <1>1, <2>6
    <3>2. n + 1 \in DOMAIN all /\ all[n + 1] = list[m]
      BY <2>2, <2>3, <3>1
    <3> QED
      BY <3>2
  <2>7. 1 \in DOMAIN all
    BY <2>2, <2>3
  <2>8. \A n \in DOMAIN others : others[n].id # c.device
    BY <1>1
  <2>9. NewDevice(c).id = c.device
    BY DEF NewDevice
  <2>10. ASSUME NEW m \in DOMAIN all, NEW n \in DOMAIN all, all[m].id = all[n].id
         PROVE  m = n
    <3>1. CASE m = 1 /\ n = 1
      BY <3>1
    <3>2. CASE m = 1 /\ n # 1
      BY <3>2, <2>2, <2>4, <2>8, <2>9, <2>10
    <3>3. CASE m # 1 /\ n = 1
      BY <3>3, <2>2, <2>4, <2>8, <2>9, <2>10
    <3>4. CASE m # 1 /\ n # 1
      <4>1. /\ m - 1 \in DOMAIN others /\ all[m] = others[m - 1]
            /\ n - 1 \in DOMAIN others /\ all[n] = others[n - 1]
        BY <3>4, <2>4
      <4>2. m - 1 = n - 1
        BY <4>1, <1>1, <2>10 DEF DeviceList
      <4>3. m \in Int /\ n \in Int
        BY <2>2
      <4> QED
        BY <4>2, <4>3
    <3> QED
      BY <3>1, <3>2, <3>3, <3>4
  <2> QED
    BY <1>3, <2>2, <2>5, <2>6, <2>7, <2>10
<1> QED
  BY <1>2, <1>3

LEMMA ReplacedApart ==
  ASSUME NEW list \in Seq(Devices), DeviceList(list), NEW c \in CommType, OldStays(c, list),
         NEW ids \in Seq(ElementIds), IsInjective(ids), NEW count \in 0..Len(ids),
         Listed(list, ids, count), Fits(EndpointIds(c), c.old, ids, count),
         NEW all, all = Replaced(c, list)
  PROVE  DeviceList(all)
<1>1. /\ all \in Seq(Devices)
      /\ \A n \in DOMAIN all :
           \/ n = 1 /\ all[n] = NewDevice(c) /\ c.endpoints # << >>
           \/ \E m \in DOMAIN list : list[m].id # c.device /\ all[n] = list[m]
      /\ \A m, n \in DOMAIN all : all[m].id = all[n].id => m = n
  BY ReplacedPlaces
<1>2. OldElements(c, list)
  BY OldElementsFacts
<1> DEFINE L == Len(c.endpoints)
           N == Len(c.old)
<1>3. c.endpoints \in Seq(Endpoints) /\ L \in Nat /\ N \in Nat /\ DOMAIN c.endpoints = 1..L
      /\ DOMAIN c.old = 1..N /\ count \in Nat /\ DOMAIN ids = 1..Len(ids)
  BY DEF CommType
<1>4. /\ \A k \in 1..L : k <= N => c.endpoints[k].id = c.old[k]
      /\ \A k \in 1..L : k > N =>
           /\ count + k - N \in 1..Len(ids)
           /\ c.endpoints[k].id = ids[count + k - N]
  BY GivenFacts
<1> HIDE DEF L, N
<1>5. NewDevice(c).endpoints = c.endpoints /\ NewDevice(c).id = c.device
  BY DEF NewDevice
<1>6. ASSUME NEW m \in DOMAIN list, NEW i \in DOMAIN list[m].endpoints,
             NEW k \in 1..L, k > N, list[m].endpoints[i].id = c.endpoints[k].id
      PROVE  FALSE
  <2>1. PICK q \in 1..count : list[m].endpoints[i].id = ids[q]
    BY DEF Listed
  <2>2. q \in 1..Len(ids) /\ count + k - N \in 1..Len(ids) /\ q # count + k - N
    BY <1>3, <1>4, <1>6
  <2>3. ids[q] = ids[count + k - N]
    BY <1>4, <1>6, <2>1
  <2> QED
    BY <2>2, <2>3, <1>3 DEF IsInjective
\* an element of another device is not one of the new device
<1>7. ASSUME NEW m \in DOMAIN list, list[m].id # c.device, NEW i \in DOMAIN list[m].endpoints,
             NEW k \in 1..L, list[m].endpoints[i].id = c.endpoints[k].id
      PROVE  FALSE
  <2>1. CASE k <= N
    <3>1. k \in 1..N /\ list[m].endpoints[i].id = c.old[k]
      BY <1>3, <1>4, <1>7, <2>1
    <3> QED
      BY <1>2, <1>7, <3>1 DEF OldElements, N
  <2>2. CASE k > N
    BY <1>6, <1>7, <2>2
  <2> QED
    BY <2>1, <2>2, <1>3
<1>8. ASSUME NEW j \in 1..L, NEW k \in 1..L, c.endpoints[j].id = c.endpoints[k].id
      PROVE  j = k
  <2>0. \A a \in 1..L, b \in 1..L : a <= N /\ b > N => c.endpoints[a].id # c.endpoints[b].id
    <3> SUFFICES ASSUME NEW a \in 1..L, NEW b \in 1..L, a <= N, b > N,
                        c.endpoints[a].id = c.endpoints[b].id
                 PROVE  FALSE
      OBVIOUS
    <3>1. a \in 1..N
      BY <1>3
    <3>2. Holds(list, c.old[a])
      BY <3>1, <1>2 DEF OldElements, N
    <3>3. PICK m \in DOMAIN list : \E i \in DOMAIN list[m].endpoints : list[m].endpoints[i].id = c.old[a]
      BY <3>2 DEF Holds
    <3>4. PICK i \in DOMAIN list[m].endpoints : list[m].endpoints[i].id = c.old[a]
      BY <3>3
    <3>5. list[m].endpoints[i].id = c.endpoints[b].id
      BY <3>4, <1>4
    <3> QED
      BY <3>5, <1>6
  <2>1. CASE j <= N /\ k <= N
    <3>1. j \in 1..N /\ k \in 1..N /\ c.old[j] = c.old[k]
      BY <1>3, <1>4, <1>8, <2>1
    <3> QED
      BY <3>1, <1>2, <1>3 DEF OldElements, IsInjective
  <2>2. CASE j > N /\ k > N
    <3>1. count + j - N \in DOMAIN ids /\ count + k - N \in DOMAIN ids
          /\ ids[count + j - N] = ids[count + k - N]
      BY <1>3, <1>4, <1>8, <2>2
    <3>2. count + j - N = count + k - N
      BY <3>1 DEF IsInjective
    <3> QED
      BY <3>2, <1>3
  <2>3. j <= N \/ j > N
    BY <1>3
  <2>4. k <= N \/ k > N
    BY <1>3
  <2> QED
    BY <1>8, <2>0, <2>1, <2>2, <2>3, <2>4
<1>9. ASSUME NEW n \in DOMAIN all
      PROVE  all[n].endpoints # << >>
  <2>1. CASE all[n] = NewDevice(c) /\ c.endpoints # << >>
    BY <2>1, <1>5
  <2>2. CASE \E m \in DOMAIN list : list[m].id # c.device /\ all[n] = list[m]
    BY <2>2 DEF DeviceList
  <2> QED
    BY <1>1, <2>1, <2>2
<1>10. ASSUME NEW m \in DOMAIN all, NEW n \in DOMAIN all,
              NEW j \in DOMAIN all[m].endpoints, NEW k \in DOMAIN all[n].endpoints,
              all[m].endpoints[j].id = all[n].endpoints[k].id
       PROVE  m = n /\ j = k
  <2>1. CASE all[m] = NewDevice(c) /\ all[n] = NewDevice(c)
    <3>1. m = n
      BY <1>1, <2>1
    <3> QED
      BY <3>1, <2>1, <1>3, <1>5, <1>8, <1>10
  <2>2. CASE all[m] = NewDevice(c) /\ \E b \in DOMAIN list : list[b].id # c.device /\ all[n] = list[b]
    BY <2>2, <1>3, <1>5, <1>7, <1>10
  <2>3. CASE (\E a \in DOMAIN list : list[a].id # c.device /\ all[m] = list[a]) /\ all[n] = NewDevice(c)
    BY <2>3, <1>3, <1>5, <1>7, <1>10
  <2>4. CASE /\ \E a \in DOMAIN list : list[a].id # c.device /\ all[m] = list[a]
             /\ \E b \in DOMAIN list : list[b].id # c.device /\ all[n] = list[b]
    <3>1. PICK a \in DOMAIN list : all[m] = list[a]
      BY <2>4
    <3>2. PICK b \in DOMAIN list : all[n] = list[b]
      BY <2>4
    <3>3. a = b /\ j = k
      BY <3>1, <3>2, <1>10 DEF DeviceList, Apart
    <3> QED
      BY <3>1, <3>2, <3>3, <1>1
  <2> QED
    BY <1>1, <2>1, <2>2, <2>3, <2>4
<1> QED
  BY <1>1, <1>9, <1>10 DEF DeviceList, Apart

LEMMA ReplacedListed ==
  ASSUME NEW list \in Seq(Devices), DeviceList(list), NEW c \in CommType, OldStays(c, list),
         NEW ids \in Seq(ElementIds), IsInjective(ids), NEW count \in 0..Len(ids),
         Listed(list, ids, count), Fits(EndpointIds(c), c.old, ids, count),
         NEW all, all = Replaced(c, list),
         NEW kept, kept = WithoutIds(ids, ToSet(OldIds(c)))
  PROVE  /\ kept \in Seq(ElementIds)
         /\ IsInjective(kept)
         /\ Len(kept) <= Len(ids)
         /\ Listed(all, kept, Len(kept))
<1>1. /\ all \in Seq(Devices)
      /\ \A n \in DOMAIN all :
           \/ n = 1 /\ all[n] = NewDevice(c) /\ c.endpoints # << >>
           \/ \E m \in DOMAIN list : list[m].id # c.device /\ all[n] = list[m]
      /\ \A m \in DOMAIN list : list[m].id # c.device => \E n \in DOMAIN all : all[n] = list[m]
      /\ c.endpoints # << >> => 1 \in DOMAIN all /\ all[1] = NewDevice(c)
  BY ReplacedPlaces
<1>2. OldElements(c, list)
  BY OldElementsFacts
<1> DEFINE L == Len(c.endpoints)
           N == Len(c.old)
           gone == ToSet(OldIds(c))
<1>3. c.endpoints \in Seq(Endpoints) /\ L \in Nat /\ N \in Nat /\ DOMAIN c.endpoints = 1..L
      /\ DOMAIN c.old = 1..N /\ count \in Nat /\ DOMAIN ids = 1..Len(ids) /\ c.old \in Seq(ElementIds)
  BY DEF CommType
<1>4. /\ \A k \in 1..L : k <= N => c.endpoints[k].id = c.old[k]
      /\ \A k \in 1..L : k > N =>
           /\ count + k - N \in 1..Len(ids)
           /\ c.endpoints[k].id = ids[count + k - N]
      /\ \A i \in 1..Len(ids) : i > count =>
           /\ i - count + N \in 1..L
           /\ i - count + N > N
           /\ c.endpoints[i - count + N].id = ids[i]
  BY GivenFacts
<1>5. NewDevice(c).endpoints = c.endpoints /\ NewDevice(c).id = c.device
  BY DEF NewDevice
<1>6. /\ kept \in Seq(ElementIds)
      /\ Len(kept) <= Len(ids)
      /\ \A k \in 1..Len(kept) : \E n \in 1..Len(ids) : ids[n] \notin gone /\ kept[k] = ids[n]
      /\ \A n \in 1..Len(ids) : ids[n] \notin gone => \E k \in 1..Len(kept) : kept[k] = ids[n]
      /\ IsInjective(kept)
  BY WithoutIdsFacts
<1>7. \A x : x \in gone <=> \E j \in 1..N : j > L /\ c.old[j] = x
  BY <1>3, OldIdsFacts
<1>8. c.endpoints # << >> <=> L # 0
  BY <1>3
<1> HIDE DEF L, N, gone
<1>9. ASSUME NEW k \in 1..L
      PROVE  Holds(all, c.endpoints[k].id)
  <2>1. 1 \in DOMAIN all /\ all[1].endpoints = c.endpoints /\ k \in DOMAIN all[1].endpoints
    BY <1>1, <1>3, <1>5, <1>8
  <2> QED
    BY <2>1 DEF Holds
<1>10. ASSUME NEW i \in 1..Len(ids), ids[i] \notin gone
       PROVE  Holds(all, ids[i])
  <2>1. CASE i > count
    BY <2>1, <1>4, <1>9
  <2>2. CASE i <= count
    <3>1. i \in 1..count
      BY <2>2, <1>3
    <3>2. PICK m \in DOMAIN list : \E j \in DOMAIN list[m].endpoints : list[m].endpoints[j].id = ids[i]
      BY <3>1 DEF Listed
    <3>3. PICK j \in DOMAIN list[m].endpoints : list[m].endpoints[j].id = ids[i]
      BY <3>2
    <3>4. CASE list[m].id # c.device
      <4>1. PICK n \in DOMAIN all : all[n] = list[m]
        BY <3>4, <1>1
      <4>2. j \in DOMAIN all[n].endpoints /\ all[n].endpoints[j].id = ids[i]
        BY <3>3, <4>1
      <4> QED
        BY <4>2 DEF Holds
    <3>5. CASE list[m].id = c.device
      <4>1. j \in 1..N /\ c.old[j] = ids[i]
        BY <3>3, <3>5, <1>2 DEF OldElements, N
      <4>2. j <= L
        BY <4>1, <1>3, <1>7, <1>10
      <4>3. j \in 1..L /\ j <= N
        BY <4>1, <4>2, <1>3
      <4>4. c.endpoints[j].id = ids[i]
        BY <4>1, <4>3, <1>4
      <4> QED
        BY <4>3, <4>4, <1>9
    <3> QED
      BY <3>4, <3>5
  <2> QED
    BY <2>1, <2>2, <1>3
<1>11. ASSUME NEW k \in 1..L
       PROVE  \E i \in 1..Len(ids) : ids[i] \notin gone /\ c.endpoints[k].id = ids[i]
  <2>1. CASE k > N
    <3>1. gone = {}
      <4>1. \A j \in 1..N : ~(j > L)
        BY <1>3, <2>1
      <4> QED
        BY <4>1, <1>7
    <3> QED
      BY <2>1, <3>1, <1>4
  <2>2. CASE k <= N
    <3>1. k \in 1..N /\ c.endpoints[k].id = c.old[k]
      BY <2>2, <1>3, <1>4
    <3>2. Holds(list, c.old[k])
      BY <3>1, <1>2 DEF OldElements, N
    <3>3. PICK m \in DOMAIN list : \E j \in DOMAIN list[m].endpoints : list[m].endpoints[j].id = c.old[k]
      BY <3>2 DEF Holds
    <3>4. PICK i \in 1..count : ids[i] = c.old[k]
      BY <3>3 DEF Listed
    <3>5. i \in 1..Len(ids)
      BY <1>3
    <3>6. c.old[k] \notin gone
      <4>1. ASSUME NEW j \in 1..N, j > L, c.old[j] = c.old[k]
            PROVE  FALSE
        <5>1. j = k
          BY <3>1, <4>1, <1>2, <1>3 DEF OldElements, IsInjective
        <5> QED
          BY <4>1, <5>1, <1>3
      <4> QED
        BY <4>1, <1>7
    <3> QED
      BY <3>1, <3>4, <3>5, <3>6
  <2> QED
    BY <2>1, <2>2, <1>3
<1>12. ASSUME NEW m \in DOMAIN list, list[m].id # c.device, NEW j \in DOMAIN list[m].endpoints
       PROVE  \E i \in 1..Len(ids) : ids[i] \notin gone /\ list[m].endpoints[j].id = ids[i]
  <2>1. PICK i \in 1..count : list[m].endpoints[j].id = ids[i]
    BY DEF Listed
  <2>2. i \in 1..Len(ids)
    BY <1>3
  <2>3. ids[i] \notin gone
    BY <2>1, <1>2, <1>7, <1>12 DEF OldElements, N
  <2> QED
    BY <2>1, <2>2, <2>3
<1>13. ASSUME NEW k \in 1..Len(kept)
       PROVE  Holds(all, kept[k])
  BY <1>6, <1>10
<1>14. ASSUME NEW n \in DOMAIN all, NEW j \in DOMAIN all[n].endpoints
       PROVE  \E k \in 1..Len(kept) : all[n].endpoints[j].id = kept[k]
  <2>1. \E i \in 1..Len(ids) : ids[i] \notin gone /\ all[n].endpoints[j].id = ids[i]
    <3>1. CASE all[n] = NewDevice(c)
      BY <3>1, <1>3, <1>5, <1>11
    <3>2. CASE \E m \in DOMAIN list : list[m].id # c.device /\ all[n] = list[m]
      BY <3>2, <1>12
    <3> QED
      BY <3>1, <3>2, <1>1
  <2> QED
    BY <2>1, <1>6
<1>15. Listed(all, kept, Len(kept))
  BY <1>13, <1>14 DEF Listed, Holds
<1> QED
  BY <1>6, <1>15

-----------------------------------------------------------------------------
(* Loading *)

LoadState == [ids : Seq(ElementIds), devices : Seq(Devices)]

Consistent(l) ==
  /\ IsInjective(l.ids)
  /\ DeviceList(l.devices)
  /\ Listed(l.devices, l.ids, Len(l.ids))

AddEndpoint(list, device, endpoint) ==
  [n \in DOMAIN list |->
     IF list[n].id # device THEN list[n]
     ELSE [list[n] EXCEPT !.endpoints = Append(@, endpoint)]]

Extended(all, list, device, endpoint) ==
  /\ DOMAIN all = DOMAIN list
  /\ \A n \in DOMAIN list :
       /\ all[n].id = list[n].id
       /\ all[n].endpoints # << >> \/ list[n].endpoints = << >>
       /\ \A j \in DOMAIN list[n].endpoints :
            j \in DOMAIN all[n].endpoints /\ all[n].endpoints[j] = list[n].endpoints[j]
       /\ \A j \in DOMAIN all[n].endpoints :
            \/ j \in DOMAIN list[n].endpoints /\ all[n].endpoints[j] = list[n].endpoints[j]
            \/ /\ list[n].id = device /\ all[n].endpoints[j] = endpoint
               /\ j = Len(list[n].endpoints) + 1
  /\ \A n \in DOMAIN list : list[n].id = device =>
       \E j \in DOMAIN all[n].endpoints : all[n].endpoints[j] = endpoint

LEMMA AddEndpointFacts ==
  ASSUME NEW list \in Seq(Devices), NEW device \in DeviceIds, NEW endpoint \in Endpoints,
         NEW all, all = AddEndpoint(list, device, endpoint)
  PROVE  all \in Seq(Devices) /\ Extended(all, list, device, endpoint)
<1>1. DOMAIN list = 1..Len(list) /\ Len(list) \in Nat /\ \A n \in DOMAIN list : list[n] \in Devices
  OBVIOUS
<1>2. DOMAIN all = DOMAIN list
  BY DEF AddEndpoint
<1>3. ASSUME NEW n \in DOMAIN list
      PROVE  /\ all[n] \in Devices
             /\ all[n].id = list[n].id
             /\ all[n].endpoints # << >> \/ list[n].endpoints = << >>
             /\ \A j \in DOMAIN list[n].endpoints :
                  j \in DOMAIN all[n].endpoints /\ all[n].endpoints[j] = list[n].endpoints[j]
             /\ \A j \in DOMAIN all[n].endpoints :
                  \/ j \in DOMAIN list[n].endpoints /\ all[n].endpoints[j] = list[n].endpoints[j]
                  \/ /\ list[n].id = device /\ all[n].endpoints[j] = endpoint
                     /\ j = Len(list[n].endpoints) + 1
             /\ list[n].id = device =>
                  \E j \in DOMAIN all[n].endpoints : all[n].endpoints[j] = endpoint
  <2> DEFINE d == list[n]
             es == d.endpoints
  <2>1. d \in Devices /\ es \in Seq(Endpoints)
    BY <1>1 DEF Devices
  <2>2. CASE d.id # device
    BY <2>1, <2>2, <1>1 DEF AddEndpoint
  <2>3. CASE d.id = device
    <3> DEFINE more == Append(es, endpoint)
    <3>1. all[n] = [d EXCEPT !.endpoints = more]
      BY <2>3, <1>1 DEF AddEndpoint
    <3>2. /\ more \in Seq(Endpoints) /\ Len(more) = Len(es) + 1
          /\ \A i \in 1..Len(es) : more[i] = es[i]
          /\ more[Len(es) + 1] = endpoint
      BY <2>1, AppendProperties
    <3>3. DOMAIN more = 1..Len(es) + 1 /\ DOMAIN es = 1..Len(es) /\ Len(es) \in Nat
      BY <2>1, <3>2
    <3> HIDE DEF more
    <3>4. all[n] \in Devices /\ all[n].id = d.id /\ all[n].endpoints = more
      BY <2>1, <3>1, <3>2 DEF Devices
    <3>5. more # << >>
      BY <3>2, <3>3
    <3>6. \A j \in DOMAIN es : j \in DOMAIN more /\ more[j] = es[j]
      BY <3>2, <3>3
    <3>7. \A j \in DOMAIN more : (j \in DOMAIN es /\ more[j] = es[j])
                                 \/ (more[j] = endpoint /\ j = Len(es) + 1)
      BY <3>2, <3>3
    <3>8. Len(es) + 1 \in DOMAIN more /\ more[Len(es) + 1] = endpoint
      BY <3>2, <3>3
    <3> QED
      BY <2>3, <3>4, <3>5, <3>6, <3>7, <3>8
  <2> QED
    BY <2>2, <2>3
<1>4. all \in Seq(Devices)
  <2>1. all = [n \in 1..Len(list) |-> all[n]]
    BY <1>1 DEF AddEndpoint
  <2>2. \A n \in 1..Len(list) : all[n] \in Devices
    BY <1>1, <1>3
  <2> QED
    BY <1>1, <2>1, <2>2
<1> QED
  BY <1>2, <1>3, <1>4 DEF Extended

LEMMA AddEndpointConsistent ==
  ASSUME NEW l \in LoadState, Consistent(l), NEW device \in DeviceIds, NEW endpoint \in Endpoints,
         endpoint.id \notin ToSet(l.ids), \E n \in DOMAIN l.devices : l.devices[n].id = device,
         NEW m, m = [ids |-> Append(l.ids, endpoint.id),
                     devices |-> AddEndpoint(l.devices, device, endpoint)]
  PROVE  m \in LoadState /\ Consistent(m)
<1> DEFINE list == l.devices
           ids == l.ids
           all == AddEndpoint(list, device, endpoint)
           x == endpoint.id
           more == Append(ids, x)
<1>1. list \in Seq(Devices) /\ ids \in Seq(ElementIds) /\ x \in ElementIds
  BY DEF LoadState, Endpoints
<1>2. /\ all \in Seq(Devices)
      /\ DOMAIN all = DOMAIN list
      /\ \A n \in DOMAIN list :
           /\ all[n].id = list[n].id
           /\ all[n].endpoints # << >> \/ list[n].endpoints = << >>
           /\ \A j \in DOMAIN list[n].endpoints :
                j \in DOMAIN all[n].endpoints /\ all[n].endpoints[j] = list[n].endpoints[j]
           /\ \A j \in DOMAIN all[n].endpoints :
                \/ j \in DOMAIN list[n].endpoints /\ all[n].endpoints[j] = list[n].endpoints[j]
                \/ /\ list[n].id = device /\ all[n].endpoints[j] = endpoint
                   /\ j = Len(list[n].endpoints) + 1
      /\ \A n \in DOMAIN list : list[n].id = device =>
           \E j \in DOMAIN all[n].endpoints : all[n].endpoints[j] = endpoint
  <2>1. all \in Seq(Devices) /\ Extended(all, list, device, endpoint)
    <3> HIDE DEF list
    <3> QED
      BY <1>1, AddEndpointFacts
  <2> HIDE DEF all, list
  <2> QED
    BY <2>1 DEF Extended
<1>3. /\ more \in Seq(ElementIds) /\ Len(more) = Len(ids) + 1
      /\ \A i \in 1..Len(ids) : more[i] = ids[i]
      /\ more[Len(ids) + 1] = x
      /\ DOMAIN more = 1..Len(ids) + 1 /\ Len(ids) \in Nat /\ DOMAIN ids = 1..Len(ids)
  <2>1. /\ more \in Seq(ElementIds) /\ Len(more) = Len(ids) + 1
        /\ \A i \in 1..Len(ids) : more[i] = ids[i]
        /\ more[Len(ids) + 1] = x
    <3> HIDE DEF ids, x
    <3> QED
      BY <1>1, AppendProperties
  <2> QED
    BY <1>1, <2>1
<1>4. \A i \in 1..Len(ids) : ids[i] # x
  BY <1>3 DEF ToSet
<1>5. m.ids = more /\ m.devices = all /\ m \in LoadState
  BY <1>2, <1>3 DEF LoadState
<1>c. IsInjective(ids) /\ DeviceList(list) /\ Listed(list, ids, Len(ids))
  BY DEF Consistent
<1>d. PICK o \in DOMAIN list : list[o].id = device
  OBVIOUS
<1> HIDE DEF all, more, list, ids, x
<1>6. IsInjective(more)
  <2> SUFFICES ASSUME NEW i \in 1..Len(ids) + 1, NEW j \in 1..Len(ids) + 1, more[i] = more[j]
               PROVE  i = j
    BY <1>3 DEF IsInjective
  <2>1. \A k \in 1..Len(ids) + 1 : k \in 1..Len(ids) \/ k = Len(ids) + 1
    BY <1>3
  <2>2. CASE i \in 1..Len(ids) /\ j \in 1..Len(ids)
    BY <2>2, <1>3, <1>c DEF IsInjective
  <2>3. CASE i = Len(ids) + 1 /\ j \in 1..Len(ids)
    BY <2>3, <1>3, <1>4
  <2>4. CASE i \in 1..Len(ids) /\ j = Len(ids) + 1
    BY <2>4, <1>3, <1>4
  <2> QED
    BY <2>1, <2>2, <2>3, <2>4
\* the other elements are not the new one
<1>7. ASSUME NEW n \in DOMAIN list, NEW j \in DOMAIN list[n].endpoints
      PROVE  list[n].endpoints[j].id # x
  <2>1. PICK k \in 1..Len(ids) : list[n].endpoints[j].id = ids[k]
    BY <1>c DEF Listed
  <2> QED
    BY <2>1, <1>4
<1>8. ASSUME NEW a \in DOMAIN all, NEW b \in DOMAIN all,
             NEW j \in DOMAIN all[a].endpoints, NEW k \in DOMAIN all[b].endpoints,
             all[a].endpoints[j].id = all[b].endpoints[k].id
      PROVE  a = b /\ j = k
  <2>0. a \in DOMAIN list /\ b \in DOMAIN list
    BY <1>2
  <2> DEFINE Old(n, i) == i \in DOMAIN list[n].endpoints /\ all[n].endpoints[i] = list[n].endpoints[i]
             New(n, i) == /\ list[n].id = device /\ all[n].endpoints[i] = endpoint
                          /\ i = Len(list[n].endpoints) + 1
  <2>1. Old(a, j) \/ New(a, j)
    BY <2>0, <1>2
  <2>2. Old(b, k) \/ New(b, k)
    BY <2>0, <1>2
  <2>3. CASE Old(a, j) /\ Old(b, k)
    BY <2>0, <2>3, <1>8, <1>c DEF DeviceList, Apart
  <2>4. CASE Old(a, j) /\ New(b, k)
    BY <2>0, <2>4, <1>7, <1>8 DEF x
  <2>5. CASE New(a, j) /\ Old(b, k)
    BY <2>0, <2>5, <1>7, <1>8 DEF x
  <2>6. CASE New(a, j) /\ New(b, k)
    <3>1. a = b
      BY <2>0, <2>6, <1>c DEF DeviceList
    <3> QED
      BY <2>6, <3>1
  <2> QED
    BY <2>1, <2>2, <2>3, <2>4, <2>5, <2>6
<1>9. DeviceList(all)
  <2>1. \A n \in DOMAIN all : all[n].endpoints # << >>
    BY <1>2, <1>c DEF DeviceList
  <2>2. \A a, b \in DOMAIN all : all[a].id = all[b].id => a = b
    BY <1>2, <1>c DEF DeviceList
  <2> QED
    BY <1>8, <2>1, <2>2 DEF DeviceList, Apart
<1>10. ASSUME NEW k \in 1..Len(more)
       PROVE  \E n \in DOMAIN all : \E j \in DOMAIN all[n].endpoints : all[n].endpoints[j].id = more[k]
  <2>1. CASE k = Len(ids) + 1
    <3>1. PICK j \in DOMAIN all[o].endpoints : all[o].endpoints[j] = endpoint
      BY <1>2, <1>d
    <3>2. o \in DOMAIN all /\ all[o].endpoints[j].id = more[k]
      BY <2>1, <3>1, <1>2, <1>3 DEF x
    <3> QED
      BY <3>2
  <2>2. CASE k # Len(ids) + 1
    <3>1. k \in 1..Len(ids) /\ more[k] = ids[k]
      BY <2>2, <1>3
    <3>2. PICK n \in DOMAIN list : \E j \in DOMAIN list[n].endpoints : list[n].endpoints[j].id = ids[k]
      BY <3>1, <1>c DEF Listed
    <3>3. PICK j \in DOMAIN list[n].endpoints : list[n].endpoints[j].id = ids[k]
      BY <3>2
    <3>4. n \in DOMAIN all /\ j \in DOMAIN all[n].endpoints /\ all[n].endpoints[j].id = more[k]
      BY <3>1, <3>3, <1>2
    <3> QED
      BY <3>4
  <2> QED
    BY <2>1, <2>2
<1>11. ASSUME NEW n \in DOMAIN all, NEW j \in DOMAIN all[n].endpoints
       PROVE  \E k \in 1..Len(more) : all[n].endpoints[j].id = more[k]
  <2>1. CASE j \in DOMAIN list[n].endpoints /\ all[n].endpoints[j] = list[n].endpoints[j]
    <3>0. n \in DOMAIN list
      BY <1>2
    <3>1. PICK k \in 1..Len(ids) : list[n].endpoints[j].id = ids[k]
      BY <2>1, <3>0, <1>c DEF Listed
    <3>2. k \in 1..Len(more) /\ more[k] = ids[k]
      BY <1>3
    <3> QED
      BY <2>1, <3>1, <3>2
  <2>2. CASE all[n].endpoints[j] = endpoint
    <3>1. Len(ids) + 1 \in 1..Len(more)
      BY <1>3
    <3> QED
      BY <2>2, <3>1, <1>3 DEF x
  <2> QED
    BY <2>1, <2>2, <1>2
<1>12. Listed(all, more, Len(more))
  BY <1>10, <1>11 DEF Listed
<1> QED
  BY <1>5, <1>6, <1>9, <1>12 DEF Consistent

Appended(more, ids, x) ==
  /\ Len(more) = Len(ids) + 1
  /\ \A i \in 1..Len(ids) : more[i] = ids[i]
  /\ more[Len(ids) + 1] = x
  /\ IsInjective(ids) => IsInjective(more)
  /\ ToSet(more) = ToSet(ids) \cup {x}

LEMMA AppendFresh ==
  ASSUME NEW ids \in Seq(ElementIds), NEW x \in ElementIds, x \notin ToSet(ids),
         NEW more, more = Append(ids, x)
  PROVE  more \in Seq(ElementIds) /\ Appended(more, ids, x)
<1>1. /\ more \in Seq(ElementIds) /\ Len(more) = Len(ids) + 1
      /\ \A i \in 1..Len(ids) : more[i] = ids[i]
      /\ more[Len(ids) + 1] = x
  BY AppendProperties
<1>2. DOMAIN more = 1..Len(ids) + 1 /\ Len(ids) \in Nat /\ DOMAIN ids = 1..Len(ids)
  BY <1>1
<1>3. \A i \in 1..Len(ids) : ids[i] # x
  BY <1>2 DEF ToSet
<1>4. \A k \in 1..Len(ids) + 1 : k \in 1..Len(ids) \/ k = Len(ids) + 1
  BY <1>2
<1>5. ASSUME IsInjective(ids), NEW i \in DOMAIN more, NEW j \in DOMAIN more, more[i] = more[j]
      PROVE  i = j
  <2>1. CASE i \in 1..Len(ids) /\ j \in 1..Len(ids)
    BY <2>1, <1>1, <1>2, <1>5 DEF IsInjective
  <2>2. CASE i = Len(ids) + 1 /\ j \in 1..Len(ids)
    BY <2>2, <1>1, <1>3, <1>5
  <2>3. CASE i \in 1..Len(ids) /\ j = Len(ids) + 1
    BY <2>3, <1>1, <1>3, <1>5
  <2> QED
    BY <1>2, <1>4, <2>1, <2>2, <2>3
<1>6. ToSet(more) = ToSet(ids) \cup {x}
  <2>1. ASSUME NEW y, y \in ToSet(more)
        PROVE  y \in ToSet(ids) \cup {x}
    <3>1. PICK k \in 1..Len(ids) + 1 : more[k] = y
      BY <2>1, <1>2 DEF ToSet
    <3>2. CASE k \in 1..Len(ids)
      BY <3>1, <3>2, <1>1, <1>2 DEF ToSet
    <3>3. CASE k = Len(ids) + 1
      BY <3>1, <3>3, <1>1
    <3> QED
      BY <3>2, <3>3, <1>4
  <2>2. ASSUME NEW y \in ToSet(ids)
        PROVE  y \in ToSet(more)
    <3>1. PICK k \in 1..Len(ids) : ids[k] = y
      BY <1>2 DEF ToSet
    <3>2. k \in DOMAIN more /\ more[k] = y
      BY <3>1, <1>1, <1>2
    <3> QED
      BY <3>2 DEF ToSet
  <2>3. x \in ToSet(more)
    <3>1. Len(ids) + 1 \in DOMAIN more
      BY <1>2
    <3> QED
      BY <3>1, <1>1 DEF ToSet
  <2> QED
    BY <2>1, <2>2, <2>3
<1>7. IsInjective(ids) => IsInjective(more)
  BY <1>5 DEF IsInjective
<1> QED
  BY <1>1, <1>6, <1>7 DEF Appended

LEMMA AddDeviceConsistent ==
  ASSUME NEW l \in LoadState, Consistent(l), NEW d \in Devices, NEW endpoint \in Endpoints,
         d.endpoints = <<endpoint>>,
         endpoint.id \notin ToSet(l.ids), \A n \in DOMAIN l.devices : l.devices[n].id # d.id,
         NEW m, m = [ids |-> Append(l.ids, endpoint.id), devices |-> <<d>> \o l.devices]
  PROVE  m \in LoadState /\ Consistent(m)
<1> DEFINE list == l.devices
           ids == l.ids
           all == <<d>> \o list
           x == endpoint.id
           more == Append(ids, x)
<1>1. list \in Seq(Devices) /\ ids \in Seq(ElementIds) /\ x \in ElementIds
  BY DEF LoadState, Endpoints
<1>2. /\ all \in Seq(Devices)
      /\ DOMAIN all = 1..Len(list) + 1
      /\ all[1] = d
      /\ \A n \in 1..Len(list) : all[n + 1] = list[n]
  <2> HIDE DEF list
  <2> QED
    BY <1>1, PutFirst
<1>3. /\ more \in Seq(ElementIds) /\ Len(more) = Len(ids) + 1
      /\ \A i \in 1..Len(ids) : more[i] = ids[i]
      /\ more[Len(ids) + 1] = x
      /\ IsInjective(ids) => IsInjective(more)
  <2> HIDE DEF ids, x
  <2>1. x \notin ToSet(ids)
    BY DEF ids, x
  <2> QED
    <3>1. more \in Seq(ElementIds) /\ Appended(more, ids, x)
      BY <1>1, <2>1, AppendFresh
    <3> QED
      BY <3>1 DEF Appended
<1>4. /\ Len(ids) \in Nat /\ DOMAIN ids = 1..Len(ids)
      /\ Len(list) \in Nat /\ DOMAIN list = 1..Len(list)
      /\ Len(more) = Len(ids) + 1
  BY <1>1, <1>3
<1>5. m.ids = more /\ m.devices = all /\ m \in LoadState
  BY <1>2, <1>3 DEF LoadState
<1>c. IsInjective(ids) /\ DeviceList(list) /\ Listed(list, ids, Len(ids))
  BY DEF Consistent
<1>d. DOMAIN d.endpoints = {1} /\ d.endpoints[1] = endpoint /\ d.endpoints # << >>
  OBVIOUS
<1>e. \A i \in 1..Len(ids) : ids[i] # x
  BY <1>4 DEF ToSet
<1>f. \A n \in DOMAIN list : list[n].id # d.id
  OBVIOUS
<1> HIDE DEF all, more, list, ids
<1>6. ASSUME NEW n \in DOMAIN all
      PROVE  n = 1 \/ (n - 1 \in DOMAIN list /\ all[n] = list[n - 1] /\ n \in Nat)
  <2>1. CASE n # 1
    <3>1. n - 1 \in 1..Len(list) /\ n - 1 + 1 = n /\ n \in Nat
      BY <1>2, <1>4, <2>1
    <3>2. all[n - 1 + 1] = list[n - 1]
      BY <1>2, <3>1
    <3> QED
      BY <3>1, <3>2, <1>4
  <2> QED
    BY <2>1
<1>7. ASSUME NEW n \in DOMAIN list, NEW j \in DOMAIN list[n].endpoints
      PROVE  list[n].endpoints[j].id # x
  <2>1. PICK k \in 1..Len(ids) : list[n].endpoints[j].id = ids[k]
    BY <1>c DEF Listed
  <2> QED
    BY <2>1, <1>e
<1>8. DeviceList(all)
  <2>1. ASSUME NEW n \in DOMAIN all
        PROVE  all[n].endpoints # << >>
    <3>1. CASE n = 1
      BY <3>1, <1>2, <1>d
    <3>2. CASE n # 1
      BY <3>2, <1>6, <1>c DEF DeviceList
    <3> QED
      BY <3>1, <3>2
  <2>2. ASSUME NEW a \in DOMAIN all, NEW b \in DOMAIN all, all[a].id = all[b].id
        PROVE  a = b
    <3>1. CASE a = 1 \/ b = 1
      BY <3>1, <1>2, <1>6, <1>f, <2>2
    <3>2. CASE a # 1 /\ b # 1
      <4>1. /\ a - 1 \in DOMAIN list /\ all[a] = list[a - 1] /\ a \in Nat
            /\ b - 1 \in DOMAIN list /\ all[b] = list[b - 1] /\ b \in Nat
        BY <3>2, <1>6
      <4>2. a - 1 = b - 1
        BY <4>1, <1>c, <2>2 DEF DeviceList
      <4> QED
        BY <4>1, <4>2
    <3> QED
      BY <3>1, <3>2
  <2>3. ASSUME NEW a \in DOMAIN all, NEW b \in DOMAIN all,
               NEW j \in DOMAIN all[a].endpoints, NEW k \in DOMAIN all[b].endpoints,
               all[a].endpoints[j].id = all[b].endpoints[k].id
        PROVE  a = b /\ j = k
    <3>1. CASE a = 1 /\ b = 1
      BY <3>1, <1>2, <1>d
    <3>2. CASE a = 1 /\ b # 1
      BY <3>2, <1>2, <1>d, <1>6, <1>7, <2>3
    <3>3. CASE a # 1 /\ b = 1
      BY <3>3, <1>2, <1>d, <1>6, <1>7, <2>3
    <3>4. CASE a # 1 /\ b # 1
      <4>1. /\ a - 1 \in DOMAIN list /\ all[a] = list[a - 1] /\ a \in Nat
            /\ b - 1 \in DOMAIN list /\ all[b] = list[b - 1] /\ b \in Nat
        BY <3>4, <1>6
      <4>2. a - 1 = b - 1 /\ j = k
        BY <4>1, <1>c, <2>3 DEF DeviceList, Apart
      <4> QED
        BY <4>1, <4>2
    <3> QED
      BY <3>1, <3>2, <3>3, <3>4
  <2> QED
    BY <2>1, <2>2, <2>3 DEF DeviceList, Apart
<1>9. ASSUME NEW k \in 1..Len(more)
      PROVE  \E n \in DOMAIN all : \E j \in DOMAIN all[n].endpoints : all[n].endpoints[j].id = more[k]
  <2>1. CASE k = Len(ids) + 1
    <3>1. 1 \in DOMAIN all /\ 1 \in DOMAIN all[1].endpoints /\ all[1].endpoints[1].id = more[k]
      BY <2>1, <1>2, <1>3, <1>4, <1>d
    <3> QED
      BY <3>1
  <2>2. CASE k # Len(ids) + 1
    <3>1. k \in 1..Len(ids) /\ more[k] = ids[k]
      BY <2>2, <1>3, <1>4
    <3>2. PICK n \in DOMAIN list : \E j \in DOMAIN list[n].endpoints : list[n].endpoints[j].id = ids[k]
      BY <3>1, <1>c DEF Listed
    <3>3. n + 1 \in DOMAIN all /\ all[n + 1] = list[n]
      BY <1>2, <1>4
    <3> QED
      BY <3>1, <3>2, <3>3
  <2> QED
    BY <2>1, <2>2
<1>10. ASSUME NEW n \in DOMAIN all, NEW j \in DOMAIN all[n].endpoints
       PROVE  \E k \in 1..Len(more) : all[n].endpoints[j].id = more[k]
  <2>1. CASE n = 1
    <3>1. Len(ids) + 1 \in 1..Len(more) /\ all[n].endpoints[j].id = more[Len(ids) + 1]
      BY <2>1, <1>2, <1>3, <1>4, <1>d
    <3> QED
      BY <3>1
  <2>2. CASE n # 1
    <3>1. n - 1 \in DOMAIN list /\ all[n] = list[n - 1]
      BY <2>2, <1>6
    <3>2. PICK k \in 1..Len(ids) : list[n - 1].endpoints[j].id = ids[k]
      BY <3>1, <1>c DEF Listed
    <3>3. k \in 1..Len(more) /\ more[k] = ids[k]
      BY <1>3, <1>4
    <3> QED
      BY <3>1, <3>2, <3>3
  <2> QED
    BY <2>1, <2>2
<1>11. Listed(all, more, Len(more))
  BY <1>9, <1>10 DEF Listed
<1>12. IsInjective(more)
  BY <1>3, <1>c
<1> QED
  BY <1>5, <1>8, <1>11, <1>12 DEF Consistent

LEMMA LoadElementKeeps ==
  ASSUME NEW s \in StorageType, NEW l \in LoadState, Consistent(l), NEW id \in ElementIds,
         id \notin ToSet(l.ids), NEW m, m = LoadElement(s, l, id)
  PROVE  m \in LoadState /\ Consistent(m) /\ ToSet(m.ids) \subseteq ToSet(l.ids) \cup {id}
<1> DEFINE e == s.endpoint[id]
           endpoint == [id |-> id, plugs |-> e.plugs]
           known == \E d \in ToSet(l.devices) : d.id = e.device
           new == [id |-> e.device, node |-> s.device[e.device], endpoints |-> <<endpoint>>]
<1>0. l.ids \in Seq(ElementIds) /\ l.devices \in Seq(Devices)
  BY DEF LoadState
<1>1. CASE e = None \/ (~known /\ s.device[e.device] = None)
  <2>1. m = l
    BY <1>1 DEF LoadElement
  <2> QED
    BY <2>1
<1>2. CASE ~(e = None \/ (~known /\ s.device[e.device] = None))
  <2>1. e \in [device : DeviceIds, plugs : PlugsType]
    BY <1>2 DEF StorageType
  <2>2. endpoint \in Endpoints /\ endpoint.id = id /\ e.device \in DeviceIds
    BY <2>1 DEF Endpoints
  <2>3. ToSet(Append(l.ids, id)) = ToSet(l.ids) \cup {id}
    BY <1>0, AppendFresh DEF Appended
  <2>4. CASE known
    <3>1. m = [ids |-> Append(l.ids, id),
               devices |-> AddEndpoint(l.devices, e.device, endpoint)]
      BY <1>2, <2>4 DEF LoadElement, AddEndpoint
    <3>2. \E n \in DOMAIN l.devices : l.devices[n].id = e.device
      BY <2>4 DEF ToSet
    <3>3. m.ids = Append(l.ids, id)
      BY <3>1
    <3> HIDE DEF endpoint, e, known
    <3>4. m \in LoadState /\ Consistent(m)
      BY <2>2, <3>1, <3>2, AddEndpointConsistent
    <3> QED
      BY <2>3, <3>3, <3>4
  <2>5. CASE ~known
    <3>1. m = [ids |-> Append(l.ids, id), devices |-> <<new>> \o l.devices]
      BY <1>2, <2>5 DEF LoadElement
    <3>2. s.device[e.device] \in Nodes
      BY <1>2, <2>2, <2>5 DEF StorageType
    <3>3. <<endpoint>> \in Seq(Endpoints)
      <4> HIDE DEF endpoint
      <4> QED
        BY <2>2
    <3>4. new \in Devices /\ new.endpoints = <<endpoint>> /\ new.id = e.device
      <4> HIDE DEF endpoint, e
      <4> QED
        BY <2>2, <3>2, <3>3 DEF Devices
    <3>5. \A n \in DOMAIN l.devices : l.devices[n].id # new.id
      BY <2>5, <3>4 DEF ToSet
    <3>6. m.ids = Append(l.ids, id)
      BY <3>1
    <3> HIDE DEF endpoint, e, known, new
    <3>7. m \in LoadState /\ Consistent(m)
      BY <2>2, <3>1, <3>4, <3>5, AddDeviceConsistent
    <3> QED
      BY <2>3, <3>6, <3>7
  <2> QED
    BY <2>4, <2>5
<1> QED
  BY <1>1, <1>2

LEMMA LoadElementType ==
  ASSUME NEW s \in StorageType, NEW l \in LoadState, NEW id \in ElementIds
  PROVE  LoadElement(s, l, id) \in LoadState
<1> DEFINE e == s.endpoint[id]
           endpoint == [id |-> id, plugs |-> e.plugs]
           known == \E d \in ToSet(l.devices) : d.id = e.device
           new == [id |-> e.device, node |-> s.device[e.device], endpoints |-> <<endpoint>>]
<1>0. l.ids \in Seq(ElementIds) /\ l.devices \in Seq(Devices)
  BY DEF LoadState
<1>1. CASE e = None \/ (~known /\ s.device[e.device] = None)
  BY <1>1 DEF LoadElement
<1>2. CASE ~(e = None \/ (~known /\ s.device[e.device] = None))
  <2>1. e \in [device : DeviceIds, plugs : PlugsType]
    BY <1>2 DEF StorageType
  <2>2. endpoint \in Endpoints /\ e.device \in DeviceIds
    BY <2>1 DEF Endpoints
  <2>3. Append(l.ids, id) \in Seq(ElementIds)
    BY <1>0
  <2>4. CASE known
    <3>1. LoadElement(s, l, id) =
            [ids |-> Append(l.ids, id), devices |-> AddEndpoint(l.devices, e.device, endpoint)]
      BY <1>2, <2>4 DEF LoadElement, AddEndpoint
    <3> HIDE DEF endpoint, e, known
    <3>2. AddEndpoint(l.devices, e.device, endpoint) \in Seq(Devices)
      BY <1>0, <2>2, AddEndpointFacts
    <3> QED
      BY <2>3, <3>1, <3>2 DEF LoadState
  <2>5. CASE ~known
    <3>1. LoadElement(s, l, id) = [ids |-> Append(l.ids, id), devices |-> <<new>> \o l.devices]
      BY <1>2, <2>5 DEF LoadElement
    <3>2. s.device[e.device] \in Nodes
      BY <1>2, <2>2, <2>5 DEF StorageType
    <3>3. <<endpoint>> \in Seq(Endpoints)
      <4> HIDE DEF endpoint
      <4> QED
        BY <2>2
    <3>4. new \in Devices
      <4> HIDE DEF endpoint, e
      <4> QED
        BY <2>2, <3>2, <3>3 DEF Devices
    <3> HIDE DEF endpoint, e, known, new
    <3>5. <<new>> \o l.devices \in Seq(Devices)
      BY <1>0, <3>4
    <3> QED
      BY <2>3, <3>1, <3>5 DEF LoadState
  <2> QED
    BY <2>4, <2>5
<1> QED
  BY <1>1, <1>2

NothingLoaded == [ids |-> << >>, devices |-> << >>]

LEMMA LoadSteps ==
  ASSUME NEW s \in StorageType
  PROVE  \E f :
           /\ Load(s) = f[Len(s.list)]
           /\ f[0] = NothingLoaded
           /\ \A n \in 1..Len(s.list) : f[n] = LoadElement(s, f[n - 1], s.list[n])
<1> DEFINE N == Len(s.list)
           Is(f) == f = [n \in 0..N |-> IF n = 0 THEN [ids |-> << >>, devices |-> << >>]
                                        ELSE LoadElement(s, f[n - 1], s.list[n])]
           G == CHOOSE f : Is(f)
           step == [n \in 1..N |-> [l \in LoadState |-> LoadElement(s, l, s.list[n])]]
<1>1. Load(s) = G[N]
  BY DEF Load
<1>2. N \in Nat /\ \A n \in 1..N : s.list[n] \in ElementIds
  BY DEF StorageType
<1>3. step \in [1..N -> [LoadState -> LoadState]]
  BY <1>2, LoadElementType
<1>4. NothingLoaded \in LoadState
  BY DEF NothingLoaded, LoadState
<1>5. PICK f \in [0..N -> LoadState] : Steps(f, NothingLoaded, step, N)
  <2> HIDE DEF step, N
  <2> QED
    BY <1>2, <1>3, <1>4, StepFunction, Zenon
<1>6. ASSUME NEW n \in 1..N
      PROVE  f[n] = LoadElement(s, f[n - 1], s.list[n])
  <2>1. n - 1 \in 0..N
    BY <1>2
  <2>2. f[n - 1] \in LoadState
    BY <2>1
  <2>3. f[n] = step[n][f[n - 1]]
    BY <1>5 DEF Steps
  <2> QED
    BY <2>2, <2>3
<1>7. Is(f)
  <2>1. ASSUME NEW n \in 0..N
        PROVE  f[n] = IF n = 0 THEN [ids |-> << >>, devices |-> << >>]
                      ELSE LoadElement(s, f[n - 1], s.list[n])
    <3>1. n = 0 \/ n \in 1..N
      BY <1>2
    <3> QED
      BY <3>1, <1>5, <1>6 DEF Steps, NothingLoaded
  <2> QED
    BY <2>1
<1>8. Is(G)
  BY <1>7, Zenon
<1> HIDE DEF G
<1>9. ASSUME NEW n \in 0..N
      PROVE  G[n] = IF n = 0 THEN [ids |-> << >>, devices |-> << >>]
                    ELSE LoadElement(s, G[n - 1], s.list[n])
  BY <1>8, Zenon
<1>10. G[0] = NothingLoaded
  BY <1>2, <1>9 DEF NothingLoaded
<1>11. ASSUME NEW n \in 1..N
       PROVE  G[n] = LoadElement(s, G[n - 1], s.list[n])
  <2>1. n \in 0..N /\ n # 0
    BY <1>2
  <2> QED
    BY <2>1, <1>9
<1> QED
  BY <1>1, <1>10, <1>11

\* The states of Load, element by element, when no id is twice in the list.
Loading(s, f) ==
  /\ Load(s) = f[Len(s.list)]
  /\ f[0] = NothingLoaded
  /\ \A n \in 0..Len(s.list) : f[n] \in LoadState /\ Consistent(f[n])
  /\ \A n \in 1..Len(s.list) :
       /\ f[n] = LoadElement(s, f[n - 1], s.list[n])
       /\ s.list[n] \in ElementIds /\ s.list[n] \notin ToSet(f[n - 1].ids)

LEMMA LoadingExists ==
  ASSUME NEW s \in StorageType, IsInjective(s.list)
  PROVE  \E f : Loading(s, f)
<1> DEFINE list == s.list
           N == Len(list)
<1>1. PICK f : /\ Load(s) = f[N]
               /\ f[0] = NothingLoaded
               /\ \A n \in 1..N : f[n] = LoadElement(s, f[n - 1], list[n])
  BY LoadSteps
<1>2. list \in Seq(ElementIds) /\ N \in Nat /\ DOMAIN list = 1..N
  BY DEF StorageType
<1> DEFINE Good(n) == /\ f[n] \in LoadState /\ Consistent(f[n])
                      /\ \A x \in ToSet(f[n].ids) : \E k \in 1..n : list[k] = x
           Bad == {n \in 0..N : ~Good(n)}
<1> HIDE DEF N, list
<1>3. ASSUME NEW n \in Bad, \A j \in Bad : n <= j
      PROVE  FALSE
  <2>1. CASE n = 0
    <3>1. << >> \in Seq(ElementIds) /\ << >> \in Seq(Devices)
      OBVIOUS
    <3>2. NothingLoaded \in LoadState /\ NothingLoaded.ids = << >> /\ NothingLoaded.devices = << >>
      BY <3>1 DEF NothingLoaded, LoadState
    <3>3. ToSet(<< >>) = {}
      BY DEF ToSet
    <3>4. IsInjective(<< >>) /\ DeviceList(<< >>) /\ Listed(<< >>, << >>, 0)
      BY DEF IsInjective, DeviceList, Apart, Listed
    <3>5. Consistent(NothingLoaded)
      BY <3>2, <3>4 DEF Consistent
    <3> QED
      BY <2>1, <3>2, <3>3, <3>5, <1>1, <1>3
  <2>2. CASE n # 0
    <3>1. n \in 1..N /\ n - 1 \in 0..N /\ ~(n <= n - 1)
      BY <1>2, <2>2
    <3>2. n - 1 \notin Bad
      <4> HIDE DEF Bad
      <4> QED
        BY <3>1, <1>3
    <3>3. Good(n - 1)
      BY <3>1, <3>2
    <3>4. list[n] \in ElementIds /\ f[n] = LoadElement(s, f[n - 1], list[n])
      BY <3>1, <1>1, <1>2
    <3>5. list[n] \notin ToSet(f[n - 1].ids)
      <4>1. \A k \in 1..n - 1 : k \in 1..N /\ k # n
        BY <3>1, <1>2
      <4>2. \A k \in 1..n - 1 : list[k] # list[n]
        BY <3>1, <4>1, <1>2 DEF IsInjective, list
      <4> QED
        BY <3>3, <4>2
    <3>6. /\ f[n] \in LoadState /\ Consistent(f[n])
          /\ ToSet(f[n].ids) \subseteq ToSet(f[n - 1].ids) \cup {list[n]}
      BY <3>3, <3>4, <3>5, LoadElementKeeps
    <3>7. ASSUME NEW x \in ToSet(f[n].ids)
          PROVE  \E k \in 1..n : list[k] = x
      <4>1. CASE x = list[n]
        <5>1. n \in 1..n
          BY <3>1
        <5> QED
          BY <4>1, <5>1
      <4>2. CASE x \in ToSet(f[n - 1].ids)
        <5>1. PICK k \in 1..n - 1 : list[k] = x
          BY <4>2, <3>3
        <5>2. k \in 1..n
          BY <3>1
        <5> QED
          BY <5>1, <5>2
      <4> QED
        BY <4>1, <4>2, <3>6
    <3>8. Good(n)
      BY <3>6, <3>7
    <3> QED
      BY <3>8, <1>3
  <2> QED
    BY <2>1, <2>2
<1>4. Bad \subseteq Nat
  BY <1>2
<1>5. Bad = {}
  <2> HIDE DEF Bad
  <2> QED
    BY <1>3, <1>4, LeastExists
<1>6. \A n \in 0..N : Good(n)
  BY <1>5
<1>7. ASSUME NEW n \in 1..N
      PROVE  f[n] = LoadElement(s, f[n - 1], list[n]) /\ list[n] \in ElementIds
  BY <1>1, <1>2
<1>8. ASSUME NEW n \in 1..N
      PROVE  list[n] \notin ToSet(f[n - 1].ids)
  <2>1. n - 1 \in 0..N /\ \A k \in 1..n - 1 : k \in 1..N /\ k # n
    BY <1>2
  <2>2. \A k \in 1..n - 1 : list[k] # list[n]
    BY <2>1, <1>2 DEF IsInjective, list
  <2> QED
    BY <1>6, <2>1, <2>2
<1> QED
  BY <1>1, <1>6, <1>7, <1>8 DEF Loading, N, list

\* Whatever the storage holds, what is loaded is consistent if no id is twice in the list.
LEMMA LoadFacts ==
  ASSUME NEW s \in StorageType, IsInjective(s.list)
  PROVE  Load(s) \in LoadState /\ Consistent(Load(s))
<1>1. PICK f : Loading(s, f)
  BY LoadingExists
<1>2. Len(s.list) \in 0..Len(s.list)
  BY DEF StorageType
<1> QED
  BY <1>1, <1>2 DEF Loading

-----------------------------------------------------------------------------
(* The invariant is kept *)

NodeType == [Nodes -> [address : (0..LAST_ADDRESS) \cup {None}, requests : Seq(Requests)]]

LEMMA CommNotNone ==
  /\ NoComm \notin CommType
  /\ \A c \in CommType : c.pc # "none" /\ c # NoComm
<1>1. ASSUME NEW c \in CommType
      PROVE  c.pc # "none"
  BY DEF CommType
<1>2. NoComm.pc = "none"
  BY DEF NoComm
<1> QED
  BY <1>1, <1>2

\* what is known of the state while a commissioning runs
LEMMA CommKnown ==
  ASSUME BusInv, comm.pc # "none"
  PROVE  /\ comm \in CommType /\ comm # NoComm
         /\ commissioning /\ erasing = 0
         /\ OldStays(comm, devices)
         /\ Fits(GivenIds(comm), comm.old, elementIds, elementCount)
         /\ comm.attribute = "name" => comm.id \in ElementIds /\ comm.plugs \in PlugsType
<1>1. comm # NoComm
  BY DEF NoComm
<1> QED
  BY <1>1 DEF BusInv, TypeOK, Separate, CommFits, Space

LEMMA InitBusInv ==
  ASSUME Init
  PROVE  BusInv
<1> USE DEF Init
<1>1. TypeOK
  <2>1. storage \in StorageType
    <3>1. << >> \in Seq(ElementIds)
      OBVIOUS
    <3> QED
      BY <3>1 DEF StorageType
  <2>2. node \in [Nodes -> [address : (0..LAST_ADDRESS) \cup {None}, requests : Seq(Requests)]]
    <3>1. << >> \in Seq(Requests)
      OBVIOUS
    <3> QED
      BY <3>1 DEF Outside
  <2>3. /\ << >> \in Seq(WriteType) /\ << >> \in Seq(Devices) /\ << >> \in Seq(ElementIds)
        /\ 0 \in 0..Len(<< >>)
    OBVIOUS
  <2> QED
    BY <2>1, <2>2, <2>3 DEF TypeOK
<1>2. Separate /\ Space /\ CommFits
  BY DEF Separate, Space, CommFits
<1>3. ListsInjective
  BY DEF ListsInjective, IsInjective
<1>4. DevicesMatch
  BY DEF DevicesMatch, DeviceList, Apart, Listed
<1> QED
  BY <1>1, <1>2, <1>3, <1>4 DEF BusInv

LEMMA StoreNextKeeps ==
  ASSUME BusInv, StoreNext
  PROVE  BusInv'
<1> DEFINE w == Head(writes)
<1>1. UNCHANGED <<devices, elementIds, elementCount, commissioning, comm, erasing, node>>
  BY DEF StoreNext, ram
<1>2. writes \in Seq(WriteType) /\ writes # << >> /\ writes' = Tail(writes)
  BY DEF BusInv, TypeOK, StoreNext
<1>3. /\ w \in WriteType /\ w = writes[1] /\ 1 \in DOMAIN writes
      /\ writes' \in Seq(WriteType)
      /\ \A n \in DOMAIN writes' : writes'[n] = writes[n + 1] /\ n + 1 \in DOMAIN writes
  <2>1. w \in WriteType /\ w = writes[1] /\ 1 \in DOMAIN writes
    BY <1>2
  <2>2. /\ Tail(writes) \in Seq(WriteType) /\ Len(Tail(writes)) = Len(writes) - 1
        /\ \A i \in 1..Len(Tail(writes)) : Tail(writes)[i] = writes[i + 1]
    BY <1>2, HeadTailProperties
  <2>3. DOMAIN Tail(writes) = 1..Len(writes) - 1 /\ DOMAIN writes = 1..Len(writes) /\ Len(writes) \in Nat
    BY <1>2, <2>2
  <2> QED
    BY <1>2, <2>1, <2>2, <2>3
<1>4. storage' \in StorageType /\ IsInjective(storage'.list)
  <2>1. storage \in StorageType /\ IsInjective(storage.list)
    BY DEF BusInv, TypeOK, ListsInjective
  <2>2. \/ /\ w.kind = "list" /\ w.data \in Seq(ElementIds)
           /\ storage' = [storage EXCEPT !.list = w.data]
        \/ /\ w.kind = "endpoint" /\ w.id \in ElementIds
           /\ w.data \in [device : DeviceIds, plugs : PlugsType] \cup {None}
           /\ storage' = [storage EXCEPT !.endpoint[w.id] = w.data]
        \/ /\ w.kind = "device" /\ w.id \in DeviceIds /\ w.data \in Nodes \cup {None}
           /\ storage' = [storage EXCEPT !.device[w.id] = w.data]
    BY <1>3 DEF WriteType, StoreNext
  <2> HIDE DEF w
  <2>3. CASE w.kind = "list" /\ w.data \in Seq(ElementIds) /\ storage' = [storage EXCEPT !.list = w.data]
    <3>1. IsInjective(w.data)
      BY <1>3, <2>3 DEF BusInv, ListsInjective
    <3>2. storage' \in StorageType
      BY <2>1, <2>3 DEF StorageType
    <3>3. storage'.list = w.data
      BY <2>1, <2>3 DEF StorageType
    <3> QED
      BY <3>1, <3>2, <3>3
  <2>4. CASE /\ w.id \in ElementIds
             /\ w.data \in [device : DeviceIds, plugs : PlugsType] \cup {None}
             /\ storage' = [storage EXCEPT !.endpoint[w.id] = w.data]
    <3>1. storage'.list = storage.list
      BY <2>1, <2>4 DEF StorageType
    <3>2. storage' \in StorageType
      BY <2>1, <2>4 DEF StorageType
    <3> QED
      BY <2>1, <3>1, <3>2
  <2>5. CASE /\ w.id \in DeviceIds /\ w.data \in Nodes \cup {None}
             /\ storage' = [storage EXCEPT !.device[w.id] = w.data]
    <3>1. storage'.list = storage.list
      BY <2>1, <2>5 DEF StorageType
    <3>2. storage' \in StorageType
      BY <2>1, <2>5 DEF StorageType
    <3> QED
      BY <2>1, <3>1, <3>2
  <2> QED
    BY <2>2, <2>3, <2>4, <2>5
<1>5. TypeOK'
  BY <1>1, <1>3, <1>4 DEF BusInv, TypeOK
<1>6. ListsInjective'
  <2>1. \A n \in DOMAIN writes' : writes'[n].kind = "list" => IsInjective(writes'[n].data)
    BY <1>3 DEF BusInv, ListsInjective
  <2> QED
    BY <1>1, <1>4, <2>1 DEF BusInv, ListsInjective
<1>7. Separate' /\ Space' /\ DevicesMatch' /\ CommFits'
  BY <1>1 DEF BusInv, Separate, Space, DevicesMatch, CommFits
<1> QED
  BY <1>5, <1>6, <1>7 DEF BusInv

LEMMA DeviceWritesType ==
  ASSUME NEW d \in Devices
  PROVE  /\ DeviceWrites(d) \in Seq(WriteType)
         /\ \A n \in DOMAIN DeviceWrites(d) : DeviceWrites(d)[n].kind # "list"
<1> DEFINE es == d.endpoints
           first == [k \in DOMAIN es |->
                       WriteEndpoint(es[k].id, d.id, [device |-> d.id, plugs |-> es[k].plugs])]
           w == WriteDevice(d.id, d.node)
           all == Append(first, w)
<1>1. d.id \in DeviceIds /\ d.node \in Nodes /\ es \in Seq(Endpoints)
  BY DEF Devices
<1>2. DOMAIN es = 1..Len(es) /\ Len(es) \in Nat /\ \A k \in 1..Len(es) : es[k] \in Endpoints
  BY <1>1
<1>3. \A k \in 1..Len(es) : first[k] \in WriteType /\ first[k].kind # "list"
  <2> SUFFICES ASSUME NEW k \in 1..Len(es)
               PROVE  first[k] \in WriteType /\ first[k].kind # "list"
    OBVIOUS
  <2>1. es[k].id \in ElementIds /\ es[k].plugs \in PlugsType
    BY <1>2 DEF Endpoints
  <2>2. first[k] = WriteEndpoint(es[k].id, d.id, [device |-> d.id, plugs |-> es[k].plugs])
    BY <1>2
  <2> HIDE DEF es, first
  <2>3. first[k] \in WriteType
    BY <1>1, <2>1, <2>2 DEF WriteType, WriteEndpoint
  <2>4. first[k].kind = "endpoint"
    BY <2>2 DEF WriteEndpoint
  <2> QED
    BY <2>3, <2>4
<1>4. first \in Seq(WriteType) /\ Len(first) = Len(es)
  <2>1. first = [k \in 1..Len(es) |-> first[k]]
    BY <1>2
  <2> HIDE DEF first, es
  <2> QED
    BY <1>2, <1>3, <2>1
<1>5. w \in WriteType /\ w.kind # "list"
  BY <1>1 DEF WriteType, WriteDevice
<1>6. DeviceWrites(d) = first \o <<w>>
  BY DEF DeviceWrites
<1> HIDE DEF first, w, es
<1>7. DeviceWrites(d) = all
  BY <1>4, <1>5, <1>6, AppendIsConcat
<1>8. /\ all \in Seq(WriteType) /\ Len(all) = Len(first) + 1
      /\ \A i \in 1..Len(first) : all[i] = first[i]
      /\ all[Len(first) + 1] = w
  BY <1>4, <1>5, AppendProperties
<1>9. DOMAIN all = 1..Len(first) + 1 /\ Len(first) \in Nat
  BY <1>4, <1>8
<1> HIDE DEF all
<1>10. ASSUME NEW n \in DOMAIN all
       PROVE  all[n].kind # "list"
  <2>1. CASE n = Len(first) + 1
    BY <2>1, <1>5, <1>8
  <2>2. CASE n # Len(first) + 1
    <3>1. n \in 1..Len(first) /\ n \in 1..Len(es)
      BY <2>2, <1>4, <1>9
    <3> QED
      BY <3>1, <1>3, <1>8
  <2> QED
    BY <2>1, <2>2
<1> QED
  BY <1>7, <1>8, <1>10

\* the record of a commissioning that is about to ask for an attribute
LEMMA AskType ==
  ASSUME NEW c \in CommType, NEW attribute \in {"plugs", "name"}
  PROVE  [c EXCEPT !.pc = "request", !.attribute = attribute, !.retry = 0] \in CommType
<1>1. 0 \in 0..MAX_RETRY
  BY BusAssumption
<1>2. "request" \in {"join", "request", "wait"}
  OBVIOUS
<1> DEFINE R == 0..MAX_RETRY
           I == 0..MAX_ELEMENT_COUNT
<1>3. CommType = [pc : {"join", "request", "wait"}, node : Nodes, device : DeviceIds, count : EndpointCounts,
        old : Seq(ElementIds), endpoints : Seq(Endpoints), plugs : PlugsType \cup {None},
        id : I, attribute : {"plugs", "name"}, retry : R]
  BY DEF CommType
<1> HIDE DEF R, I
<1>4. 0 \in R
  BY <1>1 DEF R
<1> QED
  BY <1>2, <1>3, <1>4

\* the next attribute of an endpoint is asked for
LEMMA RequestPlugsKeeps ==
  ASSUME BusInv, commissioning, erasing = 0, NEW c \in CommType, OldStays(c, devices),
         Fits(EndpointIds(c), c.old, elementIds, elementCount),
         OldIds(c) # << >> \/ Len(elementIds) < MAX_ELEMENT_COUNT,
         Request(c, "plugs"), elementIds' = elementIds,
         UNCHANGED <<storage, commissioning, erasing>>, node' \in NodeType
  PROVE  BusInv'
<1>1. /\ comm' = [c EXCEPT !.pc = "request", !.attribute = "plugs", !.retry = 0]
      /\ UNCHANGED <<storage, writes, devices, elementIds, elementCount, commissioning, erasing>>
  BY DEF Request
<1>2. /\ comm' \in CommType /\ comm' # NoComm
      /\ comm'.pc = "request" /\ comm'.attribute = "plugs"
      /\ comm'.old = c.old /\ comm'.endpoints = c.endpoints /\ comm'.device = c.device
  <2>1. MAX_RETRY \in Nat
    BY BusAssumption
  <2>2. comm' \in CommType
    BY <1>1, <2>1, AskType
  <2> QED
    BY <1>1, <2>2, CommNotNone DEF CommType
<1>3. TypeOK'
  BY <1>1, <1>2 DEF BusInv, TypeOK, NodeType
<1>4. Separate'
  BY <1>1, <1>2 DEF BusInv, Separate
<1>5. Space'
  <2>1. c.old \in Seq(ElementIds) /\ c.endpoints \in Seq(Endpoints)
    BY DEF CommType
  <2>2. Len(c.old) <= Len(c.endpoints) => OldIds(c) = << >>
    BY <2>1, OldIdsFacts
  <2> QED
    BY <1>1, <1>2, <2>2 DEF Space
<1>6. ListsInjective' /\ DevicesMatch'
  BY <1>1 DEF BusInv, ListsInjective, DevicesMatch
<1>7. CommFits'
  <2>1. GivenIds(comm)' = EndpointIds(c)
    BY <1>2 DEF GivenIds, EndpointIds
  <2>2. OldStays(comm, devices)'
    BY <1>1, <1>2 DEF OldStays
  <2>3. Fits(GivenIds(comm), comm.old, elementIds, elementCount)'
    BY <1>1, <1>2, <2>1 DEF Fits
  <2> QED
    BY <2>2, <2>3 DEF CommFits
<1> QED
  BY <1>3, <1>4, <1>5, <1>6, <1>7 DEF BusInv

LEMMA FinishKeeps ==
  ASSUME BusInv, writes = << >>, erasing = 0, NEW c \in CommType, OldStays(c, devices),
         Fits(EndpointIds(c), c.old, elementIds, elementCount),
         Finish(c, elementIds),
         UNCHANGED <<storage, commissioning, erasing>>, node' \in NodeType
  PROVE  BusInv'
<1> DEFINE kept == WithoutIds(elementIds, ToSet(OldIds(c)))
           all == Replaced(c, devices)
<1>1. /\ devices \in Seq(Devices) /\ DeviceList(devices)
      /\ elementIds \in Seq(ElementIds) /\ IsInjective(elementIds)
      /\ elementCount \in 0..Len(elementIds) /\ Listed(devices, elementIds, elementCount)
      /\ storage \in StorageType /\ IsInjective(storage.list) /\ commissioning \in BOOLEAN
  BY DEF BusInv, TypeOK, ListsInjective, DevicesMatch
<1>2. /\ kept \in Seq(ElementIds)
      /\ IsInjective(kept)
      /\ Listed(all, kept, Len(kept))
  BY <1>1, ReplacedListed
<1>3. all \in Seq(Devices) /\ DeviceList(all)
  BY <1>1, ReplacedPlaces, ReplacedApart
<1>4. /\ comm' = NoComm /\ elementIds' = kept /\ elementCount' = Len(kept) /\ devices' = all
  BY DEF Finish, Replaced, Others, NewDevice
<1>5. \/ writes' = <<WriteList(kept)>>
      \/ writes' = <<WriteList(kept)>> \o DeviceWrites(NewDevice(c))
  BY DEF Finish, NewDevice
<1> HIDE DEF kept, all
<1>6. WriteList(kept) \in WriteType /\ WriteList(kept).data = kept
  BY <1>2 DEF WriteList, WriteType
<1>7. writes' \in Seq(WriteType) /\ \A n \in DOMAIN writes' : writes'[n].kind = "list" => IsInjective(writes'[n].data)
  <2>1. CASE writes' = <<WriteList(kept)>>
    <3>1. DOMAIN writes' = {1} /\ writes'[1] = WriteList(kept)
      BY <2>1
    <3> QED
      BY <1>2, <1>6, <2>1, <3>1
  <2>2. CASE writes' = <<WriteList(kept)>> \o DeviceWrites(NewDevice(c))
    <3>1. NewDevice(c) \in Devices
      BY DEF NewDevice, Devices, CommType
    <3> DEFINE more == DeviceWrites(NewDevice(c))
    <3>2. more \in Seq(WriteType) /\ \A n \in DOMAIN more : more[n].kind # "list"
      BY <3>1, DeviceWritesType
    <3> HIDE DEF more
    <3>3. /\ writes' \in Seq(WriteType)
          /\ DOMAIN writes' = 1..Len(more) + 1
          /\ writes'[1] = WriteList(kept)
          /\ \A n \in 1..Len(more) : writes'[n + 1] = more[n]
      BY <1>6, <2>2, <3>2, PutFirst DEF more
    <3>4. DOMAIN more = 1..Len(more) /\ Len(more) \in Nat
      BY <3>2
    <3>5. ASSUME NEW n \in DOMAIN writes', writes'[n].kind = "list"
          PROVE  IsInjective(writes'[n].data)
      <4>1. CASE n = 1
        BY <4>1, <1>2, <1>6, <3>3
      <4>2. CASE n # 1
        <5>1. n - 1 \in 1..Len(more) /\ n - 1 + 1 = n
          BY <4>2, <3>3, <3>4
        <5>2. writes'[n] = more[n - 1] /\ n - 1 \in DOMAIN more
          BY <3>3, <3>4, <5>1
        <5> QED
          BY <3>2, <3>5, <5>2
      <4> QED
        BY <4>1, <4>2
    <3> QED
      BY <3>3, <3>5
  <2> QED
    BY <1>5, <2>1, <2>2
<1>8. Len(kept) \in 0..Len(kept)
  BY <1>2
<1>9. TypeOK'
  BY <1>1, <1>2, <1>3, <1>4, <1>7, <1>8 DEF TypeOK, NodeType
<1>10. Separate' /\ Space' /\ CommFits'
  BY <1>4 DEF Separate, Space, CommFits
<1>11. ListsInjective' /\ DevicesMatch'
  BY <1>1, <1>2, <1>3, <1>4, <1>7 DEF ListsInjective, DevicesMatch
<1> QED
  BY <1>9, <1>10, <1>11 DEF BusInv

LEMMA NextEndpointKeeps ==
  ASSUME BusInv, writes = << >>, commissioning, erasing = 0, NEW c \in CommType, OldStays(c, devices),
         Fits(EndpointIds(c), c.old, elementIds, elementCount),
         NextEndpoint(c, elementIds),
         UNCHANGED <<storage, commissioning, erasing>>, node' \in NodeType
  PROVE  BusInv'
<1>1. CASE Index(c) < c.count /\ (OldIds(c) # << >> \/ Len(elementIds) < MAX_ELEMENT_COUNT)
  BY <1>1, RequestPlugsKeeps DEF NextEndpoint
<1>2. CASE ~(Index(c) < c.count /\ (OldIds(c) # << >> \/ Len(elementIds) < MAX_ELEMENT_COUNT))
  BY <1>2, FinishKeeps DEF NextEndpoint
<1> QED
  BY <1>1, <1>2

-----------------------------------------------------------------------------
(* The actions *)

\* a commissioning that is given up leaves nothing behind
LEMMA CancelKeeps ==
  ASSUME BusInv, erasing = 0, comm' = NoComm,
         elementIds' = SubSeq(elementIds, 1, elementCount), commissioning' \in BOOLEAN,
         UNCHANGED <<storage, writes, devices, elementCount, erasing>>, node' \in NodeType
  PROVE  BusInv'
<1>1. /\ elementIds \in Seq(ElementIds) /\ elementCount \in 0..Len(elementIds)
      /\ IsInjective(elementIds)
  BY DEF BusInv, TypeOK, ListsInjective
<1>2. /\ elementIds' \in Seq(ElementIds) /\ Len(elementIds') = elementCount
      /\ \A k \in 1..elementCount : elementIds'[k] = elementIds[k]
      /\ IsInjective(elementIds')
  BY <1>1, FirstCells
<1>3. TypeOK'
  BY <1>1, <1>2 DEF BusInv, TypeOK, NodeType
<1>4. Separate' /\ Space' /\ CommFits'
  BY <1>2 DEF Separate, Space, CommFits
<1>5. ListsInjective'
  BY <1>2 DEF BusInv, ListsInjective
<1>6. DevicesMatch'
  BY <1>2 DEF BusInv, DevicesMatch, Listed
<1> QED
  BY <1>3, <1>4, <1>5, <1>6 DEF BusInv

LEMMA FreshDevice ==
  ASSUME BusInv, NEW n \in DOMAIN devices
  PROVE  devices[n].id # allocateDeviceId
<1> DEFINE ids == [m \in 1..Len(devices) |-> devices[m].id]
           used == {d.id : d \in ToSet(devices)}
<1>1. devices \in Seq(Devices) /\ DOMAIN devices = 1..Len(devices) /\ Len(devices) \in Nat
  BY DEF BusInv, TypeOK
<1>2. ASSUME NEW m \in 1..Len(devices)
      PROVE  devices[m].id \in DeviceIds
  <2>1. devices[m] \in Devices
    BY <1>1
  <2> QED
    BY <2>1 DEF Devices
<1>3. ids \in Seq(DeviceIds)
  BY <1>1, <1>2
<1>4. used = ToSet(ids)
  BY <1>1 DEF ToSet
<1>5. devices[n].id \in used
  BY DEF ToSet
<1> HIDE DEF ids
<1>6. used \subseteq Nat /\ IsFiniteSet(used)
  <2>1. DeviceIds \subseteq Nat
    BY BusAssumption DEF DeviceIds
  <2>2. ToSet(ids) \subseteq DeviceIds /\ IsFiniteSet(ToSet(ids))
    BY <1>3, RangeCardinality
  <2> QED
    BY <1>4, <2>1, <2>2
<1> HIDE DEF used
<1>7. FirstFree(used) \notin used
  BY <1>6, FirstFreeFacts
<1> QED
  BY <1>5, <1>7 DEF allocateDeviceId, used

LEMMA EnumerateKeeps ==
  ASSUME BusInv, NEW n \in Nodes, NEW count \in EndpointCounts, Enumerate(n, count)
  PROVE  BusInv'
<1> DEFINE old == {d \in ToSet(devices) : d.node = n}
           chosen == CHOOSE d \in old : TRUE
           id == IF old # {} THEN chosen.id ELSE allocateDeviceId
           oldIds == IF old = {} THEN << >> ELSE EndpointIds(chosen)
           c == [pc |-> "join", node |-> n, device |-> id, count |-> count,
                 old |-> oldIds, endpoints |-> << >>, plugs |-> None, id |-> 0,
                 attribute |-> "plugs", retry |-> 0]
<1>1. /\ writes = << >> /\ erasing = 0 /\ commissioning
      /\ elementIds' = SubSeq(elementIds, 1, elementCount)
      /\ UNCHANGED <<storage, writes, devices, elementCount, commissioning, erasing, node>>
  BY DEF Enumerate, Ready
<1>2. comm' = NoComm \/ (comm' = c /\ id \in DeviceIds)
  BY DEF Enumerate
<1>3. commissioning' \in BOOLEAN /\ node' \in NodeType
  BY <1>1 DEF BusInv, TypeOK, NodeType
<1>4. CASE comm' = NoComm
  BY <1>1, <1>3, <1>4, CancelKeeps
<1>5. CASE comm' = c /\ id \in DeviceIds
  <2>1. /\ elementIds \in Seq(ElementIds) /\ elementCount \in 0..Len(elementIds)
        /\ IsInjective(elementIds) /\ devices \in Seq(Devices) /\ DeviceList(devices)
    BY DEF BusInv, TypeOK, ListsInjective, DevicesMatch
  <2>2. /\ elementIds' \in Seq(ElementIds) /\ Len(elementIds') = elementCount
        /\ \A k \in 1..elementCount : elementIds'[k] = elementIds[k]
        /\ IsInjective(elementIds')
    BY <1>1, <2>1, FirstCells
  <2>3. oldIds \in Seq(ElementIds) /\ OldStays(c, devices)
    <3>1. CASE old = {}
      <4>1. oldIds = << >> /\ id = allocateDeviceId
        BY <3>1
      <4> HIDE DEF oldIds, id
      <4>2. \A m \in DOMAIN devices : devices[m].id # id
        BY <4>1, FreshDevice
      <4> QED
        BY <4>1, <4>2 DEF OldStays
    <3>2. CASE old # {}
      <4>1. chosen \in old
        BY <3>2
      <4>2. PICK m \in DOMAIN devices : devices[m] = chosen
        BY <4>1 DEF ToSet
      <4>4. oldIds = EndpointIds(chosen) /\ id = chosen.id
        BY <3>2
      <4> HIDE DEF chosen, old, oldIds, id
      <4>3. chosen \in Devices /\ chosen.endpoints \in Seq(Endpoints) /\ chosen.endpoints # << >>
        <5>1. devices[m] \in Devices /\ devices[m].endpoints # << >>
          BY <2>1 DEF DeviceList
        <5> QED
          BY <4>2, <5>1 DEF Devices
      <4>5. oldIds \in Seq(ElementIds) /\ Len(oldIds) = Len(chosen.endpoints)
        BY <4>3, <4>4, EndpointIdsFacts
      <4>6. oldIds # << >>
        BY <4>3, <4>5
      <4> QED
        BY <4>2, <4>4, <4>5, <4>6 DEF OldStays
    <3> QED
      BY <3>1, <3>2
  <2> HIDE DEF oldIds, id, old, chosen
  <2>4. c \in CommType
    <3>1. << >> \in Seq(Endpoints) /\ 0 \in 0..MAX_ELEMENT_COUNT /\ 0 \in 0..MAX_RETRY
      BY BusAssumption
    <3> QED
      BY <1>5, <2>3, <3>1 DEF CommType
  <2>5. /\ c.pc = "join" /\ c.attribute = "plugs" /\ c.endpoints = << >> /\ c.old = oldIds
        /\ c # NoComm
    BY <2>4, CommNotNone
  <2> HIDE DEF c
  <2>6. TypeOK'
    BY <1>1, <1>5, <2>1, <2>2, <2>4 DEF BusInv, TypeOK
  <2>7. Separate' /\ Space'
    BY <1>1, <1>5, <2>4, <2>5 DEF Separate, Space
  <2>8. ListsInjective'
    BY <1>1, <2>2 DEF BusInv, ListsInjective
  <2>9. DevicesMatch'
    BY <1>1, <2>2 DEF BusInv, DevicesMatch, Listed
  <2>10. Fits(GivenIds(c), c.old, elementIds', elementCount')
    <3>1. EndpointIds(c) = << >>
      BY <2>5 DEF EndpointIds
    <3>2. GivenIds(c) = << >>
      BY <2>5, <3>1 DEF GivenIds
    <3>3. Len(c.old) \in Nat
      BY <2>3, <2>5
    <3> QED
      BY <1>1, <2>1, <2>2, <3>2, <3>3 DEF Fits
  <2>11. CommFits'
    BY <1>1, <1>5, <2>3, <2>10 DEF CommFits
  <2> QED
    BY <2>6, <2>7, <2>8, <2>9, <2>11 DEF BusInv
<1> QED
  BY <1>2, <1>4, <1>5

LEMMA JoinedKeeps ==
  ASSUME BusInv, Joined
  PROVE  BusInv'
<1>1. /\ writes = << >> /\ erasing = 0 /\ comm.pc = "join" /\ NextEndpoint(comm, elementIds)
      /\ UNCHANGED <<storage, commissioning, erasing>>
  BY DEF Joined, Ready
<1>2. /\ comm \in CommType /\ comm # NoComm /\ commissioning /\ OldStays(comm, devices)
      /\ Fits(GivenIds(comm), comm.old, elementIds, elementCount)
  BY <1>1, CommKnown
<1>3. comm.attribute = "plugs"
  BY <1>1, <1>2 DEF BusInv, Space
<1>4. Fits(EndpointIds(comm), comm.old, elementIds, elementCount)
  BY <1>2, <1>3 DEF GivenIds
<1>5. node' \in NodeType
  <2>1. ASSUME NEW m \in Nodes
        PROVE  /\ [node[m] EXCEPT !.address = comm.device - 1]
                    \in [address : (0..LAST_ADDRESS) \cup {None}, requests : Seq(Requests)]
               /\ Outside \in [address : (0..LAST_ADDRESS) \cup {None}, requests : Seq(Requests)]
               /\ node[m] \in [address : (0..LAST_ADDRESS) \cup {None}, requests : Seq(Requests)]
    <3>1. node[m] \in [address : (0..LAST_ADDRESS) \cup {None}, requests : Seq(Requests)]
      BY DEF BusInv, TypeOK
    <3>2. comm.device - 1 \in 0..LAST_ADDRESS
      BY <1>2, BusAssumption DEF CommType, DeviceIds
    <3>3. << >> \in Seq(Requests)
      OBVIOUS
    <3> QED
      BY <3>1, <3>2, <3>3 DEF Outside
  <2> DEFINE new(m) == IF m = comm.node THEN [node[m] EXCEPT !.address = comm.device - 1]
                       ELSE IF Decommission /\ node[m].address = comm.device - 1
                       THEN Outside ELSE node[m]
  <2>2. \A m \in Nodes :
          new(m) \in [address : (0..LAST_ADDRESS) \cup {None}, requests : Seq(Requests)]
    BY <2>1
  <2>3. node' = [m \in Nodes |-> new(m)]
    BY DEF Joined
  <2> HIDE DEF new
  <2> QED
    BY <2>2, <2>3 DEF NodeType
<1> QED
  BY <1>1, <1>2, <1>4, <1>5, NextEndpointKeeps

\* the commissioning waits, or asks again
LEMMA WaitKeeps ==
  ASSUME BusInv, comm # NoComm, comm.pc # "join", NEW c \in CommType, comm' = c,
         c.pc # "join", c.device = comm.device, c.old = comm.old,
         c.endpoints = comm.endpoints, c.attribute = comm.attribute,
         c.id = comm.id, c.plugs = comm.plugs,
         UNCHANGED <<storage, writes, devices, elementIds, elementCount, commissioning, erasing>>,
         node' \in NodeType
  PROVE  BusInv'
<1>1. comm' \in CommType /\ comm' # NoComm
  BY CommNotNone
<1>2. TypeOK'
  BY <1>1 DEF BusInv, TypeOK, NodeType
<1>3. Separate'
  BY <1>1 DEF BusInv, Separate
<1>4. Space'
  BY <1>1 DEF BusInv, Space
<1>5. ListsInjective' /\ DevicesMatch'
  BY DEF BusInv, ListsInjective, DevicesMatch
<1>6. CommFits'
  <2>1. OldStays(comm, devices) /\ Fits(GivenIds(comm), comm.old, elementIds, elementCount)
    BY DEF BusInv, CommFits
  <2>2. EndpointIds(c) = EndpointIds(comm)
    BY DEF EndpointIds
  <2>3. GivenIds(c) = GivenIds(comm)
    BY <2>2 DEF GivenIds
  <2>4. OldStays(c, devices)
    BY <2>1 DEF OldStays
  <2>5. Fits(GivenIds(c), c.old, elementIds, elementCount)
    BY <2>1, <2>3
  <2>6. OldStays(comm', devices') /\ Fits(GivenIds(comm'), comm'.old, elementIds', elementCount')
    BY <2>4, <2>5
  <2> QED
    BY <2>6 DEF CommFits
<1> QED
  BY <1>2, <1>3, <1>4, <1>5, <1>6 DEF BusInv

LEMMA AddBackType ==
  ASSUME NEW queue \in Seq(Requests), NEW element \in Requests
  PROVE  addBack(queue, element) \in Seq(Requests)
<1>1. Len(queue) >= QueueLength => Tail(queue) \in Seq(Requests)
  <2>1. QueueLength \in Nat \ {0} /\ (queue = << >> => Len(queue) = 0)
    BY BusAssumption
  <2> QED
    BY <2>1
<1>2. Len(queue) < QueueLength \/ Len(queue) >= QueueLength
  BY BusAssumption
<1> QED
  BY <1>1, <1>2 DEF addBack

LEMMA RequestedKeeps ==
  ASSUME BusInv, Requested
  PROVE  BusInv'
<1>1. /\ comm.pc = "request" /\ comm' = [comm EXCEPT !.pc = "wait"]
      /\ UNCHANGED <<storage, writes, devices, elementIds, elementCount, commissioning, erasing>>
  BY DEF Requested, ram
<1>2. comm \in CommType /\ comm # NoComm
  BY <1>1, CommKnown
<1>3. /\ comm' \in CommType /\ comm'.pc = "wait" /\ comm'.device = comm.device /\ comm'.old = comm.old
      /\ comm'.endpoints = comm.endpoints /\ comm'.attribute = comm.attribute
      /\ comm'.id = comm.id /\ comm'.plugs = comm.plugs
  BY <1>1, <1>2 DEF CommType
<1>4. node' \in NodeType
  <2> DEFINE r == [index |-> Index(comm), attribute |-> comm.attribute]
             new(m) == IF node[m].address # comm.device - 1 THEN node[m]
                       ELSE [node[m] EXCEPT !.requests = addBack(@, r)]
  <2>1. r \in Requests
    <3>1. Index(comm) \in Nat /\ comm.attribute \in {"plugs", "name"}
      BY <1>2 DEF CommType, Index
    <3> QED
      BY <3>1 DEF Requests
  <2> HIDE DEF r
  <2>2. ASSUME NEW m \in Nodes
        PROVE  new(m) \in [address : (0..LAST_ADDRESS) \cup {None}, requests : Seq(Requests)]
    <3>1. node[m] \in [address : (0..LAST_ADDRESS) \cup {None}, requests : Seq(Requests)]
      BY DEF BusInv, TypeOK
    <3>2. addBack(node[m].requests, r) \in Seq(Requests)
      BY <2>1, <3>1, AddBackType
    <3> QED
      BY <3>1, <3>2
  <2>3. node' = [m \in Nodes |-> new(m)]
    BY DEF Requested, r
  <2> HIDE DEF new
  <2> QED
    BY <2>2, <2>3 DEF NodeType
<1> QED
  BY <1>1, <1>2, <1>3, <1>4, WaitKeeps

LEMMA FitsOld ==
  ASSUME NEW given \in Seq(ElementIds), NEW old \in Seq(ElementIds), NEW ids \in Seq(ElementIds),
         NEW count \in 0..Len(ids), Fits(given, old, ids, count),
         NEW x \in ElementIds, Len(given) < Len(old), x = old[Len(given) + 1],
         NEW more, more = Append(given, x)
  PROVE  Fits(more, old, ids, count)
<1>1. /\ Len(more) = Len(given) + 1 /\ more[Len(given) + 1] = x
      /\ \A k \in 1..Len(given) : more[k] = given[k]
  BY AppendProperties
<1>2. Len(given) \in Nat /\ Len(old) \in Nat /\ Len(ids) \in Nat
  OBVIOUS
<1>3. Len(ids) = count /\ \A k \in 1..Len(given) : given[k] = old[k]
  BY <1>2 DEF Fits
<1>4. ~(Len(more) > Len(old))
  BY <1>1, <1>2
<1>5. ASSUME NEW k \in 1..Len(more)
      PROVE  k <= Len(old) /\ more[k] = old[k]
  <2>1. CASE k = Len(given) + 1
    BY <2>1, <1>1, <1>2
  <2>2. CASE k # Len(given) + 1
    <3>1. k \in 1..Len(given)
      BY <2>2, <1>1, <1>2
    <3> QED
      BY <3>1, <1>1, <1>2, <1>3
  <2> QED
    BY <2>1, <2>2
<1>6. Len(ids) = count + IF Len(more) > Len(old) THEN Len(more) - Len(old) ELSE 0
  BY <1>2, <1>3, <1>4
<1> QED
  BY <1>5, <1>6 DEF Fits

LEMMA FitsNew ==
  ASSUME NEW given \in Seq(ElementIds), NEW old \in Seq(ElementIds), NEW ids \in Seq(ElementIds),
         NEW count \in 0..Len(ids), Fits(given, old, ids, count),
         NEW x \in ElementIds, Len(given) >= Len(old),
         NEW more, more = Append(given, x), NEW cells, cells = Append(ids, x)
  PROVE  Fits(more, old, cells, count)
<1>1. /\ Len(more) = Len(given) + 1 /\ more[Len(given) + 1] = x
      /\ \A k \in 1..Len(given) : more[k] = given[k]
  BY AppendProperties
<1>2. /\ Len(cells) = Len(ids) + 1 /\ cells[Len(ids) + 1] = x
      /\ \A k \in 1..Len(ids) : cells[k] = ids[k]
  BY AppendProperties
<1>3. Len(given) \in Nat /\ Len(old) \in Nat /\ Len(ids) \in Nat
  OBVIOUS
<1>4. Len(ids) = count + Len(given) - Len(old)
  <2>1. Len(ids) = count + IF Len(given) > Len(old) THEN Len(given) - Len(old) ELSE 0
    BY DEF Fits
  <2>2. count \in Nat
    BY <1>3
  <2>3. \A g, o, n, m \in Nat :
          g >= o /\ n = m + (IF g > o THEN g - o ELSE 0) => n = m + g - o
    OBVIOUS
  <2> QED
    BY <1>3, <2>1, <2>2, <2>3
<1>5. ASSUME NEW k \in 1..Len(more)
      PROVE  more[k] = IF k <= Len(old) THEN old[k] ELSE cells[count + k - Len(old)]
  <2>1. CASE k = Len(given) + 1
    <3>1. ~(k <= Len(old)) /\ count + k - Len(old) = Len(ids) + 1
      BY <2>1, <1>3, <1>4
    <3> QED
      BY <2>1, <3>1, <1>1, <1>2
  <2>2. CASE k # Len(given) + 1
    <3>1. k \in 1..Len(given)
      BY <2>2, <1>1, <1>3
    <3>2. given[k] = IF k <= Len(old) THEN old[k] ELSE ids[count + k - Len(old)]
      BY <3>1 DEF Fits
    <3>3. ~(k <= Len(old)) => count + k - Len(old) \in 1..Len(ids)
      BY <3>1, <1>3, <1>4
    <3>4. more[k] = given[k]
      BY <3>1, <1>1
    <3> QED
      BY <3>2, <3>3, <3>4, <1>2
  <2> QED
    BY <2>1, <2>2
<1>6. Len(cells) = count + IF Len(more) > Len(old) THEN Len(more) - Len(old) ELSE 0
  BY <1>1, <1>2, <1>3, <1>4
<1> QED
  BY <1>5, <1>6 DEF Fits

\* the id for a new element
LEMMA FreshId ==
  ASSUME NEW ids \in Seq(ElementIds), Len(ids) < MAX_ELEMENT_COUNT
  PROVE  allocateId(ids) \in ElementIds /\ allocateId(ids) \notin ToSet(ids)
<1> DEFINE used == ToSet(ids)
           N == Cardinality(used)
<1>1. ElementIds \subseteq Nat /\ MAX_ELEMENT_COUNT \in Nat
  BY BusAssumption DEF ElementIds
<1>2. used \subseteq ElementIds /\ IsFiniteSet(used) /\ N <= Len(ids)
  BY RangeCardinality
<1>3. N \in Nat
  BY <1>2, FS_CardinalityType
<1>4. used \subseteq Nat
  BY <1>1, <1>2
<1> HIDE DEF used
<1>5. FirstFree(used) \in 1..N + 1 /\ FirstFree(used) \notin used
  BY <1>2, <1>4, FirstFreeFacts
<1>6. allocateId(ids) = FirstFree(used)
  BY DEF allocateId, used
<1> HIDE DEF N
<1>7. Len(ids) \in Nat
  OBVIOUS
<1>8. FirstFree(used) \in 1..MAX_ELEMENT_COUNT
  BY <1>1, <1>2, <1>3, <1>5, <1>7
<1> QED
  BY <1>5, <1>6, <1>8 DEF ElementIds, used

LEMMA GotPlugsKeeps ==
  ASSUME BusInv, comm.pc = "wait", comm.attribute = "plugs", NEW p \in PlugsType, GotPlugs(p),
         UNCHANGED <<storage, commissioning, erasing>>, node' \in NodeType
  PROVE  BusInv'
<1> DEFINE reuse == OldIds(comm) # << >>
           id == IF reuse THEN Head(OldIds(comm)) ELSE allocateId(elementIds)
           named == [comm EXCEPT !.plugs = p, !.id = id]
           c == [named EXCEPT !.pc = "request", !.attribute = "name", !.retry = 0]
           given == EndpointIds(comm)
           more == Append(given, id)
<1>1. /\ comm' = c /\ elementIds' = (IF reuse THEN elementIds ELSE Append(elementIds, id))
      /\ UNCHANGED <<storage, writes, devices, elementCount, commissioning, erasing>>
  BY DEF GotPlugs, Request
<1>2. /\ comm \in CommType /\ comm # NoComm /\ OldStays(comm, devices)
      /\ Fits(GivenIds(comm), comm.old, elementIds, elementCount)
  BY CommKnown
<1>3. comm.old \in Seq(ElementIds) /\ comm.endpoints \in Seq(Endpoints)
  BY <1>2 DEF CommType
<1>4. /\ elementIds \in Seq(ElementIds) /\ elementCount \in 0..Len(elementIds)
      /\ IsInjective(elementIds) /\ devices \in Seq(Devices)
  BY DEF BusInv, TypeOK, ListsInjective
<1>5. /\ reuse <=> ~(Len(comm.old) <= Len(comm.endpoints))
      /\ reuse => Head(OldIds(comm)) = comm.old[Len(comm.endpoints) + 1]
  BY <1>3, OldIdsFacts
<1>6. given \in Seq(ElementIds) /\ Len(given) = Len(comm.endpoints)
  BY <1>3, EndpointIdsFacts
<1>7. Fits(given, comm.old, elementIds, elementCount)
  BY <1>2 DEF GivenIds
<1>8. ~reuse => Len(elementIds) < MAX_ELEMENT_COUNT
  BY <1>2, <1>5 DEF BusInv, Space
<1> HIDE DEF given, reuse
<1>9. id \in ElementIds /\ (~reuse => id \notin ToSet(elementIds))
  <2>1. CASE reuse
    <3>1. Len(comm.endpoints) + 1 \in 1..Len(comm.old)
      BY <2>1, <1>3, <1>5
    <3> QED
      BY <2>1, <3>1, <1>3, <1>5
  <2>2. CASE ~reuse
    BY <2>2, <1>4, <1>8, FreshId
  <2> QED
    BY <2>1, <2>2
<1>10. reuse => id = comm.old[Len(given) + 1] /\ Len(given) < Len(comm.old)
  BY <1>3, <1>5, <1>6
<1> HIDE DEF id
<1>11. c \in CommType
  <2>1. named \in CommType
    <3>1. id \in 0..MAX_ELEMENT_COUNT
      BY <1>9, BusAssumption DEF ElementIds
    <3> QED
      BY <1>2, <3>1 DEF CommType
  <2> HIDE DEF named
  <2> QED
    BY <2>1, AskType
<1>12. /\ c.pc = "request" /\ c.attribute = "name" /\ c.id = id /\ c.plugs = p /\ c.old = comm.old
       /\ c.endpoints = comm.endpoints /\ c.device = comm.device
  BY <1>2 DEF CommType
<1>13. c # NoComm
  BY <1>11, CommNotNone
<1> HIDE DEF c
<1>14. /\ elementIds' \in Seq(ElementIds) /\ IsInjective(elementIds')
       /\ Len(elementIds') >= Len(elementIds)
       /\ \A k \in 1..Len(elementIds) : elementIds'[k] = elementIds[k]
  <2>1. CASE reuse
    BY <1>1, <1>4, <2>1
  <2>2. CASE ~reuse
    <3> DEFINE ids == Append(elementIds, id)
    <3>1. elementIds' = ids
      BY <1>1, <2>2
    <3>2. ids \in Seq(ElementIds) /\ Appended(ids, elementIds, id)
      BY <2>2, <1>4, <1>9, AppendFresh
    <3> HIDE DEF ids
    <3> QED
      BY <3>1, <3>2, <1>4 DEF Appended
  <2> QED
    BY <2>1, <2>2
<1>15. Fits(more, comm.old, elementIds', elementCount)
  <2>1. CASE reuse
    <3>1. Fits(more, comm.old, elementIds, elementCount)
      BY <2>1, <1>3, <1>4, <1>6, <1>7, <1>9, <1>10, FitsOld
    <3> QED
      BY <1>1, <2>1, <3>1
  <2>2. CASE ~reuse
    <3>1. Len(given) >= Len(comm.old)
      BY <2>2, <1>3, <1>5, <1>6
    <3>2. Fits(more, comm.old, Append(elementIds, id), elementCount)
      BY <3>1, <1>3, <1>4, <1>6, <1>7, <1>9, FitsNew
    <3> QED
      BY <1>1, <2>2, <3>2
  <2> QED
    BY <2>1, <2>2
<1>16. GivenIds(c) = more
  <2>1. EndpointIds(c) = given
    BY <1>12 DEF EndpointIds, given
  <2> QED
    BY <1>12, <2>1 DEF GivenIds
<1> HIDE DEF more
<1>17. elementCount' \in 0..Len(elementIds')
  BY <1>1, <1>4, <1>14
<1>18. TypeOK'
  BY <1>1, <1>11, <1>14, <1>17 DEF BusInv, TypeOK, NodeType
<1>19. Separate'
  <2>1. commissioning /\ erasing = 0
    BY CommKnown
  <2> QED
    BY <1>1, <1>11, <1>13, <2>1 DEF Separate
<1>20. Space'
  BY <1>1, <1>9, <1>12 DEF Space
<1>21. ListsInjective'
  BY <1>1, <1>14 DEF BusInv, ListsInjective
<1>22. DevicesMatch'
  <2>1. \A k \in 1..elementCount : elementIds'[k] = elementIds[k]
    BY <1>4, <1>14
  <2>2. DeviceList(devices) /\ Listed(devices, elementIds, elementCount)
    BY DEF BusInv, DevicesMatch
  <2>3. Listed(devices, elementIds', elementCount)
    BY <2>1, <2>2 DEF Listed
  <2>4. devices' = devices /\ elementCount' = elementCount
    BY <1>1
  <2> QED
    BY <2>2, <2>3, <2>4 DEF DevicesMatch
<1>23. CommFits'
  <2>1. OldStays(c, devices)
    BY <1>2, <1>12 DEF OldStays
  <2>2. Fits(GivenIds(c), c.old, elementIds', elementCount)
    BY <1>12, <1>15, <1>16
  <2>3. OldStays(comm', devices') /\ Fits(GivenIds(comm'), comm'.old, elementIds', elementCount')
    BY <1>1, <2>1, <2>2
  <2> QED
    BY <2>3 DEF CommFits
<1> QED
  BY <1>18, <1>19, <1>20, <1>21, <1>22, <1>23 DEF BusInv

\* a commissioning that is about to ask for the next endpoint, or to end
Ripe(c) ==
  /\ c \in CommType
  /\ OldStays(c, devices)
  /\ Fits(EndpointIds(c), c.old, elementIds, elementCount)

LEMMA GotNameRipe ==
  ASSUME BusInv, comm.pc = "wait", comm.attribute = "name", GotName
  PROVE  \E c : Ripe(c) /\ NextEndpoint(c, elementIds)
<1> DEFINE endpoint == [id |-> comm.id, plugs |-> comm.plugs]
           all == Append(comm.endpoints, endpoint)
           c == [comm EXCEPT !.endpoints = all, !.plugs = None, !.id = 0]
<1>1. NextEndpoint(c, elementIds)
  BY DEF GotName
<1>2. /\ comm \in CommType /\ comm # NoComm /\ OldStays(comm, devices) /\ commissioning /\ erasing = 0
      /\ Fits(GivenIds(comm), comm.old, elementIds, elementCount)
      /\ comm.id \in ElementIds /\ comm.plugs \in PlugsType
  BY CommKnown
<1>3. endpoint \in Endpoints /\ comm.endpoints \in Seq(Endpoints)
  BY <1>2 DEF Endpoints, CommType
<1>4. endpoint.id = comm.id
  OBVIOUS
<1> HIDE DEF endpoint
<1>5. /\ all \in Seq(Endpoints) /\ Len(all) = Len(comm.endpoints) + 1
      /\ \A k \in 1..Len(comm.endpoints) : all[k] = comm.endpoints[k]
      /\ all[Len(comm.endpoints) + 1] = endpoint
  BY <1>3, AppendProperties
<1> HIDE DEF all
<1>6. c \in CommType
  <2>1. 0 \in 0..MAX_ELEMENT_COUNT
    BY BusAssumption
  <2> QED
    BY <1>2, <1>5, <2>1 DEF CommType
<1>7. c.endpoints = all /\ c.old = comm.old /\ c.device = comm.device
  BY <1>2 DEF CommType
<1> HIDE DEF c
<1>8. EndpointIds(c) = GivenIds(comm)
  <2> DEFINE ids == EndpointIds(c)
             given == EndpointIds(comm)
             more == Append(given, comm.id)
  <2>1. /\ ids \in Seq(ElementIds) /\ Len(ids) = Len(all)
        /\ \A k \in 1..Len(all) : ids[k] = all[k].id
    BY <1>5, <1>7, EndpointIdsFacts
  <2>2. /\ given \in Seq(ElementIds) /\ Len(given) = Len(comm.endpoints)
        /\ \A k \in 1..Len(comm.endpoints) : given[k] = comm.endpoints[k].id
    BY <1>3, EndpointIdsFacts
  <2> HIDE DEF ids, given
  <2>3. /\ more \in Seq(ElementIds) /\ Len(more) = Len(given) + 1
        /\ \A k \in 1..Len(given) : more[k] = given[k]
        /\ more[Len(given) + 1] = comm.id
    BY <1>2, <2>2, AppendProperties
  <2> HIDE DEF more
  <2>4. Len(comm.endpoints) \in Nat
    BY <1>3
  <2>5. ASSUME NEW k \in 1..Len(ids)
        PROVE  ids[k] = more[k]
    <3>1. CASE k = Len(given) + 1
      BY <3>1, <1>4, <1>5, <2>1, <2>2, <2>3
    <3>2. CASE k # Len(given) + 1
      <4>1. k \in 1..Len(given)
        BY <3>2, <1>5, <2>1, <2>2, <2>4
      <4> QED
        BY <4>1, <1>5, <2>1, <2>2, <2>3
    <3> QED
      BY <3>1, <3>2
  <2>6. Len(ids) = Len(more)
    BY <1>5, <2>1, <2>2, <2>3
  <2>7. ids = more
    BY <2>1, <2>3, <2>5, <2>6, SeqEqual
  <2> QED
    BY <2>7 DEF GivenIds, ids, given, more
<1>9. OldStays(c, devices)
  BY <1>2, <1>7 DEF OldStays
<1>10. Fits(EndpointIds(c), c.old, elementIds, elementCount)
  BY <1>2, <1>7, <1>8
<1> QED
  BY <1>1, <1>6, <1>9, <1>10 DEF Ripe

LEMMA GotNameKeeps ==
  ASSUME BusInv, writes = << >>, comm.pc = "wait", comm.attribute = "name", GotName,
         UNCHANGED <<storage, commissioning, erasing>>, node' \in NodeType
  PROVE  BusInv'
<1>1. PICK c : Ripe(c) /\ NextEndpoint(c, elementIds)
  BY GotNameRipe
<1>2. commissioning /\ erasing = 0
  BY CommKnown
<1> QED
  BY <1>1, <1>2, NextEndpointKeeps DEF Ripe

LEMMA AnswerKeeps ==
  ASSUME BusInv, NEW n \in Nodes, Answer(n)
  PROVE  BusInv'
<1> DEFINE request == Head(node[n].requests)
           plugs == IF request.attribute = "plugs" THEN Plugs(n, request.index) ELSE None
<1>1. /\ writes = << >> /\ erasing = 0 /\ node[n].requests # << >>
      /\ node' = [node EXCEPT ![n].requests = Tail(@)]
      /\ UNCHANGED <<storage, commissioning, erasing>>
  BY DEF Answer, Ready
<1>2. /\ node[n].requests \in Seq(Requests)
      /\ node[n] \in [address : (0..LAST_ADDRESS) \cup {None}, requests : Seq(Requests)]
      /\ node \in NodeType
  BY DEF BusInv, TypeOK, NodeType
<1>3. request \in Requests /\ Tail(node[n].requests) \in Seq(Requests)
  BY <1>1, <1>2
<1>4. node' \in NodeType
  <2> DEFINE new == [node[n] EXCEPT !.requests = Tail(@)]
  <2>1. new \in [address : (0..LAST_ADDRESS) \cup {None}, requests : Seq(Requests)]
    BY <1>2, <1>3
  <2>2. node' = [node EXCEPT ![n] = new]
    BY <1>1
  <2> HIDE DEF new
  <2> QED
    BY <1>2, <2>1, <2>2 DEF NodeType
<1>5. \/ UNCHANGED <<devices, elementIds, elementCount, comm, writes>>
      \/ /\ Expected(node[n].address, request)
         /\ \/ comm.attribute = "plugs" /\ GotPlugs(plugs)
            \/ comm.attribute # "plugs" /\ GotName
  BY DEF Answer, ram
<1>6. CASE UNCHANGED <<devices, elementIds, elementCount, comm, writes>>
  <2>1. TypeOK'
    BY <1>1, <1>4, <1>6 DEF BusInv, TypeOK, NodeType
  <2>2. Separate' /\ Space' /\ ListsInjective' /\ DevicesMatch' /\ CommFits'
    BY <1>1, <1>6 DEF BusInv, Separate, Space, ListsInjective, DevicesMatch, CommFits
  <2> QED
    BY <2>1, <2>2 DEF BusInv
<1>7. CASE /\ Expected(node[n].address, request)
           /\ comm.attribute = "plugs" /\ GotPlugs(plugs)
  <2>1. comm.pc = "wait" /\ request.attribute = "plugs"
    BY <1>7 DEF Expected
  <2>2. plugs \in PlugsType
    <3>1. request.index \in Nat
      BY <1>3 DEF Requests
    <3> HIDE DEF request
    <3> QED
      BY <2>1, <3>1 DEF Plugs, PlugsType
  <2> QED
    BY <1>1, <1>4, <1>7, <2>1, <2>2, GotPlugsKeeps
<1>8. CASE /\ Expected(node[n].address, request)
           /\ comm.attribute # "plugs" /\ GotName
  <2>1. comm.pc = "wait"
    BY <1>8 DEF Expected
  <2>2. comm.attribute = "name"
    <3>1. comm \in CommType
      BY <2>1, CommKnown
    <3> QED
      BY <1>8, <3>1 DEF CommType
  <2> QED
    BY <1>1, <1>4, <1>8, <2>1, <2>2, GotNameKeeps
<1> QED
  BY <1>5, <1>6, <1>7, <1>8

LEMMA TimeoutKeeps ==
  ASSUME BusInv, Timeout
  PROVE  BusInv'
<1>1. /\ writes = << >> /\ erasing = 0 /\ comm.pc = "wait"
      /\ UNCHANGED <<storage, commissioning, erasing, node>>
  BY DEF Timeout, Ready
<1>2. comm \in CommType /\ comm # NoComm
  BY <1>1, CommKnown
<1>3. node' \in NodeType /\ commissioning' \in BOOLEAN
  BY <1>1 DEF BusInv, TypeOK, NodeType
<1>4. \/ /\ comm.retry < MAX_RETRY
         /\ comm' = [comm EXCEPT !.pc = "request", !.retry = @ + 1]
         /\ UNCHANGED <<devices, elementIds, elementCount, writes>>
      \/ /\ comm' = NoComm
         /\ elementIds' = SubSeq(elementIds, 1, elementCount)
         /\ UNCHANGED <<devices, elementCount, writes>>
      \/ comm.attribute # "plugs" /\ GotName
  BY DEF Timeout, ram
<1>5. CASE /\ comm.retry < MAX_RETRY
           /\ comm' = [comm EXCEPT !.pc = "request", !.retry = @ + 1]
           /\ UNCHANGED <<devices, elementIds, elementCount, writes>>
  <2>1. comm.retry + 1 \in 0..MAX_RETRY
    BY <1>2, <1>5, BusAssumption DEF CommType
  <2> DEFINE R == 0..MAX_RETRY
             I == 0..MAX_ELEMENT_COUNT
  <2>2. CommType = [pc : {"join", "request", "wait"}, node : Nodes, device : DeviceIds,
          count : EndpointCounts, old : Seq(ElementIds), endpoints : Seq(Endpoints),
          plugs : PlugsType \cup {None}, id : I, attribute : {"plugs", "name"}, retry : R]
    BY DEF CommType
  <2> HIDE DEF R, I
  <2>3. comm.retry + 1 \in R
    BY <2>1 DEF R
  <2>4. /\ comm' \in CommType /\ comm'.pc = "request" /\ comm'.device = comm.device
        /\ comm'.old = comm.old /\ comm'.endpoints = comm.endpoints
        /\ comm'.attribute = comm.attribute /\ comm'.id = comm.id /\ comm'.plugs = comm.plugs
    BY <1>2, <1>5, <2>2, <2>3
  <2> QED
    BY <1>1, <1>2, <1>3, <1>5, <2>4, WaitKeeps
<1>6. CASE /\ comm' = NoComm
           /\ elementIds' = SubSeq(elementIds, 1, elementCount)
           /\ UNCHANGED <<devices, elementCount, writes>>
  BY <1>1, <1>3, <1>6, CancelKeeps
<1>7. CASE comm.attribute # "plugs" /\ GotName
  <2>1. comm.attribute = "name"
    BY <1>2, <1>7 DEF CommType
  <2> QED
    BY <1>1, <1>3, <1>7, <2>1, GotNameKeeps
<1> QED
  BY <1>4, <1>5, <1>6, <1>7

LEMMA SetCommissioningKeeps ==
  ASSUME BusInv, NEW enabled \in BOOLEAN, setCommissioning(enabled)
  PROVE  BusInv'
<1>1. /\ erasing = 0 /\ commissioning' \in BOOLEAN /\ node' \in NodeType
      /\ UNCHANGED <<storage, writes, devices, elementCount, erasing, node>>
  BY DEF setCommissioning, Ready, BusInv, TypeOK, NodeType
<1>2. \/ commissioning' /\ UNCHANGED <<comm, elementIds>>
      \/ comm' = NoComm /\ elementIds' = SubSeq(elementIds, 1, elementCount)
  BY DEF setCommissioning
<1>3. CASE commissioning' /\ UNCHANGED <<comm, elementIds>>
  <2>1. TypeOK'
    BY <1>1, <1>3 DEF BusInv, TypeOK, NodeType
  <2>2. Separate' /\ Space' /\ ListsInjective' /\ DevicesMatch' /\ CommFits'
    BY <1>1, <1>3 DEF BusInv, Separate, Space, ListsInjective, DevicesMatch, CommFits
  <2> QED
    BY <2>1, <2>2 DEF BusInv
<1>4. CASE comm' = NoComm /\ elementIds' = SubSeq(elementIds, 1, elementCount)
  BY <1>1, <1>4, CancelKeeps
<1> QED
  BY <1>2, <1>3, <1>4

LEMMA EraseCallKeeps ==
  ASSUME BusInv, NEW k \in 1..elementCount, erase(elementIds[k])
  PROVE  BusInv'
<1>1. /\ ~commissioning /\ erasing' = elementIds[k]
      /\ UNCHANGED <<storage, writes, devices, elementIds, elementCount, commissioning, comm, node>>
  BY DEF erase, ram
<1>2. elementIds[k] \in ElementIds
  BY DEF BusInv, TypeOK
<1>3. TypeOK'
  BY <1>1, <1>2 DEF BusInv, TypeOK
<1>4. Separate' /\ Space' /\ ListsInjective' /\ DevicesMatch' /\ CommFits'
  BY <1>1 DEF BusInv, Separate, Space, ListsInjective, DevicesMatch, CommFits
<1> QED
  BY <1>3, <1>4 DEF BusInv

LEMMA PowerFailKeeps ==
  ASSUME BusInv, PowerFail
  PROVE  BusInv'
<1> DEFINE l == Load(storage)
<1>1. /\ devices' = l.devices /\ elementIds' = l.ids /\ elementCount' = Len(l.ids)
      /\ writes' = << >> /\ commissioning' = FALSE /\ comm' = NoComm /\ erasing' = 0
      /\ UNCHANGED <<storage, node>>
  BY DEF PowerFail
<1>2. storage \in StorageType /\ IsInjective(storage.list)
  BY DEF BusInv, TypeOK, ListsInjective
<1>3. l \in LoadState /\ Consistent(l)
  BY <1>2, LoadFacts
<1> HIDE DEF l
<1>4. l.ids \in Seq(ElementIds) /\ l.devices \in Seq(Devices)
  BY <1>3 DEF LoadState
<1>5. Len(l.ids) \in 0..Len(l.ids)
  BY <1>4
<1>6. TypeOK'
  <2>1. /\ storage' \in StorageType /\ << >> \in Seq(WriteType) /\ devices' \in Seq(Devices)
        /\ elementIds' \in Seq(ElementIds) /\ elementCount' \in 0..Len(elementIds')
    BY <1>1, <1>2, <1>4, <1>5
  <2>2. node' \in NodeType
    BY <1>1 DEF BusInv, TypeOK, NodeType
  <2> QED
    BY <1>1, <2>1, <2>2 DEF TypeOK, NodeType
<1>7. Separate' /\ Space' /\ CommFits'
  BY <1>1 DEF Separate, Space, CommFits
<1>8. ListsInjective' /\ DevicesMatch'
  BY <1>1, <1>2, <1>3 DEF ListsInjective, DevicesMatch, Consistent
<1> QED
  BY <1>6, <1>7, <1>8 DEF BusInv

-----------------------------------------------------------------------------
(* Erasing *)

\* without the first endpoint of the first device, every device of new is a places
\* further in list
First(m) == IF m = 1 THEN 1 ELSE 0

Shifted(new, list, a) ==
  /\ \A n \in DOMAIN new :
       /\ n + a \in DOMAIN list /\ new[n].id = list[n + a].id /\ new[n].endpoints # << >>
       /\ \A j \in DOMAIN new[n].endpoints :
            /\ j + First(n + a) \in DOMAIN list[n + a].endpoints
            /\ new[n].endpoints[j].id = list[n + a].endpoints[j + First(n + a)].id
  /\ \A m \in DOMAIN list : \A i \in DOMAIN list[m].endpoints :
       \/ m = 1 /\ i = 1
       \/ /\ m - a \in DOMAIN new
          /\ i - First(m) \in DOMAIN new[m - a].endpoints
          /\ new[m - a].endpoints[i - First(m)].id = list[m].endpoints[i].id

LEMMA ShiftedDevices ==
  ASSUME NEW list \in Seq(Devices), DeviceList(list), NEW new \in Seq(Devices), NEW a \in {0, 1},
         Shifted(new, list, a)
  PROVE  DeviceList(new)
<1>1. DOMAIN new \subseteq Nat
  BY LenProperties
<1>2. ASSUME NEW n \in DOMAIN new
      PROVE  DOMAIN new[n].endpoints \subseteq Nat
  <2>1. new[n].endpoints \in Seq(Endpoints)
    <3>1. new[n] \in Devices
      OBVIOUS
    <3> QED
      BY <3>1 DEF Devices
  <2> QED
    BY <2>1
<1>3. \A n \in DOMAIN new : new[n].endpoints # << >>
  BY DEF Shifted
<1>4. ASSUME NEW m \in DOMAIN new, NEW n \in DOMAIN new, new[m].id = new[n].id
      PROVE  m = n
  <2>1. m + a = n + a
    BY <1>4 DEF Shifted, DeviceList
  <2> QED
    BY <1>1, <2>1
<1>5. ASSUME NEW m \in DOMAIN new, NEW n \in DOMAIN new,
             NEW j \in DOMAIN new[m].endpoints, NEW k \in DOMAIN new[n].endpoints,
             new[m].endpoints[j].id = new[n].endpoints[k].id
      PROVE  m = n /\ j = k
  <2>1. /\ m + a \in DOMAIN list /\ j + First(m + a) \in DOMAIN list[m + a].endpoints
        /\ new[m].endpoints[j].id = list[m + a].endpoints[j + First(m + a)].id
    BY DEF Shifted
  <2>2. /\ n + a \in DOMAIN list /\ k + First(n + a) \in DOMAIN list[n + a].endpoints
        /\ new[n].endpoints[k].id = list[n + a].endpoints[k + First(n + a)].id
    BY DEF Shifted
  <2>3. m + a = n + a /\ j + First(m + a) = k + First(n + a)
    <3> DEFINE M == m + a
               N == n + a
               J == j + First(m + a)
               K == k + First(n + a)
    <3>1. /\ M \in DOMAIN list /\ N \in DOMAIN list
          /\ J \in DOMAIN list[M].endpoints /\ K \in DOMAIN list[N].endpoints
          /\ list[M].endpoints[J].id = list[N].endpoints[K].id
      BY <1>5, <2>1, <2>2
    <3> HIDE DEF M, N, J, K
    <3>2. M = N /\ J = K
      BY <3>1 DEF DeviceList, Apart
    <3> QED
      BY <3>2 DEF M, N, J, K
  <2>4. m = n
    BY <1>1, <2>3
  <2>5. First(m + a) \in Nat /\ j \in Nat /\ k \in Nat
    BY <1>2 DEF First
  <2> QED
    BY <2>3, <2>4, <2>5
<1> QED
  BY <1>3, <1>4, <1>5 DEF DeviceList, Apart

LEMMA ShiftedListed ==
  ASSUME NEW list \in Seq(Devices), DeviceList(list), NEW new \in Seq(Devices), NEW a \in {0, 1},
         Shifted(new, list, a), 1 \in DOMAIN list, 1 \in DOMAIN list[1].endpoints,
         NEW ids \in Seq(ElementIds), Listed(list, ids, Len(ids)), NEW id,
         id = list[1].endpoints[1].id, NEW kept, kept = WithoutIds(ids, {id})
  PROVE  Listed(new, kept, Len(kept))
<1> DEFINE gone == {id}
<1>0. kept = WithoutIds(ids, gone) /\ \A x : x \in gone <=> x = id
  OBVIOUS
<1> HIDE DEF gone
<1>1. /\ kept \in Seq(ElementIds)
      /\ \A k \in 1..Len(kept) : \E n \in 1..Len(ids) : ids[n] \notin gone /\ kept[k] = ids[n]
      /\ \A n \in 1..Len(ids) : ids[n] \notin gone => \E k \in 1..Len(kept) : kept[k] = ids[n]
  <2> DEFINE places == {n \in DOMAIN ids : ids[n] \notin gone}
  <2>1. kept = Keep(ids, places)
    BY <1>0 DEF WithoutIds
  <2>2. \A n \in 1..Len(ids) : n \in places <=> ids[n] \notin gone
    OBVIOUS
  <2> HIDE DEF places
  <2>3. kept \in Seq(ElementIds) /\ KeptFrom(kept, ids, places)
    BY <2>1, KeepFacts
  <2> QED
    BY <2>2, <2>3 DEF KeptFrom
<1>2. ASSUME NEW k \in 1..Len(kept)
      PROVE  \E n \in DOMAIN new : \E j \in DOMAIN new[n].endpoints : new[n].endpoints[j].id = kept[k]
  <2>1. PICK o \in 1..Len(ids) : ids[o] # id /\ kept[k] = ids[o]
    BY <1>0, <1>1
  <2>2. PICK m \in DOMAIN list : \E i \in DOMAIN list[m].endpoints : list[m].endpoints[i].id = ids[o]
    BY DEF Listed
  <2>3. PICK i \in DOMAIN list[m].endpoints : list[m].endpoints[i].id = ids[o]
    BY <2>2
  <2>4. ~(m = 1 /\ i = 1)
    BY <2>1, <2>3
  <2>5. /\ m - a \in DOMAIN new
        /\ i - First(m) \in DOMAIN new[m - a].endpoints
        /\ new[m - a].endpoints[i - First(m)].id = list[m].endpoints[i].id
    BY <2>4 DEF Shifted
  <2> QED
    BY <2>1, <2>3, <2>5
<1>3. ASSUME NEW n \in DOMAIN new, NEW j \in DOMAIN new[n].endpoints
      PROVE  \E k \in 1..Len(kept) : new[n].endpoints[j].id = kept[k]
  <2>1. /\ n + a \in DOMAIN list /\ j + First(n + a) \in DOMAIN list[n + a].endpoints
        /\ new[n].endpoints[j].id = list[n + a].endpoints[j + First(n + a)].id
    BY DEF Shifted
  <2>2. PICK o \in 1..Len(ids) : list[n + a].endpoints[j + First(n + a)].id = ids[o]
    BY <2>1 DEF Listed
  <2>3. ids[o] # id
    <3>1. SUFFICES ASSUME ids[o] = id
                   PROVE  FALSE
      OBVIOUS
    <3>2. n + a = 1 /\ j + First(n + a) = 1
      BY <2>1, <2>2, <3>1 DEF DeviceList, Apart
    <3>3. j \in Nat /\ j >= 1
      <4>1. new[n].endpoints \in Seq(Endpoints)
        <5>1. new[n] \in Devices
          OBVIOUS
        <5> QED
          BY <5>1 DEF Devices
      <4> QED
        BY <4>1
    <3> QED
      BY <3>2, <3>3 DEF First
  <2>4. \E k \in 1..Len(kept) : kept[k] = ids[o]
    BY <1>0, <1>1, <2>3
  <2> QED
    BY <2>1, <2>2, <2>4
<1> QED
  BY <1>2, <1>3 DEF Listed

LEMMA IsSequence ==
  ASSUME NEW S, NEW n \in Nat, NEW f, f = [k \in 1..n |-> f[k]], \A k \in 1..n : f[k] \in S
  PROVE  f \in Seq(S)
OBVIOUS

LEMMA WithEndpoints ==
  ASSUME NEW d \in Devices, NEW left \in Seq(Endpoints)
  PROVE  /\ [d EXCEPT !.endpoints = left] \in Devices
         /\ [d EXCEPT !.endpoints = left].id = d.id
         /\ [d EXCEPT !.endpoints = left].endpoints = left
BY DEF Devices

\* the devices when the first endpoint of the first one goes
LEMMA ErasedShifted ==
  ASSUME NEW list \in Seq(Devices), DeviceList(list), list # << >>, NEW left,
         left = Tail(list[1].endpoints), NEW new,
         new = IF left = << >> THEN Tail(list) ELSE [list EXCEPT ![1].endpoints = left]
  PROVE  new \in Seq(Devices) /\ \E a \in {0, 1} : Shifted(new, list, a)
<1>1. /\ DOMAIN list = 1..Len(list) /\ Len(list) \in Nat /\ 1 \in DOMAIN list
      /\ \A n \in DOMAIN list : list[n] \in Devices /\ list[n].endpoints # << >>
  BY DEF DeviceList
<1> DEFINE es == list[1].endpoints
<1>2. es \in Seq(Endpoints) /\ es # << >>
  BY <1>1 DEF Devices
<1> HIDE DEF es
<1>3. left = Tail(es)
  BY DEF es
<1>4. /\ DOMAIN es = 1..Len(es) /\ Len(es) \in Nat \ {0}
      /\ left \in Seq(Endpoints) /\ Len(left) = Len(es) - 1
      /\ \A j \in 1..Len(left) : left[j] = es[j + 1]
  <2>1. DOMAIN es = 1..Len(es) /\ Len(es) \in Nat \ {0}
    BY <1>2, EmptySeq
  <2>2. /\ Tail(es) \in Seq(Endpoints) /\ Len(Tail(es)) = Len(es) - 1
        /\ \A j \in 1..Len(Tail(es)) : Tail(es)[j] = es[j + 1]
    BY <1>2, HeadTailProperties
  <2> QED
    BY <1>3, <2>1, <2>2
<1>5. DOMAIN left = 1..Len(left) /\ (left = << >> <=> Len(left) = 0)
  <2>1. left \in Seq(Endpoints)
    BY <1>4
  <2> HIDE DEF es
  <2>2. left = << >> => Len(left) = 0
    OBVIOUS
  <2>3. left # << >> => Len(left) # 0
    BY <2>1, EmptySeq
  <2>4. DOMAIN left = 1..Len(left)
    BY <2>1, LenProperties
  <2> QED
    BY <2>2, <2>3, <2>4
<1>6. CASE left = << >>
  <2>1. /\ new \in Seq(Devices) /\ Len(new) = Len(list) - 1
        /\ \A n \in 1..Len(new) : new[n] = list[n + 1]
    BY <1>6, HeadTailProperties
  <2>2. DOMAIN new = 1..Len(list) - 1
    BY <2>1
  <2>3. ASSUME NEW n \in DOMAIN new
        PROVE  /\ n + 1 \in DOMAIN list /\ new[n] = list[n + 1] /\ First(n + 1) = 0
    <3>1. n \in 1..Len(list) - 1
      BY <2>2
    <3>2. n + 1 \in 1..Len(list) /\ n + 1 # 1 /\ n \in 1..Len(new)
      <4>1. Len(list) \in Nat /\ Len(new) = Len(list) - 1
        BY <1>1, <2>1
      <4> QED
        BY <3>1, <4>1
    <3> QED
      BY <1>1, <2>1, <3>2 DEF First
  <2>4. ASSUME NEW m \in DOMAIN list, NEW i \in DOMAIN list[m].endpoints, ~(m = 1 /\ i = 1)
        PROVE  m - 1 \in DOMAIN new /\ new[m - 1] = list[m] /\ First(m) = 0
    <3>1. m # 1
      <4>1. SUFFICES ASSUME m = 1
                     PROVE  FALSE
        OBVIOUS
      <4>2. Len(es) = 1
        <5>1. Len(left) = 0
          BY <1>5, <1>6
        <5> QED
          BY <1>4, <5>1
      <4>3. i \in 1..Len(es)
        BY <1>4, <4>1 DEF es
      <4> QED
        BY <2>4, <4>1, <4>2, <4>3
    <3>2. m \in 1..Len(list) /\ m - 1 \in 1..Len(list) - 1 /\ m - 1 + 1 = m
      BY <1>1, <3>1
    <3> QED
      BY <2>1, <2>2, <3>1, <3>2 DEF First
  <2>5. ASSUME NEW n \in DOMAIN new
        PROVE  /\ n + 1 \in DOMAIN list /\ new[n].id = list[n + 1].id /\ new[n].endpoints # << >>
               /\ \A j \in DOMAIN new[n].endpoints :
                    /\ j + First(n + 1) \in DOMAIN list[n + 1].endpoints
                    /\ new[n].endpoints[j].id = list[n + 1].endpoints[j + First(n + 1)].id
    <3> DEFINE m == n + 1
    <3>1. m \in DOMAIN list /\ new[n] = list[m] /\ First(m) = 0
      BY <2>3
    <3> HIDE DEF m
    <3>2. list[m].endpoints \in Seq(Endpoints) /\ list[m].endpoints # << >>
      BY <1>1, <3>1 DEF Devices
    <3>3. \A j \in DOMAIN list[m].endpoints : j + 0 = j
      BY <3>2
    <3>4. /\ m \in DOMAIN list /\ new[n].id = list[m].id /\ new[n].endpoints # << >>
          /\ \A j \in DOMAIN new[n].endpoints :
               /\ j + First(m) \in DOMAIN list[m].endpoints
               /\ new[n].endpoints[j].id = list[m].endpoints[j + First(m)].id
      BY <3>1, <3>2, <3>3
    <3> QED
      BY <3>4 DEF m
  <2>6. ASSUME NEW m \in DOMAIN list, NEW i \in DOMAIN list[m].endpoints, ~(m = 1 /\ i = 1)
        PROVE  /\ m - 1 \in DOMAIN new
               /\ i - First(m) \in DOMAIN new[m - 1].endpoints
               /\ new[m - 1].endpoints[i - First(m)].id = list[m].endpoints[i].id
    <3>1. i - 0 = i
      <4>1. list[m].endpoints \in Seq(Endpoints)
        BY <1>1 DEF Devices
      <4>2. i \in Int
        BY <4>1
      <4> QED
        BY <4>2
    <3> QED
      BY <2>4, <2>6, <3>1
  <2>7. Shifted(new, list, 1)
    BY <2>5, <2>6 DEF Shifted
  <2> QED
    BY <2>1, <2>7
<1>7. CASE left # << >>
  <2>1. new = [list EXCEPT ![1].endpoints = left]
    BY <1>7
  <2>2. /\ DOMAIN new = DOMAIN list
        /\ \A n \in DOMAIN list : n # 1 => new[n] = list[n]
        /\ new[1] = [list[1] EXCEPT !.endpoints = left]
    BY <1>1, <2>1
  <2>3. new[1] \in Devices /\ new[1].id = list[1].id /\ new[1].endpoints = left
    <3> DEFINE d == list[1]
               e == [d EXCEPT !.endpoints = left]
    <3>1. d \in Devices /\ left \in Seq(Endpoints)
      BY <1>1, <1>4
    <3>2. new[1] = e
      BY <2>2
    <3> HIDE DEF d
    <3>3. e \in Devices /\ e.id = d.id /\ e.endpoints = left
      BY <3>1, WithEndpoints, Zenon
    <3> HIDE DEF e
    <3> QED
      BY <3>2, <3>3 DEF d
  <2>4. new \in Seq(Devices)
    <3>1. \A n \in 1..Len(list) : new[n] \in Devices
      BY <1>1, <2>2, <2>3
    <3>2. new = [n \in 1..Len(list) |-> new[n]]
      BY <1>1, <2>1
    <3>3. Len(list) \in Nat
      BY <1>1
    <3> QED
      BY <3>1, <3>2, <3>3, IsSequence
  <2>5. \A n \in DOMAIN list : n \in Int /\ n + 0 = n /\ n - 0 = n
    BY <1>1
  <2>6. \A n \in DOMAIN list : DOMAIN list[n].endpoints \subseteq Int
    BY <1>1 DEF Devices
  <2>7. ASSUME NEW n \in DOMAIN new
        PROVE  /\ n + 0 \in DOMAIN list /\ new[n].id = list[n + 0].id /\ new[n].endpoints # << >>
               /\ \A j \in DOMAIN new[n].endpoints :
                    /\ j + First(n + 0) \in DOMAIN list[n + 0].endpoints
                    /\ new[n].endpoints[j].id = list[n + 0].endpoints[j + First(n + 0)].id
    <3>1. CASE n = 1
      <4>1. ASSUME NEW j \in DOMAIN left
            PROVE  j + 1 \in DOMAIN es /\ left[j] = es[j + 1]
        <5>1. j \in 1..Len(left)
          BY <1>5
        <5>2. j + 1 \in 1..Len(es)
          BY <1>4, <5>1
        <5> QED
          BY <1>4, <5>1, <5>2
      <4>2. First(n + 0) = 1 /\ n + 0 = 1
        BY <3>1 DEF First
      <4> QED
        BY <1>1, <1>7, <2>2, <2>3, <3>1, <4>1, <4>2 DEF es
    <3>2. CASE n # 1
      <4>1. First(n + 0) = 0 /\ n + 0 = n /\ new[n] = list[n]
        BY <2>2, <2>5, <3>2 DEF First
      <4>2. \A j \in DOMAIN list[n].endpoints : j + 0 = j
        BY <2>2, <2>6
      <4> QED
        BY <1>1, <2>2, <4>1, <4>2
    <3> QED
      BY <3>1, <3>2
  <2>8. ASSUME NEW m \in DOMAIN list, NEW i \in DOMAIN list[m].endpoints, ~(m = 1 /\ i = 1)
        PROVE  /\ m - 0 \in DOMAIN new
               /\ i - First(m) \in DOMAIN new[m - 0].endpoints
               /\ new[m - 0].endpoints[i - First(m)].id = list[m].endpoints[i].id
    <3>1. CASE m = 1
      <4>1. i \in 1..Len(es) /\ i # 1
        BY <1>4, <2>8, <3>1 DEF es
      <4>2. i - 1 \in 1..Len(left) /\ i - 1 + 1 = i
        BY <1>4, <4>1
      <4>3. i - 1 \in DOMAIN left /\ left[i - 1] = es[i]
        BY <1>4, <1>5, <4>2
      <4>4. First(m) = 1 /\ m - 0 = 1
        BY <3>1 DEF First
      <4> QED
        BY <2>2, <2>3, <3>1, <4>3, <4>4 DEF es
    <3>2. CASE m # 1
      <4>1. First(m) = 0 /\ m - 0 = m /\ new[m] = list[m]
        BY <2>2, <2>5, <3>2 DEF First
      <4>2. i - 0 = i
        BY <2>6
      <4> QED
        BY <2>2, <4>1, <4>2
    <3> QED
      BY <3>1, <3>2
  <2>9. Shifted(new, list, 0)
    BY <2>7, <2>8 DEF Shifted
  <2> QED
    BY <2>4, <2>9
<1> QED
  BY <1>6, <1>7

\* while no commissioning runs, the cells are the list
LEMMA EraseCellsFacts ==
  ASSUME NEW ids \in Seq(ElementIds), NEW id, NEW kept, kept = WithoutIds(ids, {id}),
         kept \in Seq(ElementIds), Len(kept) <= Len(ids)
  PROVE  /\ EraseCells(ids, Len(ids), id).count = Len(kept)
         /\ SubSeq(EraseCells(ids, Len(ids), id).ids, 1, Len(kept)) = kept
<1> DEFINE rest == SubSeq(ids, Len(kept) + 1, Len(ids))
           all == kept \o rest
           front == SubSeq(all, 1, Len(kept))
<1>1. Len(ids) \in Nat /\ Len(kept) \in Nat
  OBVIOUS
<1>2. SubSeq(ids, 1, Len(ids)) = ids
  <2> DEFINE same == SubSeq(ids, 1, Len(ids))
  <2>1. /\ same \in Seq(ElementIds) /\ Len(same) = Len(ids)
        /\ \A k \in 1..Len(ids) : same[k] = ids[k]
    <3>1. Len(ids) \in 0..Len(ids)
      BY <1>1
    <3> QED
      BY <3>1, FirstCells
  <2> HIDE DEF same
  <2>2. same = ids
    BY <2>1, SeqEqual
  <2> QED
    BY <2>2 DEF same
<1>3. EraseCells(ids, Len(ids), id) = [count |-> Len(kept), ids |-> all]
  BY <1>2 DEF EraseCells
<1>4. rest \in Seq(ElementIds)
  <2>1. Len(kept) + 1 \in 1..Len(ids) + 1 /\ Len(ids) \in Len(kept) + 1 - 1..Len(ids)
    BY <1>1
  <2> QED
    BY <2>1, SubSeqProperties
<1> HIDE DEF rest
<1>5. /\ all \in Seq(ElementIds) /\ Len(all) = Len(kept) + Len(rest)
      /\ \A k \in 1..Len(kept) : all[k] = kept[k]
  <2>1. /\ all \in Seq(ElementIds) /\ Len(all) = Len(kept) + Len(rest)
        /\ \A i \in 1..Len(kept) + Len(rest) :
             all[i] = IF i <= Len(kept) THEN kept[i] ELSE rest[i - Len(kept)]
    BY <1>4, ConcatProperties
  <2>2. Len(rest) \in Nat
    BY <1>4
  <2> QED
    BY <1>1, <2>1, <2>2
<1> HIDE DEF all
<1>6. /\ front \in Seq(ElementIds) /\ Len(front) = Len(kept)
      /\ \A k \in 1..Len(kept) : front[k] = all[k]
  <2>1. Len(kept) \in 0..Len(all)
    <3>1. Len(rest) \in Nat
      BY <1>4
    <3> QED
      BY <1>1, <1>5, <3>1
  <2> QED
    BY <1>5, <2>1, FirstCells
<1> HIDE DEF front
<1>7. front = kept
  BY <1>5, <1>6, SeqEqual
<1>8. EraseCells(ids, Len(ids), id).count = Len(kept) /\ EraseCells(ids, Len(ids), id).ids = all
  BY <1>3
<1> QED
  BY <1>7, <1>8, Zenon DEF front

LEMMA ShortLists ==
  ASSUME NEW S, NEW a \in S, NEW b \in S, NEW c \in S
  PROVE  <<a>> \o <<b>> = <<a, b>> /\ <<a, b>> \o <<c>> = <<a, b, c>>
<1> DEFINE two == <<a>> \o <<b>>
           three == <<a, b>> \o <<c>>
<1>1. <<a>> \in Seq(S) /\ <<b>> \in Seq(S) /\ <<c>> \in Seq(S) /\ <<a, b>> \in Seq(S)
  OBVIOUS
<1>2. /\ two \in Seq(S) /\ Len(two) = 2 /\ two[1] = a /\ two[2] = b
      /\ three \in Seq(S) /\ Len(three) = 3 /\ three[1] = a /\ three[2] = b /\ three[3] = c
  BY <1>1
<1> HIDE DEF two, three
<1>3. two = <<a, b>>
  <2>1. DOMAIN two = 1..2 /\ 1..2 = {1, 2}
    BY <1>2
  <2> QED
    BY <1>2, <2>1
<1>4. three = <<a, b, c>>
  <2>1. DOMAIN three = 1..3 /\ 1..3 = {1, 2, 3}
    BY <1>2
  <2> QED
    BY <1>2, <2>1
<1> QED
  BY <1>3, <1>4 DEF two, three

\* what is written when an element is erased
LEMMA ErasedWrites ==
  ASSUME NEW ids \in Seq(ElementIds), IsInjective(ids), NEW d \in Devices, NEW id \in ElementIds,
         NEW all, \/ all = <<WriteDevice(d.id, None)>> \o <<WriteEndpoint(id, d.id, None)>>
                           \o <<WriteList(ids)>>
                  \/ all = <<WriteEndpoint(id, d.id, None)>> \o <<WriteList(ids)>>
  PROVE  /\ all \in Seq(WriteType)
         /\ \A n \in DOMAIN all : all[n].kind = "list" => IsInjective(all[n].data)
<1> DEFINE wd == WriteDevice(d.id, None)
           we == WriteEndpoint(id, d.id, None)
           wl == WriteList(ids)
<1>1. wl \in WriteType /\ wl.data = ids
  BY DEF WriteList, WriteType
<1>2. wd \in WriteType /\ wd.kind # "list" /\ we \in WriteType /\ we.kind # "list"
  <2>1. d.id \in DeviceIds
    BY DEF Devices
  <2>2. wd \in WriteType
    BY <2>1 DEF WriteDevice, WriteType
  <2>3. we \in WriteType
    BY <2>1 DEF WriteEndpoint, WriteType
  <2> QED
    BY <2>2, <2>3 DEF WriteDevice, WriteEndpoint
<1>3. all = <<wd>> \o <<we>> \o <<wl>> \/ all = <<we>> \o <<wl>>
  OBVIOUS
<1> HIDE DEF wd, we, wl
<1>4. all = <<wd, we, wl>> \/ all = <<we, wl>>
  <2>1. <<wd>> \o <<we>> = <<wd, we>> /\ <<wd, we>> \o <<wl>> = <<wd, we, wl>>
    BY <1>1, <1>2, ShortLists
  <2>2. <<we>> \o <<wl>> = <<we, wl>>
    BY <1>1, <1>2, ShortLists
  <2> QED
    BY <1>3, <2>1, <2>2
<1>5. CASE all = <<wd, we, wl>>
  <2>1. DOMAIN all = 1..3 /\ all[1] = wd /\ all[2] = we /\ all[3] = wl
    BY <1>5
  <2>2. all \in Seq(WriteType)
    BY <1>1, <1>2, <1>5
  <2> QED
    BY <1>1, <1>2, <2>1, <2>2
<1>6. CASE all = <<we, wl>>
  <2>1. DOMAIN all = 1..2 /\ all[1] = we /\ all[2] = wl
    BY <1>6
  <2>2. all \in Seq(WriteType)
    BY <1>1, <1>2, <1>6
  <2> QED
    BY <1>1, <1>2, <2>1, <2>2
<1> QED
  BY <1>4, <1>5, <1>6

LEMMA ErasedFacts ==
  ASSUME BusInv, Erased, NEW kept, kept = WithoutIds(elementIds, {erasing}),
         NEW d, d = devices[1], NEW left, left = Tail(d.endpoints)
  PROVE  /\ comm = NoComm /\ elementCount = Len(elementIds) /\ erasing \in ElementIds
         /\ devices # << >> /\ 1 \in DOMAIN devices /\ d \in Devices
         /\ 1 \in DOMAIN d.endpoints /\ d.endpoints[1].id = erasing
         /\ kept \in Seq(ElementIds) /\ IsInjective(kept)
         /\ elementIds' = kept /\ elementCount' = Len(kept)
         /\ devices' = IF left = << >> THEN Tail(devices) ELSE [devices EXCEPT ![1].endpoints = left]
         /\ writes' = IF left = << >>
                      THEN <<WriteDevice(d.id, None)>> \o <<WriteEndpoint(erasing, d.id, None)>>
                           \o <<WriteList(kept)>>
                      ELSE <<WriteEndpoint(erasing, d.id, None)>> \o <<WriteList(kept)>>
<1> DEFINE cells == EraseCells(elementIds, elementCount, erasing)
<1>1. /\ elementIds \in Seq(ElementIds) /\ IsInjective(elementIds) /\ devices \in Seq(Devices)
      /\ DeviceList(devices) /\ Listed(devices, elementIds, elementCount)
  BY DEF BusInv, TypeOK, ListsInjective, DevicesMatch
<1>2. erasing # 0 /\ comm = NoComm /\ elementCount = Len(elementIds)
  BY DEF Erased, BusInv, Separate
<1>3. PICK k \in 1..elementCount : elementIds[k] = erasing
  BY <1>2 DEF BusInv, Separate
<1>4. erasing \in ElementIds
  BY <1>2 DEF BusInv, TypeOK
<1>5. devices # << >> /\ 1 \in DOMAIN devices
  <2>1. PICK n \in DOMAIN devices : TRUE
    BY <1>1 DEF Listed
  <2>2. devices # << >>
    BY <2>1
  <2> QED
    BY <1>1, <2>2
<1>6. d \in Devices /\ Head(devices) = d /\ d.endpoints # << >> /\ d.endpoints \in Seq(Endpoints)
  <2>1. d \in Devices /\ Head(devices) = d /\ d.endpoints # << >>
    BY <1>1, <1>5 DEF DeviceList
  <2> QED
    BY <2>1 DEF Devices
<1>7. 1 \in DOMAIN d.endpoints /\ d.endpoints[1].id = erasing
  <2>1. Head(d.endpoints).id = erasing
    BY <1>5, <1>6 DEF Erased
  <2>2. Head(d.endpoints) = d.endpoints[1] /\ 1 \in DOMAIN d.endpoints
    BY <1>6
  <2> QED
    BY <2>1, <2>2
<1>8. kept \in Seq(ElementIds) /\ Len(kept) <= Len(elementIds) /\ IsInjective(kept)
  <2> DEFINE gone == {erasing}
  <2>1. kept = WithoutIds(elementIds, gone)
    OBVIOUS
  <2> HIDE DEF gone
  <2> QED
    BY <1>1, <2>1, WithoutIdsFacts
<1>9. cells.count = Len(kept) /\ SubSeq(cells.ids, 1, Len(kept)) = kept
  BY <1>1, <1>2, <1>8, EraseCellsFacts
<1> HIDE DEF cells
<1>10. elementIds' = kept /\ elementCount' = Len(kept)
  BY <1>2, <1>9 DEF Erased, cells
<1>11. /\ devices' = IF left = << >> THEN Tail(devices) ELSE [devices EXCEPT ![1].endpoints = left]
       /\ writes' = IF left = << >>
                    THEN <<WriteDevice(d.id, None)>> \o <<WriteEndpoint(erasing, d.id, None)>>
                         \o <<WriteList(kept)>>
                    ELSE <<WriteEndpoint(erasing, d.id, None)>> \o <<WriteList(kept)>>
  BY <1>5, <1>6, <1>9 DEF Erased, cells
<1> QED
  BY <1>2, <1>4, <1>5, <1>6, <1>7, <1>8, <1>10, <1>11

LEMMA ErasedKeeps ==
  ASSUME BusInv, Erased
  PROVE  BusInv'
<1> DEFINE kept == WithoutIds(elementIds, {erasing})
           d == devices[1]
           left == Tail(d.endpoints)
           new == IF left = << >> THEN Tail(devices) ELSE [devices EXCEPT ![1].endpoints = left]
<1>1. /\ elementIds \in Seq(ElementIds) /\ IsInjective(elementIds) /\ devices \in Seq(Devices)
      /\ DeviceList(devices) /\ Listed(devices, elementIds, elementCount)
      /\ storage \in StorageType /\ commissioning \in BOOLEAN /\ node \in NodeType
  BY DEF BusInv, TypeOK, NodeType, ListsInjective, DevicesMatch
<1>2. ~commissioning
  BY DEF Erased, BusInv, Separate
<1>3. /\ comm = NoComm /\ elementCount = Len(elementIds) /\ erasing \in ElementIds
      /\ devices # << >> /\ 1 \in DOMAIN devices /\ d \in Devices
      /\ 1 \in DOMAIN d.endpoints /\ d.endpoints[1].id = erasing
      /\ kept \in Seq(ElementIds) /\ IsInjective(kept)
      /\ elementIds' = kept /\ elementCount' = Len(kept)
      /\ devices' = new
      /\ writes' = IF left = << >>
                   THEN <<WriteDevice(d.id, None)>> \o <<WriteEndpoint(erasing, d.id, None)>>
                        \o <<WriteList(kept)>>
                   ELSE <<WriteEndpoint(erasing, d.id, None)>> \o <<WriteList(kept)>>
  BY ErasedFacts
<1>4. d.endpoints # << >> /\ d.endpoints \in Seq(Endpoints)
  BY <1>1, <1>3 DEF Devices, DeviceList
<1>5. UNCHANGED <<storage, commissioning, comm, node>> /\ erasing' = 0
  BY DEF Erased
<1> HIDE DEF kept
<1>6. new \in Seq(Devices) /\ \E a \in {0, 1} : Shifted(new, devices, a)
  BY <1>1, <1>3, ErasedShifted
<1>7. PICK a \in {0, 1} : Shifted(new, devices, a)
  BY <1>6
<1> HIDE DEF new
<1>8. DeviceList(new)
  BY <1>1, <1>6, <1>7, ShiftedDevices
<1>9. Listed(new, kept, Len(kept))
  <2>1. kept = WithoutIds(elementIds, {erasing})
    BY DEF kept
  <2>2. Listed(devices, elementIds, Len(elementIds))
    BY <1>1, <1>3
  <2> QED
    BY <1>1, <1>3, <1>6, <1>7, <2>1, <2>2, ShiftedListed
<1>10. /\ writes' \in Seq(WriteType)
       /\ \A n \in DOMAIN writes' : writes'[n].kind = "list" => IsInjective(writes'[n].data)
  <2> HIDE DEF d
  <2>1. \/ writes' = <<WriteDevice(d.id, None)>> \o <<WriteEndpoint(erasing, d.id, None)>>
                    \o <<WriteList(kept)>>
        \/ writes' = <<WriteEndpoint(erasing, d.id, None)>> \o <<WriteList(kept)>>
    BY <1>3
  <2> QED
    BY <1>3, <2>1, ErasedWrites
<1>11. TypeOK'
  <2>1. Len(kept) \in 0..Len(kept)
    BY <1>3
  <2>2. /\ storage' \in StorageType /\ devices' \in Seq(Devices) /\ elementIds' \in Seq(ElementIds)
        /\ elementCount' \in 0..Len(elementIds')
    BY <1>1, <1>3, <1>5, <1>6, <2>1
  <2>3. node' \in NodeType /\ comm' = NoComm /\ commissioning' \in BOOLEAN
    BY <1>1, <1>3, <1>5
  <2> QED
    BY <1>5, <1>10, <2>2, <2>3 DEF TypeOK, NodeType
<1>12. Separate' /\ Space' /\ CommFits'
  BY <1>2, <1>3, <1>5 DEF Separate, Space, CommFits
<1>13. ListsInjective'
  BY <1>3, <1>5, <1>10 DEF BusInv, ListsInjective
<1>14. DevicesMatch'
  BY <1>3, <1>8, <1>9 DEF DevicesMatch
<1> QED
  BY <1>11, <1>12, <1>13, <1>14 DEF BusInv

LEMMA BusInvKept ==
  ASSUME BusInv, [Next]_vars
  PROVE  BusInv'
<1>1. CASE StoreNext
  BY <1>1, StoreNextKeeps
<1>2. CASE Joined
  BY <1>2, JoinedKeeps
<1>3. CASE Requested
  BY <1>3, RequestedKeeps
<1>4. CASE Timeout
  BY <1>4, TimeoutKeeps
<1>5. CASE Erased
  BY <1>5, ErasedKeeps
<1>6. ASSUME NEW n \in Nodes, Answer(n)
      PROVE  BusInv'
  BY <1>6, AnswerKeeps
<1>7. ASSUME NEW n \in Nodes, NEW c \in EndpointCounts, Enumerate(n, c)
      PROVE  BusInv'
  BY <1>7, EnumerateKeeps
<1>8. ASSUME NEW enabled \in BOOLEAN, setCommissioning(enabled)
      PROVE  BusInv'
  BY <1>8, SetCommissioningKeeps
<1>9. ASSUME NEW k \in 1..elementCount, erase(elementIds[k])
      PROVE  BusInv'
  BY <1>9, EraseCallKeeps
<1>10. CASE PowerFail
  BY <1>10, PowerFailKeeps
<1>11. CASE UNCHANGED vars
  <2>1. UNCHANGED <<storage, writes, devices, elementIds, elementCount, commissioning, comm,
                    erasing, node>>
    BY <1>11 DEF vars, ram
  <2>2. TypeOK'
    BY <2>1 DEF BusInv, TypeOK
  <2>3. Separate' /\ Space' /\ ListsInjective' /\ DevicesMatch' /\ CommFits'
    BY <2>1 DEF BusInv, Separate, Space, ListsInjective, DevicesMatch, CommFits
  <2> QED
    BY <2>2, <2>3 DEF BusInv
<1> QED
  BY <1>1, <1>2, <1>3, <1>4, <1>5, <1>6, <1>7, <1>8, <1>9, <1>10, <1>11 DEF Next, Work

-----------------------------------------------------------------------------
(* What holds for all instances *)

LEMMA BusInvAlways == Spec => []BusInv
<1>1. Init => BusInv
  BY InitBusInv
<1>2. BusInv /\ [Next]_vars => BusInv'
  BY BusInvKept
<1> QED
  BY <1>1, <1>2, PTL DEF Spec

\* The variables keep their types: in particular every id that is given is the id of
\* an element (there is always a free one when one is taken) and every address that of
\* a device.
THEOREM BusTypeOK == Spec => []TypeOK
<1>1. BusInv => TypeOK
  BY DEF BusInv
<1> QED
  BY <1>1, BusInvAlways, PTL

\* For all numbers of nodes and elements: the list of elements names those of the
\* devices, each once.
THEOREM BusElementsMatch == Spec => []ElementsMatch
<1>1. BusInv => ElementsMatch
  BY BusInvElementsMatch
<1> QED
  BY <1>1, BusInvAlways, PTL

\* For all numbers of nodes and elements: the device that a commissioning replaces stays
\* what it was until then, and the ids of new elements are free.
THEOREM BusOldDeviceStays == Spec => []OldDeviceStays
<1>1. BusInv => OldDeviceStays
  BY BusInvOldDeviceStays
<1> QED
  BY <1>1, BusInvAlways, PTL

-----------------------------------------------------------------------------
(* Answers *)

LEMMA NoneFits ==
  ASSUME comm' = NoComm
  PROVE  AnswerInv'
BY DEF AnswerInv, Addressed, AnswersFit, NoComm

\* the next attribute is asked for
LEMMA AskedFits ==
  ASSUME NEW c \in CommType, NEW attribute \in {"plugs", "name"}, Request(c, attribute),
         \A k \in DOMAIN c.endpoints : c.endpoints[k].plugs = Plugs(c.node, k - 1),
         \A n \in Nodes : node'[n].address = c.device - 1 <=> n = c.node,
         attribute = "name" => c.plugs = Plugs(c.node, Index(c))
  PROVE  AnswerInv'
<1>1. /\ comm'.node = c.node /\ comm'.device = c.device /\ comm'.endpoints = c.endpoints
      /\ comm'.plugs = c.plugs /\ comm'.attribute = attribute
  BY DEF Request, CommType
<1>2. Addressed'
  BY <1>1 DEF Addressed, Index
<1>3. AnswersFit'
  BY <1>1 DEF AnswersFit
<1> QED
  BY <1>2, <1>3 DEF AnswerInv

LEMMA NextFits ==
  ASSUME NEW c \in CommType, NextEndpoint(c, elementIds),
         \A k \in DOMAIN c.endpoints : c.endpoints[k].plugs = Plugs(c.node, k - 1),
         \A n \in Nodes : node'[n].address = c.device - 1 <=> n = c.node
  PROVE  AnswerInv'
<1>1. Request(c, "plugs") \/ comm' = NoComm
  BY DEF NextEndpoint, Finish
<1> QED
  BY <1>1, NoneFits, AskedFits

LEMMA JoinedFits ==
  ASSUME BusInv, AnswerInv, Decommission, Joined
  PROVE  AnswerInv'
<1>1. comm.pc = "join" /\ NextEndpoint(comm, elementIds)
  BY DEF Joined
<1>2. comm \in CommType /\ comm # NoComm
  BY <1>1, CommKnown
<1>3. comm.endpoints = << >>
  BY <1>1, <1>2 DEF BusInv, Space
<1>4. ASSUME NEW n \in Nodes
      PROVE  node'[n].address = comm.device - 1 <=> n = comm.node
  <2>1. node[n] \in [address : (0..LAST_ADDRESS) \cup {None}, requests : Seq(Requests)]
    BY DEF BusInv, TypeOK
  <2>2. comm.device - 1 \in 0..LAST_ADDRESS /\ comm.device - 1 # None
    BY <1>2, BusAssumption DEF CommType, DeviceIds
  <2>3. node'[n] = IF n = comm.node THEN [node[n] EXCEPT !.address = comm.device - 1]
                   ELSE IF node[n].address = comm.device - 1 THEN Outside ELSE node[n]
    BY DEF Joined
  <2>4. Outside.address = None
    BY DEF Outside
  <2>5. CASE n = comm.node
    BY <2>1, <2>3, <2>5
  <2>6. CASE n # comm.node
    BY <2>2, <2>3, <2>4, <2>6
  <2> QED
    BY <2>5, <2>6
<1>5. \A k \in DOMAIN comm.endpoints : comm.endpoints[k].plugs = Plugs(comm.node, k - 1)
  BY <1>3
<1> QED
  BY <1>1, <1>2, <1>4, <1>5, NextFits

LEMMA WaitFits ==
  ASSUME AnswerInv, comm.pc \in {"request", "wait"}, comm'.node = comm.node,
         comm'.device = comm.device, comm'.endpoints = comm.endpoints,
         comm'.attribute = comm.attribute, comm'.plugs = comm.plugs,
         \A n \in Nodes : node'[n].address = node[n].address
  PROVE  AnswerInv'
<1>1. comm.pc # "none"
  OBVIOUS
<1> QED
  BY <1>1 DEF AnswerInv, Addressed, AnswersFit, Index

LEMMA GotNameFits ==
  ASSUME BusInv, AnswerInv, comm.pc = "wait", comm.attribute = "name", GotName,
         \A n \in Nodes : node'[n].address = node[n].address
  PROVE  AnswerInv'
<1> DEFINE endpoint == [id |-> comm.id, plugs |-> comm.plugs]
           all == Append(comm.endpoints, endpoint)
           c == [comm EXCEPT !.endpoints = all, !.plugs = None, !.id = 0]
<1>1. NextEndpoint(c, elementIds)
  BY DEF GotName
<1>2. comm \in CommType /\ comm.id \in ElementIds /\ comm.plugs \in PlugsType
  BY CommKnown
<1>3. endpoint \in Endpoints /\ comm.endpoints \in Seq(Endpoints)
  BY <1>2 DEF Endpoints, CommType
<1>4. endpoint.plugs = Plugs(comm.node, Len(comm.endpoints))
  BY DEF AnswerInv, Addressed, Index
<1> HIDE DEF endpoint
<1>5. /\ all \in Seq(Endpoints) /\ Len(all) = Len(comm.endpoints) + 1
      /\ \A k \in 1..Len(comm.endpoints) : all[k] = comm.endpoints[k]
      /\ all[Len(comm.endpoints) + 1] = endpoint
  BY <1>3, AppendProperties
<1>6. DOMAIN all = 1..Len(comm.endpoints) + 1 /\ Len(comm.endpoints) \in Nat
      /\ DOMAIN comm.endpoints = 1..Len(comm.endpoints)
  BY <1>3, <1>5
<1> HIDE DEF all
<1>7. c \in CommType
  <2>1. 0 \in 0..MAX_ELEMENT_COUNT
    BY BusAssumption
  <2> QED
    BY <1>2, <1>5, <2>1 DEF CommType
<1>8. c.endpoints = all /\ c.node = comm.node /\ c.device = comm.device
  BY <1>2 DEF CommType
<1> HIDE DEF c
<1>9. ASSUME NEW k \in DOMAIN all
      PROVE  all[k].plugs = Plugs(comm.node, k - 1)
  <2>1. CASE k = Len(comm.endpoints) + 1
    <3>1. k - 1 = Len(comm.endpoints)
      BY <1>6, <2>1
    <3> QED
      BY <1>4, <1>5, <2>1, <3>1
  <2>2. CASE k # Len(comm.endpoints) + 1
    <3>1. k \in 1..Len(comm.endpoints)
      BY <1>6, <2>2
    <3>2. comm.endpoints[k].plugs = Plugs(comm.node, k - 1)
      BY <1>6, <3>1 DEF AnswerInv, AnswersFit
    <3> QED
      BY <1>5, <3>1, <3>2
  <2> QED
    BY <2>1, <2>2
<1>10. \A n \in Nodes : node'[n].address = c.device - 1 <=> n = c.node
  BY <1>8 DEF AnswerInv, Addressed
<1>11. \A k \in DOMAIN c.endpoints : c.endpoints[k].plugs = Plugs(c.node, k - 1)
  BY <1>8, <1>9
<1> QED
  BY <1>1, <1>7, <1>10, <1>11, NextFits

LEMMA AnswerFits ==
  ASSUME BusInv, AnswerInv, NEW n \in Nodes, Answer(n)
  PROVE  AnswerInv'
<1> DEFINE request == Head(node[n].requests)
           plugs == IF request.attribute = "plugs" THEN Plugs(n, request.index) ELSE None
<1>1. node' = [node EXCEPT ![n].requests = Tail(@)]
  BY DEF Answer
<1>2. \A m \in Nodes : node'[m].address = node[m].address
  <2>1. node \in NodeType
    BY DEF BusInv, TypeOK, NodeType
  <2> QED
    BY <1>1, <2>1 DEF NodeType
<1>3. \/ UNCHANGED comm
      \/ /\ Expected(node[n].address, request)
         /\ \/ comm.attribute = "plugs" /\ GotPlugs(plugs)
            \/ comm.attribute # "plugs" /\ GotName
  BY DEF Answer
<1>4. CASE UNCHANGED comm
  BY <1>2, <1>4 DEF AnswerInv, Addressed, AnswersFit, Index
<1>5. CASE Expected(node[n].address, request) /\ comm.attribute = "plugs" /\ GotPlugs(plugs)
  <2>1. /\ comm.pc = "wait" /\ node[n].address = comm.device - 1
        /\ request.index = Index(comm) /\ request.attribute = "plugs"
    BY <1>5 DEF Expected
  <2>2. comm \in CommType
    BY <2>1, CommKnown
  <2>3. n = comm.node
    BY <2>1 DEF AnswerInv, Addressed
  <2>4. plugs = Plugs(comm.node, Index(comm))
    BY <2>1, <2>3
  <2> HIDE DEF plugs, request
  <2> DEFINE id == IF OldIds(comm) # << >> THEN Head(OldIds(comm)) ELSE allocateId(elementIds)
             c == [comm EXCEPT !.plugs = plugs, !.id = id]
  <2>5. comm' = [c EXCEPT !.pc = "request", !.attribute = "name", !.retry = 0]
    BY <1>5 DEF GotPlugs, Request
  <2> HIDE DEF id
  <2>6. /\ comm'.node = comm.node /\ comm'.device = comm.device /\ comm'.endpoints = comm.endpoints
        /\ comm'.plugs = plugs
    BY <2>2, <2>5 DEF CommType
  <2>7. Addressed'
    <3>1. \A m \in Nodes : node'[m].address = comm'.device - 1 <=> m = comm'.node
      BY <1>2, <2>1, <2>6 DEF AnswerInv, Addressed
    <3>2. comm'.plugs = Plugs(comm'.node, Index(comm'))
      BY <2>4, <2>6 DEF Index
    <3> QED
      BY <3>1, <3>2 DEF Addressed
  <2>8. AnswersFit'
    BY <2>1, <2>6 DEF AnswerInv, AnswersFit
  <2> QED
    BY <2>7, <2>8 DEF AnswerInv
<1>6. CASE Expected(node[n].address, request) /\ comm.attribute # "plugs" /\ GotName
  <2>1. comm.pc = "wait"
    BY <1>6 DEF Expected
  <2>2. comm.attribute = "name"
    BY <1>6, <2>1, CommKnown DEF CommType
  <2> QED
    BY <1>2, <1>6, <2>1, <2>2, GotNameFits
<1> QED
  BY <1>3, <1>4, <1>5, <1>6

LEMMA AnswerInvKept ==
  ASSUME BusInv, AnswerInv, Decommission, [Next]_vars
  PROVE  AnswerInv'
<1>1. CASE UNCHANGED <<comm, node>>
  BY <1>1 DEF AnswerInv, Addressed, AnswersFit, Index
<1>2. CASE Joined
  BY <1>2, JoinedFits
<1>3. CASE Requested
  <2>1. comm.pc = "request" /\ comm' = [comm EXCEPT !.pc = "wait"]
    BY <1>3 DEF Requested
  <2>2. comm \in CommType
    BY <2>1, CommKnown
  <2>3. \A n \in Nodes : node'[n].address = node[n].address
    <3>1. node \in NodeType
      BY DEF BusInv, TypeOK, NodeType
    <3> QED
      BY <1>3, <3>1 DEF Requested, NodeType
  <2>4. /\ comm'.node = comm.node /\ comm'.device = comm.device /\ comm'.endpoints = comm.endpoints
        /\ comm'.plugs = comm.plugs /\ comm'.attribute = comm.attribute
    BY <2>1, <2>2 DEF CommType
  <2> QED
    BY <2>1, <2>3, <2>4, WaitFits
<1>4. CASE Timeout
  <2>1. comm.pc = "wait" /\ UNCHANGED node
    BY <1>4 DEF Timeout
  <2>2. comm \in CommType
    BY <2>1, CommKnown
  <2>3. \/ comm' = [comm EXCEPT !.pc = "request", !.retry = @ + 1]
        \/ comm' = NoComm
        \/ comm.attribute # "plugs" /\ GotName
    BY <1>4 DEF Timeout
  <2>4. CASE comm' = [comm EXCEPT !.pc = "request", !.retry = @ + 1]
    <3>1. /\ comm'.node = comm.node /\ comm'.device = comm.device /\ comm'.endpoints = comm.endpoints
          /\ comm'.plugs = comm.plugs /\ comm'.attribute = comm.attribute
      BY <2>2, <2>4 DEF CommType
    <3> QED
      BY <2>1, <3>1, WaitFits
  <2>5. CASE comm' = NoComm
    BY <2>5, NoneFits
  <2>6. CASE comm.attribute # "plugs" /\ GotName
    <3>1. comm.attribute = "name"
      BY <2>2, <2>6 DEF CommType
    <3> QED
      BY <2>1, <2>6, <3>1, GotNameFits
  <2> QED
    BY <2>3, <2>4, <2>5, <2>6
<1>5. ASSUME NEW n \in Nodes, Answer(n)
      PROVE  AnswerInv'
  BY <1>5, AnswerFits
<1>6. ASSUME NEW n \in Nodes, NEW count \in EndpointCounts, Enumerate(n, count)
      PROVE  AnswerInv'
  <2>1. comm' = NoComm \/ (comm'.pc = "join" /\ comm'.endpoints = << >>)
    BY <1>6 DEF Enumerate
  <2>2. CASE comm'.pc = "join" /\ comm'.endpoints = << >>
    BY <2>2 DEF AnswerInv, Addressed, AnswersFit
  <2> QED
    BY <2>1, <2>2, NoneFits
<1>7. ASSUME NEW enabled \in BOOLEAN, setCommissioning(enabled)
      PROVE  AnswerInv'
  <2>1. comm' = NoComm \/ UNCHANGED <<comm, node>>
    BY <1>7 DEF setCommissioning
  <2> QED
    BY <1>1, <2>1, NoneFits
<1>8. CASE PowerFail
  BY <1>8, NoneFits DEF PowerFail
<1>9. StoreNext \/ Erased \/ (\E k \in 1..elementCount : erase(elementIds[k])) \/ UNCHANGED vars
        => UNCHANGED <<comm, node>>
  BY DEF StoreNext, Erased, erase, vars
<1> QED
  BY <1>1, <1>2, <1>3, <1>4, <1>5, <1>6, <1>7, <1>8, <1>9 DEF Next, Work

\* For all numbers of nodes, elements and requests in a node's queue: when a node gives
\* up the address that another one gets, an endpoint has the plugs of its index, however
\* late the answers come.
THEOREM BusAnswersFit == Decommission => (Spec => []AnswersFit)
<1> SUFFICES ASSUME Decommission
             PROVE  Spec => []AnswersFit
  OBVIOUS
<1>1. Init => AnswerInv
  BY DEF Init, AnswerInv, Addressed, AnswersFit, NoComm
<1>2. BusInv /\ AnswerInv /\ [Next]_vars => AnswerInv'
  BY AnswerInvKept
<1>3. AnswerInv => AnswersFit
  BY DEF AnswerInv
<1> QED
  BY <1>1, <1>2, <1>3, BusInvAlways, PTL DEF Spec

-----------------------------------------------------------------------------
(* What a restart loads *)

\* the first n elements of the list, with what is loaded of the devices
PartOf(d, e, ids, n) ==
  /\ e.id = d.id /\ e.node = d.node
  /\ \A j \in DOMAIN e.endpoints :
       j \in DOMAIN d.endpoints /\ e.endpoints[j] = d.endpoints[j]
  /\ \A j \in DOMAIN d.endpoints :
       j \in DOMAIN e.endpoints <=> \E p \in 1..n : ids[p] = d.endpoints[j].id

Partial(list, all, ids, n) ==
  /\ \A m \in DOMAIN list : \E i \in DOMAIN all : PartOf(all[i], list[m], ids, n)
  /\ \A i \in DOMAIN all : \A j \in DOMAIN all[i].endpoints :
       (\E p \in 1..n : ids[p] = all[i].endpoints[j].id) =>
         \E m \in DOMAIN list : list[m].id = all[i].id

\* the storage has the records of all devices
Recorded(s, all) ==
  \A i \in DOMAIN all :
    /\ s.device[all[i].id] = all[i].node
    /\ \A j \in DOMAIN all[i].endpoints :
         s.endpoint[all[i].endpoints[j].id] =
           [device |-> all[i].id, plugs |-> all[i].endpoints[j].plugs]

\* of the first n elements of the list, the first j endpoints of the device are among them
Reached(d, ids, n, j) ==
  \A k \in DOMAIN d.endpoints : (\E p \in 1..n : ids[p] = d.endpoints[k].id) <=> k <= j

\* what is known when element n of the list is loaded, endpoint j of device i
Place(all, ids, i, j, n) ==
  /\ i \in DOMAIN all /\ j \in DOMAIN all[i].endpoints /\ n \in 1..Len(ids)
  /\ ids[n] = all[i].endpoints[j].id
  /\ Reached(all[i], ids, n - 1, j - 1) /\ Reached(all[i], ids, n, j)
  /\ \A m \in DOMAIN all : m # i => \A k \in DOMAIN all[m].endpoints :
       (\E p \in 1..n : ids[p] = all[m].endpoints[k].id) <=>
       (\E p \in 1..n - 1 : ids[p] = all[m].endpoints[k].id)

LEMMA PlaceExists ==
  ASSUME NEW all \in Seq(Devices), DeviceList(all), NEW ids \in Seq(ElementIds), IsInjective(ids),
         Listed(all, ids, Len(ids)), InOrder(all, ids, Len(ids)), NEW n \in 1..Len(ids)
  PROVE  \E i \in DOMAIN all : \E j \in DOMAIN all[i].endpoints : Place(all, ids, i, j, n)
<1>0. PICK i \in DOMAIN all : \E j \in DOMAIN all[i].endpoints : all[i].endpoints[j].id = ids[n]
  BY DEF Listed
<1>1. PICK j \in DOMAIN all[i].endpoints : all[i].endpoints[j].id = ids[n]
  BY <1>0
<1>2. /\ Len(ids) \in Nat /\ DOMAIN ids = 1..Len(ids)
      /\ \A m \in DOMAIN all : DOMAIN all[m].endpoints \subseteq Nat
  <2>1. ASSUME NEW m \in DOMAIN all PROVE DOMAIN all[m].endpoints \subseteq Nat
    <3>1. all[m] \in Devices
      OBVIOUS
    <3>2. all[m].endpoints \in Seq(Endpoints)
      BY <3>1 DEF Devices
    <3> QED
      BY <3>2
  <2> QED
    BY <2>1
<1>3. /\ 1..n - 1 \subseteq 1..n /\ 1..n \subseteq 1..Len(ids) /\ n \in 1..n /\ n \notin 1..n - 1
      /\ \A p \in 1..n : p = n \/ p \in 1..n - 1
      /\ \A p \in 1..n - 1 : p < n
      /\ \A p \in 1..Len(ids) : p < n => p \in 1..n - 1
  BY <1>2
<1>4. \A p, q \in 1..Len(ids) : ids[p] = ids[q] => p = q
  BY <1>2 DEF IsInjective
<1>5. ASSUME NEW k \in DOMAIN all[i].endpoints, NEW p \in 1..n - 1, ids[p] = all[i].endpoints[k].id
      PROVE  k < j
  <2>1. p \in 1..Len(ids) /\ p < n
    BY <1>3
  <2>2. k # j
    BY <1>1, <1>3, <1>4, <1>5, <2>1
  <2>3. ~(j < k)
    <3>1. j < k => n < p
      BY <1>1, <1>5, <2>1 DEF InOrder
    <3> QED
      BY <2>1, <3>1
  <2> QED
    BY <1>2, <2>2, <2>3
<1>6. ASSUME NEW k \in DOMAIN all[i].endpoints, k < j
      PROVE  \E p \in 1..n - 1 : ids[p] = all[i].endpoints[k].id
  <2>1. PICK p \in 1..Len(ids) : all[i].endpoints[k].id = ids[p]
    BY DEF Listed
  <2>2. p < n
    BY <1>1, <1>6, <2>1 DEF InOrder
  <2> QED
    BY <1>3, <2>1, <2>2
<1>7. ASSUME NEW k \in DOMAIN all[i].endpoints
      PROVE  (\E p \in 1..n : ids[p] = all[i].endpoints[k].id) <=> k <= j
  <2>1. ASSUME NEW p \in 1..n, ids[p] = all[i].endpoints[k].id PROVE k <= j
    <3>1. CASE p = n
      <4>1. all[i].endpoints[j].id = all[i].endpoints[k].id
        BY <1>1, <2>1, <3>1
      <4>2. j = k
        BY <4>1 DEF DeviceList, Apart
      <4> QED
        BY <1>2, <4>2
    <3>2. CASE p \in 1..n - 1
      BY <1>2, <1>5, <2>1, <3>2
    <3> QED
      BY <1>3, <3>1, <3>2
  <2>2. ASSUME k <= j PROVE \E p \in 1..n : ids[p] = all[i].endpoints[k].id
    <3>1. CASE k = j
      BY <1>1, <1>3, <3>1
    <3>2. CASE k < j
      BY <1>3, <1>6, <3>2
    <3> QED
      BY <1>2, <2>2, <3>1, <3>2
  <2> QED
    BY <2>1, <2>2
<1>8. ASSUME NEW m \in DOMAIN all, m # i, NEW k \in DOMAIN all[m].endpoints
      PROVE  (\E p \in 1..n : ids[p] = all[m].endpoints[k].id) <=>
             (\E p \in 1..n - 1 : ids[p] = all[m].endpoints[k].id)
  <2>1. all[m].endpoints[k].id # ids[n]
    BY <1>1, <1>8 DEF DeviceList, Apart
  <2> QED
    BY <1>3, <2>1
<1>9. Reached(all[i], ids, n - 1, j - 1)
  <2>1. \A k \in DOMAIN all[i].endpoints :
          (\E p \in 1..n - 1 : ids[p] = all[i].endpoints[k].id) <=> k < j
    BY <1>5, <1>6
  <2>2. \A k \in DOMAIN all[i].endpoints : k < j <=> k <= j - 1
    BY <1>2
  <2> QED
    BY <2>1, <2>2 DEF Reached
<1>10. Reached(all[i], ids, n, j)
  BY <1>7 DEF Reached
<1>11. Place(all, ids, i, j, n)
  BY <1>1, <1>8, <1>9, <1>10 DEF Place
<1> QED
  BY <1>11

\* the endpoint that is loaded is the next one of its device
LEMMA PartOfNext ==
  ASSUME NEW d \in Devices, NEW e \in Devices, NEW ids, NEW n, NEW j \in DOMAIN d.endpoints,
         PartOf(d, e, ids, n - 1), Reached(d, ids, n - 1, j - 1), Reached(d, ids, n, j),
         NEW f, f.id = e.id, f.node = e.node, f.endpoints = Append(e.endpoints, d.endpoints[j])
  PROVE  PartOf(d, f, ids, n)
<1> DEFINE ds == d.endpoints
           es == e.endpoints
           more == Append(es, ds[j])
<1>1. ds \in Seq(Endpoints) /\ es \in Seq(Endpoints)
  BY DEF Devices
<1>2. /\ DOMAIN ds = 1..Len(ds) /\ DOMAIN es = 1..Len(es) /\ Len(ds) \in Nat /\ Len(es) \in Nat
      /\ j \in 1..Len(ds)
  BY <1>1
<1>3. /\ e.id = d.id /\ e.node = d.node
      /\ \A k \in DOMAIN es : k \in DOMAIN ds /\ es[k] = ds[k]
      /\ \A k \in DOMAIN ds : k \in DOMAIN es <=> k < j
  <2>1. \A k \in DOMAIN ds : k \in DOMAIN es <=> k <= j - 1
    BY DEF PartOf, Reached
  <2> QED
    BY <1>2, <2>1 DEF PartOf
<1>4. Len(es) = j - 1
  <2>1. \A k \in 1..Len(es) : k < j
    BY <1>2, <1>3
  <2>2. \A k \in 1..Len(ds) : k < j => k \in 1..Len(es)
    BY <1>2, <1>3
  <2> HIDE DEF ds, es
  <2>3. Len(es) < j
    <3>1. Len(es) \in 1..Len(es) \/ Len(es) = 0
      BY <1>2
    <3> QED
      BY <1>2, <2>1, <3>1
  <2>4. j - 1 <= Len(es)
    <3>1. j - 1 \in 1..Len(ds) \/ j - 1 = 0
      BY <1>2
    <3> QED
      BY <1>2, <2>2, <3>1
  <2> QED
    BY <1>2, <2>3, <2>4
<1>5. /\ Len(more) = Len(es) + 1 /\ \A k \in 1..Len(es) : more[k] = es[k]
      /\ more[Len(es) + 1] = ds[j] /\ more \in Seq(Endpoints)
  <2>1. ds[j] \in Endpoints
    BY <1>1
  <2> HIDE DEF ds, es
  <2> QED
    BY <1>1, <2>1, AppendProperties
<1>6. f.endpoints = more
  OBVIOUS
<1> HIDE DEF more
<1> HIDE DEF ds, es
<1>8. DOMAIN more = 1..j
  BY <1>2, <1>4, <1>5
<1>9. \A k \in 1..j : k \in DOMAIN ds /\ more[k] = ds[k]
  <2> TAKE k \in 1..j
  <2>1. k = j \/ k \in 1..Len(es)
    BY <1>2, <1>4
  <2>2. CASE k = j
    <3>1. k = Len(es) + 1
      BY <1>2, <1>4, <2>2
    <3> QED
      BY <1>2, <1>5, <2>2, <3>1
  <2>3. CASE k \in 1..Len(es)
    BY <1>2, <1>3, <1>5, <2>3
  <2> QED
    BY <2>1, <2>2, <2>3
<1>10. \A k \in DOMAIN ds : k \in 1..j <=> k <= j
  BY <1>2
<1>11. PartOf(d, f, ids, n)
  BY <1>3, <1>6, <1>8, <1>9, <1>10 DEF PartOf, Reached, ds
<1> QED
  BY <1>11

LEMMA PartialKnown ==
  ASSUME NEW all \in Seq(Devices), DeviceList(all), NEW list \in Seq(Devices), NEW ids,
         NEW n, NEW i, NEW j, Place(all, ids, i, j, n), Partial(list, all, ids, n - 1),
         NEW o \in DOMAIN list, list[o].id = all[i].id,
         NEW new, new = AddEndpoint(list, all[i].id, all[i].endpoints[j])
  PROVE  Partial(new, all, ids, n)
<1>1. /\ i \in DOMAIN all /\ j \in DOMAIN all[i].endpoints
      /\ Reached(all[i], ids, n - 1, j - 1) /\ Reached(all[i], ids, n, j)
      /\ \A m \in DOMAIN all : m # i => \A k \in DOMAIN all[m].endpoints :
           (\E p \in 1..n : ids[p] = all[m].endpoints[k].id) <=>
           (\E p \in 1..n - 1 : ids[p] = all[m].endpoints[k].id)
  BY DEF Place
<1>2. DOMAIN new = DOMAIN list
  BY DEF AddEndpoint
<1>3. \A l, m \in DOMAIN all : all[l].id = all[m].id => l = m
  BY DEF DeviceList
<1>4. ASSUME NEW m \in DOMAIN list
      PROVE  new[m].id = list[m].id /\ \E l \in DOMAIN all : PartOf(all[l], new[m], ids, n)
  <2>1. PICK l \in DOMAIN all : PartOf(all[l], list[m], ids, n - 1)
    BY DEF Partial
  <2>2. all[l].id = list[m].id
    BY <2>1 DEF PartOf
  <2>3. CASE l = i
    <3>1. new[m] = [list[m] EXCEPT !.endpoints = Append(@, all[i].endpoints[j])]
      BY <2>2, <2>3 DEF AddEndpoint
    <3>2. all[i] \in Devices /\ list[m] \in Devices /\ PartOf(all[i], list[m], ids, n - 1)
      BY <1>1, <2>1, <2>3
    <3> DEFINE more == Append(list[m].endpoints, all[i].endpoints[j])
    <3>3. more \in Seq(Endpoints)
      BY <1>1, <3>2 DEF Devices
    <3>4. new[m] = [list[m] EXCEPT !.endpoints = more]
      BY <3>1
    <3> HIDE DEF more
    <3>5. new[m].id = list[m].id /\ new[m].node = list[m].node /\ new[m].endpoints = more
      BY <3>2, <3>3, <3>4 DEF Devices
    <3> DEFINE d == all[i]
               e == list[m]
               f == new[m]
    <3>6. /\ d \in Devices /\ e \in Devices /\ PartOf(d, e, ids, n - 1) /\ j \in DOMAIN d.endpoints
          /\ Reached(d, ids, n - 1, j - 1) /\ Reached(d, ids, n, j)
          /\ f.id = e.id /\ f.node = e.node /\ f.endpoints = Append(e.endpoints, d.endpoints[j])
      BY <1>1, <3>2, <3>5 DEF more
    <3> HIDE DEF d, e, f
    <3>7. PartOf(d, f, ids, n)
      BY <3>6, PartOfNext
    <3> QED
      BY <1>1, <3>5, <3>7 DEF d, f
  <2>4. CASE l # i
    <3>1. list[m].id # all[i].id
      BY <1>1, <1>3, <2>2, <2>4
    <3>2. new[m] = list[m]
      BY <3>1 DEF AddEndpoint
    <3>3. PartOf(all[l], list[m], ids, n)
      BY <1>1, <2>1, <2>4 DEF PartOf
    <3> QED
      BY <3>2, <3>3
  <2> QED
    BY <2>3, <2>4
<1>5. ASSUME NEW l \in DOMAIN all, NEW k \in DOMAIN all[l].endpoints,
             \E p \in 1..n : ids[p] = all[l].endpoints[k].id
      PROVE  \E m \in DOMAIN new : new[m].id = all[l].id
  <2>1. CASE l = i
    BY <1>2, <1>4, <2>1
  <2>2. CASE l # i
    <3>1. \E p \in 1..n - 1 : ids[p] = all[l].endpoints[k].id
      BY <1>1, <1>5, <2>2
    <3>2. PICK m \in DOMAIN list : list[m].id = all[l].id
      BY <3>1 DEF Partial
    <3> QED
      BY <1>2, <1>4, <3>2
  <2> QED
    BY <2>1, <2>2
<1> QED
  BY <1>2, <1>4, <1>5 DEF Partial

LEMMA PartialNew ==
  ASSUME NEW all \in Seq(Devices), DeviceList(all), NEW list \in Seq(Devices), NEW ids,
         NEW n, NEW i, NEW j, Place(all, ids, i, j, n), Partial(list, all, ids, n - 1),
         \A o \in DOMAIN list : list[o].id # all[i].id,
         NEW d \in Devices, d.id = all[i].id, d.node = all[i].node,
         d.endpoints = <<all[i].endpoints[j]>>,
         NEW new, new = <<d>> \o list
  PROVE  Partial(new, all, ids, n)
<1>1. /\ i \in DOMAIN all /\ j \in DOMAIN all[i].endpoints
      /\ Reached(all[i], ids, n - 1, j - 1) /\ Reached(all[i], ids, n, j)
      /\ \A m \in DOMAIN all : m # i => \A k \in DOMAIN all[m].endpoints :
           (\E p \in 1..n : ids[p] = all[m].endpoints[k].id) <=>
           (\E p \in 1..n - 1 : ids[p] = all[m].endpoints[k].id)
  BY DEF Place
<1>2. /\ DOMAIN new = 1..Len(list) + 1 /\ new[1] = d
      /\ \A m \in 1..Len(list) : new[m + 1] = list[m]
      /\ DOMAIN list = 1..Len(list) /\ Len(list) \in Nat
  BY PutFirst
\* no endpoint of the device was loaded before, so this is the first
<1>3. j = 1
  <2>1. \A k \in DOMAIN all[i].endpoints : ~(k <= j - 1)
    BY <1>1 DEF Partial, Reached
  <2>2. DOMAIN all[i].endpoints = 1..Len(all[i].endpoints) /\ Len(all[i].endpoints) \in Nat
    <3>1. all[i] \in Devices
      BY <1>1
    <3>2. all[i].endpoints \in Seq(Endpoints)
      BY <3>1 DEF Devices
    <3> QED
      BY <3>2
  <2>3. 1 \in DOMAIN all[i].endpoints /\ j \in Nat /\ j >= 1
    BY <1>1, <2>2
  <2>4. ~(1 <= j - 1)
    BY <2>1, <2>3
  <2> QED
    BY <2>3, <2>4
<1>4. PartOf(all[i], d, ids, n)
  <2>1. DOMAIN d.endpoints = {1} /\ d.endpoints[1] = all[i].endpoints[1]
    BY <1>3
  <2>2. \A k \in DOMAIN all[i].endpoints : k \in {1} <=> k <= 1
    <3>1. all[i] \in Devices
      BY <1>1
    <3>2. all[i].endpoints \in Seq(Endpoints)
      BY <3>1 DEF Devices
    <3> QED
      BY <3>2
  <2> QED
    BY <1>1, <1>3, <2>1, <2>2 DEF PartOf, Reached
<1>5. ASSUME NEW m \in DOMAIN list
      PROVE  \E l \in DOMAIN all : PartOf(all[l], list[m], ids, n)
  <2>1. PICK l \in DOMAIN all : PartOf(all[l], list[m], ids, n - 1)
    BY DEF Partial
  <2>2. l # i
    BY <2>1 DEF PartOf
  <2>3. PartOf(all[l], list[m], ids, n)
    BY <1>1, <2>1, <2>2 DEF PartOf
  <2> QED
    BY <2>3
<1>6. \A m \in DOMAIN new : m = 1 \/ (m - 1 \in DOMAIN list /\ new[m] = list[m - 1])
  <2> TAKE m \in DOMAIN new
  <2>1. CASE m # 1
    <3>1. m - 1 \in 1..Len(list) /\ m - 1 + 1 = m
      BY <1>2, <2>1
    <3> QED
      BY <1>2, <3>1
  <2> QED
    BY <2>1
<1>7. ASSUME NEW l \in DOMAIN all, NEW k \in DOMAIN all[l].endpoints,
             \E p \in 1..n : ids[p] = all[l].endpoints[k].id
      PROVE  \E m \in DOMAIN new : new[m].id = all[l].id
  <2>1. CASE l = i
    <3>1. 1 \in DOMAIN new
      BY <1>2
    <3> QED
      BY <1>2, <2>1, <3>1
  <2>2. CASE l # i
    <3>1. \E p \in 1..n - 1 : ids[p] = all[l].endpoints[k].id
      BY <1>1, <1>7, <2>2
    <3>2. PICK m \in DOMAIN list : list[m].id = all[l].id
      BY <3>1 DEF Partial
    <3>3. m + 1 \in DOMAIN new /\ new[m + 1] = list[m]
      BY <1>2
    <3> QED
      BY <3>2, <3>3
  <2> QED
    BY <2>1, <2>2
<1>8. \A m \in DOMAIN new : \E l \in DOMAIN all : PartOf(all[l], new[m], ids, n)
  BY <1>1, <1>2, <1>4, <1>5, <1>6
<1> QED
  BY <1>7, <1>8 DEF Partial

LEMMA LoadElementPartial ==
  ASSUME NEW s \in StorageType, NEW all \in Seq(Devices), DeviceList(all), Recorded(s, all),
         NEW ids \in Seq(ElementIds), NEW i, NEW j, NEW n, Place(all, ids, i, j, n),
         NEW l \in LoadState, Partial(l.devices, all, ids, n - 1),
         NEW m, m = LoadElement(s, l, ids[n])
  PROVE  Partial(m.devices, all, ids, n) /\ m.ids = Append(l.ids, ids[n])
<1> DEFINE x == all[i].endpoints[j]
           e == s.endpoint[ids[n]]
           endpoint == [id |-> ids[n], plugs |-> e.plugs]
           known == \E d \in ToSet(l.devices) : d.id = e.device
           new == [id |-> e.device, node |-> s.device[e.device], endpoints |-> <<endpoint>>]
<1>0. l.devices \in Seq(Devices)
  BY DEF LoadState
<1>1. i \in DOMAIN all /\ j \in DOMAIN all[i].endpoints /\ ids[n] = x.id
  BY DEF Place
<1>2. all[i] \in Devices
  BY <1>1
<1>3. x \in Endpoints
  <2>1. all[i].endpoints \in Seq(Endpoints)
    BY <1>2 DEF Devices
  <2> QED
    BY <1>1, <2>1
<1>4. e = [device |-> all[i].id, plugs |-> x.plugs] /\ s.device[all[i].id] = all[i].node
  BY <1>1 DEF Recorded
<1>5. all[i].id \in DeviceIds /\ all[i].node \in Nodes /\ x.plugs \in PlugsType
  BY <1>2, <1>3 DEF Devices, Endpoints
<1>6. e.device = all[i].id /\ e.plugs = x.plugs /\ e # None
  <2> HIDE DEF x, e
  <2>1. all[i].id \in Nat
    BY <1>5, BusAssumption DEF DeviceIds
  <2>2. e \in [device : Nat, plugs : [node : Nodes, index : Nat]]
    BY <1>4, <1>5, <2>1 DEF PlugsType
  <2>3. e # None
    BY <2>2, BusAssumption
  <2> QED
    BY <1>4, <2>3
<1>7. s.device[e.device] # None
  BY <1>4, <1>5, <1>6, BusAssumption
<1>8. endpoint = x
  <2> HIDE DEF x, e
  <2> QED
    BY <1>1, <1>3, <1>6 DEF Endpoints, x
<1>9. known <=> \E o \in DOMAIN l.devices : l.devices[o].id = all[i].id
  BY <1>6 DEF ToSet
<1>10. CASE known
  <2>1. m = [ids |-> Append(l.ids, ids[n]),
             devices |-> AddEndpoint(l.devices, e.device, endpoint)]
    BY <1>6, <1>7, <1>10 DEF LoadElement, AddEndpoint
  <2>2. PICK o \in DOMAIN l.devices : l.devices[o].id = all[i].id
    BY <1>9, <1>10
  <2>3. m.ids = Append(l.ids, ids[n]) /\ m.devices = AddEndpoint(l.devices, all[i].id, x)
    BY <1>6, <1>8, <2>1
  <2> DEFINE list == l.devices
             more == m.devices
  <2>4. /\ list \in Seq(Devices) /\ Partial(list, all, ids, n - 1)
        /\ o \in DOMAIN list /\ list[o].id = all[i].id
        /\ more = AddEndpoint(list, all[i].id, all[i].endpoints[j])
    BY <1>0, <2>2, <2>3
  <2> HIDE DEF list, more
  <2>5. Partial(more, all, ids, n)
    BY <2>4, PartialKnown
  <2> QED
    BY <2>3, <2>5 DEF more
<1>11. CASE ~known
  <2>1. m = [ids |-> Append(l.ids, ids[n]), devices |-> <<new>> \o l.devices]
    BY <1>6, <1>7, <1>11 DEF LoadElement
  <2>2. m.ids = Append(l.ids, ids[n]) /\ m.devices = <<new>> \o l.devices
    BY <2>1
  <2>3. new.id = all[i].id /\ new.node = all[i].node /\ new.endpoints = <<x>>
    BY <1>4, <1>6, <1>8
  <2>4. new \in Devices
    <3>1. <<x>> \in Seq(Endpoints)
      <4> HIDE DEF x
      <4> QED
        BY <1>3
    <3>2. new = [id |-> all[i].id, node |-> all[i].node, endpoints |-> <<x>>]
      BY <1>4, <1>6, <1>8
    <3> HIDE DEF new, x
    <3> QED
      BY <1>5, <3>1, <3>2 DEF Devices
  <2> DEFINE list == l.devices
             more == m.devices
             d == new
  <2>5. /\ list \in Seq(Devices) /\ Partial(list, all, ids, n - 1)
        /\ \A o \in DOMAIN list : list[o].id # all[i].id
        /\ d \in Devices /\ d.id = all[i].id /\ d.node = all[i].node
        /\ d.endpoints = <<all[i].endpoints[j]>>
        /\ more = <<d>> \o list
    BY <1>0, <1>9, <1>11, <2>2, <2>3, <2>4
  <2> HIDE DEF list, more, d
  <2>6. Partial(more, all, ids, n)
    BY <2>5, PartialNew
  <2> QED
    BY <2>2, <2>6 DEF more
<1> QED
  BY <1>10, <1>11

\* A storage with the records of all devices and their elements in a list, in the
\* order of the endpoints, is loaded as these devices.
LEMMA LoadAgrees ==
  ASSUME NEW s \in StorageType, IsInjective(s.list), NEW all \in Seq(Devices), DeviceList(all),
         Listed(all, s.list, Len(s.list)), InOrder(all, s.list, Len(s.list)), Recorded(s, all)
  PROVE  Agrees(Load(s), all, s.list)
<1> DEFINE ids == s.list
           N == Len(ids)
<1>1. PICK f : /\ Load(s) = f[N]
               /\ f[0] = NothingLoaded
               /\ \A n \in 1..N : f[n] = LoadElement(s, f[n - 1], ids[n])
  BY LoadSteps
<1>2. ids \in Seq(ElementIds) /\ N \in Nat /\ DOMAIN ids = 1..N
  BY DEF StorageType
<1>3. IsInjective(ids) /\ Listed(all, ids, N) /\ InOrder(all, ids, N)
  OBVIOUS
<1> DEFINE Good(n) == /\ f[n] \in LoadState
                      /\ Len(f[n].ids) = n
                      /\ \A k \in 1..n : f[n].ids[k] = ids[k]
                      /\ Partial(f[n].devices, all, ids, n)
           Bad == {n \in 0..N : ~Good(n)}
<1>4. N = Len(ids)
  OBVIOUS
<1> HIDE DEF N, ids
<1>5. ASSUME NEW n \in Bad, \A j \in Bad : n <= j
      PROVE  FALSE
  <2>1. CASE n = 0
    <3>1. << >> \in Seq(ElementIds) /\ << >> \in Seq(Devices)
      OBVIOUS
    <3>2. NothingLoaded \in LoadState /\ NothingLoaded.ids = << >> /\ NothingLoaded.devices = << >>
      BY <3>1 DEF NothingLoaded, LoadState
    <3>3. Partial(<< >>, all, ids, 0)
      BY DEF Partial
    <3>4. Len(<< >>) = 0
      OBVIOUS
    <3>5. Good(n)
      BY <2>1, <3>2, <3>3, <3>4, <1>1
    <3> QED
      BY <3>5
  <2>2. CASE n # 0
    <3>1. n \in 1..N /\ n - 1 \in 0..N /\ ~(n <= n - 1)
      BY <1>2, <2>2
    <3>2. n - 1 \notin Bad
      <4> HIDE DEF Bad
      <4> QED
        BY <3>1, <1>5
    <3>3. Good(n - 1)
      BY <3>1, <3>2
    <3>4. f[n] = LoadElement(s, f[n - 1], ids[n]) /\ ids[n] \in ElementIds
      <4>1. f[n] = LoadElement(s, f[n - 1], ids[n])
        BY <3>1, <1>1, Zenon
      <4>2. ids[n] \in ElementIds
        BY <3>1, <1>2
      <4> QED
        BY <4>1, <4>2
    <3>5. PICK i \in DOMAIN all : \E j \in DOMAIN all[i].endpoints : Place(all, ids, i, j, n)
      BY <3>1, <1>2, <1>3, <1>4, PlaceExists
    <3>6. PICK j \in DOMAIN all[i].endpoints : Place(all, ids, i, j, n)
      BY <3>5
    <3> DEFINE l == f[n - 1]
               m == f[n]
    <3>7. /\ l \in LoadState /\ Partial(l.devices, all, ids, n - 1)
          /\ m = LoadElement(s, l, ids[n])
          /\ Len(l.ids) = n - 1
          /\ \A k \in 1..n - 1 : l.ids[k] = ids[k]
      BY <3>3, <3>4
    <3> HIDE DEF l, m
    <3>8. Partial(m.devices, all, ids, n) /\ m.ids = Append(l.ids, ids[n])
      BY <1>2, <3>6, <3>7, LoadElementPartial
    <3>9. m \in LoadState
      BY <3>4, <3>7, LoadElementType
    <3>10. l.ids \in Seq(ElementIds)
      BY <3>7 DEF LoadState
    <3>11. /\ Len(Append(l.ids, ids[n])) = Len(l.ids) + 1
           /\ \A k \in 1..Len(l.ids) : Append(l.ids, ids[n])[k] = l.ids[k]
           /\ Append(l.ids, ids[n])[Len(l.ids) + 1] = ids[n]
      BY <3>4, <3>10, AppendProperties
    <3>12. Len(m.ids) = n /\ \A k \in 1..n : m.ids[k] = ids[k]
      <4>1. Len(m.ids) = n /\ m.ids[n] = ids[n]
        BY <3>1, <3>7, <3>8, <3>11
      <4>2. \A k \in 1..n - 1 : m.ids[k] = ids[k]
        BY <3>7, <3>8, <3>11
      <4>3. \A k \in 1..n : k = n \/ k \in 1..n - 1
        BY <3>1
      <4> QED
        BY <4>1, <4>2, <4>3
    <3>13. Good(n)
      BY <3>8, <3>9, <3>12 DEF m
    <3> QED
      BY <3>13
  <2> QED
    BY <2>1, <2>2
<1>6. Bad \subseteq Nat
  BY <1>2
<1>7. Bad = {}
  <2> HIDE DEF Bad
  <2> QED
    BY <1>5, <1>6, LeastExists
<1>8. N \in 0..N
  BY <1>2
<1>9. Good(N)
  BY <1>7, <1>8
<1> DEFINE l == f[N]
<1>10. /\ l \in LoadState /\ Len(l.ids) = N /\ \A k \in 1..N : l.ids[k] = ids[k]
       /\ Partial(l.devices, all, ids, N)
  BY <1>9
<1>11. l = Load(s)
  BY <1>1
<1> HIDE DEF l, Good
<1>12. l.ids \in Seq(ElementIds) /\ l.devices \in Seq(Devices)
  BY <1>10 DEF LoadState
<1>13. l.ids = ids
  <2>1. DOMAIN l.ids = 1..N
    BY <1>10, <1>12
  <2> QED
    BY <1>2, <1>10, <1>12, <2>1
<1> DEFINE list == l.devices
<1>14. list \in Seq(Devices) /\ Partial(list, all, ids, N)
  BY <1>10, <1>12
<1> HIDE DEF list
<1>15. \A i \in DOMAIN all : \A j \in DOMAIN all[i].endpoints : \E p \in 1..N : ids[p] = all[i].endpoints[j].id
  BY <1>3 DEF Listed
<1>16. ASSUME NEW m \in DOMAIN list, NEW i \in DOMAIN all, PartOf(all[i], list[m], ids, N)
       PROVE  list[m] = all[i]
  <2> DEFINE d == all[i]
             e == list[m]
  <2>1. d \in Devices /\ e \in Devices
    BY <1>14
  <2>2. /\ e.id = d.id /\ e.node = d.node
        /\ \A j \in DOMAIN e.endpoints : j \in DOMAIN d.endpoints /\ e.endpoints[j] = d.endpoints[j]
        /\ \A j \in DOMAIN d.endpoints : j \in DOMAIN e.endpoints
    BY <1>15, <1>16 DEF PartOf
  <2> HIDE DEF d, e
  <2>3. d.endpoints \in Seq(Endpoints) /\ e.endpoints \in Seq(Endpoints)
    BY <2>1 DEF Devices
  <2>4. d.endpoints = e.endpoints
    <3> DEFINE ds == d.endpoints
               es == e.endpoints
    <3>1. ds \in Seq(Endpoints) /\ es \in Seq(Endpoints) /\ DOMAIN ds = DOMAIN es
      BY <2>2, <2>3
    <3>2. \A j \in DOMAIN ds : ds[j] = es[j]
      BY <2>2
    <3> HIDE DEF ds, es
    <3>3. ds = es
      BY <3>1, <3>2
    <3> QED
      BY <3>3 DEF ds, es
  <2>5. d = e
    BY <2>1, <2>2, <2>4 DEF Devices
  <2> QED
    BY <2>5 DEF d, e
<1>17. ASSUME NEW m \in DOMAIN list
       PROVE  \E i \in DOMAIN all : list[m] = all[i]
  <2>1. PICK i \in DOMAIN all : PartOf(all[i], list[m], ids, N)
    BY <1>14 DEF Partial
  <2> QED
    BY <1>16, <2>1
<1>18. ASSUME NEW i \in DOMAIN all
       PROVE  \E m \in DOMAIN list : list[m] = all[i]
  <2>1. all[i] \in Devices /\ all[i].endpoints # << >>
    BY DEF DeviceList
  <2>2. all[i].endpoints \in Seq(Endpoints)
    BY <2>1 DEF Devices
  <2>3. 1 \in DOMAIN all[i].endpoints
    BY <2>1, <2>2
  <2>4. \E p \in 1..N : ids[p] = all[i].endpoints[1].id
    BY <1>15, <2>3
  <2>5. PICK m \in DOMAIN list : list[m].id = all[i].id
    BY <1>14, <2>3, <2>4 DEF Partial
  <2>6. PICK o \in DOMAIN all : list[m] = all[o]
    BY <1>17
  <2>7. o = i
    BY <2>5, <2>6 DEF DeviceList
  <2> QED
    BY <2>6, <2>7
<1>19. ToSet(list) = ToSet(all)
  BY <1>17, <1>18 DEF ToSet
<1> QED
  BY <1>11, <1>13, <1>19 DEF Agrees, ids, list

\* what was loaded is what the storage has of it, in the order of the list
FromStorage(s, l) ==
  \A n \in DOMAIN l.devices :
    /\ s.device[l.devices[n].id] = l.devices[n].node
    /\ \A j \in DOMAIN l.devices[n].endpoints :
         s.endpoint[l.devices[n].endpoints[j].id] =
           [device |-> l.devices[n].id, plugs |-> l.devices[n].endpoints[j].plugs]

LoadedFrom(s, l) == FromStorage(s, l) /\ InOrder(l.devices, l.ids, Len(l.ids))

\* an element behind the others, as the last endpoint of its device
LEMMA AddEndpointInOrder ==
  ASSUME NEW list \in Seq(Devices), NEW ids \in Seq(ElementIds), InOrder(list, ids, Len(ids)),
         Listed(list, ids, Len(ids)), IsInjective(ids),
         NEW device \in DeviceIds, NEW endpoint \in Endpoints, endpoint.id \notin ToSet(ids),
         NEW all, all = AddEndpoint(list, device, endpoint),
         NEW more, more = Append(ids, endpoint.id)
  PROVE  InOrder(all, more, Len(more))
<1>1. all \in Seq(Devices) /\ Extended(all, list, device, endpoint)
  BY AddEndpointFacts
<1>2. endpoint.id \in ElementIds
  BY DEF Endpoints
<1>3. Appended(more, ids, endpoint.id)
  BY <1>2, AppendFresh
<1>4. /\ Len(ids) \in Nat /\ DOMAIN ids = 1..Len(ids) /\ Len(more) = Len(ids) + 1
      /\ \A k \in 1..Len(ids) : more[k] = ids[k] /\ ids[k] # endpoint.id
      /\ more[Len(ids) + 1] = endpoint.id
  BY <1>3 DEF Appended, ToSet
<1>5. ASSUME NEW n \in DOMAIN all, NEW i \in DOMAIN all[n].endpoints, NEW j \in DOMAIN all[n].endpoints,
             NEW p \in 1..Len(more), NEW q \in 1..Len(more),
             more[p] = all[n].endpoints[i].id, more[q] = all[n].endpoints[j].id, i < j
      PROVE  p < q
  <2>1. n \in DOMAIN list
    BY <1>1 DEF Extended
  <2>2. list[n].endpoints \in Seq(Endpoints)
    <3>1. list[n] \in Devices
      BY <2>1
    <3> QED
      BY <3>1 DEF Devices
  <2>3. DOMAIN list[n].endpoints = 1..Len(list[n].endpoints) /\ Len(list[n].endpoints) \in Nat
    BY <2>2
  <2>4. ASSUME NEW k \in DOMAIN list[n].endpoints
        PROVE  list[n].endpoints[k].id # endpoint.id
    <3>1. PICK o \in 1..Len(ids) : list[n].endpoints[k].id = ids[o]
      BY <2>1 DEF Listed
    <3> QED
      BY <1>4, <3>1
  <2>5. ASSUME NEW k \in DOMAIN all[n].endpoints
        PROVE  \/ k \in DOMAIN list[n].endpoints /\ all[n].endpoints[k] = list[n].endpoints[k]
               \/ k = Len(list[n].endpoints) + 1 /\ all[n].endpoints[k] = endpoint
    BY <1>1, <2>1 DEF Extended
  <2>6. \A o \in 1..Len(more) : o = Len(ids) + 1 \/ o \in 1..Len(ids)
    BY <1>4
  <2>7. i \in DOMAIN list[n].endpoints /\ all[n].endpoints[i] = list[n].endpoints[i]
    <3>1. CASE i = Len(list[n].endpoints) + 1
      <4>1. j \in DOMAIN list[n].endpoints \/ j = Len(list[n].endpoints) + 1
        BY <2>5
      <4> QED
        BY <1>5, <2>3, <3>1, <4>1
    <3> QED
      BY <2>5, <3>1
  <2>8. p \in 1..Len(ids) /\ ids[p] = list[n].endpoints[i].id
    <3>1. more[p] # endpoint.id
      BY <1>5, <2>4, <2>7
    <3> QED
      BY <1>4, <1>5, <2>6, <2>7, <3>1
  <2>9. CASE q = Len(ids) + 1
    BY <1>4, <2>8, <2>9
  <2>10. CASE q \in 1..Len(ids)
    <3>1. all[n].endpoints[j].id # endpoint.id
      BY <1>4, <1>5, <2>10
    <3>2. j \in DOMAIN list[n].endpoints /\ all[n].endpoints[j] = list[n].endpoints[j]
      BY <2>5, <3>1
    <3>3. ids[q] = list[n].endpoints[j].id
      BY <1>4, <1>5, <2>10, <3>2
    <3> QED
      BY <1>5, <2>1, <2>7, <2>8, <2>10, <3>2, <3>3 DEF InOrder
  <2> QED
    BY <2>6, <2>9, <2>10
<1> QED
  BY <1>5 DEF InOrder

LEMMA AddDeviceInOrder ==
  ASSUME NEW list \in Seq(Devices), NEW ids \in Seq(ElementIds), InOrder(list, ids, Len(ids)),
         Listed(list, ids, Len(ids)), IsInjective(ids),
         NEW d \in Devices, NEW endpoint \in Endpoints, d.endpoints = <<endpoint>>,
         endpoint.id \notin ToSet(ids), NEW all, all = <<d>> \o list,
         NEW more, more = Append(ids, endpoint.id)
  PROVE  InOrder(all, more, Len(more))
<1>1. /\ DOMAIN all = 1..Len(list) + 1 /\ all[1] = d
      /\ \A m \in 1..Len(list) : all[m + 1] = list[m]
      /\ DOMAIN list = 1..Len(list) /\ Len(list) \in Nat
  BY PutFirst
<1>2. endpoint.id \in ElementIds
  BY DEF Endpoints
<1>3. Appended(more, ids, endpoint.id)
  BY <1>2, AppendFresh
<1>4. /\ Len(ids) \in Nat /\ DOMAIN ids = 1..Len(ids) /\ Len(more) = Len(ids) + 1
      /\ \A k \in 1..Len(ids) : more[k] = ids[k] /\ ids[k] # endpoint.id
      /\ more[Len(ids) + 1] = endpoint.id
  BY <1>3 DEF Appended, ToSet
<1>5. ASSUME NEW n \in DOMAIN all
      PROVE  \A i, j \in DOMAIN all[n].endpoints : \A p, q \in 1..Len(more) :
               more[p] = all[n].endpoints[i].id /\ more[q] = all[n].endpoints[j].id /\ i < j => p < q
  <2> TAKE i, j \in DOMAIN all[n].endpoints
  <2> TAKE p, q \in 1..Len(more)
  <2>0. HAVE more[p] = all[n].endpoints[i].id /\ more[q] = all[n].endpoints[j].id /\ i < j
  <2>1. n # 1
    <3>1. CASE n = 1
      <4>1. DOMAIN all[n].endpoints = {1}
        BY <1>1, <3>1
      <4> QED
        BY <2>0, <4>1
    <3> QED
      BY <3>1
  <2>2. n - 1 \in DOMAIN list /\ all[n] = list[n - 1]
    <3>1. n - 1 \in 1..Len(list) /\ n - 1 + 1 = n
      BY <1>1, <2>1
    <3> QED
      BY <1>1, <3>1
  <2>3. \A o \in 1..Len(more) : o = Len(ids) + 1 \/ o \in 1..Len(ids)
    BY <1>4
  <2>4. ASSUME NEW k \in DOMAIN all[n].endpoints, NEW o \in 1..Len(more), more[o] = all[n].endpoints[k].id
        PROVE  o \in 1..Len(ids) /\ ids[o] = list[n - 1].endpoints[k].id
    <3>1. PICK r \in 1..Len(ids) : list[n - 1].endpoints[k].id = ids[r]
      BY <2>2 DEF Listed
    <3>2. more[o] # endpoint.id
      BY <1>4, <2>2, <2>4, <3>1
    <3> QED
      BY <1>4, <2>2, <2>3, <2>4, <3>2
  <2>5. /\ p \in 1..Len(ids) /\ ids[p] = list[n - 1].endpoints[i].id
        /\ q \in 1..Len(ids) /\ ids[q] = list[n - 1].endpoints[j].id
    BY <2>0, <2>4
  <2> QED
    BY <2>0, <2>2, <2>5 DEF InOrder
<1> QED
  BY <1>5, Zenon DEF InOrder

LEMMA LoadElementFrom ==
  ASSUME NEW s \in StorageType, NEW l \in LoadState, Consistent(l), LoadedFrom(s, l),
         NEW id \in ElementIds, id \notin ToSet(l.ids), NEW m, m = LoadElement(s, l, id)
  PROVE  LoadedFrom(s, m)
<1> DEFINE e == s.endpoint[id]
           endpoint == [id |-> id, plugs |-> e.plugs]
           known == \E d \in ToSet(l.devices) : d.id = e.device
           new == [id |-> e.device, node |-> s.device[e.device], endpoints |-> <<endpoint>>]
           list == l.devices
           ids == l.ids
           all == m.devices
           more == m.ids
<1>0. /\ ids \in Seq(ElementIds) /\ list \in Seq(Devices) /\ IsInjective(ids)
      /\ Listed(list, ids, Len(ids)) /\ InOrder(list, ids, Len(ids)) /\ FromStorage(s, l)
  BY DEF LoadState, Consistent, LoadedFrom
<1>1. CASE e = None \/ (~known /\ s.device[e.device] = None)
  <2>1. m = l
    BY <1>1 DEF LoadElement
  <2> QED
    BY <2>1
<1>2. CASE ~(e = None \/ (~known /\ s.device[e.device] = None))
  <2>1. e \in [device : DeviceIds, plugs : PlugsType]
    BY <1>2 DEF StorageType
  <2>2. /\ endpoint \in Endpoints /\ endpoint.id = id /\ e.device \in DeviceIds
        /\ endpoint.plugs = e.plugs
    BY <2>1 DEF Endpoints
  <2>3. s.endpoint[endpoint.id] = [device |-> e.device, plugs |-> endpoint.plugs]
    <3> HIDE DEF endpoint
    <3>1. e = [device |-> e.device, plugs |-> e.plugs]
      BY <2>1
    <3> QED
      BY <2>2, <3>1
  <2>4. CASE known
    <3>1. m = [ids |-> Append(l.ids, id),
               devices |-> AddEndpoint(l.devices, e.device, endpoint)]
      BY <1>2, <2>4 DEF LoadElement, AddEndpoint
    <3>2. more = Append(ids, endpoint.id) /\ all = AddEndpoint(list, e.device, endpoint)
      BY <2>2, <3>1
    <3> HIDE DEF endpoint, e, known, all, more, list, ids
    <3>3. endpoint.id \notin ToSet(ids)
      BY <2>2 DEF ids
    <3>4. InOrder(all, more, Len(more))
      BY <1>0, <2>2, <3>2, <3>3, AddEndpointInOrder
    <3>5. Extended(all, list, e.device, endpoint)
      BY <1>0, <2>2, <3>2, AddEndpointFacts
    <3>6. ASSUME NEW n \in DOMAIN all
          PROVE  /\ all[n].id = list[n].id /\ all[n].node = list[n].node /\ n \in DOMAIN list
                 /\ \A j \in DOMAIN all[n].endpoints :
                      \/ j \in DOMAIN list[n].endpoints /\ all[n].endpoints[j] = list[n].endpoints[j]
                      \/ list[n].id = e.device /\ all[n].endpoints[j] = endpoint
      <4>1. n \in DOMAIN list
        BY <3>5 DEF Extended
      <4>2. list[n] \in Devices
        BY <1>0, <4>1
      <4>3. all[n] = IF list[n].id # e.device THEN list[n]
                     ELSE [list[n] EXCEPT !.endpoints = Append(@, endpoint)]
        BY <3>2, <4>1 DEF AddEndpoint
      <4>4. all[n].node = list[n].node
        BY <4>2, <4>3 DEF Devices
      <4> QED
        BY <3>5, <4>1, <4>4 DEF Extended
    <3>7. ASSUME NEW n \in DOMAIN all
          PROVE  /\ s.device[all[n].id] = all[n].node
                 /\ \A j \in DOMAIN all[n].endpoints :
                      s.endpoint[all[n].endpoints[j].id] =
                        [device |-> all[n].id, plugs |-> all[n].endpoints[j].plugs]
      <4>1. s.device[all[n].id] = all[n].node
        BY <1>0, <3>6 DEF FromStorage, list
      <4>2. ASSUME NEW j \in DOMAIN all[n].endpoints
            PROVE  s.endpoint[all[n].endpoints[j].id] =
                     [device |-> all[n].id, plugs |-> all[n].endpoints[j].plugs]
        <5>1. CASE j \in DOMAIN list[n].endpoints /\ all[n].endpoints[j] = list[n].endpoints[j]
          BY <1>0, <3>6, <5>1 DEF FromStorage, list
        <5>2. CASE list[n].id = e.device /\ all[n].endpoints[j] = endpoint
          BY <2>3, <3>6, <5>2
        <5> QED
          BY <3>6, <5>1, <5>2
      <4> QED
        BY <4>1, <4>2
    <3> QED
      BY <3>4, <3>7 DEF LoadedFrom, FromStorage, all, more
  <2>5. CASE ~known
    <3>1. m = [ids |-> Append(l.ids, id), devices |-> <<new>> \o l.devices]
      BY <1>2, <2>5 DEF LoadElement
    <3>2. s.device[e.device] \in Nodes
      BY <1>2, <2>2, <2>5 DEF StorageType
    <3>3. <<endpoint>> \in Seq(Endpoints)
      <4> HIDE DEF endpoint
      <4> QED
        BY <2>2
    <3>4. /\ new \in Devices /\ new.endpoints = <<endpoint>> /\ new.id = e.device
          /\ new.node = s.device[e.device]
      <4> HIDE DEF endpoint, e
      <4> QED
        BY <2>2, <3>2, <3>3 DEF Devices
    <3>5. more = Append(ids, endpoint.id) /\ all = <<new>> \o list
      BY <2>2, <3>1
    <3> HIDE DEF endpoint, e, known, new, all, more, list, ids
    <3>6. endpoint.id \notin ToSet(ids)
      BY <2>2 DEF ids
    <3>7. InOrder(all, more, Len(more))
      BY <1>0, <2>2, <3>4, <3>5, <3>6, AddDeviceInOrder
    <3>8. /\ DOMAIN all = 1..Len(list) + 1 /\ all[1] = new
          /\ \A k \in 1..Len(list) : all[k + 1] = list[k]
          /\ DOMAIN list = 1..Len(list) /\ Len(list) \in Nat
      BY <1>0, <3>4, <3>5, PutFirst
    <3>9. ASSUME NEW n \in DOMAIN all
          PROVE  /\ s.device[all[n].id] = all[n].node
                 /\ \A j \in DOMAIN all[n].endpoints :
                      s.endpoint[all[n].endpoints[j].id] =
                        [device |-> all[n].id, plugs |-> all[n].endpoints[j].plugs]
      <4>1. CASE n = 1
        <5>1. all[n] = new /\ DOMAIN new.endpoints = {1} /\ new.endpoints[1] = endpoint
          BY <3>4, <3>8, <4>1
        <5> QED
          BY <2>3, <3>4, <5>1
      <4>2. CASE n # 1
        <5>1. n - 1 \in 1..Len(list) /\ n - 1 + 1 = n
          BY <3>8, <4>2
        <5>2. n - 1 \in DOMAIN list /\ all[n] = list[n - 1]
          BY <3>8, <5>1
        <5> QED
          BY <1>0, <5>2 DEF FromStorage, list
      <4> QED
        BY <4>1, <4>2
    <3> QED
      BY <3>7, <3>9 DEF LoadedFrom, FromStorage, all, more
  <2> QED
    BY <2>4, <2>5
<1> QED
  BY <1>1, <1>2

LEMMA LoadedFromStorage ==
  ASSUME NEW s \in StorageType, IsInjective(s.list)
  PROVE  LoadedFrom(s, Load(s))
<1> DEFINE N == Len(s.list)
<1>1. PICK f : Loading(s, f)
  BY LoadingExists
<1>2. N \in Nat
  BY DEF StorageType
<1> DEFINE Bad == {n \in 0..N : ~LoadedFrom(s, f[n])}
<1> HIDE DEF N
<1>3. ASSUME NEW n \in Bad, \A j \in Bad : n <= j
      PROVE  FALSE
  <2>1. CASE n = 0
    <3>1. NothingLoaded.ids = << >> /\ NothingLoaded.devices = << >> /\ DOMAIN << >> = {}
      BY DEF NothingLoaded
    <3>2. FromStorage(s, NothingLoaded)
      BY <3>1 DEF FromStorage
    <3>3. \A k : InOrder(<< >>, << >>, k)
      BY <3>1 DEF InOrder
    <3>4. LoadedFrom(s, NothingLoaded)
      BY <3>1, <3>2, <3>3 DEF LoadedFrom
    <3> QED
      BY <2>1, <3>4, <1>1, <1>3 DEF Loading
  <2>2. CASE n # 0
    <3>1. n \in 1..N /\ n - 1 \in 0..N /\ ~(n <= n - 1)
      BY <1>2, <2>2
    <3>2. n - 1 \notin Bad
      <4> HIDE DEF Bad
      <4> QED
        BY <3>1, <1>3
    <3>3. LoadedFrom(s, f[n - 1])
      BY <3>1, <3>2
    <3>4. f[n - 1] \in LoadState /\ Consistent(f[n - 1])
      BY <3>1, <1>1 DEF Loading, N
    <3>5. /\ f[n] = LoadElement(s, f[n - 1], s.list[n])
          /\ s.list[n] \in ElementIds /\ s.list[n] \notin ToSet(f[n - 1].ids)
      BY <3>1, <1>1, Zenon DEF Loading, N
    <3>6. LoadedFrom(s, f[n])
      BY <3>3, <3>4, <3>5, LoadElementFrom
    <3> QED
      BY <3>6, <1>3
  <2> QED
    BY <2>1, <2>2
<1>4. Bad \subseteq Nat
  BY <1>2
<1>5. Bad = {}
  <2> HIDE DEF Bad
  <2> QED
    BY <1>3, <1>4, LeastExists
<1>6. N \in 0..N
  BY <1>2
<1>7. LoadedFrom(s, f[N])
  BY <1>5, <1>6
<1> QED
  BY <1>1, <1>7 DEF Loading, N

-----------------------------------------------------------------------------
(* A restart finds what is there *)

LEMMA SameCells ==
  ASSUME NEW all, NEW ids, NEW cells, NEW count, \A k \in 1..count : cells[k] = ids[k],
         Listed(all, ids, count)
  PROVE  Listed(all, cells, count)
<1>1. ASSUME NEW k \in 1..count
      PROVE  \E n \in DOMAIN all : \E j \in DOMAIN all[n].endpoints : all[n].endpoints[j].id = cells[k]
  <2>1. cells[k] = ids[k]
    OBVIOUS
  <2>2. \E n \in DOMAIN all : \E j \in DOMAIN all[n].endpoints : all[n].endpoints[j].id = ids[k]
    BY DEF Listed
  <2> QED
    BY <2>1, <2>2
<1>2. ASSUME NEW n \in DOMAIN all, NEW j \in DOMAIN all[n].endpoints
      PROVE  \E k \in 1..count : all[n].endpoints[j].id = cells[k]
  <2>1. PICK k \in 1..count : all[n].endpoints[j].id = ids[k]
    BY DEF Listed
  <2>2. cells[k] = ids[k]
    OBVIOUS
  <2> QED
    BY <2>1, <2>2
<1> QED
  BY <1>1, <1>2 DEF Listed

LEMMA RestartInvAgrees ==
  ASSUME BusInv, RestartInv
  PROVE  RestartAgrees
<1> DEFINE first == SubSeq(elementIds, 1, elementCount)
           loaded == Load(storage)
<1>1. /\ storage \in StorageType /\ IsInjective(storage.list) /\ devices \in Seq(Devices)
      /\ DeviceList(devices) /\ Listed(devices, elementIds, elementCount)
      /\ elementIds \in Seq(ElementIds) /\ elementCount \in 0..Len(elementIds)
      /\ InOrder(devices, elementIds, elementCount) /\ DevicesStored /\ ListStored
  BY DEF BusInv, TypeOK, ListsInjective, DevicesMatch, RestartInv
<1>2. ASSUME writes = << >>, storage.list = first
      PROVE  Agrees(loaded, devices, first)
  <2>1. /\ Len(first) = elementCount
        /\ \A k \in 1..elementCount : first[k] = elementIds[k]
    BY <1>1, FirstCells
  <2>2. Recorded(storage, devices)
    BY <1>1, <1>2 DEF DevicesStored, DeviceWillBe, EndpointWillBe, Recorded
  <2> HIDE DEF first, loaded
  <2> DEFINE list == storage.list
  <2>3. list = first
    BY <1>2
  <2> HIDE DEF list
  <2>4. Listed(devices, list, Len(list))
    <3>1. Len(list) = elementCount /\ \A k \in 1..elementCount : list[k] = elementIds[k]
      BY <2>1, <2>3
    <3>2. Listed(devices, list, elementCount)
      BY <1>1, <3>1, SameCells
    <3> QED
      BY <3>1, <3>2
  <2>5. InOrder(devices, list, Len(list))
    BY <1>1, <2>1, <2>3 DEF InOrder
  <2>6. Agrees(Load(storage), devices, storage.list)
    BY <1>1, <2>2, <2>4, <2>5, LoadAgrees DEF list
  <2> QED
    BY <1>2, <2>6 DEF loaded
<1>3. ASSUME Ready
      PROVE  Agrees(loaded, devices, first)
  <2>1. writes = << >>
    BY <1>3 DEF Ready
  <2>2. CASE ListWillBe(first)
    <3>1. storage.list = first
      BY <2>1, <2>2 DEF ListWillBe
    <3> QED
      BY <1>2, <2>1, <3>1
  <2>3. CASE Agrees(loaded, devices, first)
    BY <2>3
  <2> QED
    BY <1>1, <2>2, <2>3 DEF ListStored
<1> QED
  BY <1>3 DEF RestartAgrees, Agrees

LEMMA InitRestart ==
  ASSUME Init
  PROVE  RestartInv
<1>1. /\ writes = << >> /\ devices = << >> /\ elementIds = << >> /\ elementCount = 0 /\ erasing = 0
      /\ storage.list = << >>
  BY DEF Init
<1>2. SubSeq(elementIds, 1, elementCount) = << >>
  <2> DEFINE first == SubSeq(elementIds, 1, elementCount)
  <2>1. elementIds \in Seq(ElementIds) /\ elementCount \in 0..Len(elementIds)
    BY <1>1
  <2>2. first \in Seq(ElementIds) /\ Len(first) = 0
    BY <1>1, <2>1, FirstCells
  <2> HIDE DEF first
  <2>3. first = << >>
    BY <2>2, EmptySeq
  <2> QED
    BY <2>3 DEF first
<1>3. DevicesStored /\ InOrder(devices, elementIds, elementCount)
  BY <1>1 DEF DevicesStored, InOrder
<1>4. ListWillBe(SubSeq(elementIds, 1, elementCount))
  BY <1>1, <1>2 DEF ListWillBe
<1> QED
  BY <1>1, <1>3, <1>4 DEF RestartInv, ListStored

\* nothing that a restart finds, or would find, changes
LEMMA QuietRestart ==
  ASSUME BusInv, BusInv', RestartInv, UNCHANGED <<storage, writes, devices, elementCount>>,
         \A k \in 1..elementCount : elementIds'[k] = elementIds[k],
         erasing' # 0 => writes = << >>
  PROVE  RestartInv'
<1>1. /\ elementIds \in Seq(ElementIds) /\ elementCount \in 0..Len(elementIds)
      /\ elementIds' \in Seq(ElementIds) /\ elementCount \in 0..Len(elementIds')
  BY DEF BusInv, TypeOK
<1> DEFINE first == SubSeq(elementIds, 1, elementCount)
           next == SubSeq(elementIds', 1, elementCount)
<1>2. /\ first \in Seq(ElementIds) /\ Len(first) = elementCount
      /\ \A k \in 1..elementCount : first[k] = elementIds[k]
  BY <1>1, FirstCells
<1>3. /\ next \in Seq(ElementIds) /\ Len(next) = elementCount
      /\ \A k \in 1..elementCount : next[k] = elementIds'[k]
  <2> DEFINE ids == elementIds'
  <2>1. ids \in Seq(ElementIds) /\ elementCount \in 0..Len(ids)
    BY <1>1
  <2> HIDE DEF ids
  <2>2. /\ SubSeq(ids, 1, elementCount) \in Seq(ElementIds)
        /\ Len(SubSeq(ids, 1, elementCount)) = elementCount
        /\ \A k \in 1..elementCount : SubSeq(ids, 1, elementCount)[k] = ids[k]
    BY <2>1, FirstCells
  <2> QED
    BY <2>2 DEF ids
<1> HIDE DEF first, next
<1>4. \A k \in 1..Len(first) : first[k] = next[k]
  BY <1>2, <1>3
<1>5. first = next
  BY <1>2, <1>3, <1>4, SeqEqual
<1>6. SubSeq(elementIds, 1, elementCount)' = SubSeq(elementIds, 1, elementCount)
  BY <1>5 DEF first, next
<1>7. DevicesStored'
  BY DEF RestartInv, DevicesStored, DeviceWillBe, EndpointWillBe
<1>8. InOrder(devices, elementIds, elementCount)'
  BY DEF RestartInv, InOrder
<1>9. ListStored'
  BY <1>6 DEF RestartInv, ListStored, ListWillBe
<1> QED
  BY <1>7, <1>8, <1>9 DEF RestartInv

\* one write is done
LEMMA StoredFacts ==
  ASSUME BusInv, StoreNext, NEW w, w = writes[1]
  PROVE  /\ \A id \in ElementIds : storage'.endpoint[id] =
               IF w.kind = "endpoint" /\ w.id = id THEN w.data ELSE storage.endpoint[id]
         /\ \A id \in DeviceIds : storage'.device[id] =
               IF w.kind = "device" /\ w.id = id THEN w.data ELSE storage.device[id]
         /\ storage'.list = IF w.kind = "list" THEN w.data ELSE storage.list
<1>1. writes \in Seq(WriteType) /\ writes # << >> /\ storage \in StorageType
  BY DEF BusInv, TypeOK, StoreNext
<1>2. w \in WriteType /\ w = Head(writes)
  BY <1>1
<1>3. \/ /\ w.kind = "list" /\ storage' = [storage EXCEPT !.list = w.data]
      \/ /\ w.kind = "endpoint" /\ w.id \in ElementIds
         /\ storage' = [storage EXCEPT !.endpoint[w.id] = w.data]
      \/ /\ w.kind = "device" /\ w.id \in DeviceIds
         /\ storage' = [storage EXCEPT !.device[w.id] = w.data]
  BY <1>2 DEF WriteType, StoreNext
<1>4. CASE w.kind = "list" /\ storage' = [storage EXCEPT !.list = w.data]
  <2>1. /\ storage'.list = w.data /\ storage'.endpoint = storage.endpoint
        /\ storage'.device = storage.device
    BY <1>1, <1>4 DEF StorageType
  <2> QED
    BY <1>4, <2>1
<1>5. CASE /\ w.kind = "endpoint" /\ w.id \in ElementIds
           /\ storage' = [storage EXCEPT !.endpoint[w.id] = w.data]
  <2>1. /\ storage'.list = storage.list /\ storage'.device = storage.device
        /\ storage'.endpoint = [storage.endpoint EXCEPT ![w.id] = w.data]
    BY <1>1, <1>5 DEF StorageType
  <2>2. \A id \in ElementIds :
          storage'.endpoint[id] = IF w.id = id THEN w.data ELSE storage.endpoint[id]
    BY <1>1, <2>1 DEF StorageType
  <2> QED
    BY <1>5, <2>1, <2>2
<1>6. CASE /\ w.kind = "device" /\ w.id \in DeviceIds
           /\ storage' = [storage EXCEPT !.device[w.id] = w.data]
  <2>1. /\ storage'.list = storage.list /\ storage'.endpoint = storage.endpoint
        /\ storage'.device = [storage.device EXCEPT ![w.id] = w.data]
    BY <1>1, <1>6 DEF StorageType
  <2>2. \A id \in DeviceIds :
          storage'.device[id] = IF w.id = id THEN w.data ELSE storage.device[id]
    BY <1>1, <2>1 DEF StorageType
  <2> QED
    BY <1>6, <2>1, <2>2
<1> QED
  BY <1>3, <1>4, <1>5, <1>6

LEMMA StoredTail ==
  ASSUME BusInv, StoreNext
  PROVE  /\ 1 \in DOMAIN writes
         /\ \A n \in DOMAIN writes' : writes'[n] = writes[n + 1] /\ n + 1 \in DOMAIN writes
         /\ \A n \in DOMAIN writes : n = 1 \/ (n - 1 \in DOMAIN writes' /\ writes'[n - 1] = writes[n])
         /\ Len(writes') = Len(writes) - 1 /\ Len(writes) \in Nat /\ DOMAIN writes = 1..Len(writes)
<1>1. writes \in Seq(WriteType) /\ writes # << >> /\ writes' = Tail(writes)
  BY DEF BusInv, TypeOK, StoreNext
<1>2. /\ Tail(writes) \in Seq(WriteType) /\ Len(Tail(writes)) = Len(writes) - 1
      /\ \A i \in 1..Len(Tail(writes)) : Tail(writes)[i] = writes[i + 1]
  BY <1>1, HeadTailProperties
<1>3. DOMAIN Tail(writes) = 1..Len(writes) - 1 /\ DOMAIN writes = 1..Len(writes) /\ Len(writes) \in Nat
  BY <1>1, <1>2
<1>4. 1 \in DOMAIN writes
  BY <1>1
<1>5. \A n \in DOMAIN writes' : writes'[n] = writes[n + 1] /\ n + 1 \in DOMAIN writes
  BY <1>1, <1>2, <1>3
<1>6. ASSUME NEW n \in DOMAIN writes, n # 1
      PROVE  n - 1 \in DOMAIN writes' /\ writes'[n - 1] = writes[n]
  <2>1. n - 1 \in 1..Len(writes) - 1 /\ n - 1 + 1 = n
    BY <1>3, <1>6
  <2> QED
    BY <1>1, <1>2, <1>3, <2>1
<1>7. Len(writes') = Len(writes) - 1
  BY <1>1, <1>2
<1> QED
  BY <1>3, <1>4, <1>5, <1>6, <1>7

LEMMA StoreNextRestart ==
  ASSUME BusInv, RestartInv, StoreNext
  PROVE  RestartInv'
<1> DEFINE w == writes[1]
<1>1. UNCHANGED <<devices, elementIds, elementCount, erasing>> /\ writes # << >>
  BY DEF StoreNext, ram
<1>2. /\ 1 \in DOMAIN writes
      /\ \A n \in DOMAIN writes' : writes'[n] = writes[n + 1] /\ n + 1 \in DOMAIN writes
      /\ \A n \in DOMAIN writes : n = 1 \/ (n - 1 \in DOMAIN writes' /\ writes'[n - 1] = writes[n])
  BY StoredTail
<1>3. /\ \A id \in ElementIds : storage'.endpoint[id] =
            IF w.kind = "endpoint" /\ w.id = id THEN w.data ELSE storage.endpoint[id]
      /\ \A id \in DeviceIds : storage'.device[id] =
            IF w.kind = "device" /\ w.id = id THEN w.data ELSE storage.device[id]
      /\ storage'.list = IF w.kind = "list" THEN w.data ELSE storage.list
  BY StoredFacts
<1> HIDE DEF w
<1>4. \A n \in DOMAIN writes : writes[n] = w \/ \E k \in DOMAIN writes' : writes'[k] = writes[n]
  BY <1>2 DEF w
<1>5. \A k \in DOMAIN writes' : \E n \in DOMAIN writes : writes'[k] = writes[n]
  BY <1>2
<1>6. \E n \in DOMAIN writes : writes[n] = w
  BY <1>2 DEF w
<1>7. ASSUME NEW id \in ElementIds, NEW data, EndpointWillBe(id, data)
      PROVE  /\ \A k \in DOMAIN writes' : writes'[k].kind = "endpoint" /\ writes'[k].id = id =>
                   writes'[k].data = data
             /\ (\A k \in DOMAIN writes' : ~(writes'[k].kind = "endpoint" /\ writes'[k].id = id)) =>
                   storage'.endpoint[id] = data
  <2>1. \A k \in DOMAIN writes' : writes'[k].kind = "endpoint" /\ writes'[k].id = id =>
          writes'[k].data = data
    BY <1>5, <1>7 DEF EndpointWillBe
  <2>2. ASSUME \A k \in DOMAIN writes' : ~(writes'[k].kind = "endpoint" /\ writes'[k].id = id)
        PROVE  storage'.endpoint[id] = data
    <3>1. CASE w.kind = "endpoint" /\ w.id = id
      BY <1>3, <1>6, <1>7, <3>1 DEF EndpointWillBe
    <3>2. CASE ~(w.kind = "endpoint" /\ w.id = id)
      <4>1. \A n \in DOMAIN writes : ~(writes[n].kind = "endpoint" /\ writes[n].id = id)
        BY <1>4, <2>2, <3>2
      <4> QED
        BY <1>3, <1>7, <3>2, <4>1 DEF EndpointWillBe
    <3> QED
      BY <3>1, <3>2
  <2> QED
    BY <2>1, <2>2
<1>8. ASSUME NEW id \in DeviceIds, NEW data, DeviceWillBe(id, data)
      PROVE  /\ \A k \in DOMAIN writes' : writes'[k].kind = "device" /\ writes'[k].id = id =>
                   writes'[k].data = data
             /\ (\A k \in DOMAIN writes' : ~(writes'[k].kind = "device" /\ writes'[k].id = id)) =>
                   storage'.device[id] = data
  <2>1. \A k \in DOMAIN writes' : writes'[k].kind = "device" /\ writes'[k].id = id =>
          writes'[k].data = data
    BY <1>5, <1>8 DEF DeviceWillBe
  <2>2. ASSUME \A k \in DOMAIN writes' : ~(writes'[k].kind = "device" /\ writes'[k].id = id)
        PROVE  storage'.device[id] = data
    <3>1. CASE w.kind = "device" /\ w.id = id
      BY <1>3, <1>6, <1>8, <3>1 DEF DeviceWillBe
    <3>2. CASE ~(w.kind = "device" /\ w.id = id)
      <4>1. \A n \in DOMAIN writes : ~(writes[n].kind = "device" /\ writes[n].id = id)
        BY <1>4, <2>2, <3>2
      <4> QED
        BY <1>3, <1>8, <3>2, <4>1 DEF DeviceWillBe
    <3> QED
      BY <3>1, <3>2
  <2> QED
    BY <2>1, <2>2
<1>9. ASSUME NEW data, ListWillBe(data)
      PROVE  /\ \A k \in DOMAIN writes' : writes'[k].kind = "list" => writes'[k].data = data
             /\ (\A k \in DOMAIN writes' : writes'[k].kind # "list") => storage'.list = data
  <2>1. \A k \in DOMAIN writes' : writes'[k].kind = "list" => writes'[k].data = data
    BY <1>5, <1>9 DEF ListWillBe
  <2>2. ASSUME \A k \in DOMAIN writes' : writes'[k].kind # "list"
        PROVE  storage'.list = data
    <3>1. CASE w.kind = "list"
      BY <1>3, <1>6, <1>9, <3>1 DEF ListWillBe
    <3>2. CASE w.kind # "list"
      <4>1. \A n \in DOMAIN writes : writes[n].kind # "list"
        BY <1>4, <2>2, <3>2
      <4> QED
        BY <1>3, <1>9, <3>2, <4>1 DEF ListWillBe
    <3> QED
      BY <3>1, <3>2
  <2> QED
    BY <2>1, <2>2
<1>10. DevicesStored'
  <2>1. ASSUME NEW n \in DOMAIN devices
        PROVE  /\ DeviceWillBe(devices[n].id, devices[n].node)'
               /\ \A j \in DOMAIN devices[n].endpoints :
                    EndpointWillBe(devices[n].endpoints[j].id,
                      [device |-> devices[n].id, plugs |-> devices[n].endpoints[j].plugs])'
    <3>1. devices[n] \in Devices
      BY DEF BusInv, TypeOK
    <3>2. devices[n].id \in DeviceIds /\ devices[n].endpoints \in Seq(Endpoints)
      BY <3>1 DEF Devices
    <3>3. DeviceWillBe(devices[n].id, devices[n].node)'
      <4>1. DeviceWillBe(devices[n].id, devices[n].node)
        BY DEF RestartInv, DevicesStored
      <4> DEFINE id == devices[n].id
                 data == devices[n].node
      <4>2. /\ \A k \in DOMAIN writes' : writes'[k].kind = "device" /\ writes'[k].id = id =>
                  writes'[k].data = data
            /\ (\A k \in DOMAIN writes' : ~(writes'[k].kind = "device" /\ writes'[k].id = id)) =>
                  storage'.device[id] = data
        BY <1>8, <3>2, <4>1
      <4> QED
        BY <1>1, <4>2 DEF DeviceWillBe
    <3>4. ASSUME NEW j \in DOMAIN devices[n].endpoints
          PROVE  EndpointWillBe(devices[n].endpoints[j].id,
                   [device |-> devices[n].id, plugs |-> devices[n].endpoints[j].plugs])'
      <4>1. EndpointWillBe(devices[n].endpoints[j].id,
              [device |-> devices[n].id, plugs |-> devices[n].endpoints[j].plugs])
        BY DEF RestartInv, DevicesStored
      <4>2. devices[n].endpoints[j] \in Endpoints
        BY <3>2
      <4>3. devices[n].endpoints[j].id \in ElementIds
        BY <4>2 DEF Endpoints
      <4> DEFINE id == devices[n].endpoints[j].id
                 data == [device |-> devices[n].id, plugs |-> devices[n].endpoints[j].plugs]
      <4>4. /\ \A k \in DOMAIN writes' : writes'[k].kind = "endpoint" /\ writes'[k].id = id =>
                  writes'[k].data = data
            /\ (\A k \in DOMAIN writes' : ~(writes'[k].kind = "endpoint" /\ writes'[k].id = id)) =>
                  storage'.endpoint[id] = data
        BY <1>7, <4>1, <4>3
      <4> QED
        BY <1>1, <4>4 DEF EndpointWillBe
    <3> QED
      BY <3>3, <3>4
  <2> QED
    BY <1>1, <2>1 DEF DevicesStored
<1>11. ListStored'
  <2>1. ListWillBe(SubSeq(elementIds, 1, elementCount))
    BY <1>1 DEF RestartInv, ListStored
  <2> DEFINE data == SubSeq(elementIds, 1, elementCount)
  <2>2. ListWillBe(data) /\ SubSeq(elementIds, 1, elementCount)' = data
    BY <1>1, <2>1
  <2> HIDE DEF data
  <2>3. /\ \A k \in DOMAIN writes' : writes'[k].kind = "list" => writes'[k].data = data
        /\ (\A k \in DOMAIN writes' : writes'[k].kind # "list") => storage'.list = data
    BY <1>9, <2>2
  <2> QED
    BY <2>2, <2>3 DEF ListStored, ListWillBe
<1>12. InOrder(devices, elementIds, elementCount)'
  BY <1>1 DEF RestartInv, InOrder
<1> QED
  BY <1>1, <1>10, <1>11, <1>12 DEF RestartInv

-----------------------------------------------------------------------------
(* A commissioning ends *)

\* what is kept of a list stays in its order
LEMMA KeptOrder ==
  ASSUME NEW ids \in Seq(ElementIds), IsInjective(ids), NEW erased, NEW kept,
         kept = WithoutIds(ids, erased),
         NEW a \in 1..Len(ids), NEW b \in 1..Len(ids), a < b,
         NEW p \in 1..Len(kept), NEW q \in 1..Len(kept), kept[p] = ids[a], kept[q] = ids[b]
  PROVE  p < q
<1> DEFINE places == {n \in DOMAIN ids : ids[n] \notin erased}
<1>1. kept = Keep(ids, places)
  BY DEF WithoutIds
<1> HIDE DEF places
<1>2. kept \in Seq(ElementIds) /\ \E pos : Selects(pos, kept, ids, Len(ids), places)
  BY <1>1, KeepSelects
<1>3. PICK pos : Selects(pos, kept, ids, Len(ids), places)
  BY <1>2
<1>4. /\ pos[p] \in 1..Len(ids) /\ pos[q] \in 1..Len(ids)
      /\ kept[p] = ids[pos[p]] /\ kept[q] = ids[pos[q]]
  BY <1>3 DEF Selects
<1>5. pos[p] = a /\ pos[q] = b
  <2>1. DOMAIN ids = 1..Len(ids)
    OBVIOUS
  <2> QED
    BY <1>4, <2>1 DEF IsInjective
<1>6. p # q /\ ~(q < p)
  <2>1. a \in Int /\ b \in Int /\ a # b /\ ~(b < a)
    OBVIOUS
  <2>2. q < p => pos[q] < pos[p]
    BY <1>3 DEF Selects
  <2> QED
    BY <1>5, <2>1, <2>2
<1>7. Len(kept) \in Nat
  BY <1>2
<1> QED
  BY <1>6, <1>7

\* the list that is stored with a device, and its records
Record(x, c) ==
  \/ x.kind = "list"
  \/ /\ x.kind = "device" /\ x.device = c.device /\ x.id = c.device /\ x.data = c.node
  \/ /\ x.kind = "endpoint" /\ x.device = c.device
     /\ \E k \in DOMAIN c.endpoints :
          /\ x.id = c.endpoints[k].id
          /\ x.data = [device |-> c.device, plugs |-> c.endpoints[k].plugs]

RecordsOf(all, c, kept) ==
  /\ \A n \in DOMAIN all : Record(all[n], c)
  /\ \A n \in DOMAIN all : all[n].kind = "list" => all[n].data = kept
  /\ \E n \in DOMAIN all : all[n].kind = "list"
  /\ c.endpoints # << >> => \E n \in DOMAIN all : all[n].kind = "device"
  /\ \A n \in DOMAIN all : all[n].kind = "device" => n = Len(all)
  /\ \A k \in DOMAIN c.endpoints : \E n \in DOMAIN all :
       all[n].kind = "endpoint" /\ all[n].id = c.endpoints[k].id
  /\ c.endpoints = << >> => \A n \in DOMAIN all : all[n].kind = "list"

LEMMA DeviceRecords ==
  ASSUME NEW c \in CommType, c.endpoints # << >>, NEW kept \in Seq(ElementIds),
         NEW all, all = <<WriteList(kept)>> \o DeviceWrites(NewDevice(c))
  PROVE  RecordsOf(all, c, kept)
<1> DEFINE d == NewDevice(c)
           es == c.endpoints
           first == [k \in DOMAIN es |->
                       WriteEndpoint(es[k].id, d.id, [device |-> d.id, plugs |-> es[k].plugs])]
           w == WriteDevice(d.id, d.node)
           wl == WriteList(kept)
           more == DeviceWrites(d)
<1>1. d \in Devices /\ d.id = c.device /\ d.node = c.node /\ d.endpoints = es /\ es \in Seq(Endpoints)
  BY DEF NewDevice, Devices, CommType
<1>2. DOMAIN es = 1..Len(es) /\ Len(es) \in Nat
  BY <1>1
<1>3. more \in Seq(WriteType)
  BY <1>1, DeviceWritesType
<1>4. wl \in WriteType /\ wl.kind = "list" /\ wl.data = kept
  BY DEF WriteList, WriteType
<1>5. /\ w.kind = "device" /\ w.device = c.device /\ w.id = c.device /\ w.data = c.node
      /\ w \in WriteType
  <2>1. c.device \in DeviceIds /\ c.node \in Nodes
    BY DEF CommType
  <2> QED
    BY <1>1, <2>1 DEF WriteDevice, WriteType
<1>6. \A k \in DOMAIN es : /\ first[k].kind = "endpoint" /\ first[k].id = es[k].id
                           /\ first[k].device = c.device
                           /\ first[k].data = [device |-> c.device, plugs |-> es[k].plugs]
                           /\ first[k] \in WriteType
  <2> SUFFICES ASSUME NEW k \in DOMAIN es
               PROVE  /\ first[k].kind = "endpoint" /\ first[k].id = es[k].id
                      /\ first[k].device = c.device
                      /\ first[k].data = [device |-> c.device, plugs |-> es[k].plugs]
                      /\ first[k] \in WriteType
    OBVIOUS
  <2>1. first[k] = WriteEndpoint(es[k].id, c.device, [device |-> c.device, plugs |-> es[k].plugs])
    BY <1>1
  <2>2. es[k] \in Endpoints
    BY <1>1
  <2>3. es[k].id \in ElementIds /\ es[k].plugs \in PlugsType /\ c.device \in DeviceIds
    BY <2>2 DEF Endpoints, CommType
  <2> HIDE DEF first, es
  <2>4. first[k] \in WriteType
    BY <2>1, <2>3 DEF WriteEndpoint, WriteType
  <2> QED
    BY <2>1, <2>4 DEF WriteEndpoint
<1>7. more = first \o <<w>>
  BY <1>1 DEF DeviceWrites
<1>8. first \in Seq(WriteType) /\ Len(first) = Len(es)
  <2>1. first = [k \in 1..Len(es) |-> first[k]]
    BY <1>2
  <2>2. \A k \in 1..Len(es) : first[k] \in WriteType
    BY <1>2, <1>6
  <2> HIDE DEF first, es
  <2> QED
    BY <1>2, <2>1, <2>2, IsSequence
<1> HIDE DEF first, w, wl, more
<1>9. more = Append(first, w)
  BY <1>5, <1>7, <1>8, AppendIsConcat
<1>10. /\ Len(more) = Len(es) + 1
       /\ \A k \in 1..Len(es) : more[k] = first[k]
       /\ more[Len(es) + 1] = w
  BY <1>5, <1>8, <1>9, AppendProperties
<1>11. all = <<wl>> \o more
  BY DEF wl, more
<1>12. /\ DOMAIN all = 1..Len(more) + 1 /\ all[1] = wl
       /\ \A n \in 1..Len(more) : all[n + 1] = more[n]
  BY <1>3, <1>4, <1>11, PutFirst
<1> HIDE DEF es, d
<1>13. ASSUME NEW n \in DOMAIN all
       PROVE  all[n] = wl \/ all[n] = w \/ \E k \in DOMAIN es : all[n] = first[k]
  <2>1. n \in 1..Len(es) + 2
    BY <1>2, <1>10, <1>12
  <2>2. CASE n = 1
    BY <1>12, <2>2
  <2>3. CASE n = Len(es) + 2
    <3>1. Len(es) + 1 \in 1..Len(more) /\ Len(es) + 1 + 1 = n
      BY <1>2, <1>10, <2>3
    <3> QED
      BY <1>10, <1>12, <3>1
  <2>4. CASE n # 1 /\ n # Len(es) + 2
    <3>1. n - 1 \in 1..Len(es) /\ n - 1 \in 1..Len(more) /\ n - 1 + 1 = n
      BY <1>2, <1>10, <2>1, <2>4
    <3>2. all[n] = first[n - 1]
      BY <1>10, <1>12, <3>1
    <3> QED
      BY <1>2, <3>1, <3>2
  <2> QED
    BY <2>2, <2>3, <2>4
<1>14. 1 \in DOMAIN all
  BY <1>2, <1>10, <1>12
<1>15. \E n \in DOMAIN all : all[n] = w
  <2>1. Len(es) + 1 \in 1..Len(more) /\ Len(es) + 1 + 1 \in DOMAIN all
    BY <1>2, <1>10, <1>12
  <2> QED
    BY <1>10, <1>12, <2>1
<1>16. ASSUME NEW k \in DOMAIN es
       PROVE  \E n \in DOMAIN all : all[n] = first[k]
  <2>1. k \in 1..Len(more) /\ k \in 1..Len(es) /\ k + 1 \in DOMAIN all
    BY <1>2, <1>10, <1>12
  <2> QED
    BY <1>10, <1>12, <2>1
<1>17. \A n \in DOMAIN all : Record(all[n], c)
  <2> SUFFICES ASSUME NEW n \in DOMAIN all
               PROVE  Record(all[n], c)
    OBVIOUS
  <2>1. CASE all[n] = wl
    BY <1>4, <2>1 DEF Record
  <2>2. CASE all[n] = w
    BY <1>5, <2>2 DEF Record
  <2>3. CASE \E k \in DOMAIN es : all[n] = first[k]
    BY <1>6, <2>3 DEF Record, es
  <2> QED
    BY <1>13, <2>1, <2>2, <2>3
<1>18. \A n \in DOMAIN all : all[n].kind = "list" => all[n].data = kept
  <2> SUFFICES ASSUME NEW n \in DOMAIN all, all[n].kind = "list"
               PROVE  all[n].data = kept
    OBVIOUS
  <2>1. all[n] = wl
    BY <1>5, <1>6, <1>13
  <2> QED
    BY <1>4, <2>1
<1>19. \E n \in DOMAIN all : all[n].kind = "list"
  BY <1>4, <1>12, <1>14
<1>20. \E n \in DOMAIN all : all[n].kind = "device"
  BY <1>5, <1>15
<1>21. \A k \in DOMAIN es : \E n \in DOMAIN all : all[n].kind = "endpoint" /\ all[n].id = es[k].id
  BY <1>6, <1>16
<1>22. ASSUME NEW n \in DOMAIN all, all[n].kind = "device"
       PROVE  n = Len(all)
  <2>1. Len(all) = Len(es) + 2
    <3>1. Len(all) = Len(more) + 1
      BY <1>3, <1>4, <1>11
    <3> QED
      BY <1>2, <1>10, <3>1
  <2>2. n # 1
    BY <1>4, <1>12, <1>22
  <2>3. n - 1 \in 1..Len(es) + 1 /\ n - 1 + 1 = n
    BY <1>2, <1>10, <1>12, <2>2
  <2>4. n - 1 \notin 1..Len(es)
    <3> SUFFICES ASSUME n - 1 \in 1..Len(es)
                 PROVE  FALSE
      OBVIOUS
    <3>1. n - 1 \in 1..Len(more) /\ n - 1 \in DOMAIN es
      BY <1>2, <1>10
    <3>2. all[n] = first[n - 1]
      BY <1>10, <1>12, <2>3, <3>1
    <3> QED
      BY <1>6, <1>22, <3>1, <3>2
  <2> QED
    BY <1>2, <2>1, <2>3, <2>4
<1> QED
  BY <1>17, <1>18, <1>19, <1>20, <1>21, <1>22 DEF RecordsOf, es

\* x is before y in the first cells
Before(ids, x, y) ==
  \E a, b \in 1..Len(ids) : ids[a] = x /\ ids[b] = y /\ a < b

LEMMA DeviceBefore ==
  ASSUME NEW list \in Seq(Devices), NEW ids \in Seq(ElementIds), NEW count \in 0..Len(ids),
         Listed(list, ids, count), InOrder(list, ids, count), NEW m \in DOMAIN list,
         NEW i \in DOMAIN list[m].endpoints, NEW j \in DOMAIN list[m].endpoints, i < j
  PROVE  Before(ids, list[m].endpoints[i].id, list[m].endpoints[j].id)
<1>1. PICK a \in 1..count : list[m].endpoints[i].id = ids[a]
  BY DEF Listed
<1>2. PICK b \in 1..count : list[m].endpoints[j].id = ids[b]
  BY DEF Listed
<1>3. a < b
  BY <1>1, <1>2 DEF InOrder
<1>4. a \in 1..Len(ids) /\ b \in 1..Len(ids)
  OBVIOUS
<1> QED
  BY <1>1, <1>2, <1>3, <1>4 DEF Before

LEMMA NewDeviceBefore ==
  ASSUME NEW list \in Seq(Devices), DeviceList(list), NEW c \in CommType, OldStays(c, list),
         NEW ids \in Seq(ElementIds), NEW count \in 0..Len(ids),
         Listed(list, ids, count), InOrder(list, ids, count), Fits(EndpointIds(c), c.old, ids, count),
         NEW i \in DOMAIN c.endpoints, NEW j \in DOMAIN c.endpoints, i < j
  PROVE  Before(ids, c.endpoints[i].id, c.endpoints[j].id)
<1> DEFINE es == c.endpoints
           old == c.old
           N == Len(old)
<1>1. /\ es \in Seq(Endpoints) /\ old \in Seq(ElementIds) /\ N \in Nat /\ DOMAIN old = 1..N
      /\ DOMAIN es = 1..Len(es) /\ Len(es) \in Nat /\ i \in 1..Len(es) /\ j \in 1..Len(es)
      /\ count \in Nat /\ Len(ids) \in Nat /\ count <= Len(ids)
  BY DEF CommType
<1>2. /\ \A k \in 1..Len(es) : k <= N => es[k].id = old[k]
      /\ \A k \in 1..Len(es) : k > N => count + k - N \in 1..Len(ids) /\ es[k].id = ids[count + k - N]
  BY GivenFacts
<1>3. \A k \in 1..N : Holds(list, old[k])
  BY OldElementsFacts DEF OldElements
<1>4. CASE j <= N
  <2>1. i \in 1..N /\ j \in 1..N
    BY <1>1, <1>4
  <2>2. old # << >>
    BY <1>1, <2>1
  <2>3. PICK m \in DOMAIN list : list[m].id = c.device /\ EndpointIds(list[m]) = old
    BY <2>2 DEF OldStays
  <2>4. list[m] \in Devices
    BY <2>3
  <2>5. list[m].endpoints \in Seq(Endpoints)
    BY <2>4 DEF Devices
  <2> DEFINE ms == list[m].endpoints
  <2>6. Len(old) = Len(ms) /\ \A k \in 1..Len(ms) : old[k] = ms[k].id
    BY <2>3, <2>5, EndpointIdsFacts
  <2>7. DOMAIN ms = 1..Len(ms)
    BY <2>5
  <2>8. i \in DOMAIN ms /\ j \in DOMAIN ms /\ ms[i].id = old[i] /\ ms[j].id = old[j]
    BY <2>1, <2>6, <2>7
  <2>9. Before(ids, ms[i].id, ms[j].id)
    BY <2>3, <2>8, DeviceBefore
  <2>10. es[i].id = old[i] /\ es[j].id = old[j]
    BY <1>1, <1>2, <2>1
  <2> QED
    BY <2>8, <2>9, <2>10
<1>5. CASE i <= N /\ j > N
  <2>1. i \in 1..N /\ es[i].id = old[i]
    BY <1>1, <1>2, <1>5
  <2>2. PICK n \in DOMAIN list : \E k \in DOMAIN list[n].endpoints : list[n].endpoints[k].id = old[i]
    BY <1>3, <2>1 DEF Holds
  <2>3. PICK a \in 1..count : old[i] = ids[a]
    BY <2>2 DEF Listed
  <2> DEFINE b == count + j - N
  <2>4. b \in 1..Len(ids) /\ es[j].id = ids[b]
    <3>1. j \in 1..Len(es) /\ j > N
      BY <1>1, <1>5
    <3> QED
      BY <1>2, <3>1
  <2>5. a \in 1..Len(ids) /\ a < b
    BY <1>1, <1>5
  <2> QED
    BY <2>1, <2>3, <2>4, <2>5 DEF Before
<1>6. CASE i > N
  <2> DEFINE a == count + i - N
             b == count + j - N
  <2>1. a \in 1..Len(ids) /\ es[i].id = ids[a]
    BY <1>1, <1>2, <1>6
  <2>2. b \in 1..Len(ids) /\ es[j].id = ids[b]
    <3>1. j \in 1..Len(es) /\ j > N
      BY <1>1, <1>6
    <3> QED
      BY <1>2, <3>1
  <2>3. a < b
    BY <1>1
  <2> QED
    BY <2>1, <2>2, <2>3 DEF Before
<1> QED
  BY <1>1, <1>4, <1>5, <1>6

LEMMA ReplacedInOrder ==
  ASSUME NEW list \in Seq(Devices), DeviceList(list), NEW c \in CommType, OldStays(c, list),
         NEW ids \in Seq(ElementIds), IsInjective(ids), NEW count \in 0..Len(ids),
         Listed(list, ids, count), InOrder(list, ids, count), Fits(EndpointIds(c), c.old, ids, count),
         NEW all, all = Replaced(c, list), NEW erased, NEW kept, kept = WithoutIds(ids, erased)
  PROVE  InOrder(all, kept, Len(kept))
<1>1. \A n \in DOMAIN all :
        \/ n = 1 /\ all[n] = NewDevice(c) /\ c.endpoints # << >>
        \/ \E m \in DOMAIN list : list[m].id # c.device /\ all[n] = list[m]
  BY ReplacedPlaces
<1>2. ASSUME NEW n \in DOMAIN all
      PROVE  \A i, j \in DOMAIN all[n].endpoints : i < j =>
               Before(ids, all[n].endpoints[i].id, all[n].endpoints[j].id)
  <2>1. CASE all[n] = NewDevice(c)
    <3>1. all[n].endpoints = c.endpoints
      BY <2>1 DEF NewDevice
    <3> QED
      BY <3>1, NewDeviceBefore
  <2>2. CASE \E m \in DOMAIN list : all[n] = list[m]
    BY <2>2, DeviceBefore
  <2> QED
    BY <1>1, <2>1, <2>2
<1>3. ASSUME NEW n \in DOMAIN all
      PROVE  \A i, j \in DOMAIN all[n].endpoints : \A p, q \in 1..Len(kept) :
               kept[p] = all[n].endpoints[i].id /\ kept[q] = all[n].endpoints[j].id /\ i < j => p < q
  <2> TAKE i, j \in DOMAIN all[n].endpoints
  <2> TAKE p, q \in 1..Len(kept)
  <2>0. HAVE kept[p] = all[n].endpoints[i].id /\ kept[q] = all[n].endpoints[j].id /\ i < j
  <2>1. Before(ids, kept[p], kept[q])
    BY <1>2, <2>0
  <2>2. PICK a \in 1..Len(ids) : \E b \in 1..Len(ids) : ids[a] = kept[p] /\ ids[b] = kept[q] /\ a < b
    BY <2>1 DEF Before
  <2>3. PICK b \in 1..Len(ids) : ids[a] = kept[p] /\ ids[b] = kept[q] /\ a < b
    BY <2>2
  <2> QED
    BY <2>3, KeptOrder
<1> QED
  BY <1>3, Zenon DEF InOrder

LEMMA WholeList ==
  ASSUME NEW S, NEW list \in Seq(S)
  PROVE  SubSeq(list, 1, Len(list)) = list
<1> DEFINE n == Len(list)
           first == SubSeq(list, 1, n)
<1>1. n \in 0..Len(list)
  OBVIOUS
<1>2. /\ first \in Seq(S) /\ Len(first) = n
      /\ \A k \in 1..n : first[k] = list[k]
  BY <1>1, FirstCells
<1> HIDE DEF first
<1>3. first = list
  BY <1>2, SeqEqual
<1> QED
  BY <1>3 DEF first

LEMMA FinishRestart ==
  ASSUME BusInv, BusInv', RestartInv, writes = << >>, erasing = 0,
         NEW c \in CommType, OldStays(c, devices),
         Fits(EndpointIds(c), c.old, elementIds, elementCount),
         Finish(c, elementIds), UNCHANGED <<storage, erasing>>
  PROVE  RestartInv'
<1> DEFINE kept == WithoutIds(elementIds, ToSet(OldIds(c)))
           all == Replaced(c, devices)
           ws == writes'
<1>1. /\ devices \in Seq(Devices) /\ DeviceList(devices)
      /\ elementIds \in Seq(ElementIds) /\ IsInjective(elementIds)
      /\ elementCount \in 0..Len(elementIds) /\ Listed(devices, elementIds, elementCount)
      /\ DevicesStored /\ InOrder(devices, elementIds, elementCount)
  BY DEF BusInv, TypeOK, ListsInjective, DevicesMatch, RestartInv
<1>2. elementIds' = kept /\ elementCount' = Len(kept) /\ devices' = all
  BY DEF Finish, Replaced, Others, NewDevice
<1>3. \/ c.endpoints = << >> /\ ws = <<WriteList(kept)>>
      \/ c.endpoints # << >> /\ ws = <<WriteList(kept)>> \o DeviceWrites(NewDevice(c))
  BY DEF Finish, NewDevice
<1>4. InOrder(all, kept, Len(kept))
  BY <1>1, ReplacedInOrder
<1>5. /\ \A n \in DOMAIN all :
           \/ n = 1 /\ all[n] = NewDevice(c) /\ c.endpoints # << >>
           \/ \E m \in DOMAIN devices : devices[m].id # c.device /\ all[n] = devices[m]
      /\ c.endpoints # << >> => 1 \in DOMAIN all /\ all[1] = NewDevice(c)
  BY <1>1, ReplacedPlaces
<1>6. kept \in Seq(ElementIds) /\ DeviceList(all)
  BY <1>2 DEF BusInv, TypeOK, DevicesMatch
<1> HIDE DEF kept, all, ws
<1>7. RecordsOf(ws, c, kept)
  <2>1. CASE c.endpoints = << >> /\ ws = <<WriteList(kept)>>
    <3>1. DOMAIN ws = {1} /\ ws[1].kind = "list" /\ ws[1].data = kept
      BY <2>1 DEF WriteList
    <3>2. DOMAIN c.endpoints = {}
      BY <2>1
    <3> QED
      BY <2>1, <3>1, <3>2 DEF RecordsOf, Record
  <2>2. CASE c.endpoints # << >> /\ ws = <<WriteList(kept)>> \o DeviceWrites(NewDevice(c))
    BY <1>6, <2>2, DeviceRecords
  <2> QED
    BY <1>3, <2>1, <2>2
<1>8. NewDevice(c).id = c.device /\ NewDevice(c).node = c.node /\ NewDevice(c).endpoints = c.endpoints
  BY DEF NewDevice
\* the new device
<1>9. ASSUME NEW n \in DOMAIN all, all[n] = NewDevice(c), c.endpoints # << >>
      PROVE  /\ \A k \in DOMAIN ws : ws[k].kind = "device" /\ ws[k].id = all[n].id => ws[k].data = all[n].node
             /\ \E k \in DOMAIN ws : ws[k].kind = "device" /\ ws[k].id = all[n].id
             /\ \A j \in DOMAIN all[n].endpoints :
                  /\ \A k \in DOMAIN ws : ws[k].kind = "endpoint" /\ ws[k].id = all[n].endpoints[j].id =>
                       ws[k].data = [device |-> all[n].id, plugs |-> all[n].endpoints[j].plugs]
                  /\ \E k \in DOMAIN ws : ws[k].kind = "endpoint" /\ ws[k].id = all[n].endpoints[j].id
  <2>1. all[n].id = c.device /\ all[n].node = c.node /\ all[n].endpoints = c.endpoints
    BY <1>8, <1>9
  <2>2. ASSUME NEW j \in DOMAIN c.endpoints, NEW k \in DOMAIN ws, ws[k].kind = "endpoint",
               ws[k].id = c.endpoints[j].id
        PROVE  ws[k].data = [device |-> c.device, plugs |-> c.endpoints[j].plugs]
    <3>1. PICK o \in DOMAIN c.endpoints : /\ ws[k].id = c.endpoints[o].id
                                          /\ ws[k].data = [device |-> c.device, plugs |-> c.endpoints[o].plugs]
      BY <1>7, <2>2 DEF RecordsOf, Record
    <3>2. o = j
      <4>1. /\ o \in DOMAIN all[n].endpoints /\ j \in DOMAIN all[n].endpoints
            /\ all[n].endpoints[o].id = all[n].endpoints[j].id
        BY <2>1, <2>2, <3>1
      <4>2. Apart(all)
        BY <1>6 DEF DeviceList
      <4> QED
        BY <4>1, <4>2, Zenon DEF Apart
    <3> QED
      BY <3>1, <3>2
  <2>3. \A k \in DOMAIN ws : ws[k].kind = "device" => ws[k].id = c.device /\ ws[k].data = c.node
    BY <1>7 DEF RecordsOf, Record
  <2>4. \E k \in DOMAIN ws : ws[k].kind = "device" /\ ws[k].id = c.device
    BY <1>7, <1>9, <2>3 DEF RecordsOf
  <2>5. \A j \in DOMAIN c.endpoints : \E k \in DOMAIN ws :
          ws[k].kind = "endpoint" /\ ws[k].id = c.endpoints[j].id
    BY <1>7 DEF RecordsOf
  <2> QED
    BY <2>1, <2>2, <2>3, <2>4, <2>5
\* the other devices
<1>10. ASSUME NEW n \in DOMAIN all, NEW m \in DOMAIN devices, devices[m].id # c.device,
              all[n] = devices[m]
       PROVE  /\ \A k \in DOMAIN ws : ~(ws[k].kind = "device" /\ ws[k].id = all[n].id)
              /\ storage.device[all[n].id] = all[n].node
              /\ \A j \in DOMAIN all[n].endpoints :
                   /\ \A k \in DOMAIN ws : ~(ws[k].kind = "endpoint" /\ ws[k].id = all[n].endpoints[j].id)
                   /\ storage.endpoint[all[n].endpoints[j].id] =
                        [device |-> all[n].id, plugs |-> all[n].endpoints[j].plugs]
  <2>1. \A k \in DOMAIN ws : ~(ws[k].kind = "device" /\ ws[k].id = all[n].id)
    BY <1>7, <1>10 DEF RecordsOf, Record
  <2>2. /\ storage.device[all[n].id] = all[n].node
        /\ \A j \in DOMAIN all[n].endpoints : storage.endpoint[all[n].endpoints[j].id] =
             [device |-> all[n].id, plugs |-> all[n].endpoints[j].plugs]
    BY <1>1, <1>10 DEF DevicesStored, DeviceWillBe, EndpointWillBe
  <2>3. ASSUME NEW j \in DOMAIN all[n].endpoints, NEW k \in DOMAIN ws, ws[k].kind = "endpoint",
               ws[k].id = all[n].endpoints[j].id
        PROVE  FALSE
    <3>1. PICK o \in DOMAIN c.endpoints : ws[k].id = c.endpoints[o].id
      BY <1>7, <2>3 DEF RecordsOf, Record
    <3>2. c.endpoints # << >>
      BY <3>1
    <3>3. 1 \in DOMAIN all /\ all[1] = NewDevice(c) /\ all[1].id = c.device /\ all[1].endpoints = c.endpoints
      BY <1>5, <1>8, <3>2
    <3>4. n = 1
      <4>1. o \in DOMAIN all[1].endpoints /\ all[n].endpoints[j].id = all[1].endpoints[o].id
        BY <2>3, <3>1, <3>3
      <4>2. Apart(all)
        BY <1>6 DEF DeviceList
      <4> QED
        BY <3>3, <4>1, <4>2, Zenon DEF Apart
    <3> QED
      BY <1>10, <3>3, <3>4
  <2> QED
    BY <2>1, <2>2, <2>3
<1>11. DevicesStored'
  <2> SUFFICES ASSUME NEW n \in DOMAIN all
               PROVE  /\ \A k \in DOMAIN ws : ws[k].kind = "device" /\ ws[k].id = all[n].id =>
                           ws[k].data = all[n].node
                      /\ (\A k \in DOMAIN ws : ~(ws[k].kind = "device" /\ ws[k].id = all[n].id)) =>
                           storage.device[all[n].id] = all[n].node
                      /\ \A j \in DOMAIN all[n].endpoints :
                           /\ \A k \in DOMAIN ws :
                                ws[k].kind = "endpoint" /\ ws[k].id = all[n].endpoints[j].id =>
                                ws[k].data = [device |-> all[n].id, plugs |-> all[n].endpoints[j].plugs]
                           /\ (\A k \in DOMAIN ws :
                                 ~(ws[k].kind = "endpoint" /\ ws[k].id = all[n].endpoints[j].id)) =>
                                storage.endpoint[all[n].endpoints[j].id] =
                                  [device |-> all[n].id, plugs |-> all[n].endpoints[j].plugs]
    BY <1>2 DEF DevicesStored, DeviceWillBe, EndpointWillBe, ws
  <2>1. CASE all[n] = NewDevice(c) /\ c.endpoints # << >>
    BY <1>9, <2>1
  <2>2. CASE \E m \in DOMAIN devices : devices[m].id # c.device /\ all[n] = devices[m]
    BY <1>10, <2>2
  <2> QED
    BY <1>5, <2>1, <2>2
<1>12. ListStored'
  <2>1. SubSeq(elementIds, 1, elementCount)' = kept
    BY <1>2, <1>6, WholeList
  <2>2. \A k \in DOMAIN ws : ws[k].kind = "list" => ws[k].data = kept
    BY <1>7 DEF RecordsOf
  <2>3. ~ \A k \in DOMAIN ws : ws[k].kind # "list"
    BY <1>7 DEF RecordsOf
  <2> QED
    BY <2>1, <2>2, <2>3 DEF ListStored, ListWillBe, ws
<1>13. InOrder(devices, elementIds, elementCount)'
  BY <1>2, <1>4 DEF InOrder
<1> QED
  BY <1>11, <1>12, <1>13 DEF RestartInv

-----------------------------------------------------------------------------
(* An element is erased *)

LeftOf(d, e, m) ==
  /\ d.id = e.id /\ d.node = e.node
  /\ \A j \in DOMAIN d.endpoints :
       j + First(m) \in DOMAIN e.endpoints /\ d.endpoints[j] = e.endpoints[j + First(m)]
  /\ \A i \in DOMAIN e.endpoints :
       (m = 1 /\ i = 1) \/ \E j \in DOMAIN d.endpoints : d.endpoints[j] = e.endpoints[i]

LEMMA ErasedLeft ==
  ASSUME NEW list \in Seq(Devices), DeviceList(list), list # << >>, NEW left,
         left = Tail(list[1].endpoints), NEW new,
         new = IF left = << >> THEN Tail(list) ELSE [list EXCEPT ![1].endpoints = left]
  PROVE  \A n \in DOMAIN new : \E m \in DOMAIN list :
           LeftOf(new[n], list[m], m) /\ (m = 1 => left # << >>)
<1>1. /\ DOMAIN list = 1..Len(list) /\ Len(list) \in Nat /\ 1 \in DOMAIN list
      /\ \A n \in DOMAIN list : list[n] \in Devices /\ list[n].endpoints # << >>
  BY DEF DeviceList
<1> DEFINE es == list[1].endpoints
<1>2. es \in Seq(Endpoints) /\ es # << >> /\ left = Tail(es)
  BY <1>1 DEF Devices
<1> HIDE DEF es
<1>3. /\ DOMAIN es = 1..Len(es) /\ Len(es) \in Nat
      /\ left \in Seq(Endpoints) /\ Len(left) = Len(es) - 1
      /\ \A j \in 1..Len(left) : left[j] = es[j + 1]
  <2>1. DOMAIN es = 1..Len(es) /\ Len(es) \in Nat
    BY <1>2
  <2>2. /\ Tail(es) \in Seq(Endpoints) /\ Len(Tail(es)) = Len(es) - 1
        /\ \A j \in 1..Len(Tail(es)) : Tail(es)[j] = es[j + 1]
    BY <1>2, HeadTailProperties
  <2> QED
    BY <1>2, <2>1, <2>2
<1>4. \A m \in DOMAIN list : m # 1 => LeftOf(list[m], list[m], m)
  <2> SUFFICES ASSUME NEW m \in DOMAIN list, m # 1
               PROVE  LeftOf(list[m], list[m], m)
    OBVIOUS
  <2>1. list[m].endpoints \in Seq(Endpoints)
    BY <1>1 DEF Devices
  <2>2. \A j \in DOMAIN list[m].endpoints : j + First(m) = j
    BY <2>1 DEF First
  <2> QED
    BY <2>2 DEF LeftOf
<1>5. CASE left = << >>
  <2>1. new = Tail(list)
    BY <1>5
  <2>2. /\ new \in Seq(Devices) /\ Len(new) = Len(list) - 1
        /\ \A n \in 1..Len(new) : new[n] = list[n + 1]
    BY <2>1, HeadTailProperties
  <2>3. ASSUME NEW n \in DOMAIN new
        PROVE  n + 1 \in DOMAIN list /\ new[n] = list[n + 1] /\ n + 1 # 1
    <3>1. n \in 1..Len(list) - 1 /\ n \in 1..Len(new)
      BY <2>2
    <3>2. n + 1 \in 1..Len(list) /\ n + 1 # 1
      BY <1>1, <3>1
    <3> QED
      BY <1>1, <2>2, <3>1, <3>2
  <2>4. ASSUME NEW n \in DOMAIN new
        PROVE  \E m \in DOMAIN list : LeftOf(new[n], list[m], m) /\ (m = 1 => left # << >>)
    <3> DEFINE m == n + 1
    <3>1. m \in DOMAIN list /\ new[n] = list[m] /\ m # 1
      BY <2>3
    <3> HIDE DEF m
    <3> QED
      BY <1>4, <3>1
  <2> QED
    BY <2>4
<1>6. CASE left # << >>
  <2>1. new = [list EXCEPT ![1].endpoints = left]
    BY <1>6
  <2>2. /\ DOMAIN new = DOMAIN list
        /\ \A n \in DOMAIN list : n # 1 => new[n] = list[n]
        /\ new[1] = [list[1] EXCEPT !.endpoints = left]
    BY <1>1, <2>1
  <2>3. new[1].id = list[1].id /\ new[1].node = list[1].node /\ new[1].endpoints = left
    <3>1. list[1] \in Devices
      BY <1>1
    <3> QED
      BY <2>2, <3>1 DEF Devices
  <2>4. LeftOf(new[1], list[1], 1)
    <3>1. ASSUME NEW j \in DOMAIN left
          PROVE  j + 1 \in DOMAIN es /\ left[j] = es[j + 1]
      <4>1. j \in 1..Len(left)
        BY <1>3
      <4>2. j + 1 \in 1..Len(es)
        BY <1>3, <4>1
      <4> QED
        BY <1>3, <4>1, <4>2
    <3>2. First(1) = 1
      BY DEF First
    <3>3. ASSUME NEW i \in DOMAIN es, i # 1
          PROVE  \E j \in DOMAIN left : left[j] = es[i]
      <4>1. i - 1 \in 1..Len(left) /\ i - 1 + 1 = i
        BY <1>3, <3>3
      <4>2. i - 1 \in DOMAIN left
        BY <1>3, <4>1
      <4> QED
        BY <1>3, <4>1, <4>2
    <3> DEFINE a == new[1]
               b == list[1]
    <3>4. a.id = b.id /\ a.node = b.node /\ a.endpoints = left /\ b.endpoints = es
      BY <2>3 DEF es
    <3> HIDE DEF a, b
    <3>5. \A j \in DOMAIN a.endpoints :
            j + First(1) \in DOMAIN b.endpoints /\ a.endpoints[j] = b.endpoints[j + First(1)]
      BY <3>1, <3>2, <3>4
    <3>6. \A i \in DOMAIN b.endpoints :
            (1 = 1 /\ i = 1) \/ \E j \in DOMAIN a.endpoints : a.endpoints[j] = b.endpoints[i]
      BY <3>3, <3>4
    <3>7. LeftOf(a, b, 1)
      BY <3>4, <3>5, <3>6 DEF LeftOf
    <3> QED
      BY <3>7 DEF a, b
  <2>5. ASSUME NEW n \in DOMAIN new
        PROVE  \E m \in DOMAIN list : LeftOf(new[n], list[m], m) /\ (m = 1 => left # << >>)
    <3>1. CASE n = 1
      BY <1>1, <1>6, <2>4, <3>1
    <3>2. CASE n # 1
      BY <1>4, <2>2, <3>2
    <3> QED
      BY <3>1, <3>2
  <2> QED
    BY <2>5
<1> QED
  BY <1>5, <1>6

\* what is written for a device that loses its first endpoint
Unwrites(all, ids, d, id, left) ==
  /\ \A n \in DOMAIN all :
       \/ all[n].kind = "list" /\ all[n].data = ids
       \/ all[n].kind = "endpoint" /\ all[n].id = id /\ all[n].data = None
       \/ /\ left = << >> /\ all[n].kind = "device" /\ all[n].device = d.id
          /\ all[n].id = d.id /\ all[n].data = None
  /\ \E n \in DOMAIN all : all[n].kind = "list"
  /\ \E n \in DOMAIN all :
       /\ all[n].kind = "endpoint" /\ all[n].device = d.id
       /\ all[n].data = None /\ all[n].id = id

LEMMA ErasedRecords ==
  ASSUME NEW ids \in Seq(ElementIds), NEW d \in Devices, NEW id \in ElementIds, NEW left,
         NEW all, all = IF left = << >>
                        THEN <<WriteDevice(d.id, None)>> \o <<WriteEndpoint(id, d.id, None)>>
                             \o <<WriteList(ids)>>
                        ELSE <<WriteEndpoint(id, d.id, None)>> \o <<WriteList(ids)>>
  PROVE  Unwrites(all, ids, d, id, left)
<1> DEFINE wd == WriteDevice(d.id, None)
           we == WriteEndpoint(id, d.id, None)
           wl == WriteList(ids)
<1>1. wl \in WriteType /\ wl.data = ids /\ wl.kind = "list"
  BY DEF WriteList, WriteType
<1>2. /\ wd \in WriteType /\ wd.kind = "device" /\ wd.device = d.id /\ wd.id = d.id
      /\ wd.data = None
      /\ we \in WriteType /\ we.kind = "endpoint" /\ we.device = d.id /\ we.data = None /\ we.id = id
  <2>1. d.id \in DeviceIds
    BY DEF Devices
  <2>2. wd \in WriteType
    BY <2>1 DEF WriteDevice, WriteType
  <2>3. we \in WriteType
    BY <2>1 DEF WriteEndpoint, WriteType
  <2> QED
    BY <2>2, <2>3 DEF WriteDevice, WriteEndpoint
<1>3. \/ left = << >> /\ all = <<wd>> \o <<we>> \o <<wl>>
      \/ left # << >> /\ all = <<we>> \o <<wl>>
  OBVIOUS
<1> HIDE DEF wd, we, wl
<1>4. \/ left = << >> /\ all = <<wd, we, wl>>
      \/ left # << >> /\ all = <<we, wl>>
  <2>1. <<wd>> \o <<we>> = <<wd, we>> /\ <<wd, we>> \o <<wl>> = <<wd, we, wl>>
    BY <1>1, <1>2, ShortLists
  <2>2. <<we>> \o <<wl>> = <<we, wl>>
    BY <1>1, <1>2, ShortLists
  <2> QED
    BY <1>3, <2>1, <2>2
<1>5. CASE left = << >> /\ all = <<wd, we, wl>>
  <2>1. DOMAIN all = 1..3 /\ all[1] = wd /\ all[2] = we /\ all[3] = wl
    BY <1>5
  <2>2. \A n \in DOMAIN all : n = 1 \/ n = 2 \/ n = 3
    BY <2>1
  <2>3. 2 \in DOMAIN all /\ 3 \in DOMAIN all
    BY <2>1
  <2> QED
    BY <1>1, <1>2, <1>5, <2>1, <2>2, <2>3 DEF Unwrites
<1>6. CASE left # << >> /\ all = <<we, wl>>
  <2>1. DOMAIN all = 1..2 /\ all[1] = we /\ all[2] = wl
    BY <1>6
  <2>2. \A n \in DOMAIN all : n = 1 \/ n = 2
    BY <2>1
  <2>3. 1 \in DOMAIN all /\ 2 \in DOMAIN all
    BY <2>1
  <2> QED
    BY <1>1, <1>2, <1>6, <2>1, <2>2, <2>3 DEF Unwrites
<1> QED
  BY <1>4, <1>5, <1>6

LEMMA ErasedRestart ==
  ASSUME BusInv, RestartInv, Erased
  PROVE  RestartInv'
<1> DEFINE kept == WithoutIds(elementIds, {erasing})
           d == devices[1]
           left == Tail(d.endpoints)
           new == devices'
           ws == writes'
<1>1. /\ elementCount = Len(elementIds) /\ erasing \in ElementIds
      /\ devices # << >> /\ 1 \in DOMAIN devices /\ d \in Devices
      /\ 1 \in DOMAIN d.endpoints /\ d.endpoints[1].id = erasing
      /\ kept \in Seq(ElementIds)
      /\ elementIds' = kept /\ elementCount' = Len(kept)
      /\ new = IF left = << >> THEN Tail(devices) ELSE [devices EXCEPT ![1].endpoints = left]
      /\ ws = IF left = << >>
              THEN <<WriteDevice(d.id, None)>> \o <<WriteEndpoint(erasing, d.id, None)>>
                   \o <<WriteList(kept)>>
              ELSE <<WriteEndpoint(erasing, d.id, None)>> \o <<WriteList(kept)>>
  BY ErasedFacts
<1>2. /\ devices \in Seq(Devices) /\ DeviceList(devices)
      /\ elementIds \in Seq(ElementIds) /\ IsInjective(elementIds)
      /\ Listed(devices, elementIds, Len(elementIds))
      /\ DevicesStored /\ InOrder(devices, elementIds, Len(elementIds))
  BY <1>1 DEF BusInv, TypeOK, ListsInjective, DevicesMatch, RestartInv
<1>3. writes = << >> /\ erasing' = 0 /\ UNCHANGED storage
  BY DEF Erased, RestartInv
<1>4. \A n \in DOMAIN new : \E m \in DOMAIN devices :
        LeftOf(new[n], devices[m], m) /\ (m = 1 => left # << >>)
  <2> HIDE DEF new
  <2> QED
    BY <1>1, <1>2, ErasedLeft
<1>5. /\ \A n \in DOMAIN ws :
           \/ ws[n].kind = "list" /\ ws[n].data = kept
           \/ ws[n].kind = "endpoint" /\ ws[n].id = erasing
           \/ left = << >> /\ ws[n].kind = "device" /\ ws[n].id = d.id
      /\ \E n \in DOMAIN ws : ws[n].kind = "list"
  <2>1. /\ kept \in Seq(ElementIds) /\ d \in Devices /\ erasing \in ElementIds
        /\ ws = IF left = << >>
                THEN <<WriteDevice(d.id, None)>> \o <<WriteEndpoint(erasing, d.id, None)>>
                     \o <<WriteList(kept)>>
                ELSE <<WriteEndpoint(erasing, d.id, None)>> \o <<WriteList(kept)>>
    BY <1>1
  <2> HIDE DEF ws, d, kept, left
  <2>2. Unwrites(ws, kept, d, erasing, left)
    BY <2>1, ErasedRecords
  <2> QED
    BY <2>2 DEF Unwrites
<1> HIDE DEF kept, new, ws
<1>6. ASSUME NEW m \in DOMAIN devices
      PROVE  DOMAIN devices[m].endpoints \subseteq Nat /\ First(m) \in {0, 1} /\ (m = 1 <=> First(m) = 1)
  <2>1. devices[m] \in Devices
    BY <1>2
  <2>2. devices[m].endpoints \in Seq(Endpoints)
    BY <2>1 DEF Devices
  <2> QED
    BY <2>2 DEF First
\* what is left has its records, and nothing of it is written
<1>7. ASSUME NEW n \in DOMAIN new
      PROVE  /\ \A k \in DOMAIN ws : ~(ws[k].kind = "device" /\ ws[k].id = new[n].id)
             /\ storage.device[new[n].id] = new[n].node
             /\ \A j \in DOMAIN new[n].endpoints :
                  /\ \A k \in DOMAIN ws : ~(ws[k].kind = "endpoint" /\ ws[k].id = new[n].endpoints[j].id)
                  /\ storage.endpoint[new[n].endpoints[j].id] =
                       [device |-> new[n].id, plugs |-> new[n].endpoints[j].plugs]
  <2>1. PICK m \in DOMAIN devices : LeftOf(new[n], devices[m], m) /\ (m = 1 => left # << >>)
    BY <1>4
  <2>2. /\ storage.device[devices[m].id] = devices[m].node
        /\ \A j \in DOMAIN devices[m].endpoints : storage.endpoint[devices[m].endpoints[j].id] =
             [device |-> devices[m].id, plugs |-> devices[m].endpoints[j].plugs]
    BY <1>2, <1>3 DEF DevicesStored, DeviceWillBe, EndpointWillBe
  <2>3. new[n].id = devices[m].id /\ new[n].node = devices[m].node
    BY <2>1 DEF LeftOf
  <2>4. ASSUME NEW k \in DOMAIN ws, ws[k].kind = "device", ws[k].id = new[n].id
        PROVE  FALSE
    <3>1. left = << >> /\ devices[m].id = devices[1].id
      BY <1>5, <2>3, <2>4
    <3>2. m = 1
      BY <1>1, <1>2, <3>1 DEF DeviceList
    <3> QED
      BY <2>1, <3>1, <3>2
  <2>5. ASSUME NEW j \in DOMAIN new[n].endpoints
        PROVE  /\ \A k \in DOMAIN ws : ~(ws[k].kind = "endpoint" /\ ws[k].id = new[n].endpoints[j].id)
               /\ storage.endpoint[new[n].endpoints[j].id] =
                    [device |-> new[n].id, plugs |-> new[n].endpoints[j].plugs]
    <3> DEFINE i == j + First(m)
    <3>1. i \in DOMAIN devices[m].endpoints /\ new[n].endpoints[j] = devices[m].endpoints[i]
      BY <2>1 DEF LeftOf
    <3>2. m = 1 => i # 1
      <4>1. CASE m = 1
        <5>1. new[n].endpoints[j] = devices[m].endpoints[j + 1] /\ First(m) = 1
          BY <1>6, <3>1, <4>1
        <5>2. left # << >>
          BY <2>1, <4>1
        <5>3. DOMAIN new[n].endpoints \subseteq Nat \ {0}
          <6>1. new \in Seq(Devices)
            <7>1. new \in Seq(Devices) /\ \E a \in {0, 1} : Shifted(new, devices, a)
              BY <1>1, <1>2, ErasedShifted
            <7> QED
              BY <7>1
          <6>2. new[n] \in Devices
            BY <6>1
          <6>3. new[n].endpoints \in Seq(Endpoints)
            BY <6>2 DEF Devices
          <6> QED
            BY <6>3
        <5>4. j \in Nat \ {0}
          BY <5>3
        <5> QED
          BY <5>1, <5>4
      <4> QED
        BY <4>1
    <3> HIDE DEF i
    <3>3. devices[m].endpoints[i].id # erasing
      <4>1. Apart(devices)
        BY <1>2 DEF DeviceList
      <4>2. devices[m].endpoints[i].id = devices[1].endpoints[1].id => m = 1 /\ i = 1
        <5>1. 1 \in DOMAIN devices /\ 1 \in DOMAIN devices[1].endpoints
          BY <1>1
        <5> QED
          BY <2>1, <3>1, <4>1, <5>1 DEF Apart
      <4> QED
        BY <1>1, <3>2, <4>2
    <3>4. storage.endpoint[new[n].endpoints[j].id] =
            [device |-> new[n].id, plugs |-> new[n].endpoints[j].plugs]
      BY <2>2, <2>3, <3>1
    <3>5. \A k \in DOMAIN ws : ~(ws[k].kind = "endpoint" /\ ws[k].id = new[n].endpoints[j].id)
      BY <1>5, <3>1, <3>3
    <3> QED
      BY <3>4, <3>5
  <2>6. storage.device[new[n].id] = new[n].node
    BY <2>2, <2>3
  <2> QED
    BY <2>4, <2>5, <2>6
<1>8. DevicesStored'
  <2>1. new = devices' /\ ws = writes' /\ storage' = storage
    BY <1>3 DEF new, ws
  <2> QED
    BY <1>7, <2>1 DEF DevicesStored, DeviceWillBe, EndpointWillBe
<1>9. ASSUME NEW n \in DOMAIN new
      PROVE  \A i, j \in DOMAIN new[n].endpoints : \A p, q \in 1..Len(kept) :
               kept[p] = new[n].endpoints[i].id /\ kept[q] = new[n].endpoints[j].id /\ i < j => p < q
  <2> TAKE i, j \in DOMAIN new[n].endpoints
  <2> TAKE p, q \in 1..Len(kept)
  <2>0. HAVE kept[p] = new[n].endpoints[i].id /\ kept[q] = new[n].endpoints[j].id /\ i < j
  <2>1. PICK m \in DOMAIN devices : LeftOf(new[n], devices[m], m)
    BY <1>4
  <2> DEFINE s == i + First(m)
             t == j + First(m)
  <2>2. /\ s \in DOMAIN devices[m].endpoints /\ new[n].endpoints[i] = devices[m].endpoints[s]
        /\ t \in DOMAIN devices[m].endpoints /\ new[n].endpoints[j] = devices[m].endpoints[t]
    BY <2>1 DEF LeftOf
  <2>3. s < t
    <3>1. i \in Int /\ j \in Int
      <4>1. new \in Seq(Devices) /\ \E a \in {0, 1} : Shifted(new, devices, a)
        BY <1>1, <1>2, ErasedShifted
      <4>2. new[n] \in Devices
        BY <4>1
      <4>3. new[n].endpoints \in Seq(Endpoints)
        BY <4>2 DEF Devices
      <4> QED
        BY <4>3
    <3>2. First(m) \in Int
      BY <1>6
    <3> QED
      BY <2>0, <3>1, <3>2
  <2> HIDE DEF s, t
  <2>4. Before(elementIds, devices[m].endpoints[s].id, devices[m].endpoints[t].id)
    <3>1. Len(elementIds) \in 0..Len(elementIds)
      BY <1>2
    <3> QED
      BY <1>2, <2>2, <2>3, <3>1, DeviceBefore
  <2>5. Before(elementIds, kept[p], kept[q])
    BY <2>0, <2>2, <2>4
  <2>6. PICK a \in 1..Len(elementIds) : \E b \in 1..Len(elementIds) :
          elementIds[a] = kept[p] /\ elementIds[b] = kept[q] /\ a < b
    BY <2>5 DEF Before
  <2>7. PICK b \in 1..Len(elementIds) :
          elementIds[a] = kept[p] /\ elementIds[b] = kept[q] /\ a < b
    BY <2>6
  <2> DEFINE gone == {erasing}
  <2>8. kept = WithoutIds(elementIds, gone)
    BY DEF kept
  <2> HIDE DEF gone
  <2> QED
    BY <1>2, <2>7, <2>8, KeptOrder
<1>10. InOrder(devices, elementIds, elementCount)'
  <2>1. InOrder(new, kept, Len(kept))
    BY <1>9, Zenon DEF InOrder
  <2>2. devices' = new
    BY DEF new
  <2>3. elementIds' = kept /\ elementCount' = Len(kept)
    BY <1>1
  <2> QED
    BY <2>1, <2>2, <2>3 DEF InOrder
<1>11. ListStored'
  <2>1. SubSeq(elementIds, 1, elementCount)' = kept
    BY <1>1, WholeList
  <2>2. \A k \in DOMAIN ws : ws[k].kind = "list" => ws[k].data = kept
    BY <1>5
  <2>3. ~ \A k \in DOMAIN ws : ws[k].kind # "list"
    BY <1>5
  <2> QED
    BY <2>1, <2>2, <2>3 DEF ListStored, ListWillBe, ws
<1> QED
  BY <1>3, <1>8, <1>10, <1>11 DEF RestartInv

-----------------------------------------------------------------------------
(* The actions, as a restart sees them *)

\* nothing changes that a restart finds, or would find
Quiet ==
  /\ UNCHANGED <<storage, writes, devices, elementCount>>
  /\ \A k \in 1..elementCount : elementIds'[k] = elementIds[k]
  /\ erasing' # 0 => writes = << >>

\* a commissioning ends
Finished ==
  /\ writes = << >> /\ erasing = 0 /\ UNCHANGED <<storage, erasing>>
  /\ \E c : Ripe(c) /\ Finish(c, elementIds)

LEMMA NextEndpointStep ==
  ASSUME writes = << >>, erasing = 0, NEW c, Ripe(c), NextEndpoint(c, elementIds),
         UNCHANGED <<storage, erasing>>
  PROVE  Quiet \/ Finished
<1>1. CASE Request(c, "plugs") /\ elementIds' = elementIds
  BY <1>1 DEF Request, Quiet
<1>2. CASE Finish(c, elementIds)
  BY <1>2 DEF Finished
<1> QED
  BY <1>1, <1>2 DEF NextEndpoint

LEMMA GotNameStep ==
  ASSUME BusInv, writes = << >>, erasing = 0, comm.pc = "wait", comm.attribute # "plugs", GotName,
         UNCHANGED <<storage, erasing>>
  PROVE  Quiet \/ Finished
<1>1. comm.attribute = "name"
  <2>1. comm \in CommType
    BY CommKnown
  <2> QED
    BY <2>1 DEF CommType
<1>2. PICK c : Ripe(c) /\ NextEndpoint(c, elementIds)
  BY <1>1, GotNameRipe
<1> QED
  BY <1>2, NextEndpointStep

LEMMA JoinedStep ==
  ASSUME BusInv, Joined
  PROVE  Quiet \/ Finished
<1>1. /\ writes = << >> /\ erasing = 0 /\ comm.pc = "join" /\ NextEndpoint(comm, elementIds)
      /\ UNCHANGED <<storage, erasing>>
  BY DEF Joined, Ready
<1>2. /\ comm \in CommType /\ comm # NoComm /\ OldStays(comm, devices)
      /\ Fits(GivenIds(comm), comm.old, elementIds, elementCount)
  BY <1>1, CommKnown
<1>3. comm.attribute = "plugs"
  BY <1>1, <1>2 DEF BusInv, Space
<1>4. Ripe(comm)
  BY <1>2, <1>3 DEF Ripe, GivenIds
<1> QED
  BY <1>1, <1>4, NextEndpointStep

\* the cells behind elementCount go
LEMMA CutStep ==
  ASSUME BusInv, RestartInv, UNCHANGED <<storage, writes, devices, elementCount, erasing>>,
         elementIds' = SubSeq(elementIds, 1, elementCount)
  PROVE  Quiet
<1>1. elementIds \in Seq(ElementIds) /\ elementCount \in 0..Len(elementIds)
  BY DEF BusInv, TypeOK
<1>2. \A k \in 1..elementCount : elementIds'[k] = elementIds[k]
  BY <1>1, FirstCells
<1>3. erasing' # 0 => writes = << >>
  BY DEF RestartInv
<1> QED
  BY <1>2, <1>3 DEF Quiet

LEMMA AnswerStep ==
  ASSUME BusInv, NEW n \in Nodes, Answer(n)
  PROVE  Quiet \/ Finished
<1> DEFINE request == Head(node[n].requests)
           plugs == IF request.attribute = "plugs" THEN Plugs(n, request.index) ELSE None
<1>1. writes = << >> /\ erasing = 0 /\ UNCHANGED <<storage, erasing>>
  BY DEF Answer, Ready
<1>2. \/ UNCHANGED <<devices, elementIds, elementCount, comm, writes>>
      \/ /\ comm.pc = "wait"
         /\ \/ comm.attribute = "plugs" /\ GotPlugs(plugs)
            \/ comm.attribute # "plugs" /\ GotName
  BY DEF Answer, ram, Expected
<1> HIDE DEF plugs
<1>3. CASE UNCHANGED <<devices, elementIds, elementCount, comm, writes>>
  BY <1>1, <1>3 DEF Quiet
<1>4. CASE comm.pc = "wait" /\ comm.attribute = "plugs" /\ GotPlugs(plugs)
  <2>1. elementIds \in Seq(ElementIds) /\ elementCount \in 0..Len(elementIds)
    BY DEF BusInv, TypeOK
  <2>2. UNCHANGED <<devices, elementCount, writes>>
    BY <1>4 DEF GotPlugs, Request
  <2>3. elementIds' = elementIds \/ \E id : elementIds' = Append(elementIds, id)
    BY <1>4 DEF GotPlugs
  <2>4. \A k \in 1..elementCount : elementIds'[k] = elementIds[k]
    <3>1. \A k \in 1..elementCount : k \in 1..Len(elementIds)
      BY <2>1
    <3>2. ASSUME NEW id, elementIds' = Append(elementIds, id)
          PROVE  \A k \in 1..Len(elementIds) : elementIds'[k] = elementIds[k]
      BY <2>1, <3>2
    <3> QED
      BY <2>3, <3>1, <3>2
  <2> QED
    BY <1>1, <2>2, <2>4 DEF Quiet
<1>5. CASE comm.pc = "wait" /\ comm.attribute # "plugs" /\ GotName
  BY <1>1, <1>5, GotNameStep
<1> QED
  BY <1>2, <1>3, <1>4, <1>5

LEMMA TimeoutStep ==
  ASSUME BusInv, RestartInv, Timeout
  PROVE  Quiet \/ Finished
<1>1. writes = << >> /\ erasing = 0 /\ comm.pc = "wait" /\ UNCHANGED <<storage, erasing>>
  BY DEF Timeout, Ready
<1>2. \/ UNCHANGED <<devices, elementIds, elementCount, writes>>
      \/ /\ elementIds' = SubSeq(elementIds, 1, elementCount)
         /\ UNCHANGED <<devices, elementCount, writes>>
      \/ comm.attribute # "plugs" /\ GotName
  BY DEF Timeout, ram
<1>3. CASE UNCHANGED <<devices, elementIds, elementCount, writes>>
  BY <1>1, <1>3 DEF Quiet
<1>4. CASE /\ elementIds' = SubSeq(elementIds, 1, elementCount)
           /\ UNCHANGED <<devices, elementCount, writes>>
  BY <1>1, <1>4, CutStep
<1>5. CASE comm.attribute # "plugs" /\ GotName
  BY <1>1, <1>5, GotNameStep
<1> QED
  BY <1>2, <1>3, <1>4, <1>5

LEMMA StepKinds ==
  ASSUME BusInv, RestartInv, [Next]_vars
  PROVE  StoreNext \/ Finished \/ Erased \/ PowerFail \/ Quiet
<1>1. CASE Joined
  BY <1>1, JoinedStep
<1>2. CASE Timeout
  BY <1>2, TimeoutStep
<1>3. ASSUME NEW n \in Nodes, Answer(n)
      PROVE  Quiet \/ Finished
  BY <1>3, AnswerStep
<1>4. ASSUME NEW n \in Nodes, NEW c \in EndpointCounts, Enumerate(n, c)
      PROVE  Quiet
  <2>1. /\ elementIds' = SubSeq(elementIds, 1, elementCount)
        /\ UNCHANGED <<storage, writes, devices, elementCount, erasing>>
    BY <1>4 DEF Enumerate
  <2> QED
    BY <2>1, CutStep
<1>5. ASSUME NEW enabled \in BOOLEAN, setCommissioning(enabled)
      PROVE  Quiet
  <2>1. /\ elementIds' = elementIds \/ elementIds' = SubSeq(elementIds, 1, elementCount)
        /\ UNCHANGED <<storage, writes, devices, elementCount, erasing>>
    BY <1>5 DEF setCommissioning
  <2>2. CASE elementIds' = elementIds
    BY <2>1, <2>2 DEF RestartInv, Quiet
  <2> QED
    BY <2>1, <2>2, CutStep
<1>6. ASSUME NEW k \in 1..elementCount, erase(elementIds[k])
      PROVE  Quiet
  BY <1>6 DEF erase, Ready, ram, Quiet
<1>7. CASE Requested \/ UNCHANGED vars
  BY <1>7 DEF Requested, vars, ram, RestartInv, Quiet
<1> QED
  BY <1>1, <1>2, <1>3, <1>4, <1>5, <1>6, <1>7 DEF Next, Work

LEMMA PowerFailRestart ==
  ASSUME BusInv, PowerFail
  PROVE  RestartInv'
<1> DEFINE l == Load(storage)
<1>1. /\ devices' = l.devices /\ elementIds' = l.ids /\ elementCount' = Len(l.ids)
      /\ writes' = << >> /\ erasing' = 0 /\ storage' = storage
  BY DEF PowerFail
<1>2. storage \in StorageType /\ IsInjective(storage.list)
  BY DEF BusInv, TypeOK, ListsInjective
<1>3. l \in LoadState /\ FromStorage(storage, l) /\ InOrder(l.devices, l.ids, Len(l.ids))
  BY <1>2, LoadFacts, LoadedFromStorage DEF LoadedFrom
<1>4. Load(storage)' = l
  BY <1>1
<1> HIDE DEF l
<1>5. l.ids \in Seq(ElementIds)
  BY <1>3 DEF LoadState
<1>6. DevicesStored'
  BY <1>1, <1>3 DEF DevicesStored, DeviceWillBe, EndpointWillBe, FromStorage
<1>7. InOrder(devices, elementIds, elementCount)'
  BY <1>1, <1>3 DEF InOrder
<1>8. SubSeq(elementIds, 1, elementCount)' = l.ids
  BY <1>1, <1>5, WholeList
<1>9. ListStored'
  BY <1>1, <1>4, <1>8 DEF ListStored, Agrees
<1> QED
  BY <1>1, <1>6, <1>7, <1>9 DEF RestartInv

LEMMA RestartInvKept ==
  ASSUME BusInv, BusInv', RestartInv, [Next]_vars
  PROVE  RestartInv'
<1>1. CASE StoreNext
  BY <1>1, StoreNextRestart
<1>2. CASE Finished
  BY <1>2, FinishRestart DEF Finished, Ripe
<1>3. CASE Erased
  BY <1>3, ErasedRestart
<1>4. CASE PowerFail
  BY <1>4, PowerFailRestart
<1>5. CASE Quiet
  BY <1>5, QuietRestart DEF Quiet
<1> QED
  BY <1>1, <1>2, <1>3, <1>4, <1>5, StepKinds

\* For all numbers of nodes and elements: when nothing is left to write, a restart would
\* load the list of elements and every device with its node and its endpoints in their
\* order.
THEOREM BusRestartAgrees == Spec => []RestartAgrees
<1>1. Init => RestartInv
  BY InitRestart
<1>2. BusInv /\ BusInv' /\ RestartInv /\ [Next]_vars => RestartInv'
  BY RestartInvKept
<1>3. BusInv /\ RestartInv => RestartAgrees
  BY RestartInvAgrees
<1> QED
  BY <1>1, <1>2, <1>3, BusInvAlways, PTL DEF Spec

-----------------------------------------------------------------------------
(* What the others lose *)

Loadable(s, x) == s.endpoint[x] # None /\ s.device[s.endpoint[x].device] # None

\* the ids that are loaded of the first n in the stored list
Picked(s, n, ids) ==
  /\ \A b \in 1..Len(ids) : \E k \in 1..n : s.list[k] = ids[b]
  /\ \A a, b \in 1..Len(ids) : \A j, k \in 1..n :
       s.list[j] = ids[a] /\ s.list[k] = ids[b] /\ a < b => j < k
  /\ \A k \in 1..n : Loadable(s, s.list[k]) => \E b \in 1..Len(ids) : ids[b] = s.list[k]

LEMMA LoadElementIds ==
  ASSUME NEW s \in StorageType, NEW l \in LoadState, NEW id \in ElementIds,
         NEW m, m = LoadElement(s, l, id)
  PROVE  \/ m.ids = l.ids /\ ~Loadable(s, id)
         \/ m.ids = Append(l.ids, id)
<1> DEFINE e == s.endpoint[id]
           known == \E d \in ToSet(l.devices) : d.id = e.device
<1>1. CASE e = None \/ (~known /\ s.device[e.device] = None)
  BY <1>1 DEF LoadElement, Loadable
<1>2. CASE ~(e = None \/ (~known /\ s.device[e.device] = None))
  BY <1>2 DEF LoadElement
<1> QED
  BY <1>1, <1>2

LEMMA PickedNext ==
  ASSUME NEW s \in StorageType, IsInjective(s.list), NEW n \in 1..Len(s.list),
         NEW ids \in Seq(ElementIds), Picked(s, n - 1, ids), NEW more,
         \/ more = ids /\ ~Loadable(s, s.list[n])
         \/ more = Append(ids, s.list[n])
  PROVE  Picked(s, n, more)
<1> DEFINE list == s.list
<1>1. list \in Seq(ElementIds) /\ DOMAIN list = 1..Len(list) /\ Len(list) \in Nat
  BY DEF StorageType
<1>2. \A j, k \in 1..Len(list) : list[j] = list[k] => j = k
  BY <1>1 DEF IsInjective
<1>3. /\ n \in 1..n /\ 1..n \subseteq 1..Len(list) /\ 1..n - 1 \subseteq 1..n
      /\ \A k \in 1..n : k = n \/ k \in 1..n - 1
      /\ \A k \in 1..n - 1 : k < n
  BY <1>1
<1>4. /\ \A b \in 1..Len(ids) : \E k \in 1..n - 1 : list[k] = ids[b]
      /\ \A a, b \in 1..Len(ids) : \A j, k \in 1..n - 1 :
           list[j] = ids[a] /\ list[k] = ids[b] /\ a < b => j < k
      /\ \A k \in 1..n - 1 : Loadable(s, list[k]) => \E b \in 1..Len(ids) : ids[b] = list[k]
  BY DEF Picked
<1>5. \A k \in 1..n, b \in 1..Len(ids) : list[k] = ids[b] => k \in 1..n - 1
  <2> SUFFICES ASSUME NEW k \in 1..n, NEW b \in 1..Len(ids), list[k] = ids[b]
               PROVE  k \in 1..n - 1
    OBVIOUS
  <2>1. PICK i \in 1..n - 1 : list[i] = ids[b]
    BY <1>4
  <2>2. i = k
    BY <1>2, <1>3, <2>1
  <2> QED
    BY <2>1, <2>2
<1>6. CASE more = ids /\ ~Loadable(s, list[n])
  <2>1. \A a, b \in 1..Len(ids) : \A j, k \in 1..n :
          list[j] = ids[a] /\ list[k] = ids[b] /\ a < b => j < k
    BY <1>4, <1>5
  <2>2. \A b \in 1..Len(ids) : \E k \in 1..n : list[k] = ids[b]
    BY <1>3, <1>4
  <2>3. \A k \in 1..n : Loadable(s, list[k]) => \E b \in 1..Len(ids) : ids[b] = list[k]
    BY <1>3, <1>4, <1>6
  <2> QED
    BY <1>6, <2>1, <2>2, <2>3 DEF Picked
<1>7. CASE more = Append(ids, list[n])
  <2>1. list[n] \in ElementIds
    BY <1>1
  <2>2. /\ Len(more) = Len(ids) + 1 /\ Len(ids) \in Nat
        /\ \A k \in 1..Len(ids) : more[k] = ids[k]
        /\ more[Len(ids) + 1] = list[n]
    BY <1>7, <2>1, AppendProperties
  <2>3. /\ \A b \in 1..Len(more) : b = Len(ids) + 1 \/ b \in 1..Len(ids)
        /\ 1..Len(ids) \subseteq 1..Len(more) /\ Len(ids) + 1 \in 1..Len(more)
        /\ \A a, b \in 1..Len(more) : a < b => a \in 1..Len(ids)
    BY <2>2
  <2>4. ASSUME NEW b \in 1..Len(more)
        PROVE  \E k \in 1..n : list[k] = more[b]
    <3>1. CASE b = Len(ids) + 1
      BY <1>3, <2>2, <3>1
    <3>2. CASE b \in 1..Len(ids)
      BY <1>3, <1>4, <2>2, <3>2
    <3> QED
      BY <2>3, <3>1, <3>2
  <2>5. ASSUME NEW a \in 1..Len(more), NEW b \in 1..Len(more), NEW j \in 1..n, NEW k \in 1..n,
               list[j] = more[a], list[k] = more[b], a < b
        PROVE  j < k
    <3>1. a \in 1..Len(ids) /\ j \in 1..n - 1
      BY <1>5, <2>2, <2>3, <2>5
    <3>2. CASE b = Len(ids) + 1
      <4>1. k = n
        BY <1>2, <1>3, <2>2, <2>5, <3>2
      <4> QED
        BY <1>3, <3>1, <4>1
    <3>3. CASE b \in 1..Len(ids)
      <4>1. list[j] = ids[a] /\ list[k] = ids[b] /\ k \in 1..n - 1
        BY <1>5, <2>2, <2>5, <3>1, <3>3
      <4> QED
        BY <1>4, <2>5, <3>1, <3>3, <4>1
    <3> QED
      BY <2>3, <3>2, <3>3
  <2>6. ASSUME NEW k \in 1..n, Loadable(s, list[k])
        PROVE  \E b \in 1..Len(more) : more[b] = list[k]
    <3>1. CASE k = n
      BY <2>2, <2>3, <3>1
    <3>2. CASE k \in 1..n - 1
      <4>1. PICK b \in 1..Len(ids) : ids[b] = list[k]
        BY <1>4, <2>6, <3>2
      <4> QED
        BY <2>2, <2>3, <4>1
    <3> QED
      BY <1>3, <3>1, <3>2
  <2> QED
    BY <2>4, <2>5, <2>6 DEF Picked
<1> QED
  BY <1>6, <1>7

LEMMA LoadPicked ==
  ASSUME NEW s \in StorageType, IsInjective(s.list)
  PROVE  Picked(s, Len(s.list), Load(s).ids)
<1> DEFINE N == Len(s.list)
<1>1. PICK f : Loading(s, f)
  BY LoadingExists
<1>2. N \in Nat
  BY DEF StorageType
<1> DEFINE Bad == {n \in 0..N : ~Picked(s, n, f[n].ids)}
<1> HIDE DEF N
<1>3. ASSUME NEW n \in Bad, \A j \in Bad : n <= j
      PROVE  FALSE
  <2>1. CASE n = 0
    <3>1. NothingLoaded.ids = << >> /\ 1..Len(<< >>) = {} /\ 1..0 = {}
      BY DEF NothingLoaded
    <3>2. Picked(s, 0, NothingLoaded.ids)
      BY <3>1 DEF Picked
    <3> QED
      BY <2>1, <3>2, <1>1, <1>3 DEF Loading
  <2>2. CASE n # 0
    <3>1. n \in 1..N /\ n - 1 \in 0..N /\ ~(n <= n - 1)
      BY <1>2, <2>2
    <3>2. n - 1 \notin Bad
      <4> HIDE DEF Bad
      <4> QED
        BY <3>1, <1>3
    <3>3. Picked(s, n - 1, f[n - 1].ids)
      BY <3>1, <3>2
    <3>4. f[n - 1] \in LoadState
      BY <3>1, <1>1 DEF Loading, N
    <3>5. f[n] = LoadElement(s, f[n - 1], s.list[n]) /\ s.list[n] \in ElementIds
      BY <3>1, <1>1, Zenon DEF Loading, N
    <3>6. \/ f[n].ids = f[n - 1].ids /\ ~Loadable(s, s.list[n])
          \/ f[n].ids = Append(f[n - 1].ids, s.list[n])
      BY <3>4, <3>5, LoadElementIds
    <3>7. f[n - 1].ids \in Seq(ElementIds) /\ n \in 1..Len(s.list)
      BY <3>1, <3>4 DEF LoadState, N
    <3>8. Picked(s, n, f[n].ids)
      BY <3>3, <3>6, <3>7, PickedNext
    <3> QED
      BY <3>8, <1>3
  <2> QED
    BY <2>1, <2>2
<1>4. Bad \subseteq Nat
  BY <1>2
<1>5. Bad = {}
  <2> HIDE DEF Bad
  <2> QED
    BY <1>3, <1>4, LeastExists
<1>6. N \in 0..N
  BY <1>2
<1>7. Picked(s, N, f[N].ids)
  BY <1>5, <1>6
<1> QED
  BY <1>1, <1>7 DEF Loading, N

\* what a restart knows of what it loads
LoadedFacts(s, l) ==
  /\ l.ids \in Seq(ElementIds) /\ l.devices \in Seq(Devices) /\ DeviceList(l.devices)
  /\ Listed(l.devices, l.ids, Len(l.ids)) /\ InOrder(l.devices, l.ids, Len(l.ids))
  /\ FromStorage(s, l) /\ Picked(s, Len(s.list), l.ids)

LEMMA LoadedFactsHold ==
  ASSUME NEW s \in StorageType, IsInjective(s.list)
  PROVE  LoadedFacts(s, Load(s))
<1>1. Load(s) \in LoadState /\ Consistent(Load(s))
  BY LoadFacts
<1>2. LoadedFrom(s, Load(s)) /\ Picked(s, Len(s.list), Load(s).ids)
  BY LoadedFromStorage, LoadPicked
<1> QED
  BY <1>1, <1>2 DEF LoadedFacts, LoadState, Consistent, LoadedFrom

\* an element of the stored list whose device and record are stored is loaded with it
LEMMA LoadedElement ==
  ASSUME NEW s \in StorageType, NEW l, LoadedFacts(s, l), NEW q \in DOMAIN s.list,
         s.endpoint[s.list[q]] # None, s.device[s.endpoint[s.list[q]].device] # None
  PROVE  \E n \in DOMAIN l.devices : \E j \in DOMAIN l.devices[n].endpoints :
           /\ l.devices[n].endpoints[j].id = s.list[q]
           /\ l.devices[n].id = s.endpoint[s.list[q]].device
<1>1. q \in 1..Len(s.list)
  BY DEF StorageType
<1>2. PICK b \in 1..Len(l.ids) : l.ids[b] = s.list[q]
  BY <1>1 DEF LoadedFacts, Picked, Loadable
<1>3. PICK n \in DOMAIN l.devices : \E j \in DOMAIN l.devices[n].endpoints :
        l.devices[n].endpoints[j].id = l.ids[b]
  BY DEF LoadedFacts, Listed
<1>4. PICK j \in DOMAIN l.devices[n].endpoints : l.devices[n].endpoints[j].id = l.ids[b]
  BY <1>3
<1>5. s.endpoint[l.devices[n].endpoints[j].id] =
        [device |-> l.devices[n].id, plugs |-> l.devices[n].endpoints[j].plugs]
  BY DEF LoadedFacts, FromStorage
<1> QED
  BY <1>2, <1>4, <1>5

LEMMA LoadedWhole ==
  ASSUME NEW s \in StorageType, NEW l, LoadedFacts(s, l), NEW n \in DOMAIN l.devices
  PROVE  Whole(s, l.devices[n], {})
<1> DEFINE d == l.devices[n]
<1>1. d \in Devices
  BY DEF LoadedFacts
<1>2. HasRecords(s, d)
  BY DEF LoadedFacts, FromStorage, HasRecords
<1>3. DOMAIN s.list = 1..Len(s.list)
  BY DEF StorageType
<1>4. ASSUME NEW j \in DOMAIN d.endpoints
      PROVE  \E b \in 1..Len(l.ids) : l.ids[b] = d.endpoints[j].id
  BY DEF LoadedFacts, Listed
<1>5. ASSUME NEW j \in DOMAIN d.endpoints
      PROVE  \E p \in DOMAIN s.list : s.list[p] = d.endpoints[j].id
  <2>1. PICK b \in 1..Len(l.ids) : l.ids[b] = d.endpoints[j].id
    BY <1>4
  <2>2. \E k \in 1..Len(s.list) : s.list[k] = l.ids[b]
    BY DEF LoadedFacts, Picked
  <2> QED
    BY <1>3, <2>1, <2>2
<1>6. ASSUME NEW i \in DOMAIN d.endpoints, NEW j \in DOMAIN d.endpoints,
             NEW p \in DOMAIN s.list, NEW q \in DOMAIN s.list,
             s.list[p] = d.endpoints[i].id, s.list[q] = d.endpoints[j].id, i < j
      PROVE  p < q
  <2>1. PICK a \in 1..Len(l.ids) : l.ids[a] = d.endpoints[i].id
    BY <1>4
  <2>2. PICK b \in 1..Len(l.ids) : l.ids[b] = d.endpoints[j].id
    BY <1>4
  <2>3. a < b
    BY <1>6, <2>1, <2>2 DEF LoadedFacts, InOrder
  <2>4. s.list[p] = l.ids[a] /\ s.list[q] = l.ids[b] /\ p \in 1..Len(s.list) /\ q \in 1..Len(s.list)
    BY <1>3, <1>6, <2>1, <2>2
  <2> QED
    BY <2>3, <2>4 DEF LoadedFacts, Picked
<1>7. ASSUME NEW q \in DOMAIN s.list, s.endpoint[s.list[q]] # None,
             s.endpoint[s.list[q]].device = d.id
      PROVE  s.list[q] \in IdsOf(d)
  <2>1. s.device[d.id] # None
    <3>1. s.device[d.id] \in Nodes
      BY <1>1, <1>2 DEF HasRecords, Devices
    <3> QED
      BY <3>1, BusAssumption
  <2>2. PICK m \in DOMAIN l.devices : \E j \in DOMAIN l.devices[m].endpoints :
          l.devices[m].endpoints[j].id = s.list[q] /\ l.devices[m].id = s.endpoint[s.list[q]].device
    BY <1>7, <2>1, LoadedElement
  <2>3. m = n
    BY <1>7, <2>2 DEF LoadedFacts, DeviceList
  <2> QED
    BY <2>2, <2>3 DEF IdsOf
<1>8. HasOrder(s, d)
  BY <1>5, <1>6 DEF HasOrder
<1>9. HasFirst(s, d, {})
  BY <1>7 DEF HasFirst
<1> QED
  BY <1>2, <1>8, <1>9 DEF Whole

LEMMA RecordNotNone ==
  ASSUME NEW device \in DeviceIds, NEW plugs \in PlugsType
  PROVE  [device |-> device, plugs |-> plugs] # None
<1>1. device \in Nat /\ plugs \in [node : Nodes, index : Nat]
  BY BusAssumption DEF DeviceIds, PlugsType
<1>2. [device |-> device, plugs |-> plugs] \in [device : Nat, plugs : [node : Nodes, index : Nat]]
  BY <1>1
<1> QED
  BY <1>2, BusAssumption

\* a device whose elements come first is loaded, perhaps with more endpoints
LEMMA WholeSurvives ==
  ASSUME NEW s \in StorageType, IsInjective(s.list), NEW d \in Devices, d.endpoints # << >>,
         \A i, j \in DOMAIN d.endpoints : d.endpoints[i].id = d.endpoints[j].id => i = j,
         Whole(s, d, {})
  PROVE  \E e \in ToSet(Load(s).devices) :
           e.id = d.id /\ e.node = d.node /\ IsPrefix(d.endpoints, e.endpoints)
<1> DEFINE l == Load(s)
<1>1. LoadedFacts(s, l)
  BY LoadedFactsHold
<1> HIDE DEF l
<1> DEFINE ds == d.endpoints
<1>2. /\ ds \in Seq(Endpoints) /\ DOMAIN ds = 1..Len(ds) /\ Len(ds) \in Nat /\ 1 \in DOMAIN ds
      /\ d.node \in Nodes
  BY DEF Devices
<1>3. s.device[d.id] = d.node /\ d.node # None
  BY <1>2, BusAssumption DEF Whole, HasRecords
<1>4. ASSUME NEW j \in DOMAIN ds
      PROVE  s.endpoint[ds[j].id] # None /\ s.endpoint[ds[j].id].device = d.id
             /\ s.endpoint[ds[j].id].plugs = ds[j].plugs
  <2>1. s.endpoint[ds[j].id] = [device |-> d.id, plugs |-> ds[j].plugs]
    BY DEF Whole, HasRecords
  <2>2. [device |-> d.id, plugs |-> ds[j].plugs] # None
    <3>1. ds[j] \in Endpoints
      BY <1>2
    <3>2. d.id \in DeviceIds /\ ds[j].plugs \in PlugsType
      BY <3>1 DEF Devices, Endpoints
    <3> QED
      BY <3>2, RecordNotNone
  <2> QED
    BY <2>1, <2>2
<1>5. ASSUME NEW j \in DOMAIN ds
      PROVE  \E n \in DOMAIN l.devices : \E k \in DOMAIN l.devices[n].endpoints :
               l.devices[n].endpoints[k].id = ds[j].id /\ l.devices[n].id = d.id
  <2>1. PICK p \in DOMAIN s.list : s.list[p] = ds[j].id
    BY DEF Whole, HasOrder
  <2>2. \E n \in DOMAIN l.devices : \E k \in DOMAIN l.devices[n].endpoints :
          /\ l.devices[n].endpoints[k].id = s.list[p]
          /\ l.devices[n].id = s.endpoint[s.list[p]].device
    BY <1>1, <1>3, <1>4, <2>1, LoadedElement
  <2> QED
    BY <1>4, <2>1, <2>2
<1>6. PICK n \in DOMAIN l.devices : l.devices[n].id = d.id
  BY <1>2, <1>5
<1> DEFINE e == l.devices[n]
           es == e.endpoints
<1>7. e \in Devices /\ e.id = d.id
  BY <1>1, <1>6 DEF LoadedFacts
<1>8. es \in Seq(Endpoints) /\ DOMAIN es = 1..Len(es) /\ Len(es) \in Nat
  BY <1>7 DEF Devices
<1>9. Whole(s, e, {})
  BY <1>1, LoadedWhole
<1>10. e.node = d.node
  BY <1>3, <1>7, <1>9 DEF Whole, HasRecords
<1>11. \A i, k \in DOMAIN es : es[i].id = es[k].id => i = k
  BY <1>1 DEF LoadedFacts, DeviceList, Apart
<1>12. ASSUME NEW j \in DOMAIN ds
       PROVE  \E k \in DOMAIN es : es[k] = ds[j]
  <2>1. PICK m \in DOMAIN l.devices : \E k \in DOMAIN l.devices[m].endpoints :
          l.devices[m].endpoints[k].id = ds[j].id /\ l.devices[m].id = d.id
    BY <1>5
  <2>2. m = n
    BY <1>1, <1>6, <2>1 DEF LoadedFacts, DeviceList
  <2>3. PICK k \in DOMAIN es : es[k].id = ds[j].id
    BY <2>1, <2>2
  <2>4. s.endpoint[es[k].id] = [device |-> e.id, plugs |-> es[k].plugs]
    BY <1>9 DEF Whole, HasRecords
  <2>5. es[k].plugs = ds[j].plugs
    BY <1>4, <2>3, <2>4
  <2>6. es[k] \in Endpoints /\ ds[j] \in Endpoints
    BY <1>2, <1>8
  <2>7. es[k] = ds[j]
    BY <2>3, <2>5, <2>6 DEF Endpoints
  <2> QED
    BY <2>7
<1> HIDE DEF ds, es, e
<1> DEFINE Bad == {i \in 1..Len(ds) : ~(i \in DOMAIN es /\ es[i] = ds[i])}
<1>13. ASSUME NEW i \in Bad, \A j \in Bad : i <= j
       PROVE  FALSE
  <2>1. i \in DOMAIN ds /\ ~(i \in DOMAIN es /\ es[i] = ds[i])
    BY <1>2
  <2>2. PICK m \in DOMAIN es : es[m] = ds[i]
    BY <1>12, <2>1
  <2>3. ASSUME NEW o \in DOMAIN ds, o < i
        PROVE  o \in DOMAIN es /\ es[o] = ds[o]
    <3>1. o \in 1..Len(ds) /\ ~(i <= o)
      BY <1>2, <2>1, <2>3
    <3>2. o \notin Bad
      <4> HIDE DEF Bad
      <4> QED
        BY <1>13, <3>1
    <3> QED
      BY <3>1, <3>2
  <2>4. \A j, k \in DOMAIN ds : ds[j].id = ds[k].id => j = k
    BY DEF ds
  <2>5. i < m
    <3>1. m # i
      BY <2>1, <2>2
    <3>2. ~(m < i)
      <4> SUFFICES ASSUME m < i
                   PROVE  FALSE
        OBVIOUS
      <4>1. m \in DOMAIN ds
        BY <1>2, <1>8, <2>1
      <4>2. es[m] = ds[m]
        BY <2>3, <4>1
      <4> QED
        BY <2>1, <2>2, <2>4, <3>1, <4>1, <4>2
    <3> QED
      BY <1>2, <1>8, <2>1, <3>1, <3>2
  <2>6. i \in DOMAIN es
    BY <1>2, <1>8, <2>1, <2>5
  <2>7. PICK q \in DOMAIN s.list : s.list[q] = es[i].id
    BY <1>9, <2>6 DEF Whole, HasOrder, es
  <2>8. PICK p \in DOMAIN s.list : s.list[p] = ds[i].id
    BY <2>1 DEF Whole, HasOrder, ds
  <2>9. q < p
    BY <1>9, <2>2, <2>5, <2>6, <2>7, <2>8 DEF Whole, HasOrder, es
  <2>10. p \in Nat /\ q \in Nat
    BY DEF StorageType
  <2>11. ~(p < q)
    BY <2>9, <2>10
  <2>12. CASE \E o \in DOMAIN ds : ds[o].id = es[i].id
    <3>1. PICK o \in DOMAIN ds : ds[o].id = es[i].id
      BY <2>12
    <3>2. ~(o < i)
      <4> SUFFICES ASSUME o < i
                   PROVE  FALSE
        OBVIOUS
      <4>1. o \in DOMAIN es /\ es[o].id = es[i].id
        BY <2>3, <3>1
      <4>2. o = i
        BY <1>11, <2>6, <4>1 DEF es
      <4> QED
        BY <1>2, <2>1, <4>2
    <3>3. o # i
      <4> SUFFICES ASSUME o = i
                   PROVE  FALSE
        OBVIOUS
      <4>1. es[m].id = es[i].id
        BY <2>2, <3>1
      <4>2. m = i
        BY <1>11, <2>6, <4>1 DEF es
      <4> QED
        BY <1>2, <2>1, <2>5, <4>2
    <3>4. i < o
      BY <1>2, <2>1, <3>2, <3>3
    <3>5. p < q
      BY <2>1, <2>7, <2>8, <3>1, <3>4 DEF Whole, HasOrder, ds
    <3> QED
      BY <2>11, <3>5
  <2>13. CASE ~ \E o \in DOMAIN ds : ds[o].id = es[i].id
    <3>1. s.list[q] \notin {} \cup IdsOf(d)
      BY <2>7, <2>13 DEF IdsOf, ds
    <3>2. s.endpoint[es[i].id] = [device |-> e.id, plugs |-> es[i].plugs]
      BY <1>9, <2>6 DEF Whole, HasRecords, es
    <3>3. s.endpoint[s.list[q]].device = d.id
      BY <1>7, <2>7, <3>2
    <3>4. s.endpoint[s.list[q]] # None
      <4>1. es[i] \in Endpoints
        BY <1>8, <2>6 DEF es
      <4>2. e.id \in DeviceIds /\ es[i].plugs \in PlugsType
        BY <1>7, <4>1 DEF Devices, Endpoints
      <4> QED
        BY <2>7, <3>2, <4>2, RecordNotNone
    <3>5. p < q
      BY <2>1, <2>8, <3>1, <3>3, <3>4 DEF Whole, HasFirst, ds
    <3> QED
      BY <2>11, <3>5
  <2> QED
    BY <2>12, <2>13
<1>14. Bad \subseteq Nat
  BY <1>2
<1>15. Bad = {}
  <2> HIDE DEF Bad
  <2> QED
    BY <1>13, <1>14, LeastExists
<1>16. \A i \in 1..Len(ds) : i \in DOMAIN es /\ es[i] = ds[i]
  BY <1>15
<1>17. ds \in Seq(Endpoints) /\ Len(ds) \in Nat /\ es \in Seq(Endpoints) /\ Len(es) \in Nat
       /\ DOMAIN es = 1..Len(es)
  BY <1>2, <1>8 DEF ds, es
<1> HIDE DEF Bad
<1>18. IsPrefix(ds, es)
  <2>1. Len(ds) <= Len(es)
    BY <1>2, <1>16, <1>17
  <2>2. Len(ds) \in 0..Len(ds) /\ Len(ds) \in 0..Len(es)
    BY <1>17, <2>1
  <2> DEFINE first == SubSeq(es, 1, Len(ds))
  <2>3. /\ first \in Seq(Endpoints) /\ Len(first) = Len(ds)
        /\ \A k \in 1..Len(ds) : first[k] = es[k]
    BY <1>17, <2>2, FirstCells
  <2> HIDE DEF first
  <2>4. first = ds
    BY <1>16, <1>17, <2>3, SeqEqual
  <2>5. SubSeq(ds, 1, Len(ds)) = ds
    BY <1>17, WholeList
  <2> QED
    BY <2>1, <2>4, <2>5 DEF IsPrefix, first
<1>19. e \in ToSet(l.devices)
  BY DEF ToSet, e
<1> QED
  BY <1>7, <1>10, <1>18, <1>19 DEF e, es, ds, l

LEMMA WholeMore ==
  ASSUME NEW s, NEW d, NEW gone, NEW more, gone \subseteq more, Whole(s, d, gone)
  PROVE  Whole(s, d, more)
BY DEF Whole, HasFirst

\* with the list in the storage, a device is whole when its records are stored
LEMMA WholeFromList ==
  ASSUME NEW s \in StorageType, NEW list \in Seq(Devices), DeviceList(list),
         Listed(list, s.list, Len(s.list)), InOrder(list, s.list, Len(s.list)),
         StaleLast(s, list, s.list, Len(s.list)),
         NEW n \in DOMAIN list, HasRecords(s, list[n]), NEW gone
  PROVE  Whole(s, list[n], gone)
<1>1. DOMAIN s.list = 1..Len(s.list)
  BY DEF StorageType
<1>2. HasOrder(s, list[n])
  <2>1. ASSUME NEW j \in DOMAIN list[n].endpoints
        PROVE  \E p \in DOMAIN s.list : s.list[p] = list[n].endpoints[j].id
    <3>1. PICK p \in 1..Len(s.list) : list[n].endpoints[j].id = s.list[p]
      BY DEF Listed
    <3> QED
      BY <1>1, <3>1
  <2>2. \A i, j \in DOMAIN list[n].endpoints : \A p, q \in DOMAIN s.list :
          s.list[p] = list[n].endpoints[i].id /\ s.list[q] = list[n].endpoints[j].id /\ i < j => p < q
    BY <1>1, Zenon DEF InOrder
  <2> QED
    BY <2>1, <2>2 DEF HasOrder
<1>3. ASSUME NEW j \in DOMAIN list[n].endpoints, NEW p \in DOMAIN s.list, NEW q \in DOMAIN s.list,
             s.list[p] = list[n].endpoints[j].id, s.list[q] \notin IdsOf(list[n]),
             s.endpoint[s.list[q]] # None, s.endpoint[s.list[q]].device = list[n].id
      PROVE  p < q
  <2>1. PICK m \in DOMAIN list : \E k \in DOMAIN list[m].endpoints : list[m].endpoints[k].id = s.list[q]
    BY <1>1 DEF Listed
  <2>2. PICK k \in DOMAIN list[m].endpoints : list[m].endpoints[k].id = s.list[q]
    BY <2>1
  <2>3. m # n
    BY <1>3, <2>2 DEF IdsOf
  <2>4. list[m].id # list[n].id
    BY <2>3 DEF DeviceList
  <2> QED
    BY <1>1, <1>3, <2>2, <2>3, <2>4 DEF StaleLast
<1>4. HasFirst(s, list[n], gone)
  BY <1>3 DEF HasFirst
<1> QED
  BY <1>2, <1>4 DEF Whole

\* nothing is on the way for a device that is not busy
LEMMA IdleRecords ==
  ASSUME DeviceLast, DevicesStored, devices \in Seq(Devices), NEW n \in DOMAIN devices,
         ~Busy(devices[n].id)
  PROVE  HasRecords(storage, devices[n])
<1> DEFINE d == devices[n]
<1>1. d \in Devices
  OBVIOUS
<1>2. storage.device[d.id] = d.node
  BY DEF DevicesStored, DeviceWillBe, Busy
<1>3. ASSUME NEW j \in DOMAIN d.endpoints
      PROVE  storage.endpoint[d.endpoints[j].id] = [device |-> d.id, plugs |-> d.endpoints[j].plugs]
  <2> DEFINE data == [device |-> d.id, plugs |-> d.endpoints[j].plugs]
  <2>1. data # None
    <3>1. d.endpoints[j] \in Endpoints
      BY <1>1 DEF Devices
    <3>2. d.id \in DeviceIds /\ d.endpoints[j].plugs \in PlugsType
      BY <1>1, <3>1 DEF Devices, Endpoints
    <3> QED
      BY <3>2, RecordNotNone
  <2>2. data.device = d.id
    OBVIOUS
  <2>3. EndpointWillBe(d.endpoints[j].id, data)
    BY DEF DevicesStored
  <2> HIDE DEF data
  <2>4. ASSUME NEW k \in DOMAIN writes, writes[k].kind = "endpoint", writes[k].id = d.endpoints[j].id
        PROVE  FALSE
    <3>1. writes[k].data = data
      BY <2>3, <2>4 DEF EndpointWillBe
    <3>2. \E m \in DOMAIN writes : writes[m].kind = "device" /\ writes[m].id = d.id
      BY <2>1, <2>2, <2>4, <3>1 DEF DeviceLast
    <3> QED
      BY <3>2 DEF Busy
  <2>5. storage.endpoint[d.endpoints[j].id] = data
    BY <2>3, <2>4 DEF EndpointWillBe
  <2> QED
    BY <2>5 DEF data
<1> QED
  BY <1>2, <1>3 DEF HasRecords

\* when nothing is left to write, all devices are whole and no record is stale
LEMMA WrittenWhole ==
  ASSUME BusInv, RestartInv, OthersInv, writes = << >>, NEW n \in DOMAIN devices
  PROVE  Whole(storage, devices[n], {})
<1>1. ~Busy(devices[n].id) /\ Gone(devices[n].id) = {}
  BY DEF Busy, Gone
<1> QED
  BY <1>1 DEF OthersInv, OthersWhole

\* a device whose write is stored stays whole, as do the others
LEMMA StoreNextOthers ==
  ASSUME BusInv, BusInv', RestartInv, RestartInv', OthersInv, StoreNext
  PROVE  OthersInv'
<1> DEFINE w == writes[1]
           first == SubSeq(elementIds, 1, elementCount)
<1>1. UNCHANGED <<devices, elementIds, elementCount>> /\ writes # << >>
  BY DEF StoreNext, ram
<1>2. /\ 1 \in DOMAIN writes
      /\ \A n \in DOMAIN writes' : writes'[n] = writes[n + 1] /\ n + 1 \in DOMAIN writes
      /\ \A n \in DOMAIN writes : n = 1 \/ (n - 1 \in DOMAIN writes' /\ writes'[n - 1] = writes[n])
      /\ Len(writes') = Len(writes) - 1 /\ Len(writes) \in Nat /\ DOMAIN writes = 1..Len(writes)
  BY StoredTail
<1>3. /\ \A id \in ElementIds : storage'.endpoint[id] =
            IF w.kind = "endpoint" /\ w.id = id THEN w.data ELSE storage.endpoint[id]
      /\ \A id \in DeviceIds : storage'.device[id] =
            IF w.kind = "device" /\ w.id = id THEN w.data ELSE storage.device[id]
      /\ storage'.list = IF w.kind = "list" THEN w.data ELSE storage.list
  BY StoredFacts
<1>4. /\ devices \in Seq(Devices) /\ DeviceList(devices) /\ Listed(devices, elementIds, elementCount)
      /\ InOrder(devices, elementIds, elementCount) /\ DevicesStored /\ ListWillBe(first)
      /\ elementIds \in Seq(ElementIds) /\ elementCount \in 0..Len(elementIds)
      /\ storage \in StorageType /\ storage' \in StorageType /\ DevicesStored'
      /\ writes \in Seq(WriteType) /\ DOMAIN writes' = 1..Len(writes')
  <2>1. writes' \in Seq(WriteType)
    BY DEF BusInv, TypeOK
  <2>2. DOMAIN writes' = 1..Len(writes')
    <3> DEFINE ws == writes'
    <3>1. ws \in Seq(WriteType)
      BY <2>1
    <3> HIDE DEF ws
    <3>2. DOMAIN ws = 1..Len(ws)
      BY <3>1
    <3> QED
      BY <3>2 DEF ws
  <2> QED
    BY <1>1, <2>2 DEF BusInv, TypeOK, DevicesMatch, RestartInv, ListStored
<1>5. DeviceLast /\ OthersWhole /\ StaleLast(storage, devices, elementIds, elementCount)
  BY DEF OthersInv
<1>6. w \in WriteType
  BY <1>2, <1>4
<1> HIDE DEF w, first
<1>7. DeviceLast'
  <2>0. \A n \in DOMAIN writes' : writes'[n].kind = "device" => writes'[n].device = writes'[n].id
    BY <1>2, <1>5 DEF DeviceLast
  <2> SUFFICES ASSUME NEW n \in DOMAIN writes', writes'[n].data # None
               PROVE  /\ writes'[n].kind = "device" => n = Len(writes')
                      /\ writes'[n].kind = "endpoint" =>
                           /\ writes'[n].data.device = writes'[n].device
                           /\ \E m \in DOMAIN writes' : n < m /\ writes'[m].kind = "device"
                                                       /\ writes'[m].id = writes'[n].device
    BY <2>0 DEF DeviceLast
  <2>1. n + 1 \in DOMAIN writes /\ writes'[n] = writes[n + 1] /\ n \in 1..Len(writes')
    BY <1>2, <1>4
  <2>2. ASSUME writes'[n].kind = "device"
        PROVE  n = Len(writes')
    <3>1. n + 1 = Len(writes)
      BY <1>5, <2>1, <2>2 DEF DeviceLast
    <3> QED
      BY <1>2, <2>1, <3>1
  <2>3. ASSUME writes'[n].kind = "endpoint"
        PROVE  /\ writes'[n].data.device = writes'[n].device
               /\ \E m \in DOMAIN writes' : n < m /\ writes'[m].kind = "device"
                                           /\ writes'[m].id = writes'[n].device
    <3>1. PICK m \in DOMAIN writes : n + 1 < m /\ writes[m].kind = "device"
                                     /\ writes[m].id = writes'[n].device
      BY <1>5, <2>1, <2>3 DEF DeviceLast
    <3>2. m # 1 /\ n < m - 1
      BY <1>2, <2>1, <3>1
    <3>3. m - 1 \in DOMAIN writes' /\ writes'[m - 1] = writes[m]
      BY <1>2, <3>2
    <3>4. writes'[n].data.device = writes'[n].device
      BY <1>5, <2>1, <2>3 DEF DeviceLast
    <3> QED
      BY <3>1, <3>2, <3>3, <3>4
  <2> QED
    BY <2>2, <2>3
<1>8. StaleLast(storage', devices, elementIds, elementCount)
  <2> SUFFICES ASSUME NEW m \in DOMAIN devices, NEW n \in DOMAIN devices,
                      NEW j \in DOMAIN devices[m].endpoints, NEW i \in DOMAIN devices[n].endpoints,
                      NEW p \in 1..elementCount, NEW q \in 1..elementCount, m # n,
                      elementIds[p] = devices[n].endpoints[i].id,
                      elementIds[q] = devices[m].endpoints[j].id,
                      storage'.endpoint[elementIds[q]] # None,
                      storage'.endpoint[elementIds[q]].device # devices[m].id
               PROVE  p < q
    BY DEF StaleLast
  <2>1. elementIds[q] \in ElementIds
    BY <1>4
  <2>2. CASE w.kind = "endpoint" /\ w.id = elementIds[q]
    <3> DEFINE data == [device |-> devices[m].id, plugs |-> devices[m].endpoints[j].plugs]
    <3>0. EndpointWillBe(devices[m].endpoints[j].id, data)
      BY <1>4 DEF DevicesStored
    <3>1. w.data = data
      <4> HIDE DEF data
      <4> QED
        BY <1>2, <2>2, <3>0 DEF EndpointWillBe, w
    <3>2. storage'.endpoint[elementIds[q]] = w.data
      BY <1>3, <2>1, <2>2
    <3> QED
      BY <3>1, <3>2
  <2>3. CASE ~(w.kind = "endpoint" /\ w.id = elementIds[q])
    <3>1. storage'.endpoint[elementIds[q]] = storage.endpoint[elementIds[q]]
      BY <1>3, <2>1, <2>3
    <3> QED
      BY <1>5, <3>1 DEF StaleLast
  <2> QED
    BY <2>2, <2>3
\* the list is in the storage
<1>9. ASSUME storage'.list = first, NEW n \in DOMAIN devices, HasRecords(storage', devices[n]), NEW gone
      PROVE  Whole(storage', devices[n], gone)
  <2> DEFINE s == storage'
             list == s.list
  <2>1. /\ first \in Seq(ElementIds) /\ Len(first) = elementCount
        /\ \A k \in 1..elementCount : first[k] = elementIds[k]
    BY <1>4, FirstCells DEF first
  <2>2. list = first /\ s \in StorageType
    BY <1>4, <1>9
  <2> HIDE DEF list
  <2>3. Listed(devices, list, elementCount)
    BY <1>4, <2>1, <2>2, SameCells
  <2>4. InOrder(devices, list, elementCount)
    <3> SUFFICES ASSUME NEW m \in DOMAIN devices
                 PROVE  \A i, j \in DOMAIN devices[m].endpoints : \A p, q \in 1..elementCount :
                   list[p] = devices[m].endpoints[i].id /\ list[q] = devices[m].endpoints[j].id /\ i < j
                     => p < q
      BY Zenon DEF InOrder
    <3> TAKE i, j \in DOMAIN devices[m].endpoints
    <3> TAKE p, q \in 1..elementCount
    <3>1. HAVE list[p] = devices[m].endpoints[i].id /\ list[q] = devices[m].endpoints[j].id /\ i < j
    <3>2. list[p] = elementIds[p] /\ list[q] = elementIds[q]
      BY <2>1, <2>2
    <3>3. elementIds[p] = devices[m].endpoints[i].id /\ elementIds[q] = devices[m].endpoints[j].id
      BY <3>1, <3>2
    <3>4. InOrder(devices, elementIds, elementCount)
      BY <1>4
    <3> QED
      BY <3>1, <3>3, <3>4, Zenon DEF InOrder
  <2>5. StaleLast(s, devices, list, elementCount)
    BY <1>8, <2>1, <2>2 DEF StaleLast
  <2>6. Len(list) = elementCount
    BY <2>1, <2>2
  <2>7. HasRecords(s, devices[n])
    BY <1>9
  <2> HIDE DEF s
  <2> QED
    BY <1>4, <2>2, <2>3, <2>4, <2>5, <2>6, <2>7, WholeFromList DEF list, s
<1>10. ASSUME NEW n \in DOMAIN devices, ~Busy(devices[n].id)'
       PROVE  Whole(storage', devices[n], Gone(devices[n].id)')
  <2> DEFINE d == devices[n]
  <2>1. d \in Devices /\ d.id \in DeviceIds /\ d.node # None
    <3>1. d \in Devices
      BY <1>4
    <3> QED
      BY <3>1, BusAssumption DEF Devices
  <2>2. HasRecords(storage', d)
    <3>1. devices' = devices
      BY <1>1
    <3>2. devices' \in Seq(Devices) /\ n \in DOMAIN devices' /\ DeviceLast' /\ DevicesStored'
      BY <1>4, <1>7, <3>1
    <3>3. (DeviceLast /\ DevicesStored /\ devices \in Seq(Devices) /\ n \in DOMAIN devices
             /\ ~Busy(devices[n].id) => HasRecords(storage, devices[n]))'
      BY IdleRecords, PTL
    <3> QED
      BY <1>10, <3>1, <3>2, <3>3
  <2>3. CASE w.kind = "list"
    <3>1. w.data = first
      BY <1>2, <1>4, <2>3 DEF ListWillBe, w
    <3>2. storage'.list = first
      BY <1>3, <2>3, <3>1
    <3> QED
      BY <1>9, <2>2, <3>2
  <2>4. CASE w.kind = "device" /\ w.id = d.id
    <3>1. w.data = d.node
      BY <1>2, <1>4, <2>4 DEF DevicesStored, DeviceWillBe, w
    <3>2. Len(writes) = 1
      BY <1>2, <1>5, <2>1, <2>4, <3>1 DEF DeviceLast, w
    <3>3. \A k \in DOMAIN writes : writes[k].kind # "list"
      BY <1>2, <2>4, <3>2 DEF w
    <3>4. storage'.list = first
      BY <1>3, <1>4, <2>4, <3>3 DEF ListWillBe
    <3> QED
      BY <1>9, <2>2, <3>4
  <2>5. CASE w.kind # "list" /\ ~(w.kind = "device" /\ w.id = d.id)
    <3>1. ~Busy(d.id)
      <4> SUFFICES ASSUME NEW m \in DOMAIN writes, writes[m].kind = "device", writes[m].id = d.id
                   PROVE  FALSE
        BY DEF Busy
      <4>1. m # 1
        BY <2>5 DEF w
      <4>2. m - 1 \in DOMAIN writes' /\ writes'[m - 1] = writes[m]
        BY <1>2, <4>1
      <4> QED
        BY <1>1, <1>10, <4>2 DEF Busy
    <3>2. Whole(storage, d, Gone(d.id))
      BY <1>5, <3>1 DEF OthersWhole
    <3>3. storage'.list = storage.list
      BY <1>3, <2>5
    <3>4. HasOrder(storage', d)
      BY <3>2, <3>3 DEF Whole, HasOrder
    <3>5. ASSUME NEW j \in DOMAIN d.endpoints, NEW p \in DOMAIN storage.list,
                 NEW q \in DOMAIN storage.list, storage.list[p] = d.endpoints[j].id,
                 storage.list[q] \notin Gone(d.id)' \cup IdsOf(d),
                 storage'.endpoint[storage.list[q]] # None,
                 storage'.endpoint[storage.list[q]].device = d.id
          PROVE  p < q
      <4> DEFINE x == storage.list[q]
      <4>1. x \in ElementIds
        BY <1>4 DEF StorageType
      <4> HIDE DEF x
      <4>2. ~(w.kind = "endpoint" /\ w.id = x)
        <5> SUFFICES ASSUME w.kind = "endpoint", w.id = x
                     PROVE  FALSE
          OBVIOUS
        <5>1. w.data # None /\ w.data.device = d.id
          BY <1>3, <3>5, <4>1 DEF x
        <5>2. w.device = d.id
          BY <1>2, <1>5, <5>1 DEF DeviceLast, w
        <5>3. PICK m \in DOMAIN writes : 1 < m /\ writes[m].kind = "device" /\ writes[m].id = d.id
          BY <1>2, <1>5, <5>1, <5>2 DEF DeviceLast, w
        <5>4. m # 1
          BY <5>3
        <5>5. m - 1 \in DOMAIN writes' /\ writes'[m - 1].kind = "device" /\ writes'[m - 1].id = d.id
          BY <1>2, <5>3, <5>4
        <5> QED
          BY <1>1, <1>10, <5>5 DEF Busy
      <4>3. storage'.endpoint[x] = storage.endpoint[x]
        BY <1>3, <4>1, <4>2
      <4>4. x \notin Gone(d.id)
        <5> SUFFICES ASSUME NEW m \in DOMAIN writes, writes[m].kind = "endpoint",
                            writes[m].device = d.id, writes[m].data = None, writes[m].id = x
                     PROVE  FALSE
          BY DEF Gone
        <5>1. m # 1
          BY <4>2 DEF w
        <5>2. m - 1 \in DOMAIN writes' /\ writes'[m - 1] = writes[m]
          BY <1>2, <5>1
        <5>3. x \in Gone(d.id)'
          BY <1>1, <4>1, <5>2 DEF Gone
        <5> QED
          BY <3>5, <5>3 DEF x
      <4> QED
        BY <3>2, <3>5, <4>3, <4>4 DEF Whole, HasFirst, x
    <3>6. HasFirst(storage', d, Gone(d.id)')
      <4> DEFINE gone == Gone(d.id)'
      <4>1. gone = Gone(d.id)'
        OBVIOUS
      <4> HIDE DEF gone
      <4> QED
        BY <3>3, <3>5, <4>1 DEF HasFirst
    <3> QED
      BY <1>1, <2>2, <3>4, <3>6 DEF Whole
  <2> QED
    BY <2>3, <2>4, <2>5
<1>11. OthersWhole'
  BY <1>1, <1>10 DEF OthersWhole
<1>12. StaleLast(storage, devices, elementIds, elementCount)'
  BY <1>1, <1>8 DEF StaleLast
<1> QED
  BY <1>7, <1>11, <1>12 DEF OthersInv

\* only the new elements of the device that is written can have another record, and
\* they are behind the others
LEMMA ReplacedStaleLast ==
  ASSUME NEW s, NEW list \in Seq(Devices), DeviceList(list), NEW c \in CommType, OldStays(c, list),
         NEW ids \in Seq(ElementIds), IsInjective(ids), NEW count \in 0..Len(ids),
         Listed(list, ids, count), Fits(EndpointIds(c), c.old, ids, count),
         NEW all, all = Replaced(c, list), NEW erased, NEW kept, kept = WithoutIds(ids, erased),
         \A n \in DOMAIN list : \A j \in DOMAIN list[n].endpoints :
           s.endpoint[list[n].endpoints[j].id].device = list[n].id
  PROVE  StaleLast(s, all, kept, Len(kept))
<1>1. /\ \A n \in DOMAIN all :
           \/ n = 1 /\ all[n] = NewDevice(c) /\ c.endpoints # << >>
           \/ \E m \in DOMAIN list : list[m].id # c.device /\ all[n] = list[m]
  BY ReplacedPlaces
<1>2. NewDevice(c).id = c.device /\ NewDevice(c).endpoints = c.endpoints
  BY DEF NewDevice
<1>3. OldElements(c, list)
  BY OldElementsFacts
<1>4. /\ \A k \in 1..Len(c.endpoints) : k <= Len(c.old) => c.endpoints[k].id = c.old[k]
      /\ \A k \in 1..Len(c.endpoints) : k > Len(c.old) =>
           /\ count + k - Len(c.old) \in 1..Len(ids)
           /\ c.endpoints[k].id = ids[count + k - Len(c.old)]
  BY GivenFacts
<1>5. /\ DOMAIN c.endpoints = 1..Len(c.endpoints) /\ Len(c.endpoints) \in Nat
      /\ Len(c.old) \in Nat /\ count \in Nat /\ Len(ids) \in Nat /\ count <= Len(ids)
  <2>1. c.endpoints \in Seq(Endpoints) /\ c.old \in Seq(ElementIds)
    BY DEF CommType
  <2> QED
    BY <2>1
<1> SUFFICES ASSUME NEW m \in DOMAIN all, NEW n \in DOMAIN all,
                    NEW j \in DOMAIN all[m].endpoints, NEW i \in DOMAIN all[n].endpoints,
                    NEW p \in 1..Len(kept), NEW q \in 1..Len(kept), m # n,
                    kept[p] = all[n].endpoints[i].id, kept[q] = all[m].endpoints[j].id,
                    s.endpoint[kept[q]].device # all[m].id
             PROVE  p < q
  BY DEF StaleLast
<1>6. all[m] = NewDevice(c) /\ m = 1
  <2>1. ASSUME NEW o \in DOMAIN list, all[m] = list[o]
        PROVE  FALSE
    <3>1. s.endpoint[list[o].endpoints[j].id].device = list[o].id
      BY <2>1
    <3> QED
      BY <2>1, <3>1
  <2> QED
    BY <1>1, <2>1
<1>7. PICK o \in DOMAIN list : list[o].id # c.device /\ all[n] = list[o]
  BY <1>1, <1>6
<1>8. j \in 1..Len(c.endpoints) /\ kept[q] = c.endpoints[j].id /\ all[m].id = c.device
  BY <1>2, <1>5, <1>6
<1>9. ~(j <= Len(c.old))
  <2> SUFFICES ASSUME j <= Len(c.old)
               PROVE  FALSE
    OBVIOUS
  <2>1. kept[q] = c.old[j] /\ j \in 1..Len(c.old)
    BY <1>4, <1>5, <1>8
  <2>2. PICK b \in DOMAIN list : \E k \in DOMAIN list[b].endpoints : list[b].endpoints[k].id = c.old[j]
    BY <1>3, <2>1 DEF OldElements, Holds
  <2>3. PICK k \in DOMAIN list[b].endpoints : list[b].endpoints[k].id = c.old[j]
    BY <2>2
  <2>4. list[b].id = c.device
    BY <1>3, <2>1, <2>3 DEF OldElements
  <2>5. s.endpoint[list[b].endpoints[k].id].device = list[b].id
    BY <2>3
  <2> QED
    BY <1>8, <2>1, <2>3, <2>4, <2>5
<1> DEFINE b == count + j - Len(c.old)
<1>10. b \in 1..Len(ids) /\ kept[q] = ids[b]
  <2>1. j > Len(c.old)
    BY <1>5, <1>8, <1>9
  <2> QED
    BY <1>4, <1>8, <2>1
<1>11. PICK a \in 1..count : list[o].endpoints[i].id = ids[a]
  BY <1>7 DEF Listed
<1>12. a \in 1..Len(ids) /\ a < b /\ kept[p] = ids[a]
  <2>1. kept[p] = ids[a]
    BY <1>7, <1>11
  <2>2. a \in 1..Len(ids) /\ a < b
    BY <1>5, <1>8, <1>9
  <2> QED
    BY <2>1, <2>2
<1> HIDE DEF b
<1> QED
  BY <1>10, <1>12, KeptOrder

LEMMA FinishRecords ==
  ASSUME NEW c \in CommType, NEW kept \in Seq(ElementIds), NEW all,
         \/ c.endpoints = << >> /\ all = <<WriteList(kept)>>
         \/ c.endpoints # << >> /\ all = <<WriteList(kept)>> \o DeviceWrites(NewDevice(c))
  PROVE  RecordsOf(all, c, kept)
<1>1. CASE c.endpoints = << >> /\ all = <<WriteList(kept)>>
  <2>1. DOMAIN all = {1} /\ all[1].kind = "list" /\ all[1].data = kept
    BY <1>1 DEF WriteList
  <2>2. DOMAIN c.endpoints = {}
    BY <1>1
  <2> QED
    BY <1>1, <2>1, <2>2 DEF RecordsOf, Record
<1>2. CASE c.endpoints # << >> /\ all = <<WriteList(kept)>> \o DeviceWrites(NewDevice(c))
  BY <1>2, DeviceRecords
<1> QED
  BY <1>1, <1>2

\* a device that is written takes nothing from the others
LEMMA FinishOthers ==
  ASSUME BusInv, BusInv', RestartInv, OthersInv, Finished
  PROVE  OthersInv'
<1>0. PICK c : Ripe(c) /\ Finish(c, elementIds)
  BY DEF Finished
<1> DEFINE erased == ToSet(OldIds(c))
           kept == WithoutIds(elementIds, erased)
           all == Replaced(c, devices)
           ws == writes'
<1>1. /\ devices \in Seq(Devices) /\ DeviceList(devices)
      /\ elementIds \in Seq(ElementIds) /\ IsInjective(elementIds)
      /\ elementCount \in 0..Len(elementIds) /\ Listed(devices, elementIds, elementCount)
      /\ DevicesStored /\ writes = << >> /\ UNCHANGED storage
      /\ c \in CommType /\ OldStays(c, devices)
      /\ Fits(EndpointIds(c), c.old, elementIds, elementCount)
  BY <1>0 DEF BusInv, TypeOK, ListsInjective, DevicesMatch, RestartInv, Finished, Ripe
<1>2. elementIds' = kept /\ elementCount' = Len(kept) /\ devices' = all
  BY <1>0 DEF Finish, Replaced, Others, NewDevice
<1>3. \/ c.endpoints = << >> /\ ws = <<WriteList(kept)>>
      \/ c.endpoints # << >> /\ ws = <<WriteList(kept)>> \o DeviceWrites(NewDevice(c))
  BY <1>0 DEF Finish, NewDevice
<1>4. /\ \A n \in DOMAIN all :
           \/ n = 1 /\ all[n] = NewDevice(c) /\ c.endpoints # << >>
           \/ \E m \in DOMAIN devices : devices[m].id # c.device /\ all[n] = devices[m]
  BY <1>1, ReplacedPlaces
<1>5. kept \in Seq(ElementIds)
  BY <1>2 DEF BusInv, TypeOK
<1> HIDE DEF erased
<1>6. kept = WithoutIds(elementIds, erased)
  OBVIOUS
<1>7. StaleLast(storage, all, kept, Len(kept))
  <2>1. ASSUME NEW n \in DOMAIN devices, NEW j \in DOMAIN devices[n].endpoints
        PROVE  storage.endpoint[devices[n].endpoints[j].id].device = devices[n].id
    <3> DEFINE data == [device |-> devices[n].id, plugs |-> devices[n].endpoints[j].plugs]
    <3>1. EndpointWillBe(devices[n].endpoints[j].id, data)
      BY <1>1 DEF DevicesStored
    <3>2. data.device = devices[n].id
      OBVIOUS
    <3> HIDE DEF data
    <3>3. DOMAIN writes = {}
      BY <1>1
    <3>4. storage.endpoint[devices[n].endpoints[j].id] = data
      BY <3>1, <3>3 DEF EndpointWillBe
    <3> QED
      BY <3>2, <3>4
  <2>2. all = Replaced(c, devices)
    OBVIOUS
  <2> HIDE DEF kept, all
  <2> QED
    BY <1>1, <1>6, <2>1, <2>2, ReplacedStaleLast
<1> HIDE DEF kept, all, ws
<1>8. RecordsOf(ws, c, kept)
  BY <1>1, <1>3, <1>5, FinishRecords
<1>9. NewDevice(c).id = c.device
  BY DEF NewDevice
<1>10. DOMAIN ws = 1..Len(ws) /\ Len(ws) \in Nat
  <2>1. ws \in Seq(WriteType)
    BY DEF BusInv, TypeOK, ws
  <2> QED
    BY <2>1
\* what is written
<1>11. ASSUME NEW n \in DOMAIN ws, ws[n].kind = "endpoint"
       PROVE  /\ ws[n].data.device = ws[n].device
              /\ \E m \in DOMAIN ws : n < m /\ ws[m].kind = "device" /\ ws[m].id = ws[n].device
  <2>1. Record(ws[n], c)
    BY <1>8 DEF RecordsOf
  <2>2. ws[n].device = c.device /\ \E k \in DOMAIN c.endpoints :
          ws[n].data = [device |-> c.device, plugs |-> c.endpoints[k].plugs]
    BY <1>11, <2>1 DEF Record
  <2>3. c.endpoints # << >>
    BY <2>2
  <2>4. PICK m \in DOMAIN ws : ws[m].kind = "device"
    BY <1>8, <2>3 DEF RecordsOf
  <2>5. m = Len(ws) /\ Record(ws[m], c)
    BY <1>8, <2>4 DEF RecordsOf
  <2>6. ws[m].id = c.device
    BY <2>4, <2>5 DEF Record
  <2>7. n # m
    BY <1>11, <2>4
  <2>8. n < m
    BY <1>10, <2>5, <2>7
  <2> QED
    BY <2>2, <2>4, <2>6, <2>8
<1>12. DeviceLast'
  <2>1. \A n \in DOMAIN ws : ws[n].kind = "device" => n = Len(ws)
    BY <1>8 DEF RecordsOf
  <2>2. \A n \in DOMAIN ws : ws[n].kind = "device" => ws[n].device = ws[n].id
    BY <1>8 DEF RecordsOf, Record
  <2> QED
    BY <1>11, <2>1, <2>2 DEF DeviceLast, ws
<1>13. ASSUME NEW n \in DOMAIN all
       PROVE  \/ \E m \in DOMAIN ws : ws[m].kind = "device" /\ ws[m].id = all[n].id
              \/ \A gone : Whole(storage, all[n], gone)
  <2>1. CASE all[n] = NewDevice(c) /\ c.endpoints # << >>
    <3>1. PICK m \in DOMAIN ws : ws[m].kind = "device"
      BY <1>8, <2>1 DEF RecordsOf
    <3>2. Record(ws[m], c)
      BY <1>8 DEF RecordsOf
    <3>3. ws[m].id = c.device
      BY <3>1, <3>2 DEF Record
    <3> QED
      BY <1>9, <2>1, <3>1, <3>3
  <2>2. CASE \E m \in DOMAIN devices : devices[m].id # c.device /\ all[n] = devices[m]
    <3>1. PICK m \in DOMAIN devices : all[n] = devices[m]
      BY <2>2
    <3>2. Whole(storage, all[n], {})
      BY <1>1, <3>1, WrittenWhole
    <3> QED
      BY <3>2, WholeMore
  <2> QED
    BY <1>4, <2>1, <2>2
<1>14. OthersWhole'
  <2> SUFFICES ASSUME NEW n \in DOMAIN devices'
               PROVE  Busy(devices[n].id)' \/ Whole(storage, devices[n], Gone(devices[n].id))'
    BY DEF OthersWhole
  <2>1. devices' = all /\ storage' = storage /\ writes' = ws
    BY <1>1, <1>2 DEF ws
  <2>2. CASE \E m \in DOMAIN ws : ws[m].kind = "device" /\ ws[m].id = all[n].id
    BY <2>1, <2>2 DEF Busy
  <2>3. CASE \A gone : Whole(storage, all[n], gone)
    <3> DEFINE gone == Gone(devices[n].id)'
    <3>1. Whole(storage', devices'[n], gone)
      BY <2>1, <2>3
    <3> QED
      BY <3>1
  <2> QED
    BY <1>13, <2>1, <2>2, <2>3
<1>15. StaleLast(storage, devices, elementIds, elementCount)'
  <2>1. StaleLast(storage, devices, elementIds, elementCount)' =
          StaleLast(storage', devices', elementIds', elementCount')
    BY DEF StaleLast
  <2> QED
    BY <1>1, <1>2, <1>7, <2>1
<1> QED
  BY <1>12, <1>14, <1>15 DEF OthersInv

\* a device that loses its first endpoint stays whole
LEMMA LeftWhole ==
  ASSUME NEW s, NEW d, NEW e, NEW m, LeftOf(d, e, m), DOMAIN d.endpoints \subseteq Int,
         Whole(s, e, {}), NEW gone,
         m = 1 => e.endpoints[1].id \in gone
  PROVE  Whole(s, d, gone)
<1>1. d.id = e.id /\ d.node = e.node
  BY DEF LeftOf
<1>2. First(m) \in Int
  BY DEF First
<1>3. \A j \in DOMAIN d.endpoints :
        j + First(m) \in DOMAIN e.endpoints /\ d.endpoints[j] = e.endpoints[j + First(m)]
  BY DEF LeftOf
<1>4. HasRecords(s, e) /\ HasOrder(s, e) /\ HasFirst(s, e, {})
  BY DEF Whole
<1>5. HasRecords(s, d)
  <2>1. ASSUME NEW j \in DOMAIN d.endpoints
        PROVE  s.endpoint[d.endpoints[j].id] = [device |-> d.id, plugs |-> d.endpoints[j].plugs]
    <3>1. PICK i \in DOMAIN e.endpoints : d.endpoints[j] = e.endpoints[i]
      BY <1>3
    <3>2. s.endpoint[e.endpoints[i].id] = [device |-> e.id, plugs |-> e.endpoints[i].plugs]
      BY <1>4 DEF HasRecords
    <3> QED
      BY <1>1, <3>1, <3>2
  <2> QED
    BY <1>1, <1>4, <2>1 DEF HasRecords
<1>6. HasOrder(s, d)
  <2>1. ASSUME NEW j \in DOMAIN d.endpoints
        PROVE  \E p \in DOMAIN s.list : s.list[p] = d.endpoints[j].id
    <3>1. PICK i \in DOMAIN e.endpoints : d.endpoints[j] = e.endpoints[i]
      BY <1>3
    <3> QED
      BY <1>4, <3>1 DEF HasOrder
  <2>2. ASSUME NEW i \in DOMAIN d.endpoints, NEW j \in DOMAIN d.endpoints,
               NEW p \in DOMAIN s.list, NEW q \in DOMAIN s.list,
               s.list[p] = d.endpoints[i].id, s.list[q] = d.endpoints[j].id, i < j
        PROVE  p < q
    <3> DEFINE a == i + First(m)
               b == j + First(m)
    <3>1. /\ a \in DOMAIN e.endpoints /\ s.list[p] = e.endpoints[a].id
          /\ b \in DOMAIN e.endpoints /\ s.list[q] = e.endpoints[b].id
      BY <1>3, <2>2
    <3>2. a < b
      <4>1. i \in Int /\ j \in Int
        OBVIOUS
      <4> QED
        BY <1>2, <2>2, <4>1
    <3> HIDE DEF a, b
    <3> QED
      BY <1>4, <3>1, <3>2, Zenon DEF HasOrder
  <2> QED
    BY <2>1, <2>2 DEF HasOrder
<1>7. ASSUME NEW j \in DOMAIN d.endpoints, NEW p \in DOMAIN s.list, NEW q \in DOMAIN s.list,
             s.list[p] = d.endpoints[j].id, s.list[q] \notin gone \cup IdsOf(d),
             s.endpoint[s.list[q]] # None, s.endpoint[s.list[q]].device = d.id
      PROVE  p < q
  <2>1. PICK a \in DOMAIN e.endpoints : d.endpoints[j] = e.endpoints[a]
    BY <1>3
  <2>2. s.list[q] \notin IdsOf(e)
    <3> SUFFICES ASSUME NEW i \in DOMAIN e.endpoints, s.list[q] = e.endpoints[i].id
                 PROVE  FALSE
      BY DEF IdsOf
    <3>1. (m = 1 /\ i = 1) \/ \E k \in DOMAIN d.endpoints : d.endpoints[k] = e.endpoints[i]
      BY DEF LeftOf
    <3>2. CASE m = 1 /\ i = 1
      BY <1>7, <3>2
    <3>3. CASE \E k \in DOMAIN d.endpoints : d.endpoints[k] = e.endpoints[i]
      BY <1>7, <3>3 DEF IdsOf
    <3> QED
      BY <3>1, <3>2, <3>3
  <2> QED
    BY <1>1, <1>4, <1>7, <2>1, <2>2 DEF HasFirst
<1>8. HasFirst(s, d, gone)
  BY <1>7 DEF HasFirst
<1> QED
  BY <1>5, <1>6, <1>8 DEF Whole

LEMMA ErasedOthers ==
  ASSUME BusInv, BusInv', RestartInv, OthersInv, Erased
  PROVE  OthersInv'
<1> DEFINE kept == WithoutIds(elementIds, {erasing})
           d == devices[1]
           left == Tail(d.endpoints)
           new == devices'
           ws == writes'
<1>1. /\ erasing \in ElementIds
      /\ devices # << >> /\ d \in Devices /\ d.endpoints[1].id = erasing
      /\ kept \in Seq(ElementIds)
      /\ new = IF left = << >> THEN Tail(devices) ELSE [devices EXCEPT ![1].endpoints = left]
      /\ ws = IF left = << >>
              THEN <<WriteDevice(d.id, None)>> \o <<WriteEndpoint(erasing, d.id, None)>>
                   \o <<WriteList(kept)>>
              ELSE <<WriteEndpoint(erasing, d.id, None)>> \o <<WriteList(kept)>>
  BY ErasedFacts
<1>2. devices \in Seq(Devices) /\ DeviceList(devices) /\ DevicesStored /\ new \in Seq(Devices)
  BY DEF BusInv, TypeOK, DevicesMatch, RestartInv
<1>3. writes = << >> /\ UNCHANGED storage
  BY DEF Erased, RestartInv
<1>4. \A n \in DOMAIN new : \E m \in DOMAIN devices :
        LeftOf(new[n], devices[m], m) /\ (m = 1 => left # << >>)
  <2>1. /\ left = Tail(devices[1].endpoints)
        /\ new = IF left = << >> THEN Tail(devices) ELSE [devices EXCEPT ![1].endpoints = left]
        /\ devices \in Seq(Devices) /\ DeviceList(devices) /\ devices # << >>
    BY <1>1, <1>2
  <2> HIDE DEF new, left, d
  <2> QED
    BY <2>1, ErasedLeft
<1>5. Unwrites(ws, kept, d, erasing, left)
  <2> HIDE DEF ws, d, kept, left
  <2> QED
    BY <1>1, ErasedRecords
<1> HIDE DEF kept, new, ws
<1>6. DeviceLast'
  <2>1. /\ \A n \in DOMAIN ws : ws[n].kind \in {"device", "endpoint"} => ws[n].data = None
        /\ \A n \in DOMAIN ws : ws[n].kind = "device" => ws[n].device = ws[n].id
    BY <1>5 DEF Unwrites
  <2> QED
    BY <2>1 DEF DeviceLast, ws
<1>7. ASSUME NEW n \in DOMAIN new
      PROVE  Whole(storage, new[n], {x \in ElementIds : \E k \in DOMAIN ws :
               /\ ws[k].kind = "endpoint" /\ ws[k].device = new[n].id
               /\ ws[k].data = None /\ ws[k].id = x})
  <2> DEFINE gone == {x \in ElementIds : \E k \in DOMAIN ws :
               /\ ws[k].kind = "endpoint" /\ ws[k].device = new[n].id
               /\ ws[k].data = None /\ ws[k].id = x}
  <2>1. PICK m \in DOMAIN devices : LeftOf(new[n], devices[m], m)
    BY <1>4
  <2>2. Whole(storage, devices[m], {})
    BY <1>3, WrittenWhole
  <2>3. DOMAIN new[n].endpoints \subseteq Int
    <3>1. new[n] \in Devices
      BY <1>2
    <3>2. new[n].endpoints \in Seq(Endpoints)
      BY <3>1 DEF Devices
    <3> QED
      BY <3>2
  <2>4. m = 1 => devices[m].endpoints[1].id \in gone
    <3>1. new[n].id = devices[m].id
      BY <2>1 DEF LeftOf
    <3>2. \E k \in DOMAIN ws : /\ ws[k].kind = "endpoint" /\ ws[k].device = d.id
                               /\ ws[k].data = None /\ ws[k].id = erasing
      BY <1>5 DEF Unwrites
    <3>3. m = 1 => new[n].id = d.id /\ devices[m].endpoints[1].id = erasing
      BY <1>1, <3>1
    <3> HIDE DEF d
    <3>4. new[n].id = d.id => erasing \in gone
      BY <1>1, <3>2
    <3> HIDE DEF gone
    <3> QED
      BY <3>3, <3>4
  <2> HIDE DEF gone
  <2> QED
    BY <2>1, <2>2, <2>3, <2>4, LeftWhole DEF gone
<1>8. OthersWhole'
  <2>1. devices' = new /\ writes' = ws /\ storage' = storage
    BY <1>3 DEF new, ws
  <2> SUFFICES ASSUME NEW n \in DOMAIN devices'
               PROVE  Whole(storage, devices[n], Gone(devices[n].id))'
    BY DEF OthersWhole
  <2> DEFINE gone == Gone(devices[n].id)'
  <2>2. gone = {x \in ElementIds : \E k \in DOMAIN ws :
                  /\ ws[k].kind = "endpoint" /\ ws[k].device = new[n].id
                  /\ ws[k].data = None /\ ws[k].id = x}
    BY <2>1 DEF Gone
  <2> HIDE DEF gone
  <2>3. Whole(storage', devices'[n], gone)
    BY <1>7, <2>1, <2>2
  <2> QED
    BY <2>3 DEF gone
<1>9. StaleLast(storage, new, elementIds', elementCount')
  <2>1. ASSUME NEW m \in DOMAIN new, NEW j \in DOMAIN new[m].endpoints
        PROVE  storage.endpoint[new[m].endpoints[j].id].device = new[m].id
    <3>1. PICK o \in DOMAIN devices : LeftOf(new[m], devices[o], o)
      BY <1>4
    <3>2. new[m].id = devices[o].id /\ \E i \in DOMAIN devices[o].endpoints :
            new[m].endpoints[j] = devices[o].endpoints[i]
      BY <3>1 DEF LeftOf
    <3>3. PICK i \in DOMAIN devices[o].endpoints : new[m].endpoints[j] = devices[o].endpoints[i]
      BY <3>2
    <3>4. storage.endpoint[devices[o].endpoints[i].id] =
            [device |-> devices[o].id, plugs |-> devices[o].endpoints[i].plugs]
      BY <1>3, WrittenWhole DEF Whole, HasRecords
    <3> QED
      BY <3>2, <3>3, <3>4
  <2> QED
    BY <2>1 DEF StaleLast
<1>10. StaleLast(storage, devices, elementIds, elementCount)'
  <2>1. StaleLast(storage, devices, elementIds, elementCount)' =
          StaleLast(storage', devices', elementIds', elementCount')
    BY DEF StaleLast
  <2> QED
    BY <1>3, <1>9, <2>1 DEF new
<1> QED
  BY <1>6, <1>8, <1>10 DEF OthersInv

\* after a power failure what was loaded is what there is
LEMMA PowerFailOthers ==
  ASSUME BusInv, PowerFail
  PROVE  OthersInv'
<1> DEFINE l == Load(storage)
<1>1. /\ devices' = l.devices /\ elementIds' = l.ids /\ elementCount' = Len(l.ids)
      /\ writes' = << >> /\ storage' = storage
  BY DEF PowerFail
<1>2. storage \in StorageType /\ IsInjective(storage.list)
  BY DEF BusInv, TypeOK, ListsInjective
<1>3. LoadedFacts(storage, l)
  BY <1>2, LoadedFactsHold
<1> HIDE DEF l
<1>4. DeviceLast'
  BY <1>1 DEF DeviceLast
<1>5. OthersWhole'
  <2> SUFFICES ASSUME NEW n \in DOMAIN devices'
               PROVE  Whole(storage, devices[n], Gone(devices[n].id))'
    BY DEF OthersWhole
  <2> DEFINE gone == Gone(devices[n].id)'
  <2> HIDE DEF gone
  <2>1. Whole(storage, l.devices[n], {})
    BY <1>1, <1>2, <1>3, LoadedWhole
  <2>2. Whole(storage, l.devices[n], gone)
    BY <2>1, WholeMore
  <2>3. Whole(storage', devices'[n], gone)
    BY <1>1, <2>2
  <2> QED
    BY <2>3 DEF gone
<1>6. StaleLast(storage, l.devices, l.ids, Len(l.ids))
  <2>1. ASSUME NEW m \in DOMAIN l.devices, NEW j \in DOMAIN l.devices[m].endpoints
        PROVE  storage.endpoint[l.devices[m].endpoints[j].id].device = l.devices[m].id
    <3>1. storage.endpoint[l.devices[m].endpoints[j].id] =
            [device |-> l.devices[m].id, plugs |-> l.devices[m].endpoints[j].plugs]
      BY <1>3 DEF LoadedFacts, FromStorage
    <3> QED
      BY <3>1
  <2> QED
    BY <2>1 DEF StaleLast
<1>7. StaleLast(storage, devices, elementIds, elementCount)'
  <2>1. StaleLast(storage, devices, elementIds, elementCount)' =
          StaleLast(storage', devices', elementIds', elementCount')
    BY DEF StaleLast
  <2> QED
    BY <1>1, <1>6, <2>1
<1> QED
  BY <1>4, <1>5, <1>7 DEF OthersInv

LEMMA QuietOthers ==
  ASSUME OthersInv, UNCHANGED <<storage, writes, devices, elementCount>>,
         \A k \in 1..elementCount : elementIds'[k] = elementIds[k]
  PROVE  OthersInv'
<1>1. DeviceLast' /\ OthersWhole'
  BY DEF OthersInv, DeviceLast, OthersWhole, Busy, Gone
<1>2. StaleLast(storage, devices, elementIds', elementCount)
  BY DEF OthersInv, StaleLast
<1>3. StaleLast(storage, devices, elementIds, elementCount)'
  <2>1. StaleLast(storage, devices, elementIds, elementCount)' =
          StaleLast(storage', devices', elementIds', elementCount')
    BY DEF StaleLast
  <2> QED
    BY <1>2, <2>1
<1> QED
  BY <1>1, <1>3 DEF OthersInv

LEMMA InitOthers ==
  ASSUME Init
  PROVE  OthersInv
<1>1. DOMAIN writes = {} /\ DOMAIN devices = {}
  BY DEF Init
<1> QED
  BY <1>1 DEF OthersInv, DeviceLast, OthersWhole, StaleLast

LEMMA OthersInvKept ==
  ASSUME BusInv, BusInv', RestartInv, RestartInv', OthersInv, [Next]_vars
  PROVE  OthersInv'
<1>1. CASE StoreNext
  BY <1>1, StoreNextOthers
<1>2. CASE Finished
  BY <1>2, FinishOthers
<1>3. CASE Erased
  BY <1>3, ErasedOthers
<1>4. CASE PowerFail
  BY <1>4, PowerFailOthers
<1>5. CASE Quiet
  BY <1>5, QuietOthers DEF Quiet
<1> QED
  BY <1>1, <1>2, <1>3, <1>4, <1>5, StepKinds

\* a device for which nothing is to be written is loaded
LEMMA UnwrittenSurvives ==
  ASSUME BusInv, OthersInv, PowerFail, NEW d \in ToSet(devices),
         d.id \notin {writes[n].device : n \in DOMAIN writes}
  PROVE  \E e \in ToSet(devices') :
           e.id = d.id /\ e.node = d.node /\ IsPrefix(d.endpoints, e.endpoints)
<1>1. /\ storage \in StorageType /\ IsInjective(storage.list) /\ devices \in Seq(Devices)
      /\ DeviceList(devices)
  BY DEF BusInv, TypeOK, ListsInjective, DevicesMatch
<1>2. PICK n \in DOMAIN devices : devices[n] = d
  BY <1>1 DEF ToSet
<1>3. ~Busy(d.id)
  <2> SUFFICES ASSUME NEW k \in DOMAIN writes, writes[k].kind = "device", writes[k].id = d.id
               PROVE  FALSE
    BY DEF Busy
  <2>1. writes[k].device = d.id
    BY DEF OthersInv, DeviceLast
  <2> QED
    BY <2>1
<1>4. Gone(d.id) = {}
  BY DEF Gone
<1>5. Whole(storage, d, {})
  BY <1>2, <1>3, <1>4 DEF OthersInv, OthersWhole
<1>6. /\ d \in Devices /\ d.endpoints # << >>
      /\ \A i, j \in DOMAIN d.endpoints : d.endpoints[i].id = d.endpoints[j].id => i = j
  BY <1>1, <1>2 DEF DeviceList, Apart
<1>7. devices' = Load(storage).devices
  BY DEF PowerFail
<1> QED
  BY <1>1, <1>5, <1>6, <1>7, WholeSurvives

\* For all numbers of nodes and elements: a power failure between the writes of one
\* device takes nothing from the others; a restart loads them with the same node, and
\* with the same elements in the same order before any others.
THEOREM BusOthersSurvive == Spec => OthersSurvive
<1> DEFINE Survive ==
             PowerFail =>
               LET written == {writes[n].device : n \in DOMAIN writes}
               IN \A d \in ToSet(devices) :
                    d.id \in written \/ \E e \in ToSet(devices') :
                      e.id = d.id /\ e.node = d.node /\ IsPrefix(d.endpoints, e.endpoints)
<1>1. Init => RestartInv /\ OthersInv
  BY InitRestart, InitOthers
<1>2. BusInv /\ BusInv' /\ RestartInv /\ OthersInv /\ [Next]_vars => RestartInv' /\ OthersInv'
  BY RestartInvKept, OthersInvKept
<1>3. BusInv /\ OthersInv /\ [Next]_vars => [Survive]_vars
  BY UnwrittenSurvives
<1>4. OthersSurvive <=> [][Survive]_vars
  BY DEF OthersSurvive
<1> HIDE DEF Survive
<1> QED
  BY <1>1, <1>2, <1>3, <1>4, BusInvAlways, PTL DEF Spec
=============================================================================
