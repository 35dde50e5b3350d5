---------------------------- MODULE BusInterface ----------------------------
(***************************************************************************)
(* The devices on the wired bus (control/src/BusInterface.cpp): joining,   *)
(* joining again with other endpoints, erasing, and loading after a power  *)
(* failure.  Every endpoint of a device is an element with an id.          *)
(*                                                                         *)
(* A node answers requests for the address it was given, in their order;   *)
(* an answer may come late or never.  The storage is a map that is written *)
(* atomically (KeyValueStore); the power may fail between two writes of    *)
(* the same function.  One thread: while it writes or loops, nothing else  *)
(* happens but a power failure.                                            *)
(*                                                                         *)
(* Left out: security counters, names, and the messages of joined devices. *)
(***************************************************************************)
EXTENDS Integers, Sequences, FiniteSets, SequencesExt

CONSTANTS
  Nodes,              (* the bus device ids                                *)
  MAX_ELEMENT_COUNT,
  LAST_ADDRESS,
  MAX_RETRY,
  QueueLength,        (* the open requests that a node remembers           *)
  EndpointCounts,     (* numbers of endpoints a node may enumerate with    *)
  Decommission,       (* nodes give up an address that goes to another one *)
  None

ASSUME BusAssumption ==
  /\ MAX_ELEMENT_COUNT \in Nat \ {0}
  /\ LAST_ADDRESS \in Nat
  /\ MAX_RETRY \in Nat
  /\ QueueLength \in Nat \ {0}
  /\ EndpointCounts \subseteq Nat
  /\ Decommission \in BOOLEAN
  /\ None \notin Nodes \cup (0..LAST_ADDRESS) \cup [device : Nat, plugs : [node : Nodes, index : Nat]]

ElementIds == 1..MAX_ELEMENT_COUNT
DeviceIds == 1..LAST_ADDRESS + 1     (* the address of a device is id - 1  *)
Plugs(n, index) == [node |-> n, index |-> index]

VARIABLES
  storage,        (* list of element ids, endpoints and devices in flash   *)
  writes,         (* what the running function still has to write          *)
  devices,        (* list of devices with their lists of endpoints         *)
  elementIds,     (* cells behind elementCount are those that a            *)
  elementCount,   (*   commissioning has filled so far                     *)
  commissioning,  (* devices may join                                      *)
  comm,           (* the commissioning coroutine and its device            *)
  erasing,        (* the id that erase() looks for, or 0                   *)
  node            (* the address and the open requests of every node      *)

ram == <<devices, elementIds, elementCount>>
vars == <<storage, writes, ram, commissioning, comm, erasing, node>>

NoComm == [pc |-> "none"]

\* a node without address
Outside == [address |-> None, requests |-> << >>]

\* the thread waits for events
Ready == writes = << >> /\ erasing = 0

-----------------------------------------------------------------------------
(* Lists *)

\* the elements at some places of a list, in their order
Keep(list, places) ==
  LET upTo[n \in 0..Len(list)] ==
        IF n = 0 THEN << >>
        ELSE IF n \in places THEN Append(upTo[n - 1], list[n])
        ELSE upTo[n - 1]
  IN upTo[Len(list)]

WithoutIds(ids, erased) == Keep(ids, {n \in DOMAIN ids : ids[n] \notin erased})

\* eraseElement for the first cells of the array; those behind them stay
EraseCells(ids, count, id) ==
  LET kept == WithoutIds(SubSeq(ids, 1, count), {id})
  IN [count |-> Len(kept), ids |-> kept \o SubSeq(ids, Len(kept) + 1, Len(ids))]

FirstFree(used) == CHOOSE i \in 1..Cardinality(used) + 1 : i \notin used /\ 1..i - 1 \subseteq used

\* mutant of allocateId: the next after the number of elements
AllocateNextId(ids) == Len(ids) + 1

allocateId(ids) == FirstFree(ToSet(ids))

\* mutant of allocateDeviceId: the next after the number of devices
AllocateNextDeviceId == Len(devices) + 1

allocateDeviceId == FirstFree({d.id : d \in ToSet(devices)})

EndpointIds(d) == [k \in DOMAIN d.endpoints |-> d.endpoints[k].id]
WithoutDevice(list, id) == Keep(list, {n \in DOMAIN list : list[n].id # id})

-----------------------------------------------------------------------------
(* The storage *)

WriteList(ids) == [kind |-> "list", device |-> 0, id |-> 0, data |-> ids]
WriteEndpoint(id, device, data) ==
  [kind |-> "endpoint", device |-> device, id |-> id, data |-> data]
WriteDevice(id, data) == [kind |-> "device", device |-> id, id |-> id, data |-> data]

StoreNext ==
  /\ writes # << >>
  /\ LET w == Head(writes)
     IN storage' = CASE w.kind = "list" -> [storage EXCEPT !.list = w.data]
                     [] w.kind = "endpoint" -> [storage EXCEPT !.endpoint[w.id] = w.data]
                     [] w.kind = "device" -> [storage EXCEPT !.device[w.id] = w.data]
  /\ writes' = Tail(writes)
  /\ UNCHANGED <<ram, commissioning, comm, erasing, node>>

\* an element of the stored list with the device it belongs to (getOrLoadDevice);
\* it is skipped when the one or the other is not stored
LoadElement(s, loaded, id) ==
  LET e == s.endpoint[id]
      endpoint == [id |-> id, plugs |-> e.plugs]
      known == \E d \in ToSet(loaded.devices) : d.id = e.device
  IN IF e = None \/ (~known /\ s.device[e.device] = None) THEN loaded
     ELSE [ids |-> Append(loaded.ids, id),
           devices |->
             IF known THEN [n \in DOMAIN loaded.devices |->
                              IF loaded.devices[n].id # e.device THEN loaded.devices[n]
                              ELSE [loaded.devices[n] EXCEPT !.endpoints = Append(@, endpoint)]]
             ELSE << [id |-> e.device, node |-> s.device[e.device],
                      endpoints |-> <<endpoint>>] >> \o loaded.devices]

\* what the constructor loads
Load(s) ==
  LET upTo[n \in 0..Len(s.list)] ==
        IF n = 0 THEN [ids |-> << >>, devices |-> << >>]
        ELSE LoadElement(s, upTo[n - 1], s.list[n])
  IN upTo[Len(s.list)]

-----------------------------------------------------------------------------
(* handleCommission *)

\* the ids of old endpoints that the new ones have not taken over yet
OldIds(c) == SubSeq(c.old, Len(c.endpoints) + 1, Len(c.old))

\* endpointIndex: endpoints are skipped at the end only
Index(c) == Len(c.endpoints)

\* an attribute is requested for the next endpoint
Request(c, attribute) ==
  /\ comm' = [c EXCEPT !.pc = "request", !.attribute = attribute, !.retry = 0]
  /\ UNCHANGED <<devices, elementCount, writes>>

\* mutant of DeviceWrites: endpoints with an id that was stored before are not written
DeviceWritesNew(d) ==
  LET new == SelectSeq(d.endpoints, LAMBDA e : e.id \notin ToSet(storage.list))
  IN [k \in DOMAIN new |->
        WriteEndpoint(new[k].id, d.id, [device |-> d.id, plugs |-> new[k].plugs])]
     \o <<WriteDevice(d.id, d.node)>>

DeviceWrites(d) ==
  [k \in DOMAIN d.endpoints |->
     WriteEndpoint(d.endpoints[k].id, d.id, [device |-> d.id, plugs |-> d.endpoints[k].plugs])]
  \o <<WriteDevice(d.id, d.node)>>

\* all endpoints are configured: the device replaces the old one and is stored,
\* unless it has no endpoints
Finish(c, ids) ==
  LET kept == WithoutIds(ids, ToSet(OldIds(c)))
      others == IF c.old = << >> THEN devices ELSE WithoutDevice(devices, c.device)
      new == [id |-> c.device, node |-> c.node, endpoints |-> c.endpoints]
  IN /\ comm' = NoComm
     /\ elementIds' = kept
     /\ elementCount' = Len(kept)
     /\ IF c.endpoints = << >>
        THEN /\ devices' = others
             /\ writes' = <<WriteList(kept)>>
        ELSE /\ devices' = <<new>> \o others
             /\ writes' = <<WriteList(kept)>> \o DeviceWrites(new)

\* mutant of NextEndpoint: the space for elements is not checked
NextEndpointUnchecked(c, ids) ==
  IF Index(c) < c.count THEN Request(c, "plugs") /\ elementIds' = ids
  ELSE Finish(c, ids)

\* the head of the loop over the endpoints; without space for another element
\* the remaining endpoints are skipped
NextEndpoint(c, ids) ==
  IF /\ Index(c) < c.count
     /\ OldIds(c) # << >> \/ Len(ids) < MAX_ELEMENT_COUNT
  THEN Request(c, "plugs") /\ elementIds' = ids
  ELSE Finish(c, ids)

\* a node wants to join; a commissioning that is under way is cancelled
Enumerate(n, count) ==
  /\ Ready
  /\ commissioning
  /\ LET old == {d \in ToSet(devices) : d.node = n}
         id == IF old # {} THEN (CHOOSE d \in old : TRUE).id ELSE allocateDeviceId
         refused == id \notin DeviceIds \/ (old = {} /\ elementCount >= MAX_ELEMENT_COUNT)
     IN comm' = IF refused THEN NoComm
                ELSE [pc |-> "join", node |-> n, device |-> id, count |-> count,
                      old |-> IF old = {} THEN << >> ELSE EndpointIds(CHOOSE d \in old : TRUE),
                      endpoints |-> << >>, plugs |-> None, id |-> 0,
                      attribute |-> "plugs", retry |-> 0]
  /\ elementIds' = SubSeq(elementIds, 1, elementCount)
  /\ UNCHANGED <<storage, writes, devices, elementCount, commissioning, erasing, node>>

\* the commissioning message gives the node its address
Joined ==
  /\ Ready
  /\ comm.pc = "join"
  /\ node' = [m \in Nodes |->
                IF m = comm.node
                THEN [node[m] EXCEPT !.address = comm.device - 1]
                ELSE IF Decommission /\ node[m].address = comm.device - 1
                THEN Outside ELSE node[m]]
  /\ NextEndpoint(comm, elementIds)
  /\ UNCHANGED <<storage, commissioning, erasing>>

\* a full queue loses its front element
addBack(queue, element) ==
  Append(IF Len(queue) < QueueLength THEN queue ELSE Tail(queue), element)

\* readAttribute: the request was sent, the coroutine waits for the answer
Requested ==
  /\ Ready
  /\ comm.pc = "request"
  /\ node' = [m \in Nodes |->
                IF node[m].address # comm.device - 1 THEN node[m]
                ELSE [node[m] EXCEPT !.requests =
                        addBack(@, [index |-> Index(comm), attribute |-> comm.attribute])]]
  /\ comm' = [comm EXCEPT !.pc = "wait"]
  /\ UNCHANGED <<storage, writes, ram, commissioning, erasing>>

\* the plug list was read: the endpoint takes over the id of an old one or gets a new one
GotPlugs(plugs) ==
  LET reuse == OldIds(comm) # << >>
      id == IF reuse THEN Head(OldIds(comm)) ELSE allocateId(elementIds)
  IN /\ Request([comm EXCEPT !.plugs = plugs, !.id = id], "name")
     /\ elementIds' = IF reuse THEN elementIds ELSE Append(elementIds, id)

\* the name was read, or there is none: the endpoint is added to the device
GotName ==
  NextEndpoint([comm EXCEPT !.endpoints = Append(@, [id |-> comm.id, plugs |-> comm.plugs]),
                            !.plugs = None, !.id = 0],
               elementIds)

\* mutant of Expected: an answer to another request is taken as well
ExpectedAddress(address, request) ==
  comm.pc = "wait" /\ address = comm.device - 1

\* the response barrier takes the answer to the request only
Expected(address, request) ==
  /\ comm.pc = "wait"
  /\ address = comm.device - 1
  /\ request.index = Index(comm)
  /\ request.attribute = comm.attribute

\* the node answers its oldest request
Answer(n) ==
  /\ Ready
  /\ node[n].requests # << >>
  /\ node' = [node EXCEPT ![n].requests = Tail(@)]
  /\ LET request == Head(node[n].requests)
         plugs == IF request.attribute = "plugs" THEN Plugs(n, request.index) ELSE None
     IN IF ~Expected(node[n].address, request) THEN UNCHANGED <<ram, comm, writes>>
        ELSE IF comm.attribute = "plugs" THEN GotPlugs(plugs)
        ELSE GotName
  /\ UNCHANGED <<storage, commissioning, erasing>>

\* mutant of Timeout: the retries are not counted
TimeoutUncounted ==
  /\ Ready
  /\ comm.pc = "wait"
  /\ comm' = [comm EXCEPT !.pc = "request"]
  /\ UNCHANGED <<ram, writes, storage, commissioning, erasing, node>>

\* no answer: try again, or give up; an endpoint without plug list is the end
\* of the commissioning, one without name gets another name
Timeout ==
  /\ Ready
  /\ comm.pc = "wait"
  /\ IF comm.retry < MAX_RETRY
     THEN comm' = [comm EXCEPT !.pc = "request", !.retry = @ + 1] /\ UNCHANGED <<ram, writes>>
     ELSE IF comm.attribute = "plugs"
     THEN /\ comm' = NoComm
          /\ elementIds' = SubSeq(elementIds, 1, elementCount)
          /\ UNCHANGED <<devices, elementCount, writes>>
     ELSE GotName
  /\ UNCHANGED <<storage, commissioning, erasing, node>>

-----------------------------------------------------------------------------
(* The user *)

\* mutant of setCommissioning: the coroutine is not cancelled
SetCommissioningOnly(enabled) ==
  /\ Ready
  /\ commissioning' = (enabled /\ elementCount < MAX_ELEMENT_COUNT)
  /\ UNCHANGED <<storage, writes, ram, comm, erasing, node>>

setCommissioning(enabled) ==
  /\ Ready
  /\ commissioning' = (enabled /\ elementCount < MAX_ELEMENT_COUNT)
  /\ IF commissioning' THEN UNCHANGED <<comm, elementIds>>
     ELSE comm' = NoComm /\ elementIds' = SubSeq(elementIds, 1, elementCount)
  /\ UNCHANGED <<storage, writes, devices, elementCount, erasing, node>>

\* the menu of an element is open, with commissioning disabled
\* (RoomControl.cpp:1256, "to prevent deletion of device")
erase(id) ==
  /\ Ready
  /\ ~commissioning
  /\ erasing' = id
  /\ UNCHANGED <<storage, writes, ram, commissioning, comm, node>>

\* the pointer e of the inner loop stays where it is: only the first endpoint of
\* the first device is looked at
Erased ==
  /\ erasing # 0
  /\ devices = << >> \/ Head(Head(devices).endpoints).id = erasing
  /\ LET cells == EraseCells(elementIds, elementCount, erasing)
         list == <<WriteList(SubSeq(cells.ids, 1, cells.count))>>
     IN /\ elementIds' = IF comm = NoComm THEN SubSeq(cells.ids, 1, cells.count) ELSE cells.ids
        /\ elementCount' = cells.count
        /\ \/ devices = << >> /\ UNCHANGED devices /\ writes' = list
           \/ devices # << >> /\
              LET d == Head(devices)
                  left == Tail(d.endpoints)
                  endpoint == <<WriteEndpoint(erasing, d.id, None)>>
              IN \/ /\ left = << >>
                    /\ devices' = Tail(devices)
                    /\ writes' = <<WriteDevice(d.id, None)>> \o endpoint \o list
                 \/ /\ left # << >>
                    /\ devices' = [devices EXCEPT ![1].endpoints = left]
                    /\ writes' = endpoint \o list
  /\ erasing' = 0
  /\ UNCHANGED <<storage, commissioning, comm, node>>

PowerFail ==
  /\ LET loaded == Load(storage)
     IN /\ devices' = loaded.devices
        /\ elementIds' = loaded.ids
        /\ elementCount' = Len(loaded.ids)
  /\ writes' = << >>
  /\ commissioning' = FALSE
  /\ comm' = NoComm
  /\ erasing' = 0
  /\ UNCHANGED <<storage, node>>

-----------------------------------------------------------------------------

Init ==
  /\ storage = [list |-> << >>, endpoint |-> [i \in ElementIds |-> None],
                device |-> [i \in DeviceIds |-> None]]
  /\ writes = << >>
  /\ devices = << >>
  /\ elementIds = << >>
  /\ elementCount = 0
  /\ commissioning = FALSE
  /\ comm = NoComm
  /\ erasing = 0
  /\ node = [n \in Nodes |-> Outside]

\* what goes on by itself once it was started
Work == StoreNext \/ Joined \/ Requested \/ Timeout \/ Erased

Next ==
  \/ Work
  \/ \E n \in Nodes : Answer(n) \/ \E c \in EndpointCounts : Enumerate(n, c)
  \/ \E enabled \in BOOLEAN : setCommissioning(enabled)
  \/ \E k \in 1..elementCount : erase(elementIds[k])
  \/ PowerFail

Spec == Init /\ [][Next]_vars

\* sending and timers go on, and some day the power does not fail any more and no
\* node wants to join
Calm ==
  \/ Work
  \/ \E n \in Nodes : Answer(n)
  \/ \E enabled \in BOOLEAN : setCommissioning(enabled)
  \/ \E k \in 1..elementCount : erase(elementIds[k])

LiveSpec == Spec /\ WF_vars(Work) /\ <>[][Calm]_vars

-----------------------------------------------------------------------------
(* Properties *)

PlugsType == [node : Nodes, index : Nat]
Endpoints == [id : ElementIds, plugs : PlugsType]
Requests == [index : Nat, attribute : {"plugs", "name"}]
Devices == [id : DeviceIds, node : Nodes, endpoints : Seq(Endpoints)]
CommType ==
  [pc : {"join", "request", "wait"}, node : Nodes, device : DeviceIds, count : EndpointCounts,
   old : Seq(ElementIds), endpoints : Seq(Endpoints), plugs : PlugsType \cup {None},
   id : 0..MAX_ELEMENT_COUNT, attribute : {"plugs", "name"}, retry : 0..MAX_RETRY]
WriteType ==
  [kind : {"list"}, device : {0}, id : {0}, data : Seq(ElementIds)]
  \cup [kind : {"endpoint"}, device : DeviceIds, id : ElementIds,
        data : [device : DeviceIds, plugs : PlugsType] \cup {None}]
  \cup [kind : {"device"}, device : DeviceIds, id : DeviceIds, data : Nodes \cup {None}]

StorageType ==
  [list : Seq(ElementIds),
   endpoint : [ElementIds -> [device : DeviceIds, plugs : PlugsType] \cup {None}],
   device : [DeviceIds -> Nodes \cup {None}]]

\* The variables keep their types.
TypeOK ==
  /\ storage \in StorageType
  /\ writes \in Seq(WriteType)
  /\ devices \in Seq(Devices)
  /\ elementIds \in Seq(ElementIds)
  /\ elementCount \in 0..Len(elementIds)
  /\ commissioning \in BOOLEAN
  /\ comm \in CommType \cup {NoComm}
  /\ erasing \in ElementIds \cup {0}
  /\ node \in [Nodes -> [address : (0..LAST_ADDRESS) \cup {None}, requests : Seq(Requests)]]

\* The list that the menus show and that is stored names the elements of the devices,
\* each once, and no device is without elements: after every sequence of
\* commissionings, some of them cancelled or given up half way (BusInterface.cpp:659
\* fills the list before the device exists), erasures and power failures.
ElementsMatch ==
  LET endpoints == FlattenSeq([n \in DOMAIN devices |-> EndpointIds(devices[n])])
  IN /\ elementCount = Len(endpoints)
     /\ IsInjective(endpoints)
     /\ ToSet(SubSeq(elementIds, 1, elementCount)) = ToSet(endpoints)
     /\ \A d \in ToSet(devices) : d.endpoints # << >>
     /\ \A m, n \in DOMAIN devices : devices[m].id = devices[n].id => m = n

\* While a commissioning is under way, the old device it points to stays what it
\* was (od, oldDevice, oldEndpoint are kept across co_await, BusInterface.cpp:563),
\* and the ids given to new elements are not taken.
OldDeviceStays ==
  comm.pc # "none" =>
    /\ comm.old # << >> => \E d \in ToSet(devices) : d.id = comm.device /\ EndpointIds(d) = comm.old
    /\ comm.old = << >> => \A d \in ToSet(devices) : d.id # comm.device
    /\ IsInjective(elementIds)

\* Whatever answers come late, an endpoint gets the plugs that its node has for
\* the endpoint with its index.
AnswersFit ==
  comm.pc # "none" =>
    \A k \in DOMAIN comm.endpoints :
      comm.endpoints[k].plugs = Plugs(comm.node, k - 1)

\* When nothing is left to write, a restart would load what is there: every device
\* with its node and its endpoints in their order (the endpoint index in a message
\* counts them), and the list of elements.
RestartAgrees ==
  Ready => LET loaded == Load(storage)
           IN /\ loaded.ids = SubSeq(elementIds, 1, elementCount)
              /\ ToSet(loaded.devices) = ToSet(devices)

\* A power failure between the writes of one device takes nothing from the others:
\* they are loaded with the same node and the same elements.
OthersSurvive ==
  [][PowerFail =>
       LET written == {writes[n].device : n \in DOMAIN writes}
       IN \A d \in ToSet(devices) :
            d.id \in written \/ \E e \in ToSet(devices') :
              e.id = d.id /\ e.node = d.node /\ IsPrefix(d.endpoints, e.endpoints)]_vars

\* A commissioning ends, with a device or without.
CommissionEnds == (comm.pc # "none") ~> (comm.pc = "none")

\* erase() returns.
EraseReturns == (erasing # 0) ~> (erasing = 0)
=============================================================================
